\* Three signals: does requesting some of them monitor exactly those?
CONSTANTS
  NumSignals = 3
  MaxEmits = 0
  MaxNexts = 0
SPECIFICATION Spec
INVARIANTS ChannelsMatchRequest
CHECK_DEADLOCK FALSE
