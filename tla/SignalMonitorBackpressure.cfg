\* Two signals, two emissions and two next calls of each.
CONSTANTS
  NumSignals = 2
  MaxEmits = 2
  MaxNexts = 2
SPECIFICATION Spec
INVARIANTS BackpressureBound
CHECK_DEADLOCK FALSE
