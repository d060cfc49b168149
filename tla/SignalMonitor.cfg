\* Three signals, two emissions and three next calls of each.
CONSTANTS
  NumSignals = 3
  MaxEmits = 2
  MaxNexts = 3
SPECIFICATION Spec
INVARIANTS FifoDelivery NoStrandedNext ObjectReleasedOnce NoRecordLost

CHECK_DEADLOCK FALSE
