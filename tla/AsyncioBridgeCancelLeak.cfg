\* One await, everything on the loop's thread; the task is cancelled.
CONSTANTS
  a1 = a1
  a2 = a2
  Awaits <- MCAwaitsOne
  Threaded = FALSE
SPECIFICATION Spec
PROPERTIES BackRefReleasedOnCancel
CHECK_DEADLOCK FALSE
