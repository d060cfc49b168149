\* One await, everything on the loop's thread.
CONSTANTS
  a1 = a1
  a2 = a2
  Awaits <- MCAwaitsOne
  Threaded = FALSE
SPECIFICATION Spec
INVARIANTS SingleTransition
CHECK_DEADLOCK FALSE
