\* Two awaits, Dex callbacks on their own thread.
CONSTANTS
  a1 = a1
  a2 = a2
  Awaits <- MCAwaits
  Threaded = TRUE
SPECIFICATION Spec
INVARIANTS MirrorsDex
PROPERTIES AwaitSettles
CHECK_DEADLOCK FALSE
