\* Three waits on one proxy, everything on the proxy's main context.
CONSTANTS
  w1 = w1
  w2 = w2
  w3 = w3
  Waits <- MCWaits
  Threaded = FALSE
SPECIFICATION Spec
INVARIANTS TeardownSafe
PROPERTIES Settles
CHECK_DEADLOCK FALSE
