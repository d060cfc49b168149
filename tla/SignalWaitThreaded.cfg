\* One wait whose token may fire on another thread than the proxy's context.
CONSTANTS
  w1 = w1
  w2 = w2
  w3 = w3
  Waits <- MCWaitsOne
  Threaded = TRUE
SPECIFICATION Spec
INVARIANTS TeardownSafe
CHECK_DEADLOCK FALSE
