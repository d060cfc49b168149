\* Does a finished call whose future was dropped leave the promise referenced?
CONSTANTS
  p1 = p1
  m1 = m1
  m2 = m2
  str = str
  var = var
  int = int
  Fields <- MCFields
  Kind <- MCKind
  MaxCopies = 2
  ProxyCalls <- MCProxyCalls
  MethodCalls <- MCMethodCalls
SPECIFICATION SpecWithResults
INVARIANTS NoPromiseLeak
CHECK_DEADLOCK FALSE
