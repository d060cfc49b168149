\* One proxy construction and two method calls in flight together, with up
\* to two copies of each result.
CONSTANTS
  p1 = p1
  m1 = m1
  m2 = m2
  str = str
  var = var
  int = int
  Fields <- MCFields
  Kind <- MCKind
  MaxCopies = 2
  ProxyCalls <- MCProxyCalls
  MethodCalls <- MCMethodCalls
SPECIFICATION SpecWithResults
INVARIANTS PromiseAliveForCallback OwnershipExact
PROPERTIES Settles
CHECK_DEADLOCK FALSE
