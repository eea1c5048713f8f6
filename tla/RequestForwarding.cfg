\* A worker and a sync test share connections to an endpoint that may fail.
SPECIFICATION Spec
CONSTANTS
  w1 = w1  w2 = w2  t1 = t1
  c1 = c1  c2 = c2
  r1 = r1  r2 = r2  r3 = r3
  None = None
  Users <- TwoWorkersAndTester
  Testers <- OneTester
  Conns <- TwoConns
  Requests <- ThreeRequests
INVARIANTS
  Matched
  IdleIsClean
  ClientsAreAnswered
SYMMETRY Symmetry
CHECK_DEADLOCK FALSE
