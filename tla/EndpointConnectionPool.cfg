\* A worker and a sync test share two connections of a pool that may be closed twice;
\* under fairness the connections of suspended and closing pools come to rest.
SPECIFICATION FairSpec
CONSTANTS
  w1 = w1  w2 = w2  t1 = t1
  c1 = c1  c2 = c2  c3 = c3
  None = None
  Users <- WorkerAndTester
  Testers <- OneTester
  Conns <- TwoConns
  MaxConnections = 1
  MaxCloses = 2
  StatsBound = 0
INVARIANTS
  OnePlace
  NothingLost
  WaitsOnOpenSocket
  IdleOnlyWhenActive
  PoolBounded
  SentinelMeansClosed
PROPERTIES
  ImplementsLeases
  DisabledPoolDrains
  CloseCompletes
CHECK_DEADLOCK FALSE
