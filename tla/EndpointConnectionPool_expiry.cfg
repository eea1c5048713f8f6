\* The cleanup thread, which runs while the pool is used and suspended.
SPECIFICATION FairSpec
CONSTANTS
  w1 = w1  w2 = w2  t1 = t1
  c1 = c1  c2 = c2  c3 = c3
  None = None
  Users <- WorkerAndTester
  Testers <- OneTester
  Conns <- TwoConns
  MaxConnections = 1
  MaxCloses = 1
  StatsBound = 0
PROPERTY ExpiredReclaimed
CHECK_DEADLOCK FALSE
