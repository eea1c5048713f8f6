\* A pool and its successor of the same name, two suspender threads.
SPECIFICATION FairSpec
CONSTANTS
  p1 = p1  p2 = p2
  n1 = n1
  s1 = s1  s2 = s2
  None = None
  Pools <- TwoPools
  Names <- OneEndpoint
  Suspenders <- TwoSuspenders
INVARIANTS
  SuspendedIsSupervised
  OpenIsRegistered
PROPERTIES
  GoodComesBack
  LaggardGoes
CHECK_DEADLOCK FALSE
