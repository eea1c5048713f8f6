\* Lives of the service with two users, on two days.
SPECIFICATION Spec
CONSTANTS
  k1 = k1  k2 = k2
  a = a  t = t
  None = None
  Unset = Unset
  Raised = Raised
  Keys <- TwoKeys
  TestKeys <- OneTestKey
  Plans <- OnePlan
  TestPlan = t
  Envs <- SomeEnvs
  Ports <- TwoPorts
  MaxDay = 2
  MaxCalls = 1
  BusyKeys <- OneTestKey
INVARIANTS
  
  
  NoMappingLeft
PROPERTY ShutdownEnds
