\* Environments that README.md documents.
SPECIFICATION Spec
CONSTANTS
  k1 = k1  k2 = k2
  a = a  t = t
  None = None
  Unset = Unset
  Raised = Raised
  Keys <- TwoKeys
  TestKeys <- OneTestKey
  Plans <- OnePlan
  TestPlan = t
  Envs <- DocumentedEnvs
  Ports <- TwoPorts
  MaxDay = 2
  MaxCalls = 1
  BusyKeys <- OneTestKey
INVARIANT EnvironmentAccepted
