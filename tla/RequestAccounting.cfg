\* Exchanges of a key by two workers beside the admin's calls about its user.
SPECIFICATION Spec
CONSTANTS
  w1 = w1  w2 = w2
  None = None
  Workers <- TwoWorkers
  Plans <- TwoPlans
  MaxExchanges = 2
  MaxPieces = 1
INVARIANTS
  NeverOvercharged
  QuietLedgerIsExact
  RaisedMeansRemoved
PROPERTY AdmittedWithinPlan
SYMMETRY Symmetry
