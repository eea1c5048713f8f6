\* The admin's calls, failing statements and restarts beside two requests.
SPECIFICATION Spec
CONSTANTS
  n1 = n1  n2 = n2
  h1 = h1
  p1 = p1  p2 = p2  p3 = p3
  w1 = w1  w2 = w2
  None = None
  Names <- TwoNames
  Urls <- ThreeUrls
  Pools <- ThreePools
  Workers <- TwoWorkers
INVARIANTS
  PartsAgree
  RepliesAreDurable
  AdminNeverRaises
  PickIsSound
PROPERTY LetInIsCurrent
SYMMETRY Symmetry
