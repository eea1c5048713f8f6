\* Every document by itself, and some messages after each other in any chunks.
SPECIFICATION Spec
CONSTANTS
  k1 = k1  k2 = k2  stranger = stranger
  None = None
  Authorized <- BothKeys
  Messages <- AllMessages
  Sequel <- SequelMessages
  MaxMessages = 3
INVARIANTS
  EachRequestIsItsOwn
  OnlyValidForwarded
  KeptAtBoundary
CHECK_DEADLOCK FALSE
