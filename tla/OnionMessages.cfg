CONSTANTS
  Node = {1, 2, 3}
  Older = {2}
  MaxSent = 3
SPECIFICATION OnionSpec
CHECK_DEADLOCK FALSE
INVARIANTS
  ShownInOrder
  LegacyAccounted
