CONSTANTS
  Node = {n1, n2}
  Name = {global, side, anon}
  Global = global
  Anon = {anon}
  Password = {open, secret}
  Open = open
  Text = {t1, t2, t3}
  MaxLists = 4
  None = None
SYMMETRY TextSymmetry
SPECIFICATION Spec
INVARIANTS
  TypeOK
  CausallyClosed
  RoomsApart
CHECK_DEADLOCK FALSE
