CONSTANTS
  MAX_SKIP = 2
  NoKey = NoKey
  None = None
  Text = {t1, t2, t3}
  NoncePrefixed = {t3}
  MaxRows = 2
SPECIFICATION Spec
INVARIANT FirstContactOpens
