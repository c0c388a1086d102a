CONSTANTS
  MAX_SKIP = 2
  NoKey = NoKey
  Text = {t1, t2, t3, t4, t5, t6}
SYMMETRY TextSymmetry
SPECIFICATION Spec
INVARIANT SkippedBounded
