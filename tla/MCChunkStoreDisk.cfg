CONSTANTS
  Data = {"small", "large"}
  Size <- MCSize
  Transfer = {"t", "u"}
  Index = {0, 1}
  Quota = {1, 2, 3}
  Retention = 1
  NoRow = NoRow
  NoFile = NoFile
  MaxTime = 1
SPECIFICATION Spec
INVARIANT DiskWithinQuota
