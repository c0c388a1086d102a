CONSTANTS
  Task = {t, u}
  Profile = {a, b}
  Memory = Memory
  Logins = {a, b, Memory}
  Capacity = 2
  None = None
SPECIFICATION Spec
INVARIANTS
  PathsOfOneLogin
  LocksInOrder
PROPERTY CommandsReturn
CHECK_DEADLOCK FALSE
