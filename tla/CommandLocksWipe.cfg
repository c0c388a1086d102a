CONSTANTS
  Task = {t, u, v}
  Profile = {a, b}
  Memory = Memory
  Logins = {Memory}
  Capacity = 1
  None = None
SPECIFICATION Spec
PROPERTY PanicWipeEnds
CHECK_DEADLOCK FALSE
