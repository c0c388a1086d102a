CONSTANTS
  Profile = {p}
  Memory = Memory
  Room = {global}
  Global = global
  Scopes = {}
  MaxKeys = 4
  None = None
  Torn = Torn
  Gone = Gone
SPECIFICATION Spec
INVARIANT SavedPeersDialled
CHECK_DEADLOCK FALSE
