CONSTANTS
  Profile = {p}
  Memory = Memory
  Room = {global}
  Global = global
  Scopes = {"active_profile", "all_profiles"}
  MaxKeys = 4
  None = None
  Torn = Torn
  Gone = Gone
SPECIFICATION Spec
INVARIANT WipedStaysGone
CHECK_DEADLOCK FALSE
