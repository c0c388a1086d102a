CONSTANTS
  Profile = {p}
  Memory = Memory
  Room = {global, side}
  Global = global
  Scopes = {"message_db_only"}
  MaxKeys = 4
  None = None
  Torn = Torn
  Gone = Gone
SPECIFICATION Spec
INVARIANTS
  TypeOK
  SessionOfOneProfile
  OwnerIsIdentity
  LoginReturnsSessionId
PROPERTIES
  IdentityKept
  LoginTakesEffect
CHECK_DEADLOCK FALSE
