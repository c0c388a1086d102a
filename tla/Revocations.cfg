CONSTANTS
  Node = {a, b}
  Invite = {i}
  Topic = {revocations, side}
  REVOCATION_TOPIC = revocations
  Global = global
  None = None
SPECIFICATION RevocationsSpec
INVARIANT RevocationInv
