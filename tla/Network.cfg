CONSTANTS
  Peer = {p, q}
  Address = {tcp, quic}
  User = {p}
  Env = {q}
  Proxy = {"direct", "tor", "i2p"}
  Week = 0
  DialLimit = 1
  Never = Never
  MaxTime = 1
SPECIFICATION Spec
INVARIANTS
  TypeOK
  ExplicitAreAnnounced
PROPERTIES
  RememberedAreRecent
