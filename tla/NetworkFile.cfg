CONSTANTS
  Peer = {p, q}
  Address = {tcp}
  User = {p}
  Env = {q}
  Proxy = {"direct", "tor", "socks5", "i2p"}
  Week = 1
  DialLimit = 1
  Never = Never
  MaxTime = 2
SPECIFICATION Spec
PROPERTY FileRemembersPeers
