CONSTANTS
  Peer = {p}
  Limit = 2
  Limits = {1}
  Failing = {{}, {"limit", "threshold"}, {"known", "friends"}, {"trust"}}
  Window = 1
  PowAge = 1
  Threshold = 2
  NoToken = NoToken
  MaxTime = 3
SPECIFICATION Spec
INVARIANTS
  RateBound
  WaitedThenServed
  PolicyKept
