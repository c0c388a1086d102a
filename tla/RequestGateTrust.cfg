CONSTANTS
  Peer = {p}
  Limit = 2
  Limits = {1}
  Failing = {{}}
  Window = 1
  PowAge = 1
  Threshold = 2
  NoToken = NoToken
  MaxTime = 4
SPECIFICATION Spec
INVARIANT ThresholdForMessages
