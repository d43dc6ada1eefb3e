CONSTANTS
  hub = hub  left = left  right = right
  Node = {hub, left}
  Wires <- HubToLeft
  Periods = {3}  DefaultT = 3  MinT = 3  MaxT = 3
  Deltas = {2}  DefaultDelta = 2  MaxDelta = 2
  Second = 6  NsWrap = 40  Latency = 0
  BufSizes = {0}  Dcus = 1
  TxFirst = {hub, left}  SpinlockIsReal = FALSE  MayUnload = {hub, left}
SPECIFICATION Spec
INVARIANTS Heartbeat
