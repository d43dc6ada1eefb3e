CONSTANTS
  hub = hub  left = left  right = right
  Node = {hub, left}
  Wires <- Both
  Periods = {2}  DefaultT = 2  MinT = 2  MaxT = 2
  Deltas = {1}  DefaultDelta = 1  MaxDelta = 1
  Second = 3  NsWrap = 40  Latency = 0
  BufSizes = {0, 6}  Dcus = 2
  TxFirst = {hub, left}  SpinlockIsReal = FALSE  MayUnload = {}
SPECIFICATION FairSpec
INVARIANTS RadioFreeBetweenSignals Heartbeat
PROPERTIES NoEarlyPulse TimeAdvances WindowFollowsBuffer
