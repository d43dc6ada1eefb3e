CONSTANTS
  hub = hub  left = left  right = right
  Node = {hub, left}
  Wires <- HubToLeft
  Periods = {2}  DefaultT = 2  MinT = 2  MaxT = 2
  Deltas = {1}  DefaultDelta = 1  MaxDelta = 1
  Second = 4  NsWrap = 40  Latency = 0
  BufSizes = {0}  Dcus = 1
  TxFirst = {hub, left}  SpinlockIsReal = FALSE  MayUnload = {}
SPECIFICATION FairSpec
PROPERTIES KeepsBeingUnlocked
