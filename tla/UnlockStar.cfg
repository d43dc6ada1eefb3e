CONSTANTS
  hub = hub  left = left  right = right
  Node = {hub, left, right}
  Wires <- Star
  Periods = {2, 3}  DefaultT = 2  MinT = 2  MaxT = 3
  Deltas = {1, 2}  DefaultDelta = 1  MaxDelta = 2
  Second = 4  NsWrap = 4  Latency = 0
  BufSizes = {0}  Dcus = 1
  TxFirst = {hub}  SpinlockIsReal = TRUE  MayUnload = {left}
SPECIFICATION Spec
INVARIANTS TypeOK UnloadLeavesRadioFree KeepsHearing SiblingsInStep
CONSTRAINT RightComesLast
