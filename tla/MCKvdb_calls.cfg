SPECIFICATION Spec
CONSTANTS
  small = small
  large = large
  Keys = {k1, k2, k3}
  Values = {small, large}
  NoValue = NoValue
  NoOp = NoOp
  NSec = 3
  Cap = 6
  HdrLen = 1
  Threshold = 1
  Size <- MCSize
  MaxCuts = 0
INVARIANT ReadsSeeContent
INVARIANT MovesFindRoom
INVARIANT WritesRise
PROPERTY AtomicStore
PROPERTY CallsReturn
