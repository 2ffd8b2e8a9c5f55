SPECIFICATION Spec
CONSTANTS
  small = small
  large = large
  Keys = {k1, k2}
  Values = {small, large}
  NoValue = NoValue
  NoOp = NoOp
  NSec = 3
  Cap = 7
  HdrLen = 1
  Threshold = 1
  Size <- MCSize
  MaxCuts = 1
INVARIANT TypeOK
INVARIANT TargetErased
INVARIANT NeverFull
INVARIANT ReserveKept
INVARIANT RequestOver
INVARIANT RecoveryOver
INVARIANT TornNodesInert
