SPECIFICATION InOrderSpec
CONSTANTS
  small = small
  large = large
  Keys = {k1, k2}
  Values = {small, large}
  NoValue = NoValue
  NoOp = NoOp
  NSec = 3
  Cap = 7
  HdrLen = 1
  Threshold = 1
  Size <- MCSame
  MaxCuts = 1
INVARIANT ReadsSeeContent
INVARIANT OneLive
INVARIANT OldestRecovered
PROPERTY AtomicStore
