\* Each property is refuted; TLC stops at the first, so check them one by one.
SPECIFICATION RSpec
CONSTANTS
  small = small
  Keys = {k1, k2}
  Values = {small}
  NoValue = NoValue
  NoOp = NoOp
  NSec = 3
  Cap = 7
  HdrLen = 1
  Threshold = 1
  Size <- MCOne
  MaxCuts = 0
  Shared = FALSE
INVARIANT IteratesAll
INVARIANT ObjKeepsValue
