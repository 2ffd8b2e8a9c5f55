SPECIFICATION RSpec
CONSTANTS
  small = small
  Keys = {k1}
  Values = {small}
  NoValue = NoValue
  NoOp = NoOp
  NSec = 3
  Cap = 7
  HdrLen = 1
  Threshold = 1
  Size <- MCOne
  MaxCuts = 0
  Shared = TRUE
INVARIANT SetStores
