SPECIFICATION Spec
CONSTANTS
  c1 = c1
  c2 = c2
  c3 = c3
  None = None
  NaN = NaN
  Callers <- ThreeCallers
  Numbers <- NumbersAndZero
  BracketPrices <- ThreePrices
  MaxCalls = 2
  MaxOrderId = 7
  MaxLost = 1
SYMMETRY Symmetric
CHECK_DEADLOCK FALSE
INVARIANTS
  TypeOK
  BuiltOrdersAreSound
  BracketsHedge
  IdsAreFresh
  EntryIsProtected
