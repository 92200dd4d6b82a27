SPECIFICATION Spec
CONSTANTS
  Conns <- MCConns
  Callers <- MCCallers
  KindOf <- MCKindOf
  ConnOf <- MCConnOf
  FirstLife <- MCFirstLife
  MaxGen = 3
  LastGen <- MCLastGen
  MaxAttempts = 3
  BreakerAfter = 5
INVARIANT RowHoldsNewest
CHECK_DEADLOCK FALSE
