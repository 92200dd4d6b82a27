SPECIFICATION FairSpec
CONSTANTS
  Conns <- MCConns
  Callers <- MCCallers
  KindOf <- MCKindOf
  ConnOf <- MCConnOf
  FirstLife <- MCFirstLife
  MaxGen = 3
  LastGen <- MCLastGen
  MaxAttempts = 2
  BreakerAfter = 1
INVARIANTS TypeOK RefreshOwnsRow
PROPERTY EveryCallerEnds
CHECK_DEADLOCK FALSE
