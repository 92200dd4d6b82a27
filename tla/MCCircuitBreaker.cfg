\* The provider breaker, its registry, its row and the requests that use it.
SPECIFICATION Spec
CONSTANTS
    Req = {r1, r2}
    Obj = {b1, b2}
    NoObj = NoObj
    Options <- MCOptions
    DefaultOptions <- MCDefaultOptions
    HalfOpenRequests = 1
    Kinds = {rate_limit}
    NullKind = NullKind
    NoOverride <- MCNoOverride
    ShortestCooldown = 1
    SweepAge = 2
    MaxTime = 4
    MaxFailures = 3
SYMMETRY Symmetry
VIEW View
INVARIANTS
    TypeOK
    StateMatchesFailures
    BackoffForgotten
    WriteThrough
    ProbesBounded
PROPERTIES
    OpenPeriodHonoured
