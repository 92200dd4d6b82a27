\* One request after the other against a provider that keeps failing.
SPECIFICATION OutageSpec
CONSTANTS
    Req = {r1}
    Obj = {b1, b2}
    NoObj = NoObj
    Options <- MCOptions
    DefaultOptions <- MCDefaultOptions
    HalfOpenRequests = 1
    Kinds = {rate_limit}
    NullKind = NullKind
    NoOverride <- MCNoOverride
    ShortestCooldown = 1
    SweepAge = 2
    MaxTime = 4
    MaxFailures = 3
INVARIANTS
    ConsecutiveFailuresOpen
