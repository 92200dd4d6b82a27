SPECIFICATION Spec
CONSTANTS
    r1 = r1
    r2 = r2
    r3 = r3
    Req <- MCReq
    Caps = {1}
    MaxCap = 1
    Cooldowns = {1}
    MaxQueueSize = 2
    Slack = 1
    MaxTime = 3
    MaxTimers = 1
    MaxResets = 0
INVARIANT NoWaiterStranded
