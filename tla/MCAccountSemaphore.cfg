SPECIFICATION FairSpec
CONSTANTS
    r1 = r1
    r2 = r2
    r3 = r3
    Req <- MCReq
    Caps <- MCCaps
    MaxCap = 2
    Cooldowns <- MCCooldowns
    MaxQueueSize = 2
    Slack = 1
    MaxTime = 5
    MaxTimers = 2
    MaxResets = 1
INVARIANTS
    TypeOK
    SlotAccounting
    WaitersAreQueued
    QueueBounded
PROPERTIES
    AdmissionWithinCap
    CooldownHonoured
    FifoAmongWaiters
    EveryWaiterSettles
    ImplementsConcurrencyGate
