SPECIFICATION Spec
CONSTANTS
    r1 = r1
    r2 = r2
    r3 = r3
    Req <- MCReq
    Caps = {1, 2}
    DefaultMax = 2
    QueueSizes <- MCQueueSizes
    Cooldowns = {1, 2}
    Slack = 1
    MaxTime = 5
    MaxTimers = 2
INVARIANTS
    TypeOK
    SlotAccounting
    WaitersAreQueued
    WaitersHaveWaker
PROPERTIES
    AdmissionGuarded
