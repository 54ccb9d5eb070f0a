SPECIFICATION FairSpec
CONSTANTS
    once1 = once1
    once2 = once2
    again = again
    c1 = c1
    c2 = c2
    NoJob = NoJob
    Jobs = {once1, again}
    Periodic = {again}
    Clients = {c1, c2}
    Delays = {0, 1}
    MaxTime = 1
CHECK_DEADLOCK FALSE
INVARIANTS TypeOK JobsKept
PROPERTIES ScheduleSpec CallsServed JobsSettle CallsReturn
