SPECIFICATION FairSpec
CONSTANTS
    sync = sync
    extra = extra
    refresh = refresh
    nobody = nobody
    Run = {sync, extra, refresh}
    Job = {sync, extra}
    NoRun = nobody
    JobLimit = 3
    RequestLimit = 3
    LeaseTime = 4
    StaleAge = 6
INVARIANTS
    OneWorker
    InterruptedAreDead
PROPERTIES
    ImplementsExclusive
    DeadCleared
