SPECIFICATION FairClientSpec
CONSTANTS
    job = job
    desk = desk
    nobody = nobody
    Caller = {job, desk}
    Nobody = nobody
    Life = 3
    Attempts = 3
    MaxFaults = 3
    MaxConsents = 2
INVARIANTS
    NoLockout
PROPERTIES
    ReadsGoOn
