SPECIFICATION FairSpec
CONSTANTS
    good = good
    bad = bad
    Tx = {good, bad}
    Final = 2
    Told <- BothAndLast
    Poison = {bad}
    BatchSize = 1
    MaxDoubling = 1
    MaxWait = 2
    MaxFaults = 1
INVARIANTS
    TypeOK
    AcceptedKept
PROPERTIES
    EventsWorkedOff
    PendingSettles
