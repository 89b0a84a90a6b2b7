SPECIFICATION FairSpec
CONSTANTS
    r1 = r1
    r2 = r2
    may = may
    june = june
    Request = {r1, r2}
    BackfillRange = {may, june}
    Windows = 2
    MaxEdits = 2
INVARIANTS
    BackfillKept
    MapsStable
PROPERTIES
    BackfillServed
