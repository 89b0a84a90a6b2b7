SPECIFICATION FairEvidenceSpec
CONSTANTS
    eur = eur
    gbp = gbp
    usd = usd
    category = category
    group = group
    Account = {eur, gbp, usd}
    Base = gbp
    Sorted <- ByName
    Upstream = {"active", "absent"}
    Rows <- Catalogue
    Bad = {}
    Broken = {"receipts"}
    MaxFailures = 1
INVARIANTS
    SnapshotsTell
PROPERTIES
    DailyRenewed
