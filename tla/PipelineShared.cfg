SPECIFICATION FairSpec
CONSTANTS
    t1 = t1 t2 = t2 s1 = s1 s2 = s2 c1 = c1 c2 = c2
    Targets = {t1, t2}
    Slots = {s1, s2}
    Collectors = {c1}
    CollectorOf <- SharedCollector
    Fields <- MCFields
    VendorFields <- MCVendorFields
    Values <- MCValues
    IdentityRank <- MCIdentityRank
    GrowthFactor = 1
    RowFloor = 3
    MaxSafeInteger = 100
    NonRow = NonRow
    NoField = NoField
    NoContract = NoContract
    NoBaseline = NoBaseline
    NoOpinion = NoOpinion
    NoTarget = NoTarget
    NoOwner = NoOwner
    NoRun = NoRun
    NoDecision = NoDecision
    NoPreview = NoPreview
    NoEvent = NoEvent
    RunResults <- LiveResults
    Previews <- OnePreview
    Opinions <- NoOpinions
    AutoHealEnabled = TRUE
    ReasonerConfigured = TRUE
    MayCrash = TRUE
    WritesMayFail = FALSE
    MAX_EVENTS = 1
INVARIANTS
    TypeOK
    OneRunPerTarget
    LockMatchesRepair
PROPERTIES
    RunsEnd
    RepairsEnd
