SPECIFICATION HealingSpec
CONSTANTS
    t1 = t1 t2 = t2 s1 = s1 s2 = s2 c1 = c1 c2 = c2
    Targets = {t1}
    Slots = {s1}
    Collectors = {c1}
    CollectorOf <- OneTarget
    Fields <- MCFields
    VendorFields <- MCVendorFields
    Values <- MCValues
    IdentityRank <- MCIdentityRank
    GrowthFactor = 1
    RowFloor = 3
    MaxSafeInteger = 100
    NonRow = NonRow
    NoField = NoField
    NoContract = NoContract
    NoBaseline = NoBaseline
    NoOpinion = NoOpinion
    NoTarget = NoTarget
    NoOwner = NoOwner
    NoRun = NoRun
    NoDecision = NoDecision
    NoPreview = NoPreview
    NoEvent = NoEvent
    RunResults <- Scrapes
    Previews <- Shown
    Opinions <- NoOpinions
    AutoHealEnabled = TRUE
    ReasonerConfigured = FALSE
    MayCrash = TRUE
    WritesMayFail = TRUE
    MAX_EVENTS = 1
    BASELINE_CATALOG <- Full
    CHANGED_CATALOG <- Repriced
    ControlConfigured = TRUE
    SavesMayFail = TRUE
    NoFile = NoFile
    Drafts <- MCDrafts
    MisreadRows <- MCMisreadRows
    NoDraft = NoDraft
    MaxFaults = 2
INVARIANTS
    RefusedRowsStayOut
