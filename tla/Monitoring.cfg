SPECIFICATION FairSpec
CONSTANTS
    Ids <- MCIds
    Urls <- MCUrls
    NoUrl = NoUrl
    NoPending = NoPending
    ShapeOf <- MCShapeOf
    PageOf <- MCPageOf
    CandidateIds <- MCCandidateIds
    SeedFiles <- MCSeedFiles
    MaxCrashes = 2
    WritesMayFail = TRUE
INVARIANTS
    TypeOK
    ListedIdsAreUnique
    PagesAreDistinct
    AcknowledgedIsDurable
PROPERTIES
    BuildsAreReported
    EverySiteIsCollected
    TicksEnd
