SPECIFICATION Spec
CONSTANTS
    Ids <- MCIds
    Urls <- MCUrls
    NoUrl = NoUrl
    NoPending = NoPending
    ShapeOf <- MCShapeOf
    PageOf <- MCPageOf
    CandidateIds <- MCCandidateIds
    SeedFiles <- MCSeedFiles
    MaxCrashes = 1
    WritesMayFail = FALSE
INVARIANTS
    BuildingIsUnderway
