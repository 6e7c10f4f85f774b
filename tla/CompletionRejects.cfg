SPECIFICATION Spec
CONSTANTS
    Ids <- MCIds
    Urls <- MCUrls
    NoUrl = NoUrl
    NoPending = NoPending
    ShapeOf <- MCShapeOf
    PageOf <- MCPageOf
    CandidateIds <- MCCandidateIds
    SeedFiles <- MCSeedFiles
    MaxCrashes = 0
    WritesMayFail = TRUE
PROPERTIES
    ProcessSurvives
