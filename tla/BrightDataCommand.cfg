SPECIFICATION FairSpec
CONSTANTS
    Fields <- MCFields
    VendorFields <- MCVendorFields
    Values <- MCValues
    IdentityRank <- MCIdentityRank
    GrowthFactor = 1
    RowFloor = 3
    MaxSafeInteger = 100
    NonRow = NonRow
    NoField = NoField
    NoContract = NoContract
    NoBaseline = NoBaseline
    NoOpinion = NoOpinion
    RawRows <- MCRawRows
    Misdecoded <- MCMisdecoded
    MaxRows = 2
    MAX_CAPTURED = 2
    MaxParts = 3
    NoReply = NoReply
    NoAnswer = NoAnswer
INVARIANTS
    TypeOK
    SuccessIsReal
    WholeRepliesAreJudged
    StructureNeedsEvidence
PROPERTIES
    CommandsSettle
