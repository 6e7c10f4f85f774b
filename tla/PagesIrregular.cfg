SPECIFICATION Spec
CONSTANTS
    Fields <- MCFields
    VendorFields <- MCVendorFields
    Values <- MCValues
    IdentityRank <- MCIdentityRank
    KeyOrder <- MCKeyOrder
    NoMetrics = NoMetrics
    NoDate = NoDate
    NoSchedule = NoSchedule
    Ages = {1, 2, 3}
    Intervals = {1}
    GrowthFactor = 1
    RowFloor = 3
    MaxSafeInteger = 100
    NonRow = NonRow
    NoField = NoField
    NoContract = NoContract
    NoBaseline = NoBaseline
    NoOpinion = NoOpinion
    SampleRows <- Irregular
    MaxBaseline = 3
    MaxCurrent = 0
CHECK_DEADLOCK FALSE
INVARIANTS
    PageIsAccepted
