SPECIFICATION Spec
CONSTANTS
    c1 = c1 c2 = c2 r1 = r1 r2 = r2 price = price
    Collectors = {c1, c2}
    Records = {r1, r2}
    Fields = {price}
    Snapshots <- MCSnapshots
    NoSnapshot = NoSnapshot
    NoContract = NoContract
    NoFile = NoFile
    Unreadable = Unreadable
    Malformed = Malformed
    Missing = Missing
    MAX_EVENTS = 2
    MaxDamages = 2
SYMMETRY Symmetric
INVARIANTS
    AcknowledgedIsReadBack
