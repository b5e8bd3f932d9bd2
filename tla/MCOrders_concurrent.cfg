SPECIFICATION Spec
CONSTANTS
    p1 = p1  p2 = p2  o1 = o1  o2 = o2
    Product = {p1}
    Order = {o1, o2}
    Request = {r1, r2}
    OfferedMethod = {"cod"}
    AdminAction = {"cancel"}
    LedgerProduct = {p1}
    MovableProduct = {}
    OpeningStock <- OneEach
    MaxQuantity = 2
    MaxProduced = 1
SYMMETRY OrderSymmetry
INVARIANTS StockNeverNegative NoUnitLost
PROPERTIES MiscountedOnlyByOverwrite
CHECK_DEADLOCK FALSE
