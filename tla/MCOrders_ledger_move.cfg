SPECIFICATION Spec
CONSTANTS
    p1 = p1  p2 = p2  o1 = o1  o2 = o2
    Product = {p1}
    Order = {o1}
    Request = {r1}
    OfferedMethod = {"cod"}
    AdminAction = {"cancel"}
    LedgerProduct = {}
    MovableProduct = {p1}
    OpeningStock <- OneEach
    MaxQuantity = 2
    MaxProduced = 1
INVARIANTS CancelRestoresAll
CHECK_DEADLOCK FALSE
