SPECIFICATION Spec
CONSTANTS
    p1 = p1  p2 = p2  o1 = o1  o2 = o2
    Product = {p1}
    Order = {o1}
    Request = {r1, r2}
    OfferedMethod = {"cod"}
    AdminAction = {"cancel"}
    LedgerProduct = {}
    MovableProduct = {}
    OpeningStock <- OneEach
    MaxQuantity = 1
    MaxProduced = 0
PROPERTIES FollowsStateMachine
CHECK_DEADLOCK FALSE
