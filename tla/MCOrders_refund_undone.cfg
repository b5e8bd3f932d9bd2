SPECIFICATION Spec
CONSTANTS
    p1 = p1  p2 = p2  o1 = o1  o2 = o2
    Product = {p1}
    Order = {o1}
    Request = {r1}
    OfferedMethod = {"cod"}
    AdminAction = {"mark_collected", "mark_refunded"}
    LedgerProduct = {}
    MovableProduct = {}
    OpeningStock <- OneEach
    MaxQuantity = 1
    MaxProduced = 0
PROPERTIES RefundedStaysRefunded
CHECK_DEADLOCK FALSE
