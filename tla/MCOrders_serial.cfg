SPECIFICATION Spec
CONSTANTS
    p1 = p1  p2 = p2  o1 = o1  o2 = o2
    Product = {p1, p2}
    Order = {o1}
    Request = {r1}
    OfferedMethod = {"cod", "card", "bank_transfer"}
    AdminAction = {"mark_paid", "mark_collected", "mark_refunded", "mark_failed",
                   "mark_review", "convert_to_cod", "mark_bank_transfer_paid", "cancel"}
    LedgerProduct = {p2}
    MovableProduct = {p1}
    OpeningStock <- NoneAndOne
    MaxQuantity = 2
    MaxProduced = 2
INVARIANTS StockConserved ShippedFullyAllocated
CHECK_DEADLOCK FALSE
