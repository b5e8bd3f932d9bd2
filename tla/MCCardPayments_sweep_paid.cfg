SPECIFICATION CardSpec
CONSTANTS
    p1 = p1  p2 = p2  o1 = o1  o2 = o2  h1 = h1  h2 = h2  w1 = w1  w2 = w2
    s1 = s1  s2 = s2  s3 = s3
    Product = {p1}
    Order = {o1}
    Request = {}
    OfferedMethod = {}
    AdminAction = {}
    LedgerProduct = {}
    MovableProduct = {}
    OpeningStock <- OneEach
    MaxQuantity = 1
    MaxProduced = 0
    Session = {s1, s2}
    NoSession = NoSession
    Handler = {h1}
    Sweeper = {w1}
    MaxCrashes = 0
SYMMETRY TaskSymmetry
PROPERTIES SweeperSparesPaid
CHECK_DEADLOCK FALSE
