SPECIFICATION CardSpec
CONSTANTS
    p1 = p1  p2 = p2  o1 = o1  o2 = o2  h1 = h1  h2 = h2  w1 = w1  w2 = w2
    s1 = s1  s2 = s2  s3 = s3
    Product = {p1}
    Order = {o1}
    Request = {r1}
    OfferedMethod = {}
    AdminAction = {"mark_failed"}
    LedgerProduct = {}
    MovableProduct = {}
    OpeningStock <- OneEach
    MaxQuantity = 1
    MaxProduced = 0
    Session = {s1, s2}
    NoSession = NoSession
    Handler = {h1, h2}
    Sweeper = {}
    MaxCrashes = 0
SYMMETRY TaskSymmetry
PROPERTIES RetryReopensOnlyFailed
CHECK_DEADLOCK FALSE
