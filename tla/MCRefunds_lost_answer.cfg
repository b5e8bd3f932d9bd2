SPECIFICATION RefundSpec
CONSTANTS
    p1 = p1  p2 = p2  o1 = o1  o2 = o2  h1 = h1  h2 = h2  w1 = w1  w2 = w2
    s1 = s1  s2 = s2  s3 = s3
    k1 = k1  k2 = k2  k3 = k3  a1 = a1  a2 = a2  d1 = d1  d2 = d2
    Product = {p1}
    Order = {o1}
    Request = {}
    OfferedMethod = {}
    AdminAction = {}
    LedgerProduct = {}
    MovableProduct = {}
    OpeningStock <- OneEach
    MaxQuantity = 1
    MaxProduced = 0
    Session = {s1}
    NoSession = NoSession
    Handler = {h1}
    Sweeper = {}
    MaxCrashes = 0
    Key = {k1}
    Admin = {a1}
    Delivery = {d1}
    Price = 2
    Disputable = {}
    MayBounce = FALSE
    MaxLostAnswers = 1
SYMMETRY RefundSymmetry
INVARIANTS FailedMeansNotRefunded
CHECK_DEADLOCK FALSE
