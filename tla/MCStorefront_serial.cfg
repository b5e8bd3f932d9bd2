SPECIFICATION StorefrontSpec
CONSTANTS
    Product = {x1, x2}
    Type = {y1, y2}
    Category = {k1}
    Label = {l1}
    Campaign = {c1}
    Request = {r1}
    Percent = {50}
    Starts = {1}
    Ends = {1, 2}
    Ledger = {x1, x2}
    MaxStock = 1
    MaxChanges = 3
    Browser = {b1}
    Account = {y1, y2}
    Good = {g1}
    Visit = {x1, x2}
    None = None
    MaxSession = 3
    MaxOrder = 1
    MaxSent = 5
    MaxLoss = 1
    MaxQuantity = 1
    MaxItems = 1
    Errand <- Errands
    Price <- SmallPrice
    Body <- SmallBody
    Visitor = {x1, x2}
    Address = {i1}
    Item = {q1, q2}
    Order = {o1, o2}
    Thread = {h1, h2}
    MaxTime = 3
    MaxEvent = 4
    Retention = 2
    Surface <- Surfaces
    Limit <- Small
SYMMETRY Alike
INVARIANTS DiscountsWellFormed TermsKnown Traceable NothingLeftBehind SignOutIsFinal WindowsKept
CHECK_DEADLOCK FALSE
