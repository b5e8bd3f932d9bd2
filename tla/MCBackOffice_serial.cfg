SPECIFICATION BackOfficeSpec
CONSTANTS
    o1 = o1
    t1 = t1
    Order = {o1}
    Txn = {t1}
    TxnOrder <- TheTxnOrder
    Expense = {e1}
    Day = {1, 2}
    MaxEvents = 2
    p1 = p1
    p2 = p2
    Period = {p1, p2}
    Admin = {a1}
    MaxExports = 2
    MaxChanges = 3
    v1 = v1
    v2 = v2
    q1 = q1
    Product = {q1}
    Material = {m1}
    Lot = {l1}
    DatedLot = {}
    Recipe = {v1, v2}
    RecipeProduct <- BothOfQ1
    Slot = {s1, s2}
    Batch = {b1}
    MaxQuantity = 1
    Item = {i1}
    TakenIn = {3}
    SoldAtOnce = {1, 3}
    Cost = {100}
    MaxMovements = 4
    MaxReturns = 2
INVARIANTS ProducedOnce ValuedOnce CancelledCostsNothing ReportedOnce
PROPERTIES PostingCovered ClosedKnowingly
SYMMETRY Periods
CHECK_DEADLOCK FALSE
