----------------------------- MODULE Valuation -----------------------------
(***************************************************************************)
(* Inventory valuation and cost of goods sold: the second half of          *)
(* app/services/inventory_service.py, over inventory_movements,            *)
(* inventory_valuation_layers and cogs_ledger.                             *)
(*                                                                         *)
(* Movements are appended by purchasing, production, orders and returns.   *)
(* Two admin requests read them: one gives every movement without a layer  *)
(* a value, the other books a cost row for every order item without one    *)
(* and reverses the rows of goods that came back.  Each is one READ        *)
(* COMMITTED transaction without locks, hence two actions.                 *)
(*                                                                         *)
(* Money is in cents and unit values in millionths, rounded half up where  *)
(* the code quantizes.  All movements are of one day, so the comparison of *)
(* valuation dates with a movement's date lets every layer through.  An    *)
(* order has one item.  Whether a value is official and which exceptions   *)
(* are open is the subject of Finance.                                     *)
(***************************************************************************)
EXTENDS Integers, Sequences, FiniteSetsExt, SequencesExt

CONSTANTS
    Item,         \* materials and finished goods
    Order,        \* orders of one item each
    Admin,        \* admin requests being served at the same time
    Taken,        \* quantities of one receipt, output or opening balance
    Quantity,     \* quantities of one sale, return or correction
    Cost,         \* what a receipt, an output or an opening balance may cost
    MaxMovements, \* bound: movements of the ledger
    MaxReturns    \* bound: return movements of an order

\* What the constants must satisfy; the MC module assumes it.
ValuationAssumption ==
    /\ IsFiniteSet(Item) /\ IsFiniteSet(Order)
    /\ Quantity \subseteq Nat \ {0} /\ Taken \subseteq Nat \ {0}
    /\ Cost \subseteq Nat
    /\ MaxMovements \in Nat
    /\ MaxReturns \in Nat

VARIABLES
    log,        \* inventory_movements, in the order they occurred
    layers,     \* inventory_valuation_layers
    sold,       \* order_items with the order's status
    cogs,       \* cogs_ledger
    job         \* the generating requests in flight

vars == <<log, layers, sold, cogs, job>>
ledgerVars == <<layers, cogs, job>>

NoCost == -1
NoOrder == "none"
Idle == [op |-> "idle"]
NotSold == [status |-> "absent"]
Kind == {"receipt", "opening_balance", "adjustment", "sale_issue",
         "cancellation_reversal", "return_restock", "return_write_off"}

Movement == [item : Item, kind : Kind, qty : Int \ {0}, cost : Int,
             order : Order \cup {NoOrder}, of : Nat, pending : BOOLEAN]
Layer == [movement : Nat \ {0}, item : Item, qty : Int \ {0}, unit : Int,
          total : Int]
CogsRow == [order : Order, qty : Nat, unit : Int, total : Int, source : Nat,
            reverses : Nat]

ValuationTypeOK ==
    /\ log \in Seq(Movement)
    /\ layers \in Seq(Layer)
    /\ \A o \in Order : sold[o] = NotSold \/ sold[o].item \in Item
    /\ cogs \in Seq(CogsRow)
    /\ \A a \in Admin : job[a].op \in {"idle", "layers", "cogs"}

Init ==
    /\ log = <<>>
    /\ layers = <<>>
    /\ sold = [o \in Order |-> NotSold]
    /\ cogs = <<>>
    /\ job = [a \in Admin |-> Idle]

(***************************************************************************)
(* Arithmetic.                                                             *)
(***************************************************************************)

\* Decimal.quantize(..., ROUND_HALF_UP) of n/d with d > 0: halves away from
\* zero.
Magnitude(q) == IF q < 0 THEN -q ELSE q
RoundHalfUp(n, d) ==
    LET up == (2 * Magnitude(n) + d) \div (2 * d) IN IF n < 0 THEN -up ELSE up

\* The value in cents of q units, and back.
TotalOf(q, unit) == RoundHalfUp(Magnitude(q) * unit, 10000)
UnitOf(total, q) == RoundHalfUp(total * 10000, Magnitude(q))

\* A layer of a positive quantity adds its value, of a negative one takes it.
Signed(layer) == IF layer.qty >= 0 THEN layer.total ELSE -layer.total

\* The sum of a sequence of numbers.
RunningSum(terms) ==
    LET sum[k \in 0..Len(terms)] == IF k = 0 THEN 0 ELSE sum[k - 1] + terms[k] IN sum
SumOf(terms) == RunningSum(terms)[Len(terms)]

QuantityOf(ls, i) ==
    SumOf([k \in 1..Len(ls) |-> IF ls[k].item = i THEN ls[k].qty ELSE 0])
WorthOf(ls, i) ==
    SumOf([k \in 1..Len(ls) |-> IF ls[k].item = i THEN Signed(ls[k]) ELSE 0])

\* _weighted_average_before: none while the shelf is not positive.
Average(ls, i) ==
    IF QuantityOf(ls, i) <= 0 THEN NoCost
    ELSE RoundHalfUp(WorthOf(ls, i) * 10000, QuantityOf(ls, i))

(***************************************************************************)
(* The movements of the other services.                                    *)
(***************************************************************************)

Append1(i, kind, q, cost, o, of, pending) ==
    /\ Len(log) < MaxMovements
    /\ log' = Append(log, [item |-> i, kind |-> kind, qty |-> q, cost |-> cost,
                           order |-> o, of |-> of, pending |-> pending])

\* A receipt of a material (or the output of a production batch, which is
\* valued in the same way), with the unit cost on record or none.
TakeIn(i, q, cost) ==
    /\ Append1(i, "receipt", q, IF cost = NoCost THEN NoCost ELSE UnitOf(cost, q),
               NoOrder, 0, FALSE)
    /\ UNCHANGED <<sold, ledgerVars>>

\* A correction of what the ledger says is there, in either direction.
Adjust(i, q) ==
    /\ Append1(i, "adjustment", q, NoCost, NoOrder, 0, FALSE)
    /\ UNCHANGED <<sold, ledgerVars>>

OrdersMovements(o, kind) ==
    {n \in 1..Len(log) : log[n].order = o /\ log[n].kind = kind}
Issued(o) ==
    SumOf([n \in 1..Len(log) |->
              IF log[n].order = o /\ log[n].kind = "sale_issue" THEN -log[n].qty ELSE 0])

PlaceOrder(o, i, q) ==
    /\ sold[o] = NotSold
    /\ sold' = [sold EXCEPT ![o] = [item |-> i, qty |-> q, status |-> "open"]]
    /\ UNCHANGED <<log, ledgerVars>>

\* The allocation at checkout, or of a backordered rest when it is ready.
IssueSale(o, q) ==
    /\ sold[o] /= NotSold
    /\ sold[o].status = "open"
    /\ Issued(o) + q <= sold[o].qty
    /\ Append1(sold[o].item, "sale_issue", -q, NoCost, o, 0, FALSE)
    /\ UNCHANGED <<sold, ledgerVars>>

\* update_order_status to 'cancelled': every sale issue is reversed, the latest
\* first.
CancelOrder(o) ==
    LET issues == OrdersMovements(o, "sale_issue")
        latest(k) == CHOOSE n \in issues : Cardinality({j \in issues : j > n}) = k - 1
        reversal(n) == [item |-> sold[o].item, kind |-> "cancellation_reversal",
                        qty |-> -log[n].qty, cost |-> NoCost,
                        order |-> o, of |-> n, pending |-> FALSE]
    IN  /\ sold[o] /= NotSold
        /\ sold[o].status = "open"
        /\ Len(log) + Cardinality(issues) <= MaxMovements
        /\ sold' = [sold EXCEPT ![o].status = "cancelled"]
        /\ log' = log \o [k \in 1..Cardinality(issues) |-> reversal(latest(k))]
        /\ UNCHANGED ledgerVars

\* inspect_return_case of a ledger-managed product: q units back on the
\* shelf, and the rest in and out again for a write-off.
InspectReturn(o, q) ==
    LET rest == sold[o].qty - q
        row(kind, n, of, pending) ==
            [item |-> sold[o].item, kind |-> kind, qty |-> n, cost |-> NoCost,
             order |-> o, of |-> of, pending |-> pending]
        restock == IF q = 0 THEN <<>> ELSE <<row("return_restock", q, 0, FALSE)>>
        written == IF rest = 0 THEN <<>>
                   ELSE <<row("return_restock", rest, 0, TRUE),
                          row("return_write_off", -rest, Len(log) + Len(restock) + 1, FALSE)>>
    IN  /\ sold[o] /= NotSold
        /\ sold[o].status = "open"
        /\ Issued(o) = sold[o].qty
        /\ q <= sold[o].qty
        /\ Cardinality(OrdersMovements(o, "return_restock")) < MaxReturns
        /\ Len(log) + Len(restock) + Len(written) <= MaxMovements
        /\ log' = log \o restock \o written
        /\ UNCHANGED <<sold, ledgerVars>>

(***************************************************************************)
(* Opening balances.                                                       *)
(***************************************************************************)

\* record_opening_balance: a movement, and its layer when the balance is
\* reviewed and has a value.
RecordOpening(i, q, total, reviewed) ==
    /\ Append1(i, "opening_balance", q, NoCost, NoOrder, 0, FALSE)
    /\ layers' = IF ~reviewed \/ total = NoCost THEN layers
                 ELSE Append(layers, [movement |-> Len(log) + 1, item |-> i, qty |-> q,
                                      unit |-> UnitOf(total, q), total |-> total])
    /\ UNCHANGED <<sold, cogs, job>>

(***************************************************************************)
(* generate_valuation_layers.                                              *)
(***************************************************************************)

LayersFor(ls, n) == {k \in 1..Len(ls) : ls[k].movement = n}
LastUnit(ls, n) == IF LayersFor(ls, n) = {} THEN NoCost ELSE ls[Max(LayersFor(ls, n))].unit

\* _source_layer_for_positive_movement: the movement it reverses, or the
\* latest valued sale of the order.
SourceUnit(ls, n) ==
    LET issues == {k \in OrdersMovements(log[n].order, "sale_issue") :
                      LayersFor(ls, k) /= {}}
    IN  IF log[n].of /= 0 THEN LastUnit(ls, log[n].of)
        ELSE IF log[n].kind \notin {"return_restock", "cancellation_reversal"}
                \/ issues = {} THEN NoCost
        ELSE LastUnit(ls, Max(issues))

\* What a unit of the movement is worth, given the layers before it.
UnitValue(ls, n) ==
    IF log[n].kind = "receipt" THEN log[n].cost
    ELSE IF log[n].qty > 0 /\ SourceUnit(ls, n) /= NoCost THEN SourceUnit(ls, n)
    ELSE Average(ls, log[n].item)

\* Fault: movements that have a layer are valued again.
UnvaluedAll(ls) == 1..Len(log)

\* LEFT JOIN inventory_valuation_layers ... WHERE vl.id IS NULL.
Unvalued(ls) == {n \in 1..Len(log) : LayersFor(ls, n) = {}}

LayerOf(ls, n) ==
    [movement |-> n, item |-> log[n].item, qty |-> log[n].qty,
     unit |-> UnitValue(ls, n), total |-> TotalOf(log[n].qty, UnitValue(ls, n))]

\* Movement n gets a layer, if it had none and has a value.
WithLayer(ls, acc, n) ==
    IF n \in Unvalued(ls) /\ UnitValue(acc, n) /= NoCost THEN Append(acc, LayerOf(acc, n))
    ELSE acc

\* The loop over the movements in the order they occurred.
LoopFrom(ls) ==
    LET acc[n \in 0..Len(log)] == IF n = 0 THEN ls ELSE WithLayer(ls, acc[n - 1], n) IN acc
Valued(ls) == LoopFrom(ls)[Len(log)]

\* A movement without a value stays without a layer, and raises an exception.
StartLayers(a) ==
    /\ job[a] = Idle
    /\ Valued(layers) /= layers
    /\ job' = [job EXCEPT ![a] =
                  [op |-> "layers", new |-> SubSeq(Valued(layers), Len(layers) + 1,
                                                   Len(Valued(layers)))]]
    /\ UNCHANGED <<log, layers, sold, cogs>>

FinishLayers(a) ==
    /\ job[a].op = "layers"
    /\ layers' = layers \o job[a].new
    /\ job' = [job EXCEPT ![a] = Idle]
    /\ UNCHANGED <<log, sold, cogs>>

(***************************************************************************)
(* generate_cogs_rows.                                                     *)
(***************************************************************************)

\* _sale_movement_for_order_item: the latest one.
SaleOf(o) == IF OrdersMovements(o, "sale_issue") = {} THEN 0
             ELSE Max(OrdersMovements(o, "sale_issue"))

CogsUnit(o) == IF SaleOf(o) /= 0 /\ LastUnit(layers, SaleOf(o)) /= NoCost
               THEN LastUnit(layers, SaleOf(o))
               ELSE Average(layers, sold[o].item)

\* LEFT JOIN cogs_ledger ... WHERE c.id IS NULL.
Uncosted == {o \in Order : sold[o] /= NotSold /\ \A k \in 1..Len(cogs) : cogs[k].order /= o}

CostRow(o) ==
    [order |-> o, qty |-> sold[o].qty, unit |-> CogsUnit(o),
     total |-> TotalOf(sold[o].qty, CogsUnit(o)), source |-> SaleOf(o),
     reverses |-> 0]

\* Fault: only returned goods come back, a cancelled order keeps its cost.
ComesBackReturned(n) == log[n].kind = "return_restock" /\ ~log[n].pending

\* Goods that are back for good: 'write_off_pending' rows are left out.
ComesBack(n) == /\ log[n].kind \in {"return_restock", "cancellation_reversal"}
                /\ ~log[n].pending

\* The join of the returning movements with the rows they reverse.
Reversible(rows) ==
    {x \in (1..Len(log)) \X (1..Len(rows)) :
        LET n == x[1]
            k == x[2]
        IN  /\ ComesBack(n)
            /\ rows[k].reverses = 0
            /\ \/ log[n].kind = "cancellation_reversal" /\ log[n].of /= 0
                  /\ rows[k].source = log[n].of
               \/ log[n].kind = "return_restock" /\ rows[k].order = log[n].order
            /\ \A r \in 1..Len(rows) : ~(rows[r].reverses = k /\ rows[r].source = n)}

ReversalRow(rows, n, k) ==
    [order |-> rows[k].order, qty |-> log[n].qty, unit |-> rows[k].unit,
     total |-> TotalOf(log[n].qty, rows[k].unit), source |-> n,
     reverses |-> k]

Costed(orders) ==
    LET cost == SetToSeq({o \in orders : CogsUnit(o) /= NoCost})
        rows == cogs \o [i \in DOMAIN cost |-> CostRow(cost[i])]
        back == SetToSeq(Reversible(rows))
    IN  rows \o [i \in DOMAIN back |-> ReversalRow(rows, back[i][1], back[i][2])]

StartCogs(a) ==
    /\ job[a] = Idle
    /\ Costed(Uncosted) /= cogs
    /\ job' = [job EXCEPT ![a] =
                  [op |-> "cogs", new |-> SubSeq(Costed(Uncosted), Len(cogs) + 1,
                                                 Len(Costed(Uncosted)))]]
    /\ UNCHANGED <<log, layers, sold, cogs>>

FinishCogs(a) ==
    /\ job[a].op = "cogs"
    /\ cogs' = cogs \o job[a].new
    /\ job' = [job EXCEPT ![a] = Idle]
    /\ UNCHANGED <<log, layers, sold>>

(***************************************************************************)
(* The specification.                                                      *)
(***************************************************************************)

MovementNext ==
    \/ \E i \in Item, q \in Taken, c \in Cost \cup {NoCost} : TakeIn(i, q, c)
    \/ \E i \in Item, q \in Quantity :
          \/ Adjust(i, q) \/ Adjust(i, -q)
          \/ \E o \in Order : PlaceOrder(o, i, q)
    \/ \E o \in Order :
          \/ \E q \in Quantity : IssueSale(o, q)
          \/ CancelOrder(o)
          \/ \E q \in Quantity \cup {0} : InspectReturn(o, q)

ValuationNext ==
    \/ \E i \in Item, q \in Taken, t \in Cost \cup {NoCost}, r \in BOOLEAN :
          RecordOpening(i, q, t, r)
    \/ \E a \in Admin : StartLayers(a) \/ StartCogs(a)

FinishNext == \E a \in Admin : FinishLayers(a) \/ FinishCogs(a)

Next == MovementNext \/ ValuationNext \/ FinishNext
Spec == Init /\ [][Next]_vars

\* One request that generates rows at a time, and nothing in between.
Alone == \A a \in Admin : job[a] = Idle
SerialNext == FinishNext \/ (Alone /\ (MovementNext \/ ValuationNext))
SerialSpec == Init /\ [][SerialNext]_vars

(***************************************************************************)
(* Properties.                                                             *)
(***************************************************************************)

\* Every movement is valued at most once: no unit is on the books twice.
ValuedOnce ==
    \A x, y \in 1..Len(layers) : layers[x].movement = layers[y].movement => x = y

\* An order item has one cost row, and goods that come back reverse it once.
CostedOnce ==
    \A x, y \in 1..Len(cogs) :
        /\ cogs[x].order = cogs[y].order
        /\ cogs[x].reverses = cogs[y].reverses
        /\ cogs[x].reverses = 0 \/ cogs[x].source = cogs[y].source
        => x = y

\* Units the movements of ms leave of item i.
OnHand(ms, i) ==
    SumOf([n \in 1..Len(ms) |-> IF ms[n].item = i THEN ms[n].qty ELSE 0])
NeverNegative(i) == \A n \in 1..Len(log) : OnHand(SubSeq(log, 1, n), i) >= 0
AllValued(i) ==
    \A n \in 1..Len(log) : log[n].item = i => LayersFor(layers, n) /= {}

\* When every unit of an item has left, and the ledger never went negative,
\* nothing of its value stays behind but what was lost to rounding, at most
\* a cent for each layer: whatever order receipts, sales, returns at their
\* old cost and the two generating requests came in.
EmptyShelfWorthNothing ==
    \A i \in Item :
        AllValued(i) /\ NeverNegative(i) /\ OnHand(log, i) = 0
            => Magnitude(WorthOf(layers, i))
                   <= Cardinality({k \in 1..Len(layers) : layers[k].item = i})

\* What a row adds to the cost of order o.
Charged(c, o) == IF c.order /= o THEN 0 ELSE IF c.reverses = 0 THEN c.total ELSE -c.total
NetCost(o) == SumOf([k \in 1..Len(cogs) |-> Charged(cogs[k], o)])
InOneIssue(o) ==
    /\ Cardinality(OrdersMovements(o, "sale_issue")) = 1
    /\ Issued(o) = sold[o].qty

\* Once its rows are up to date, a cancelled order whose units were issued at
\* once, costed after that and not returned before, costs nothing: its row
\* and the reversal cancel out to the cent.
CancelledCostsNothing ==
    \A o \in Order :
        /\ sold[o].status = "cancelled"
        /\ InOneIssue(o)
        /\ OrdersMovements(o, "return_restock") = {}
        /\ \A k \in 1..Len(cogs) : cogs[k].order = o => cogs[k].source /= 0
        /\ ~\E x \in Reversible(cogs) : cogs[x[2]].order = o
        => NetCost(o) = 0

\* The same without regard to how many issues the units took, and when.
CancelledNeverCosts ==
    \A o \in Order :
        /\ sold[o].status = "cancelled"
        /\ ~\E x \in Reversible(cogs) : cogs[x[2]].order = o
        => NetCost(o) = 0
=============================================================================
