------------------------------- MODULE Orders -------------------------------
(***************************************************************************)
(* The order service: app/services/order_service.py over the tables        *)
(* orders, order_items, products.stock and inventory_movements.            *)
(*                                                                         *)
(* Every handler is one Postgres transaction at READ COMMITTED.  A handler *)
(* that locks its rows before it decides (checkout,                        *)
(* mark_order_fulfillment_ready) is one action.  A handler that reads the  *)
(* order with a plain SELECT and later writes it with an unconditional     *)
(* UPDATE (update_status, apply_manual_payment_action,                     *)
(* mark_bank_transfer_paid) is a read action, which evaluates the guards   *)
(* and remembers what it saw in request[r], and a write action, which      *)
(* applies the UPDATEs to the rows as they are then; other transactions    *)
(* may commit in between.  A handler whose guards fail raises, changes     *)
(* nothing and has no action.                                              *)
(*                                                                         *)
(* Audit rows (payment_events, payments.provider_status) are left out: no  *)
(* guard of this service reads them.  Prices, addresses and documents are  *)
(* data the properties do not tell apart.                                  *)
(***************************************************************************)
EXTENDS Integers, FiniteSets

CONSTANTS
    Product,        \* rows of products
    Order,          \* order ids a checkout may create
    Request,        \* admin requests being served at the same time
    OfferedMethod,  \* payment methods customers choose
    AdminAction,    \* manual payment actions admins use
    LedgerProduct,  \* products ledger-managed from the start
    MovableProduct, \* products an operator may move to the ledger later
    OpeningStock,   \* units of each product at the start
    MaxQuantity,    \* bound: units of one product in a basket
    MaxProduced     \* bound: units of one product produced later

Status == {"pending", "confirmed", "shipped", "delivered",
           "return_in_transit", "returned", "cancelled"}
Fulfillment == {"ready", "awaiting_production"}
Method == {"cod", "card", "bank_transfer"}
Payment == {"pending", "cod_pending", "paid", "failed", "review_required",
            "refund_pending", "partially_refunded", "refunded",
            "dispute_open", "dispute_won", "dispute_lost"}
ManualAction == {"mark_paid", "mark_collected", "mark_refunded", "mark_failed",
                 "mark_review", "convert_to_cod", "mark_bank_transfer_paid",
                 "cancel"}
Event == {"placed", "payment_pending", "shipped", "delivered", "cancelled"}

ASSUME OrdersAssumption ==
    /\ OfferedMethod \subseteq Method
    /\ AdminAction \subseteq ManualAction
    /\ LedgerProduct \subseteq Product
    /\ MovableProduct \subseteq Product
    /\ OpeningStock \in [Product -> Nat]
    /\ MaxQuantity \in Nat
    /\ MaxProduced \in Nat
    /\ IsFiniteSet(Order)

VARIABLES
    stock,    \* products.stock
    managed,  \* products whose inventory_mode is ledger_managed
    ledger,   \* sum of a product's inventory_movements since it is managed
    produced, \* units received from production batches
    order,    \* rows of orders
    item,     \* rows of order_items
    issued,   \* sum of the sale_issue movements of an order item
    emails,   \* events queued in order_emails for the customer
    request   \* the admin requests in flight, with what they have read

stockVars == <<stock, managed, ledger, produced>>
vars == <<stock, managed, ledger, produced, order, item, issued, emails,
          request>>

Row == [status : Status \cup {"absent"}, fulfillment : Fulfillment,
        method : Method, payment : Payment,
        reservation : {"none", "held", "lapsed"}]
Item == [quantity : Nat, allocated : Nat, backordered : Nat]
StatusRequest == [op : {"status"}, order : Order, to : Status, method : Method]
PaymentRequest == [op : {"payment"}, order : Order, action : ManualAction,
                   method : Method]
CancelRequest == [op : {"cancel", "release"}, order : Order, payment : Payment]
Idle == [op |-> "idle"]

AbsentRow == [status |-> "absent", fulfillment |-> "ready", method |-> "cod",
              payment |-> "pending", reservation |-> "none"]
NoItem == [quantity |-> 0, allocated |-> 0, backordered |-> 0]

TypeOK ==
    /\ stock \in [Product -> Int]
    /\ managed \in SUBSET Product
    /\ ledger \in [Product -> Int]
    /\ produced \in [Product -> Nat]
    /\ order \in [Order -> Row]
    /\ item \in [Order -> [Product -> Item]]
    /\ issued \in [Order -> [Product -> Nat]]
    /\ emails \in [Order -> SUBSET Event]
    /\ request \in [Request ->
           StatusRequest \cup PaymentRequest \cup CancelRequest \cup {Idle}]

Init ==
    /\ stock = OpeningStock
    /\ managed = LedgerProduct
    /\ ledger = OpeningStock
    /\ produced = [p \in Product |-> 0]
    /\ order = [o \in Order |-> AbsentRow]
    /\ item = [o \in Order |-> [p \in Product |-> NoItem]]
    /\ issued = [o \in Order |-> [p \in Product |-> 0]]
    /\ emails = [o \in Order |-> {}]
    /\ request = [r \in Request |-> Idle]

(***************************************************************************)
(* Pure parts of the service.                                              *)
(***************************************************************************)

\* VALID_TRANSITIONS: the statuses an order may move to.
ValidTransitions(status) ==
    CASE status = "pending"           -> {"confirmed", "cancelled"}
      [] status = "confirmed"         -> {"shipped", "cancelled"}
      [] status = "shipped"           -> {"delivered", "return_in_transit"}
      [] status = "delivered"         -> {"return_in_transit"}
      [] status = "return_in_transit" -> {"returned"}
      [] OTHER                        -> {}

\* Fault: the whole quantity is taken, whatever is on the shelf.
AllocationOfEverything(quantity, onHand) == quantity

\* _allocation_quantities: what a checkout takes from stock for one line.
Allocation(quantity, onHand) ==
    LET available == IF onHand > 0 THEN onHand ELSE 0
    IN  IF available < quantity THEN available ELSE quantity

\* FULFILLMENT_READY_ALLOWED_STATUSES.
FulfillmentOpen(status) == status \in {"pending", "confirmed"}

\* Fault: an order may ship while it waits for production.
StatusAllowedUnready(row, to) ==
    /\ to \in ValidTransitions(row.status)
    /\ to = "shipped" => row.payment /= "review_required"

\* The guards of update_status (and of update_status_async before it).
StatusAllowed(row, to) ==
    /\ to \in ValidTransitions(row.status)
    /\ to = "shipped" => /\ row.payment /= "review_required"
                         /\ row.fulfillment = "ready"

\* The row update_status leaves behind.  The payment method is the one the
\* handler read; everything else is the row at the time of the UPDATE.
StatusUpdated(row, to, method) ==
    [row EXCEPT
        !.status = to,
        !.payment = IF to = "delivered" /\ method = "cod" THEN "paid" ELSE @,
        !.fulfillment = IF to = "cancelled" THEN "ready" ELSE @]

\* Fault: the ordered quantity is put back, crafted or not.
RestoredOrdered(o, p) == item[o][p].quantity

\* Fault: a managed product is put back from its movements alone, also when
\* it was sold before they began.
RestoredFromMovements(o, p) ==
    IF p \in managed THEN issued[o][p] ELSE item[o][p].allocated

\* Fault: a line that is still being crafted is skipped.
RestoredWhenComplete(o, p) ==
    IF item[o][p].backordered > 0 THEN 0 ELSE item[o][p].allocated

\* Units of p that update_status puts back when o is cancelled: what a
\* managed product's sale_issue movements took (the allocation when it has
\* none, with an inventory exception), what was allocated otherwise.
Restored(o, p) ==
    IF p \in managed /\ item[o][p].allocated > 0 /\ issued[o][p] > 0
    THEN issued[o][p]
    ELSE item[o][p].allocated

\* STATUS_TO_EMAIL_EVENT for the statuses a request can ask for.
StatusEmail(to) == {to} \cap {"shipped", "delivered", "cancelled"}

\* The guards of apply_manual_payment_action and mark_bank_transfer_paid.
PaymentActionAllowed(row, action) ==
    CASE action = "mark_paid"      -> row.payment \notin {"paid", "refunded"}
      [] action = "mark_collected" -> /\ row.method = "cod"
                                      /\ row.payment \notin {"paid", "refunded"}
      [] action = "mark_refunded"  -> row.payment = "paid"
      [] action \in {"mark_failed", "mark_review"}
                                   -> row.payment \notin {"paid", "refunded"}
      [] action = "convert_to_cod" -> /\ row.method = "card"
                                      /\ row.payment = "review_required"
                                      /\ row.status \in {"pending", "confirmed"}
      [] action = "mark_bank_transfer_paid"
                                   -> /\ row.method = "bank_transfer"
                                      /\ row.payment = "pending"
      [] action = "cancel"         -> "cancelled" \in ValidTransitions(row.status)

\* The row a manual payment action leaves behind.
PaymentUpdated(row, action) ==
    CASE action \in {"mark_paid", "mark_collected", "mark_bank_transfer_paid"}
                                   -> [row EXCEPT !.payment = "paid"]
      [] action = "mark_refunded"  -> [row EXCEPT !.payment = "refunded"]
      [] action = "mark_failed"    -> [row EXCEPT !.payment = "failed"]
      [] action = "mark_review"    -> [row EXCEPT !.payment = "review_required"]
      [] action = "convert_to_cod" -> [row EXCEPT !.method = "cod",
                                                  !.payment = "cod_pending",
                                                  !.reservation = "none"]
      [] OTHER                     -> row

\* The order item after its outstanding units were allocated.
Fulfilled(line) ==
    [quantity    |-> line.quantity,
     allocated   |-> line.allocated + line.backordered,
     backordered |-> 0]

\* The row a manual cancel leaves behind: update_status cancels it, then the
\* action fails the payment unless its own first read saw it paid or refunded.
Cancelled(row, paymentRead) ==
    [row EXCEPT !.status = "cancelled", !.fulfillment = "ready",
                !.payment = IF paymentRead \in {"paid", "refunded"}
                            THEN @ ELSE "failed"]

\* mark_paid thanks a card or bank-transfer customer; so does
\* mark_bank_transfer_paid.
PaymentEmail(action, method) ==
    IF \/ action = "mark_bank_transfer_paid"
       \/ action = "mark_paid" /\ method \in {"card", "bank_transfer"}
    THEN {"placed"} ELSE {}

(***************************************************************************)
(* Customer and workshop.                                                  *)
(***************************************************************************)

\* What a basket takes of each product's stock.
Taken(basket) == [p \in Product |-> Allocation(basket[p], stock[p])]

\* The rows of order_items; what was not taken is backordered.
OrderedItems(basket, taken) ==
    [p \in Product |-> [quantity    |-> basket[p],
                        allocated   |-> taken[p],
                        backordered |-> basket[p] - taken[p]]]

\* The row of orders.
Placed(method, basket, taken) ==
    [status      |-> "pending",
     fulfillment |-> IF \E p \in Product : basket[p] > taken[p]
                     THEN "awaiting_production" ELSE "ready",
     method      |-> method,
     payment     |-> IF method = "cod" THEN "cod_pending" ELSE "pending",
     reservation |-> IF method = "card" THEN "held" ELSE "none"]

\* The stock is decremented, or a ledger-managed product issues what is sold.
IssueStock(o, taken) ==
    /\ stock' = [p \in Product |-> stock[p] - taken[p]]
    /\ ledger' = [p \in Product |->
           IF p \in managed THEN ledger[p] - taken[p] ELSE ledger[p]]
    /\ issued' = [issued EXCEPT ![o] =
           [p \in Product |-> IF p \in managed THEN taken[p] ELSE 0]]

\* The customer's email that the same transaction queues.
CheckoutEmail(method) == IF method = "cod" THEN "placed" ELSE "payment_pending"

\* checkout: under the advisory lock and FOR UPDATE locks on the products,
\* turn a basket into an order, allocating what is in stock and backordering
\* the rest.
Checkout(o, method, basket) ==
    /\ order[o].status = "absent"
    /\ \E p \in Product : basket[p] > 0
    /\ item' = [item EXCEPT ![o] = OrderedItems(basket, Taken(basket))]
    /\ order' = [order EXCEPT ![o] = Placed(method, basket, Taken(basket))]
    /\ IssueStock(o, Taken(basket))
    /\ emails' = [emails EXCEPT ![o] = @ \cup {CheckoutEmail(method)}]
    /\ UNCHANGED <<managed, produced, request>>

\* mark_order_fulfillment_ready: with the order, its items and its products
\* locked, take every outstanding unit from stock or, when one product is
\* short, nothing at all.
MarkFulfillmentReady(o) ==
    /\ FulfillmentOpen(order[o].status)
    /\ order[o].fulfillment /= "ready"
    /\ \A p \in Product : item[o][p].backordered <= stock[p]
    /\ stock' = [p \in Product |-> stock[p] - item[o][p].backordered]
    /\ ledger' = [p \in Product |->
           IF p \in managed THEN ledger[p] - item[o][p].backordered
           ELSE ledger[p]]
    /\ issued' = [issued EXCEPT ![o] = [p \in Product |->
           IF p \in managed THEN @[p] + item[o][p].backordered ELSE @[p]]]
    /\ item' = [item EXCEPT ![o] = [p \in Product |->
           Fulfilled(@[p])]]
    /\ order' = [order EXCEPT ![o].fulfillment = "ready"]
    /\ UNCHANGED <<managed, produced, emails, request>>

\* complete_production_batch (inventory_service): the output of a batch is
\* a production_output movement and an addition to stock.
Produce(p) ==
    /\ produced[p] < MaxProduced
    /\ produced' = [produced EXCEPT ![p] = @ + 1]
    /\ stock' = [stock EXCEPT ![p] = @ + 1]
    /\ ledger' = [ledger EXCEPT ![p] = @ + 1]
    /\ UNCHANGED <<managed, order, item, issued, emails, request>>

\* The operator moves a product to the ledger after the opening balance is
\* recorded; no code of the application does it.
MoveToLedger(p) ==
    /\ p \in MovableProduct \ managed
    /\ managed' = managed \cup {p}
    /\ ledger' = [ledger EXCEPT ![p] = stock[p]]
    /\ UNCHANGED <<stock, produced, order, item, issued, emails, request>>

\* reserved_until passes.
ReservationLapses(o) ==
    /\ order[o].reservation = "held"
    /\ order' = [order EXCEPT ![o].reservation = "lapsed"]
    /\ UNCHANGED <<stockVars, item, issued, emails, request>>

(***************************************************************************)
(* Admin requests.                                                         *)
(***************************************************************************)

\* The effect of a cancellation on stock and on the movements.
ReleaseStock(o) ==
    /\ stock' = [p \in Product |-> stock[p] + Restored(o, p)]
    /\ ledger' = [p \in Product |->
           IF p \in managed THEN ledger[p] + Restored(o, p) ELSE ledger[p]]

\* update_status reads the order and validates the transition.
ReadForStatus(r, o, to) ==
    /\ request[r] = Idle
    /\ StatusAllowed(order[o], to)
    /\ request' = [request EXCEPT ![r] =
           [op |-> "status", order |-> o, to |-> to,
            method |-> order[o].method]]
    /\ UNCHANGED <<stockVars, order, item, issued, emails>>

\* update_status writes the order, releases stock on cancellation, and the
\* route queues the customer email in the same transaction.
WriteStatus(r) ==
    LET q == request[r]
    IN  /\ q.op = "status"
        /\ order' = [order EXCEPT ![q.order] = StatusUpdated(@, q.to, q.method)]
        /\ IF q.to = "cancelled" THEN ReleaseStock(q.order)
           ELSE UNCHANGED <<stock, ledger>>
        /\ emails' = [emails EXCEPT ![q.order] = @ \cup StatusEmail(q.to)]
        /\ request' = [request EXCEPT ![r] = Idle]
        /\ UNCHANGED <<managed, produced, item, issued>>

\* apply_manual_payment_action and mark_bank_transfer_paid read the order.
ReadForPayment(r, o, action) ==
    /\ request[r] = Idle
    /\ order[o].status /= "absent"
    /\ PaymentActionAllowed(order[o], action)
    /\ request' = [request EXCEPT ![r] =
           IF action = "cancel"
           THEN [op |-> "cancel", order |-> o, payment |-> order[o].payment]
           ELSE [op |-> "payment", order |-> o, action |-> action,
                 method |-> order[o].method]]
    /\ UNCHANGED <<stockVars, order, item, issued, emails>>

WritePayment(r) ==
    LET q == request[r]
    IN  /\ q.op = "payment"
        /\ order' = [order EXCEPT ![q.order] = PaymentUpdated(@, q.action)]
        /\ emails' = [emails EXCEPT ![q.order] =
               @ \cup PaymentEmail(q.action, q.method)]
        /\ request' = [request EXCEPT ![r] = Idle]
        /\ UNCHANGED <<stockVars, item, issued>>

\* A manual cancel calls update_status, which reads and validates the order
\* again; if it may no longer be cancelled the whole action is rolled back.
RereadForCancel(r) ==
    LET q == request[r]
    IN  /\ q.op = "cancel"
        /\ request' = [request EXCEPT ![r] =
               IF StatusAllowed(order[q.order], "cancelled")
               THEN [q EXCEPT !.op = "release"] ELSE Idle]
        /\ UNCHANGED <<stockVars, order, item, issued, emails>>

\* The manual cancel commits.
WriteCancel(r) ==
    LET q == request[r]
    IN  /\ q.op = "release"
        /\ order' = [order EXCEPT ![q.order] = Cancelled(@, q.payment)]
        /\ ReleaseStock(q.order)
        /\ request' = [request EXCEPT ![r] = Idle]
        /\ UNCHANGED <<managed, produced, item, issued, emails>>

CustomerNext ==
    \E o \in Order :
        \/ \E method \in OfferedMethod, basket \in [Product -> 0..MaxQuantity] :
               Checkout(o, method, basket)
        \/ MarkFulfillmentReady(o)
        \/ ReservationLapses(o)

WorkshopNext == \E p \in Product : Produce(p) \/ MoveToLedger(p)

AdminNext ==
    \E r \in Request :
        \/ \E o \in Order : \/ \E to \in Status : ReadForStatus(r, o, to)
                            \/ \E action \in AdminAction :
                                   ReadForPayment(r, o, action)
        \/ WriteStatus(r)
        \/ WritePayment(r)
        \/ RereadForCancel(r)
        \/ WriteCancel(r)

Next == CustomerNext \/ WorkshopNext \/ AdminNext

Spec == Init /\ [][Next]_vars

(***************************************************************************)
(* Properties.                                                             *)
(***************************************************************************)
Live(o) == order[o].status \notin {"absent", "cancelled"}
Shipped == {"shipped", "delivered", "return_in_transit", "returned"}

\* The sum of f over the finite set S, as the size of the disjoint union of
\* the intervals 1..f[x].
UnitSet(f, S) == UNION {{x} \X (1..f[x]) : x \in S}
Total(f, S) == Cardinality(UnitSet(f, S))

\* Units of p that the cancellation of o did not put back: of a line that was
\* allocated in part before p moved to the ledger and in part after, it
\* restores what the movements issued, which is the second part.
Forgotten(o, p) ==
    IF order[o].status = "cancelled" /\ p \in managed /\ issued[o][p] > 0
    THEN item[o][p].allocated - issued[o][p] ELSE 0

\* Units of p that orders account for: live ones hold them or have sold them,
\* cancelled ones have forgotten them.
Held(p) == [o \in Order |-> IF Live(o) THEN item[o][p].allocated
                                       ELSE Forgotten(o, p)]
HeldUnits(p) == Total(Held(p), Order)

\* Units of p that ever came in.
Supply(p) == OpeningStock[p] + produced[p]

\* Units of p counted on the shelf or with an order, less those that came in.
Balance(p) == stock[p] + HeldUnits(p) - Supply(p)

\* Every unit is either on the shelf or with exactly one order: checkout and
\* fulfillment-ready take what they record as allocated, and cancelling puts
\* back exactly that, once, but for what a move to the ledger makes it forget.
StockConserved == \A p \in Product : Balance(p) = 0

\* However requests on stale reads, allocations and moves to the ledger
\* interleave, cancelling never puts back less than the order had taken, but
\* for what it forgets.
NoUnitLost == \A p \in Product : Balance(p) >= 0

\* What update_status takes for granted after its unlocked read: the units on
\* the shelf are units that came in, none was put back a second time.
NoUnitPutBackTwice == \A p \in Product : stock[p] <= Supply(p)

\* A cancelled order has put back all that was allocated to it, also when one
\* of its products has moved to the ledger since.
CancelRestoresAll == \A o \in Order, p \in Product : Forgotten(o, p) = 0

\* No interleaving of checkouts, allocations and cancellations drives
\* products.stock below zero: the CHECK (stock >= 0) the code maps to
\* InsufficientStockError never has to fire.
StockNeverNegative == \A p \in Product : stock[p] >= 0

\* order_items keeps its arithmetic: the ordered quantity, a snapshot, is
\* always what was allocated plus what is still to be crafted.
ItemsAddUp ==
    \A o \in Order, p \in Product :
        item[o][p].allocated + item[o][p].backordered = item[o][p].quantity

\* products.stock of a ledger-managed product is a cache of its movements:
\* every handler that changes one changes the other by the same amount.
StockCachesLedger == \A p \in managed : stock[p] = ledger[p]

\* An order leaves the workshop only when every unit of it was taken from
\* stock: update_status ships no order that still waits for production.
ShippedFullyAllocated ==
    \A o \in Order : order[o].status \in Shipped =>
        \A p \in Product : item[o][p].backordered = 0

\* fulfillment_status of a live order is 'awaiting_production' exactly while
\* one of its items is backordered.
AwaitingWhileBackordered ==
    \A o \in Order : Live(o) =>
        (order[o].fulfillment = "awaiting_production"
            <=> \E p \in Product : item[o][p].backordered > 0)

\* The thank-you email is queued only for money the shop expects or has:
\* cash on delivery, or a payment recorded as received.
ThankedOnlyWhenPaid ==
    \A o \in Order : "placed" \in emails[o] =>
        order[o].method = "cod" \/ order[o].payment \in {"paid", "refunded"}

\* Cash on delivery is collected by the courier: a delivered COD order is
\* recorded as paid (or was refunded since).
DeliveredCodIsPaid ==
    \A o \in Order :
        order[o].status = "delivered" /\ order[o].method = "cod" =>
            order[o].payment \in {"paid", "refunded"}

\* Only card orders hold a payment reservation; the sweeper that cancels
\* lapsed ones must never see an order converted to cash on delivery.
OnlyCardHoldsReservation ==
    \A o \in Order :
        order[o].reservation /= "none" => order[o].method = "card"

\* An order only ever moves along VALID_TRANSITIONS; in particular nothing
\* happens to a cancelled or returned order any more.
FollowsStateMachine ==
    [][\A o \in Order :
          \/ order[o].status = "absent"
          \/ order'[o].status = order[o].status
          \/ order'[o].status \in ValidTransitions(order[o].status)]_vars

\* Cancelling increments the stock by the quantity of each item of the order,
\* as the order-management specification has it.
CancelRestoresQuantity ==
    [][\A o \in Order : Live(o) /\ order'[o].status = "cancelled" =>
           \A p \in Product : stock'[p] = stock[p] + item[o][p].quantity]_vars

\* r commits what it decided on a stale read over a cancellation: it cancels
\* the order once more, or moves it on.
OverwritesCancellation(r) ==
    /\ request[r].op \in {"status", "release"}
    /\ order[request[r].order].status = "cancelled"
    /\ request'[r] = Idle

\* The one way in which units are made from nothing: however many requests,
\* checkouts, allocations, batches and moves to the ledger interleave, shelf
\* and orders hold together what came in until an update_status overwrites a
\* cancellation that was committed after it had read the order.
MiscountedOnlyByOverwrite ==
    [][\A p \in Product : Balance(p)' = Balance(p)
           \/ \E r \in Request : OverwritesCancellation(r)]_vars

\* A refunded payment stays refunded.
RefundedStaysRefunded ==
    [][\A o \in Order :
          order[o].payment = "refunded" => order'[o].payment = "refunded"]_vars
=============================================================================
