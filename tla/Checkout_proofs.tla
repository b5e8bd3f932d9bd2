--------------------------- MODULE Checkout_proofs ---------------------------
(***************************************************************************)
(* Theorems about what a checkout sets in motion: the orders and their     *)
(* stock (Orders), their card payments (CardPayments) and the refunds of   *)
(* those (Refunds), for every set of products, orders, requests, sessions, *)
(* handlers, sweepers, refunds and webhook deliveries.  Refunds extends    *)
(* CardPayments, which extends Orders, so the invariant of each layer is   *)
(* part of the invariant of the next.                                      *)
(***************************************************************************)
EXTENDS Refunds, FiniteSetTheorems, TLAPS

-----------------------------------------------------------------------------
(* Sums over a finite set.  Total(f, S) is the size of a disjoint union of *)
(* intervals, so that what the library knows of finite sets says how it    *)
(* changes.                                                                *)

LEMMA UnitSetMembers ==
    ASSUME NEW f, NEW S
    PROVE  \A u : u \in UnitSet(f, S) <=>
               \E x \in S : \E n \in 1..f[x] : u = <<x, n>>
  BY DEF UnitSet

LEMMA IntervalSize ==
    ASSUME NEW n \in Nat
    PROVE  IsFiniteSet(1..n) /\ Cardinality(1..n) = n
  BY FS_Interval

LEMMA UnitSetFinite ==
    ASSUME NEW f, NEW S, IsFiniteSet(S), \A x \in S : f[x] \in Nat
    PROVE  IsFiniteSet(UnitSet(f, S))
<1> DEFINE piece == [x \in S |-> {x} \X (1..f[x])]
           pieces == {{x} \X (1..f[x]) : x \in S}
<1>1. piece \in Surjection(S, pieces)
  BY DEF Surjection
<1>2. IsFiniteSet(pieces)
  <2> HIDE DEF piece, pieces
  <2> QED
    BY <1>1, FS_Surjection
<1>3. ASSUME NEW x \in S PROVE IsFiniteSet({x} \X (1..f[x]))
  <2>1. IsFiniteSet({x}) /\ IsFiniteSet(1..f[x])
    BY FS_Singleton, IntervalSize
  <2> QED
    BY <2>1, FS_Product
<1>4. \A piece1 \in pieces : IsFiniteSet(piece1)
  BY <1>3
<1> QED
  <2> HIDE DEF pieces
  <2>1. IsFiniteSet(UNION pieces)
    BY <1>2, <1>4, FS_UNION
  <2> QED
    BY <2>1 DEF UnitSet, pieces

LEMMA TotalNat ==
    ASSUME NEW f, NEW S, IsFiniteSet(S), \A x \in S : f[x] \in Nat
    PROVE  Total(f, S) \in Nat
  BY UnitSetFinite, FS_CardinalityType DEF Total

LEMMA TotalEmpty == ASSUME NEW f PROVE Total(f, {}) = 0
<1>1. UnitSet(f, {}) = {}
  BY DEF UnitSet
<1> QED
  BY <1>1, FS_EmptySet DEF Total

\* A sum of zeroes.
LEMMA TotalZero ==
    ASSUME NEW f, NEW S, \A x \in S : f[x] = 0 PROVE Total(f, S) = 0
<1>1. UnitSet(f, S) = {}
  BY DEF UnitSet
<1> QED
  BY <1>1, FS_EmptySet DEF Total

\* A sum depends on the values over the set only.
LEMMA TotalSame ==
    ASSUME NEW f, NEW g, NEW S, \A x \in S : f[x] = g[x]
    PROVE  Total(f, S) = Total(g, S)
<1>1. \A u : u \in UnitSet(f, S) <=> u \in UnitSet(g, S)
  BY UnitSetMembers
<1>2. UnitSet(f, S) = UnitSet(g, S)
  BY <1>1
<1> QED
  BY <1>2 DEF Total

\* The sum of a subset is no larger.
LEMMA TotalSubset ==
    ASSUME NEW f, NEW S, IsFiniteSet(S), \A x \in S : f[x] \in Nat,
           NEW T \in SUBSET S
    PROVE  Total(f, T) <= Total(f, S)
<1>1. UnitSet(f, T) \in SUBSET UnitSet(f, S)
  BY UnitSetMembers
<1> QED
  BY <1>1, UnitSetFinite, FS_Subset DEF Total

\* One element is taken out of the sum.
LEMMA TotalSplit ==
    ASSUME NEW f, NEW S, IsFiniteSet(S), \A x \in S : f[x] \in Nat,
           NEW x \in S
    PROVE  Total(f, S) = f[x] + Total(f, S \ {x})
<1> DEFINE rest == UnitSet(f, S \ {x})
           own == {x} \X (1..f[x])
<1>1. IsFiniteSet(S \ {x})
  BY FS_RemoveElement
<1>2. IsFiniteSet(rest)
  BY <1>1, UnitSetFinite
<1>3. IsFiniteSet(own) /\ Cardinality(own) = f[x]
  <2>1. IsFiniteSet({x}) /\ Cardinality({x}) = 1
    BY FS_Singleton
  <2>2. f[x] \in Nat
    OBVIOUS
  <2>3. IsFiniteSet(1..f[x]) /\ Cardinality(1..f[x]) = f[x]
    BY <2>2, IntervalSize
  <2>4. IsFiniteSet(own) /\ Cardinality(own) = 1 * f[x]
    BY <2>1, <2>3, FS_Product
  <2> QED
    BY <2>2, <2>4
<1>4. UnitSet(f, S) = own \cup rest
  <2>1. \A u : u \in own <=> \E n \in 1..f[x] : u = <<x, n>>
    OBVIOUS
  <2> HIDE DEF own
  <2> QED
    BY <2>1, UnitSetMembers
<1>5. own \cap rest = {}
  <2>1. \A u \in own : u[1] = x
    OBVIOUS
  <2>2. \A u \in rest : u[1] /= x
    BY UnitSetMembers
  <2> HIDE DEF own, rest
  <2> QED
    BY <2>1, <2>2
<1>6. Cardinality(own \cap rest) = 0
  BY <1>5, FS_EmptySet
<1>7. Cardinality(rest) \in Nat
  BY <1>2, FS_CardinalityType
<1> HIDE DEF own, rest
<1>8. Cardinality(own \cup rest)
          = Cardinality(own) + Cardinality(rest) - Cardinality(own \cap rest)
  BY <1>2, <1>3, FS_Union
<1>9. Cardinality(UnitSet(f, S)) = f[x] + Cardinality(rest)
  BY <1>3, <1>4, <1>6, <1>7, <1>8
<1> QED
  BY <1>9 DEF Total, rest

\* One value changes.
LEMMA TotalChange ==
    ASSUME NEW f, NEW g, NEW S, IsFiniteSet(S), NEW x \in S,
           \A y \in S : f[y] \in Nat /\ g[y] \in Nat,
           \A y \in S \ {x} : g[y] = f[y]
    PROVE  Total(g, S) = Total(f, S) - f[x] + g[x]
<1>1. Total(f, S) = f[x] + Total(f, S \ {x})
  BY TotalSplit
<1>2. Total(g, S) = g[x] + Total(g, S \ {x})
  BY TotalSplit
<1>3. Total(g, S \ {x}) = Total(f, S \ {x})
  BY TotalSame
<1>4. Total(f, S \ {x}) \in Nat
  BY FS_RemoveElement, TotalNat
<1> QED
  BY <1>1, <1>2, <1>3, <1>4

-----------------------------------------------------------------------------
(* Orders.  Type correctness needs what the pure parts return.             *)

\* _allocation_quantities takes no more than was ordered and, when stock is
\* not negative, no more than is there.
LEMMA AllocationBounds ==
    ASSUME NEW quantity \in Nat, NEW onHand \in Int
    PROVE  /\ Allocation(quantity, onHand) \in Nat
           /\ Allocation(quantity, onHand) <= quantity
           /\ onHand >= 0 => Allocation(quantity, onHand) <= onHand
  BY DEF Allocation

\* What a cancellation puts back is a number of units.
LEMMA RestoredIsNat ==
    ASSUME TypeOK, NEW o \in Order, NEW p \in Product
    PROVE  Restored(o, p) \in Nat
  BY DEF TypeOK, Item, Restored

\* update_status leaves a row of orders.
LEMMA StatusUpdatedIsRow ==
    ASSUME NEW row \in Row, NEW to \in Status, NEW method \in Method
    PROVE  StatusUpdated(row, to, method) \in Row
  BY DEF Row, StatusUpdated, Status, Fulfillment, Payment

\* A manual payment action leaves a row of orders.
LEMMA PaymentUpdatedIsRow ==
    ASSUME NEW row \in Row, NEW action
    PROVE  PaymentUpdated(row, action) \in Row
  BY DEF Row, PaymentUpdated, Method, Payment

-----------------------------------------------------------------------------
(* Type correctness, one lemma per handler.                                *)

LEMMA CheckoutType ==
    ASSUME OrdersAssumption, TypeOK,
           NEW o \in Order, NEW method \in Method,
           NEW basket \in [Product -> 0..MaxQuantity],
           Checkout(o, method, basket)
    PROVE  TypeOK'
<1> DEFINE taken == [p \in Product |-> Allocation(basket[p], stock[p])]
<1>1. \A p \in Product : /\ basket[p] \in Nat
                         /\ taken[p] \in Nat
                         /\ taken[p] <= basket[p]
  BY AllocationBounds DEF OrdersAssumption, TypeOK
<1> HIDE DEF taken
<1>2. \A p \in Product : basket[p] - taken[p] \in Nat
  <2> TAKE p \in Product
  <2> basket[p] \in Nat /\ taken[p] \in Nat /\ taken[p] <= basket[p]
    BY <1>1
  <2> QED
    OBVIOUS
<1>3. item' = [item EXCEPT ![o] =
          [p \in Product |-> [quantity    |-> basket[p],
                              allocated   |-> taken[p],
                              backordered |-> basket[p] - taken[p]]]]
  BY DEF Checkout, Taken, OrderedItems, taken
<1>4. item' \in [Order -> [Product -> Item]]
  BY <1>1, <1>2, <1>3 DEF TypeOK, Item
<1>5. order' \in [Order -> Row]
  <2> DEFINE readiness == IF \E p \in Product : basket[p] > taken[p]
                          THEN "awaiting_production" ELSE "ready"
             due == IF method = "cod" THEN "cod_pending" ELSE "pending"
             hold == IF method = "card" THEN "held" ELSE "none"
             row == [status |-> "pending", fulfillment |-> readiness,
                     method |-> method, payment |-> due, reservation |-> hold]
  <2>1. order' = [order EXCEPT ![o] = row]
    BY DEF Checkout, Taken, Placed, taken
  <2>2. readiness \in Fulfillment
    BY DEF Fulfillment
  <2>3. due \in Payment /\ hold \in {"none", "held", "lapsed"}
    BY DEF Payment
  <2>4. method \in Method /\ "pending" \in Status
    BY DEF Status
  <2> HIDE DEF readiness, due, hold
  <2>5. row \in Row
    BY <2>2, <2>3, <2>4 DEF Row
  <2> QED
    BY <2>1, <2>5 DEF TypeOK
<1>6. stock' = [p \in Product |-> stock[p] - taken[p]]
  BY DEF Checkout, Taken, IssueStock, taken
<1>7. stock' \in [Product -> Int]
  BY <1>1, <1>6 DEF TypeOK
<1>8. ledger' = [p \in Product |->
          IF p \in managed THEN ledger[p] - taken[p] ELSE ledger[p]]
  BY DEF Checkout, Taken, IssueStock, taken
<1>9. ledger' \in [Product -> Int]
  BY <1>1, <1>8 DEF TypeOK
<1>10. issued' = [issued EXCEPT ![o] = [p \in Product |->
          IF p \in managed THEN taken[p] ELSE 0]]
  BY DEF Checkout, Taken, IssueStock, taken
<1>11. issued' \in [Order -> [Product -> Nat]]
  BY <1>1, <1>10 DEF TypeOK
<1>12. emails' \in [Order -> SUBSET Event]
  BY DEF Checkout, CheckoutEmail, TypeOK, Event
<1>13. managed' = managed /\ produced' = produced /\ request' = request
  BY DEF Checkout
<1> QED
  BY <1>4, <1>5, <1>7, <1>9, <1>11, <1>12, <1>13 DEF TypeOK

LEMMA MarkFulfillmentReadyType ==
    ASSUME TypeOK, NEW o \in Order, MarkFulfillmentReady(o)
    PROVE  TypeOK'
<1>1. \A p \in Product : Fulfilled(item[o][p]) \in Item
  <2>1. ASSUME NEW line \in Item
        PROVE  Fulfilled(line) \in Item
    <3>1. /\ line.quantity \in Nat
          /\ line.allocated \in Nat
          /\ line.backordered \in Nat
      BY DEF Item
    <3>2. line.allocated + line.backordered \in Nat
      BY <3>1
    <3> QED
      BY <3>1, <3>2 DEF Item, Fulfilled
  <2> QED
    BY <2>1 DEF TypeOK
<1>2. item' \in [Order -> [Product -> Item]]
  <2>1. [p \in Product |-> Fulfilled(item[o][p])] \in [Product -> Item]
    BY <1>1
  <2>2. item' = [item EXCEPT ![o] = [p \in Product |-> Fulfilled(item[o][p])]]
    BY DEF MarkFulfillmentReady, TypeOK
  <2> QED
    BY <2>1, <2>2 DEF TypeOK
<1>3. order' \in [Order -> Row]
  <2>1. [order[o] EXCEPT !.fulfillment = "ready"] \in Row
    BY DEF TypeOK, Row, Fulfillment
  <2> QED
    BY <2>1 DEF TypeOK, MarkFulfillmentReady
<1>4. \A p \in Product : item[o][p].backordered \in Nat
  BY DEF TypeOK, Item
<1>5. stock' \in [Product -> Int] /\ ledger' \in [Product -> Int]
  BY <1>4 DEF TypeOK, MarkFulfillmentReady
<1>6. issued' \in [Order -> [Product -> Nat]]
  BY <1>4 DEF TypeOK, MarkFulfillmentReady
<1> QED
  BY <1>2, <1>3, <1>5, <1>6 DEF TypeOK, MarkFulfillmentReady

\* Releasing the stock of an order keeps stock and ledger integers, and never
\* lowers stock.
LEMMA ReleaseStockType ==
    ASSUME TypeOK, NEW o \in Order, ReleaseStock(o)
    PROVE  /\ stock' \in [Product -> Int]
           /\ ledger' \in [Product -> Int]
           /\ \A p \in Product : stock'[p] >= stock[p]
<1>1. \A p \in Product : Restored(o, p) \in Nat
  BY RestoredIsNat
<1> QED
  BY <1>1 DEF TypeOK, ReleaseStock

\* A request record is one of the three kinds a handler leaves, or idle.
LEMMA RequestKinds ==
    ASSUME TypeOK, NEW r \in Request
    PROVE  /\ request[r].op = "status" => request[r] \in StatusRequest
           /\ request[r].op = "payment" => request[r] \in PaymentRequest
           /\ request[r].op \in {"cancel", "release"} =>
                  request[r] \in CancelRequest
  BY DEF TypeOK, StatusRequest, PaymentRequest, CancelRequest, Idle

LEMMA ReadForStatusType ==
    ASSUME TypeOK, NEW r \in Request, NEW o \in Order, NEW to \in Status,
           ReadForStatus(r, o, to)
    PROVE  TypeOK'
<1>1. order[o].method \in Method
  BY DEF TypeOK, Row
<1>2. [op |-> "status", order |-> o, to |-> to, method |-> order[o].method]
          \in StatusRequest
  BY <1>1 DEF StatusRequest
<1> QED
  BY <1>2 DEF TypeOK, ReadForStatus, stockVars

LEMMA ReadForPaymentType ==
    ASSUME OrdersAssumption, TypeOK, NEW r \in Request, NEW o \in Order,
           NEW action \in AdminAction, ReadForPayment(r, o, action)
    PROVE  TypeOK'
<1>1. order[o].method \in Method /\ order[o].payment \in Payment
  BY DEF TypeOK, Row
<1>2. [op |-> "payment", order |-> o, action |-> action,
       method |-> order[o].method] \in PaymentRequest
  BY <1>1 DEF PaymentRequest, OrdersAssumption
<1>3. [op |-> "cancel", order |-> o, payment |-> order[o].payment]
          \in CancelRequest
  BY <1>1 DEF CancelRequest
<1> QED
  BY <1>2, <1>3 DEF TypeOK, ReadForPayment, stockVars

LEMMA WriteStatusType ==
    ASSUME TypeOK, NEW r \in Request, WriteStatus(r)
    PROVE  TypeOK'
<1> DEFINE q == request[r]
<1>1. q \in StatusRequest
  BY RequestKinds DEF WriteStatus
<1>2. q.order \in Order /\ q.to \in Status /\ q.method \in Method
  BY <1>1 DEF StatusRequest
<1>3. order[q.order] \in Row
  BY <1>2 DEF TypeOK
<1>4. StatusUpdated(order[q.order], q.to, q.method) \in Row
  BY <1>2, <1>3, StatusUpdatedIsRow
<1>5. order' \in [Order -> Row]
  BY <1>2, <1>4 DEF WriteStatus, TypeOK
<1>6. stock' \in [Product -> Int] /\ ledger' \in [Product -> Int]
  BY <1>2, ReleaseStockType DEF WriteStatus, TypeOK
<1>7. emails' \in [Order -> SUBSET Event]
  BY <1>2 DEF WriteStatus, TypeOK, StatusEmail, Event
<1> QED
  BY <1>5, <1>6, <1>7 DEF WriteStatus, TypeOK

LEMMA WritePaymentType ==
    ASSUME TypeOK, NEW r \in Request, WritePayment(r)
    PROVE  TypeOK'
<1> DEFINE q == request[r]
<1>1. q \in PaymentRequest
  BY RequestKinds DEF WritePayment
<1>2. q.order \in Order
  BY <1>1 DEF PaymentRequest
<1>3. order[q.order] \in Row
  BY <1>2 DEF TypeOK
<1>4. PaymentUpdated(order[q.order], q.action) \in Row
  BY <1>3, PaymentUpdatedIsRow
<1>5. order' \in [Order -> Row]
  BY <1>2, <1>4 DEF WritePayment, TypeOK
<1>6. emails' \in [Order -> SUBSET Event]
  BY <1>2 DEF WritePayment, TypeOK, PaymentEmail, Event
<1> QED
  BY <1>5, <1>6 DEF WritePayment, TypeOK, stockVars

LEMMA RereadForCancelType ==
    ASSUME TypeOK, NEW r \in Request, RereadForCancel(r)
    PROVE  TypeOK'
<1>1. request[r] \in CancelRequest
  BY RequestKinds DEF RereadForCancel
<1>2. [request[r] EXCEPT !.op = "release"] \in CancelRequest
  BY <1>1 DEF CancelRequest
<1> QED
  BY <1>2 DEF RereadForCancel, TypeOK, stockVars

LEMMA WriteCancelType ==
    ASSUME TypeOK, NEW r \in Request, WriteCancel(r)
    PROVE  TypeOK'
<1> DEFINE q == request[r]
<1>1. q \in CancelRequest
  BY RequestKinds DEF WriteCancel
<1>2. q.order \in Order
  BY <1>1 DEF CancelRequest
<1>3. order[q.order] \in Row
  BY <1>2 DEF TypeOK
<1>4. Cancelled(order[q.order], q.payment) \in Row
  BY <1>3 DEF Cancelled, Row, Status, Fulfillment, Payment
<1>5. order' \in [Order -> Row]
  BY <1>2, <1>4 DEF WriteCancel, TypeOK
<1>6. stock' \in [Product -> Int] /\ ledger' \in [Product -> Int]
  BY <1>2, ReleaseStockType DEF WriteCancel
<1> QED
  BY <1>5, <1>6 DEF WriteCancel, TypeOK

LEMMA WorkshopType ==
    ASSUME TypeOK, NEW p \in Product, Produce(p) \/ MoveToLedger(p)
    PROVE  TypeOK'
<1>1. CASE Produce(p)
  BY <1>1 DEF Produce, TypeOK
<1>2. CASE MoveToLedger(p)
  BY <1>2 DEF MoveToLedger, TypeOK
<1> QED
  BY <1>1, <1>2

LEMMA ReservationLapsesType ==
    ASSUME TypeOK, NEW o \in Order, ReservationLapses(o)
    PROVE  TypeOK'
<1>1. [order[o] EXCEPT !.reservation = "lapsed"] \in Row
  BY DEF TypeOK, Row
<1> QED
  BY <1>1 DEF ReservationLapses, TypeOK, stockVars

LEMMA InitType == ASSUME OrdersAssumption, Init PROVE TypeOK
<1>1. AbsentRow \in Row
  BY DEF AbsentRow, Row, Fulfillment, Method, Payment
<1>2. NoItem \in Item
  BY DEF NoItem, Item
<1> QED
  BY <1>1, <1>2 DEF OrdersAssumption, Init, TypeOK

LEMMA NextType == ASSUME OrdersAssumption, TypeOK, [Next]_vars PROVE TypeOK'
<1>1. CASE UNCHANGED vars
  BY <1>1 DEF vars, TypeOK
<1>2. CASE CustomerNext
  BY <1>2, CheckoutType, MarkFulfillmentReadyType, ReservationLapsesType
     DEF CustomerNext, OrdersAssumption
<1>3. CASE WorkshopNext
  BY <1>3, WorkshopType DEF WorkshopNext
<1>4. CASE AdminNext
  BY <1>4, ReadForStatusType, ReadForPaymentType, WriteStatusType,
     WritePaymentType, RereadForCancelType, WriteCancelType DEF AdminNext
<1> QED
  BY <1>1, <1>2, <1>3, <1>4 DEF Next

\* Every row of every table stays well formed: no handler writes a status, a
\* negative quantity or a request the next handler cannot read.
THEOREM TypeCorrect == Spec => []TypeOK
<1>1. Init => TypeOK
  BY InitType, OrdersAssumption
<1>2. TypeOK /\ [Next]_vars => TypeOK'
  BY NextType, OrdersAssumption
<1> QED
  BY <1>1, <1>2, PTL DEF Spec

-----------------------------------------------------------------------------
(* Stock.                                                                  *)

LEMMA NextStock ==
    ASSUME OrdersAssumption, TypeOK, StockNeverNegative, [Next]_vars
    PROVE  StockNeverNegative'
<1>1. ASSUME NEW o \in Order, NEW method \in OfferedMethod,
             NEW basket \in [Product -> 0..MaxQuantity],
             Checkout(o, method, basket)
      PROVE  StockNeverNegative'
  <2> SUFFICES ASSUME NEW p \in Product PROVE stock'[p] >= 0
    BY DEF StockNeverNegative
  <2>1. basket[p] \in Nat /\ stock[p] \in Int /\ stock[p] >= 0
    BY DEF OrdersAssumption, TypeOK, StockNeverNegative
  <2>2. /\ Allocation(basket[p], stock[p]) \in Nat
        /\ Allocation(basket[p], stock[p]) <= stock[p]
    BY <2>1, AllocationBounds
  <2>3. stock'[p] = stock[p] - Allocation(basket[p], stock[p])
    BY <1>1 DEF Checkout, Taken, IssueStock
  <2> QED
    BY <2>1, <2>2, <2>3
<1>2. ASSUME NEW o \in Order, MarkFulfillmentReady(o)
      PROVE  StockNeverNegative'
  BY <1>2 DEF MarkFulfillmentReady, StockNeverNegative, TypeOK, Item
<1>3. ASSUME NEW o \in Order, ReleaseStock(o)
      PROVE  StockNeverNegative'
  <2>1. \A p \in Product : Restored(o, p) \in Nat
    BY RestoredIsNat
  <2> QED
    BY <1>3, <2>1 DEF ReleaseStock, StockNeverNegative, TypeOK
<1>4. ASSUME UNCHANGED stock
      PROVE  StockNeverNegative'
  BY <1>4 DEF StockNeverNegative
<1>5. ASSUME NEW r \in Request, WriteStatus(r)
      PROVE  StockNeverNegative'
  <2>1. request[r].order \in Order
    BY <1>5, RequestKinds DEF WriteStatus, StatusRequest
  <2> QED
    BY <1>3, <1>4, <1>5, <2>1 DEF WriteStatus
<1>6. ASSUME NEW r \in Request, WriteCancel(r)
      PROVE  StockNeverNegative'
  <2>1. request[r].order \in Order
    BY <1>6, RequestKinds DEF WriteCancel, CancelRequest
  <2> QED
    BY <1>3, <1>6, <2>1 DEF WriteCancel
<1>7. ASSUME NEW p \in Product, Produce(p)
      PROVE  StockNeverNegative'
  BY <1>7 DEF Produce, StockNeverNegative, TypeOK
<1>8. CASE UNCHANGED vars
  BY <1>4, <1>8 DEF vars
<1>9. CASE CustomerNext
  BY <1>1, <1>2, <1>4, <1>9 DEF CustomerNext, ReservationLapses, stockVars
<1>10. CASE WorkshopNext
  BY <1>4, <1>7, <1>10 DEF WorkshopNext, MoveToLedger
<1>11. CASE AdminNext
  BY <1>4, <1>5, <1>6, <1>11
     DEF AdminNext, ReadForStatus, ReadForPayment, WritePayment,
         RereadForCancel, stockVars
<1> QED
  BY <1>8, <1>9, <1>10, <1>11 DEF Next

\* However checkouts, allocations, cancellations and production interleave,
\* and however many admin requests work on stale reads, products.stock never
\* goes below zero.
THEOREM StockSafe == Spec => []StockNeverNegative
<1>1. Init => StockNeverNegative
  <2>1. \A p \in Product : OpeningStock[p] >= 0
    BY OrdersAssumption DEF OrdersAssumption
  <2> QED
    BY <2>1 DEF Init, StockNeverNegative
<1>2. TypeOK /\ StockNeverNegative /\ [Next]_vars => StockNeverNegative'
  BY NextStock, OrdersAssumption
<1> QED
  BY <1>1, <1>2, TypeCorrect, PTL DEF Spec

-----------------------------------------------------------------------------
(* One admin request at a time.  ShippedFullyAllocated and                 *)
(* FollowsStateMachine hold because a request's read is still valid when   *)
(* it writes; the inductive invariant says so, and that an order past      *)
(* 'confirmed' is ready, and that ready means allocated.                   *)

OneRequest == \A r1, r2 \in Request : r1 = r2

ReadyMeansAllocated ==
    \A o \in Order :
        order[o].status /= "cancelled" /\ order[o].fulfillment = "ready" =>
            \A p \in Product : item[o][p].backordered = 0

ShippedIsReady ==
    \A o \in Order : order[o].status \in Shipped =>
                         order[o].fulfillment = "ready"

\* What a request in flight has read still holds: its transition is allowed,
\* and an order it is about to ship is ready.
ReadsStillValid ==
    \A r \in Request :
        /\ request[r].op = "status" =>
               /\ request[r].to \in ValidTransitions(order[request[r].order].status)
               /\ request[r].to = "shipped" =>
                      order[request[r].order].fulfillment = "ready"
        /\ request[r].op = "release" =>
               "cancelled" \in ValidTransitions(order[request[r].order].status)

SerialInv == TypeOK /\ ReadyMeansAllocated /\ ShippedIsReady /\ ReadsStillValid

LEMMA SerialInvShips == SerialInv => ShippedFullyAllocated
  BY DEF SerialInv, ReadyMeansAllocated, ShippedIsReady,
         ShippedFullyAllocated, Shipped

LEMMA SerialInit == ASSUME OrdersAssumption, Init PROVE SerialInv
<1>1. TypeOK
  BY InitType
<1>2. ReadyMeansAllocated /\ ShippedIsReady /\ ReadsStillValid
  BY DEF Init, ReadyMeansAllocated, ShippedIsReady, ReadsStillValid,
         AbsentRow, NoItem, Idle, Shipped
<1> QED
  BY <1>1, <1>2 DEF SerialInv

\* No write is possible while another request is in flight.
LEMMA SerialCheckout ==
    ASSUME OrdersAssumption, SerialInv,
           NEW o \in Order, NEW method \in OfferedMethod,
           NEW basket \in [Product -> 0..MaxQuantity],
           Checkout(o, method, basket)
    PROVE  SerialInv'
<1>1. TypeOK'
  BY CheckoutType DEF SerialInv, OrdersAssumption
<1> DEFINE taken == [p \in Product |-> Allocation(basket[p], stock[p])]
<1>2. /\ order'[o].status = "pending"
      /\ order'[o].fulfillment = IF \E p \in Product : basket[p] > taken[p]
                                 THEN "awaiting_production" ELSE "ready"
      /\ \A p \in Product : item'[o][p].backordered = basket[p] - taken[p]
      /\ \A oo \in Order \ {o} : order'[oo] = order[oo] /\ item'[oo] = item[oo]
  BY DEF Checkout, Taken, OrderedItems, Placed, SerialInv, TypeOK
<1>3. \A p \in Product : /\ basket[p] \in Nat /\ taken[p] \in Nat
                         /\ taken[p] <= basket[p]
  BY AllocationBounds DEF SerialInv, OrdersAssumption, TypeOK
<1>4. order'[o].fulfillment = "ready" =>
          \A p \in Product : item'[o][p].backordered = 0
  <2> HIDE DEF taken
  <2> QED
    BY <1>2, <1>3
<1>5. ReadyMeansAllocated'
  BY <1>2, <1>4 DEF ReadyMeansAllocated, SerialInv
<1>6. ShippedIsReady'
  BY <1>2 DEF ShippedIsReady, SerialInv, Shipped
<1>7. order[o].status = "absent" /\ request' = request
  BY DEF Checkout
<1>8. \A r \in Request :
          request[r].op \in {"status", "release"} => request[r].order \in Order
  BY RequestKinds DEF SerialInv, StatusRequest, CancelRequest
<1>9. ReadsStillValid'
  BY <1>2, <1>7, <1>8 DEF ReadsStillValid, SerialInv, ValidTransitions
<1> QED
  BY <1>1, <1>5, <1>6, <1>9 DEF SerialInv

LEMMA SerialMarkReady ==
    ASSUME SerialInv, NEW o \in Order, MarkFulfillmentReady(o)
    PROVE  SerialInv'
<1>1. TypeOK'
  BY MarkFulfillmentReadyType DEF SerialInv
<1>2. /\ order'[o].status = order[o].status
      /\ order'[o].fulfillment = "ready"
      /\ \A p \in Product : item'[o][p].backordered = 0
      /\ \A oo \in Order \ {o} : order'[oo] = order[oo] /\ item'[oo] = item[oo]
      /\ request' = request
  BY DEF MarkFulfillmentReady, SerialInv, TypeOK, Row, Fulfilled
<1>3. ReadyMeansAllocated' /\ ShippedIsReady'
  BY <1>2 DEF ReadyMeansAllocated, ShippedIsReady, SerialInv
<1>4. \A r \in Request :
          request[r].op \in {"status", "release"} => request[r].order \in Order
  BY RequestKinds DEF SerialInv, StatusRequest, CancelRequest
<1>5. ReadsStillValid'
  BY <1>2, <1>4 DEF ReadsStillValid, SerialInv
<1> QED
  BY <1>1, <1>3, <1>5 DEF SerialInv

LEMMA SerialReadForStatus ==
    ASSUME SerialInv, NEW r \in Request, NEW o \in Order, NEW to \in Status,
           ReadForStatus(r, o, to)
    PROVE  SerialInv'
<1>1. TypeOK'
  BY ReadForStatusType DEF SerialInv
<1>2. order' = order /\ item' = item
  BY DEF ReadForStatus
<1>3. /\ request'[r] = [op |-> "status", order |-> o, to |-> to,
                        method |-> order[o].method]
      /\ \A rr \in Request \ {r} : request'[rr] = request[rr]
  BY DEF ReadForStatus, SerialInv, TypeOK
<1>4. ReadsStillValid'
  BY <1>2, <1>3 DEF ReadForStatus, StatusAllowed, ReadsStillValid, SerialInv
<1> QED
  BY <1>1, <1>2, <1>4 DEF SerialInv, ReadyMeansAllocated, ShippedIsReady

LEMMA SerialReadForPayment ==
    ASSUME OrdersAssumption, SerialInv, NEW r \in Request, NEW o \in Order,
           NEW action \in AdminAction, ReadForPayment(r, o, action)
    PROVE  SerialInv'
<1>1. TypeOK'
  BY ReadForPaymentType DEF SerialInv
<1>2. order' = order /\ item' = item
  BY DEF ReadForPayment
<1>3. /\ request'[r].op \in {"cancel", "payment"}
      /\ \A rr \in Request \ {r} : request'[rr] = request[rr]
  BY DEF ReadForPayment, SerialInv, TypeOK
<1>4. ReadsStillValid'
  BY <1>2, <1>3 DEF ReadsStillValid, SerialInv
<1> QED
  BY <1>1, <1>2, <1>4 DEF SerialInv, ReadyMeansAllocated, ShippedIsReady

LEMMA SerialRereadForCancel ==
    ASSUME SerialInv, NEW r \in Request, RereadForCancel(r)
    PROVE  SerialInv'
<1>1. TypeOK'
  BY RereadForCancelType DEF SerialInv
<1>2. order' = order /\ item' = item
  BY DEF RereadForCancel
<1>3. request[r] \in CancelRequest
  BY RequestKinds DEF RereadForCancel, SerialInv
<1>4. /\ request'[r].op \in {"release", "idle"}
      /\ request'[r].op = "release" =>
             /\ request'[r].order = request[r].order
             /\ "cancelled" \in ValidTransitions(order[request[r].order].status)
      /\ \A rr \in Request \ {r} : request'[rr] = request[rr]
  BY <1>3 DEF RereadForCancel, SerialInv, TypeOK, Idle, CancelRequest,
              StatusAllowed
<1>5. ReadsStillValid'
  BY <1>2, <1>4 DEF ReadsStillValid, SerialInv
<1> QED
  BY <1>1, <1>2, <1>5 DEF SerialInv, ReadyMeansAllocated, ShippedIsReady

LEMMA SerialWriteStatus ==
    ASSUME OneRequest, SerialInv, NEW r \in Request, WriteStatus(r)
    PROVE  SerialInv'
<1> DEFINE q == request[r]
<1>1. TypeOK'
  BY WriteStatusType DEF SerialInv
<1>2. q \in StatusRequest /\ q.order \in Order /\ q.to \in Status
  BY RequestKinds DEF WriteStatus, SerialInv, StatusRequest
<1>3. order[q.order] \in Row
  BY <1>2 DEF SerialInv, TypeOK
<1>4. /\ order'[q.order].status = q.to
      /\ order'[q.order].fulfillment = IF q.to = "cancelled" THEN "ready"
                                       ELSE order[q.order].fulfillment
      /\ \A oo \in Order \ {q.order} : order'[oo] = order[oo]
      /\ item' = item
  BY <1>2, <1>3 DEF WriteStatus, SerialInv, TypeOK, Row, StatusUpdated
<1>5. /\ q.to \in ValidTransitions(order[q.order].status)
      /\ q.to = "shipped" => order[q.order].fulfillment = "ready"
  BY DEF SerialInv, ReadsStillValid, WriteStatus
<1>6. ReadyMeansAllocated'
  BY <1>2, <1>4, <1>5 DEF ReadyMeansAllocated, SerialInv, ValidTransitions
<1>7. ShippedIsReady'
  BY <1>2, <1>4, <1>5 DEF ShippedIsReady, SerialInv, ValidTransitions, Shipped
<1>8. request'[r] = Idle
  BY DEF WriteStatus, SerialInv, TypeOK
<1>9. ReadsStillValid'
  BY <1>8 DEF OneRequest, ReadsStillValid, Idle
<1> QED
  BY <1>1, <1>6, <1>7, <1>9 DEF SerialInv

LEMMA SerialWritePayment ==
    ASSUME OneRequest, SerialInv, NEW r \in Request, WritePayment(r)
    PROVE  SerialInv'
<1> DEFINE q == request[r]
<1>1. TypeOK'
  BY WritePaymentType DEF SerialInv
<1>2. q \in PaymentRequest /\ q.order \in Order
  BY RequestKinds DEF WritePayment, SerialInv, PaymentRequest
<1>3. order[q.order] \in Row
  BY <1>2 DEF SerialInv, TypeOK
<1>4. ASSUME NEW row \in Row
      PROVE  /\ PaymentUpdated(row, q.action).status = row.status
             /\ PaymentUpdated(row, q.action).fulfillment = row.fulfillment
  BY DEF PaymentUpdated, Row
<1>5. /\ order'[q.order] = PaymentUpdated(order[q.order], q.action)
      /\ \A oo \in Order \ {q.order} : order'[oo] = order[oo]
      /\ item' = item
  BY <1>2 DEF WritePayment, SerialInv, TypeOK
<1>6. \A oo \in Order : /\ order'[oo].status = order[oo].status
                        /\ order'[oo].fulfillment = order[oo].fulfillment
  BY <1>3, <1>4, <1>5
<1>7. ReadyMeansAllocated' /\ ShippedIsReady'
  BY <1>5, <1>6 DEF ReadyMeansAllocated, ShippedIsReady, SerialInv
<1>8. request'[r] = Idle
  BY DEF WritePayment, SerialInv, TypeOK
<1>9. ReadsStillValid'
  BY <1>8 DEF OneRequest, ReadsStillValid, Idle
<1> QED
  BY <1>1, <1>7, <1>9 DEF SerialInv

LEMMA SerialWriteCancel ==
    ASSUME OneRequest, SerialInv, NEW r \in Request, WriteCancel(r)
    PROVE  SerialInv'
<1> DEFINE q == request[r]
<1>1. TypeOK'
  BY WriteCancelType DEF SerialInv
<1>2. q.order \in Order
  BY RequestKinds DEF WriteCancel, SerialInv, CancelRequest
<1>3. order[q.order] \in Row
  BY <1>2 DEF SerialInv, TypeOK
<1>4. /\ order'[q.order].status = "cancelled"
      /\ \A oo \in Order \ {q.order} : order'[oo] = order[oo]
      /\ item' = item
  BY <1>2, <1>3 DEF WriteCancel, SerialInv, TypeOK, Row, Cancelled
<1>5. ReadyMeansAllocated' /\ ShippedIsReady'
  BY <1>2, <1>4 DEF ReadyMeansAllocated, ShippedIsReady, SerialInv, Shipped
<1>6. request'[r] = Idle
  BY DEF WriteCancel, SerialInv, TypeOK
<1>7. ReadsStillValid'
  BY <1>6 DEF OneRequest, ReadsStillValid, Idle
<1> QED
  BY <1>1, <1>5, <1>7 DEF SerialInv

LEMMA SerialUntouched ==
    ASSUME SerialInv, TypeOK', UNCHANGED <<item, request>>,
           \A o \in Order : /\ order'[o].status = order[o].status
                            /\ order'[o].fulfillment = order[o].fulfillment
    PROVE  SerialInv'
<1>1. \A r \in Request :
          request[r].op \in {"status", "release"} => request[r].order \in Order
  BY RequestKinds DEF SerialInv, StatusRequest, CancelRequest
<1> QED
  BY <1>1
     DEF SerialInv, ReadyMeansAllocated, ShippedIsReady, ReadsStillValid

LEMMA SerialLapses ==
    ASSUME SerialInv, NEW o \in Order, ReservationLapses(o)
    PROVE  SerialInv'
<1>1. TypeOK'
  BY ReservationLapsesType DEF SerialInv
<1>2. order[o] \in Row /\ order'[o] = [order[o] EXCEPT !.reservation = "lapsed"]
  BY DEF ReservationLapses, SerialInv, TypeOK
<1>3. \A oo \in Order \ {o} : order'[oo] = order[oo]
  BY DEF ReservationLapses, SerialInv, TypeOK
<1>4. \A oo \in Order : /\ order'[oo].status = order[oo].status
                        /\ order'[oo].fulfillment = order[oo].fulfillment
  BY <1>2, <1>3 DEF Row
<1> QED
  BY <1>1, <1>4, SerialUntouched DEF ReservationLapses

LEMMA SerialWorkshop ==
    ASSUME SerialInv, NEW p \in Product, Produce(p) \/ MoveToLedger(p)
    PROVE  SerialInv'
<1>1. TypeOK'
  BY WorkshopType DEF SerialInv
<1>2. UNCHANGED <<item, request, order>>
  BY DEF Produce, MoveToLedger
<1> QED
  BY <1>1, <1>2, SerialUntouched

\* Served one at a time, no step invalidates what a request has read.
LEMMA SerialNext ==
    ASSUME OneRequest, SerialInv, [Next]_vars
    PROVE  SerialInv'
<1>1. ASSUME NEW o \in Order, NEW method \in OfferedMethod,
             NEW basket \in [Product -> 0..MaxQuantity],
             Checkout(o, method, basket)
      PROVE  SerialInv'
  BY <1>1, SerialCheckout, OrdersAssumption
<1>2. ASSUME NEW o \in Order, MarkFulfillmentReady(o)
      PROVE  SerialInv'
  BY <1>2, SerialMarkReady
<1>3. ASSUME NEW o \in Order, ReservationLapses(o)
      PROVE  SerialInv'
  BY <1>3, SerialLapses
<1>4. ASSUME NEW p \in Product, Produce(p) \/ MoveToLedger(p)
      PROVE  SerialInv'
  BY <1>4, SerialWorkshop
<1>5. ASSUME NEW r \in Request, NEW o \in Order, NEW to \in Status,
             ReadForStatus(r, o, to)
      PROVE  SerialInv'
  BY <1>5, SerialReadForStatus
<1>6. ASSUME NEW r \in Request, NEW o \in Order, NEW action \in AdminAction,
             ReadForPayment(r, o, action)
      PROVE  SerialInv'
  BY <1>6, SerialReadForPayment, OrdersAssumption
<1>7. ASSUME NEW r \in Request, WriteStatus(r)
      PROVE  SerialInv'
  BY <1>7, SerialWriteStatus
<1>8. ASSUME NEW r \in Request, WritePayment(r)
      PROVE  SerialInv'
  BY <1>8, SerialWritePayment
<1>9. ASSUME NEW r \in Request, RereadForCancel(r)
      PROVE  SerialInv'
  BY <1>9, SerialRereadForCancel
<1>10. ASSUME NEW r \in Request, WriteCancel(r)
       PROVE  SerialInv'
  BY <1>10, SerialWriteCancel
<1>11. CASE UNCHANGED vars
  BY <1>11 DEF vars, SerialInv, TypeOK, ReadyMeansAllocated, ShippedIsReady,
               ReadsStillValid
<1> QED
  BY <1>1, <1>2, <1>3, <1>4, <1>5, <1>6, <1>7, <1>8, <1>9, <1>10, <1>11
     DEF Next, CustomerNext, WorkshopNext, AdminNext

\* The service behind a queue that serves one admin request at a time.
SerialSpec == Spec /\ []OneRequest

LEMMA SerialInvariant == SerialSpec => []SerialInv
<1>1. Init => SerialInv
  BY SerialInit, OrdersAssumption
<1>2. OneRequest /\ SerialInv /\ [Next]_vars => SerialInv'
  BY SerialNext
<1> QED
  BY <1>1, <1>2, PTL DEF Spec, SerialSpec

\* The shop's rule that nothing leaves before it is crafted, for any number
\* of products and orders, when admin requests are served one at a time.
THEOREM SerialShips == SerialSpec => []ShippedFullyAllocated
<1>1. SerialInv => ShippedFullyAllocated
  BY SerialInvShips
<1> QED
  BY <1>1, SerialInvariant, PTL

\* One step leaves every order where it is or moves it along
\* VALID_TRANSITIONS.
StatusStep ==
    \A o \in Order :
        \/ order[o].status = "absent"
        \/ order'[o].status = order[o].status
        \/ order'[o].status \in ValidTransitions(order[o].status)

LEMMA SerialStep ==
    ASSUME SerialInv, Next PROVE StatusStep
<1>1. ASSUME NEW o \in Order, NEW row, row.status = order[o].status,
             order' = [order EXCEPT ![o] = row], SerialInv
      PROVE  StatusStep
  BY <1>1 DEF StatusStep, TypeOK, SerialInv
<1>2. ASSUME NEW o \in Order, NEW row,
             row.status \in ValidTransitions(order[o].status),
             order' = [order EXCEPT ![o] = row]
      PROVE  StatusStep
  BY <1>2 DEF StatusStep, TypeOK, SerialInv
<1>3. ASSUME UNCHANGED order PROVE StatusStep
  BY <1>3 DEF StatusStep
<1>4. ASSUME NEW o \in Order, NEW method \in OfferedMethod,
             NEW basket \in [Product -> 0..MaxQuantity],
             Checkout(o, method, basket)
      PROVE  StatusStep
  BY <1>4 DEF Checkout, Placed, StatusStep, TypeOK, SerialInv
<1>5. ASSUME NEW o \in Order, MarkFulfillmentReady(o)
      PROVE  StatusStep
  <2>1. order[o] \in Row
    BY DEF SerialInv, TypeOK
  <2> QED
    BY <1>1, <1>5, <2>1 DEF MarkFulfillmentReady, Row
<1>6. ASSUME NEW o \in Order, ReservationLapses(o)
      PROVE  StatusStep
  <2>1. order[o] \in Row
    BY DEF SerialInv, TypeOK
  <2> QED
    BY <1>1, <1>6, <2>1 DEF ReservationLapses, Row
<1>7. ASSUME NEW r \in Request, WriteStatus(r)
      PROVE  StatusStep
  <2>1. request[r].order \in Order /\ order[request[r].order] \in Row
    BY <1>7, RequestKinds DEF WriteStatus, StatusRequest, SerialInv, TypeOK
  <2>2. request[r].to \in ValidTransitions(order[request[r].order].status)
    BY <1>7 DEF WriteStatus, SerialInv, ReadsStillValid
  <2>3. StatusUpdated(order[request[r].order], request[r].to,
                      request[r].method).status = request[r].to
    BY <2>1 DEF StatusUpdated, Row
  <2> QED
    BY <1>2, <1>7, <2>1, <2>2, <2>3 DEF WriteStatus
<1>8. ASSUME NEW r \in Request, WritePayment(r)
      PROVE  StatusStep
  <2>1. request[r].order \in Order /\ order[request[r].order] \in Row
    BY <1>8, RequestKinds DEF WritePayment, PaymentRequest, SerialInv, TypeOK
  <2>2. PaymentUpdated(order[request[r].order], request[r].action).status
            = order[request[r].order].status
    BY <2>1 DEF PaymentUpdated, Row
  <2> QED
    BY <1>1, <1>8, <2>1, <2>2 DEF WritePayment
<1>9. ASSUME NEW r \in Request, WriteCancel(r)
      PROVE  StatusStep
  <2>1. request[r].order \in Order /\ order[request[r].order] \in Row
    BY <1>9, RequestKinds DEF WriteCancel, CancelRequest, SerialInv, TypeOK
  <2>2. "cancelled" \in ValidTransitions(order[request[r].order].status)
    BY <1>9 DEF WriteCancel, SerialInv, ReadsStillValid
  <2>3. Cancelled(order[request[r].order], request[r].payment).status
            = "cancelled"
    BY <2>1 DEF Cancelled, Row
  <2> QED
    BY <1>2, <1>9, <2>1, <2>2, <2>3 DEF WriteCancel
<1>10. CASE CustomerNext
  BY <1>4, <1>5, <1>6, <1>10 DEF CustomerNext
<1>11. CASE WorkshopNext
  BY <1>3, <1>11 DEF WorkshopNext, Produce, MoveToLedger
<1>12. CASE AdminNext
  BY <1>3, <1>7, <1>8, <1>9, <1>12
     DEF AdminNext, ReadForStatus, ReadForPayment, RereadForCancel
<1> QED
  BY <1>10, <1>11, <1>12 DEF Next

\* Served one at a time, admin requests never resurrect a cancelled order or
\* skip a status: every order follows VALID_TRANSITIONS.
THEOREM SerialFollows == SerialSpec => FollowsStateMachine
<1>1. SerialInv /\ [Next]_vars => [StatusStep]_vars
  BY SerialStep
<1>2. SerialSpec => [][StatusStep]_vars
  BY <1>1, SerialInvariant, PTL DEF Spec, SerialSpec
<1> QED
  BY <1>2 DEF FollowsStateMachine, StatusStep

-----------------------------------------------------------------------------
(* Conservation of stock.                                                  *)

\* What the movements of an order item issued is at most what it was allocated,
\* and nothing before its product moved to the ledger.
IssuedWithin ==
    \A o \in Order, p \in Product :
        /\ p \notin managed => issued[o][p] = 0
        /\ issued[o][p] <= item[o][p].allocated

\* A request in flight has read an order that exists.
AskedIsPlaced ==
    \A r \in Request :
        request[r] /= Idle => order[request[r].order].status /= "absent"

StockInv == TypeOK /\ IssuedWithin /\ AskedIsPlaced

LEMMA IssuedInit == ASSUME OrdersAssumption, Init PROVE StockInv
<1>1. TypeOK
  BY InitType
<1>2. IssuedWithin
  BY DEF Init, IssuedWithin, NoItem
<1>3. AskedIsPlaced
  BY DEF Init, AskedIsPlaced
<1> QED
  BY <1>1, <1>2, <1>3 DEF StockInv

LEMMA PlacedNext ==
    ASSUME OrdersAssumption, StockInv, [Next]_vars PROVE AskedIsPlaced'
<1>1. TypeOK /\ TypeOK'
  BY NextType DEF StockInv
<1>2. ASSUME \A o \in Order : order'[o].status = "absent" =>
                                  order[o].status = "absent",
             \A r \in Request : request'[r] /= Idle =>
                 \/ request[r] /= Idle /\ request'[r].order = request[r].order
                 \/ order[request'[r].order].status /= "absent"
      PROVE  AskedIsPlaced'
  <2> SUFFICES ASSUME NEW r \in Request, request'[r] /= Idle,
                      order'[request'[r].order].status = "absent"
               PROVE  FALSE
    BY DEF AskedIsPlaced
  <2>1. request'[r].order \in Order
    BY <1>1 DEF TypeOK, StatusRequest, PaymentRequest, CancelRequest
  <2> QED
    BY <1>2, <2>1 DEF StockInv, AskedIsPlaced
<1>3. ASSUME NEW o \in Order, NEW row \in Row, order' = [order EXCEPT ![o] = row],
             row.status = "absent" => order[o].status = "absent"
      PROVE  \A oo \in Order : order'[oo].status = "absent" =>
                                   order[oo].status = "absent"
  BY <1>1, <1>3 DEF TypeOK
<1>4. ASSUME NEW r \in Request, NEW q, request' = [request EXCEPT ![r] = q],
             \/ q = Idle
             \/ request[r] /= Idle /\ q.order = request[r].order
             \/ order[q.order].status /= "absent"
      PROVE  \A rr \in Request : request'[rr] /= Idle =>
                 \/ request[rr] /= Idle /\ request'[rr].order = request[rr].order
                 \/ order[request'[rr].order].status /= "absent"
  BY <1>1, <1>4 DEF TypeOK
<1>5. ASSUME NEW o \in Order, NEW row \in Row, order' = [order EXCEPT ![o] = row],
             row.status = "absent" => order[o].status = "absent",
             request' = request
      PROVE  AskedIsPlaced'
  <2>1. \A r \in Request : request'[r] /= Idle =>
            \/ request[r] /= Idle /\ request'[r].order = request[r].order
            \/ order[request'[r].order].status /= "absent"
    BY <1>5
  <2> QED
    BY <1>2, <1>3, <1>5, <2>1
<1>6. ASSUME UNCHANGED <<order, request>> PROVE AskedIsPlaced'
  BY <1>6 DEF StockInv, AskedIsPlaced
<1>7. ASSUME NEW r \in Request, NEW o \in Order, NEW row \in Row,
             o = request[r].order,
             order' = [order EXCEPT ![o] = row], row.status /= "absent",
             request' = [request EXCEPT ![r] = Idle]
      PROVE  AskedIsPlaced'
  <2>1. \A oo \in Order : order'[oo].status = "absent" =>
                              order[oo].status = "absent"
    BY <1>3, <1>7
  <2>2. \A rr \in Request : request'[rr] /= Idle =>
            \/ request[rr] /= Idle /\ request'[rr].order = request[rr].order
            \/ order[request'[rr].order].status /= "absent"
    BY <1>4, <1>7
  <2> QED
    BY <1>2, <2>1, <2>2
<1>8. ASSUME NEW r \in Request, NEW q, order' = order,
             request' = [request EXCEPT ![r] = q],
             \/ q = Idle
             \/ request[r] /= Idle /\ q.order = request[r].order
             \/ order[q.order].status /= "absent"
      PROVE  AskedIsPlaced'
  <2>1. \A rr \in Request : request'[rr] /= Idle =>
            \/ request[rr] /= Idle /\ request'[rr].order = request[rr].order
            \/ order[request'[rr].order].status /= "absent"
    BY <1>4, <1>8
  <2> QED
    BY <1>2, <1>8, <2>1
<1>9. CASE CustomerNext
  <2>1. ASSUME NEW o \in Order, NEW method \in OfferedMethod,
               NEW basket \in [Product -> 0..MaxQuantity],
               Checkout(o, method, basket)
        PROVE  AskedIsPlaced'
    <3>1. order' = [order EXCEPT ![o] = order'[o]] /\ order'[o] \in Row
      BY <1>1, <2>1 DEF Checkout, TypeOK
    <3>2. order'[o].status = "pending" /\ request' = request
      BY <1>1, <2>1 DEF Checkout, Placed, TypeOK
    <3> QED
      BY <1>5, <3>1, <3>2
  <2>2. ASSUME NEW o \in Order, MarkFulfillmentReady(o) \/ ReservationLapses(o)
        PROVE  AskedIsPlaced'
    <3>1. order[o] \in Row
      BY <1>1 DEF TypeOK
    <3>2. order' = [order EXCEPT ![o] = order'[o]] /\ order'[o] \in Row
      BY <1>1, <2>2 DEF MarkFulfillmentReady, ReservationLapses, TypeOK
    <3>3. order'[o].status = order[o].status /\ request' = request
      BY <1>1, <2>2, <3>1
         DEF MarkFulfillmentReady, ReservationLapses, TypeOK, Row
    <3> QED
      BY <1>5, <3>2, <3>3
  <2> QED
    BY <1>9, <2>1, <2>2 DEF CustomerNext
<1>10. CASE WorkshopNext \/ UNCHANGED vars
  BY <1>6, <1>10 DEF WorkshopNext, Produce, MoveToLedger, vars
<1>11. CASE AdminNext
  <2>1. ASSUME NEW r \in Request, NEW o \in Order, NEW to \in Status,
               ReadForStatus(r, o, to)
        PROVE  AskedIsPlaced'
    BY <1>8, <2>1 DEF ReadForStatus, StatusAllowed, ValidTransitions
  <2>2. ASSUME NEW r \in Request, NEW o \in Order, NEW action \in AdminAction,
               ReadForPayment(r, o, action)
        PROVE  AskedIsPlaced'
    <3> DEFINE q == IF action = "cancel"
                    THEN [op |-> "cancel", order |-> o,
                          payment |-> order[o].payment]
                    ELSE [op |-> "payment", order |-> o, action |-> action,
                          method |-> order[o].method]
    <3>1. q.order = o /\ order[o].status /= "absent" /\ order' = order
      BY <2>2 DEF ReadForPayment
    <3>2. request' = [request EXCEPT ![r] = q]
      BY <2>2 DEF ReadForPayment
    <3> HIDE DEF q
    <3> QED
      BY <1>8, <3>1, <3>2
  <2>3. ASSUME NEW r \in Request, RereadForCancel(r)
        PROVE  AskedIsPlaced'
    <3>1. request[r] \in CancelRequest /\ request[r] /= Idle
      BY <1>1, <2>3, RequestKinds DEF RereadForCancel, Idle
    <3>2. CASE StatusAllowed(order[request[r].order], "cancelled")
      <4>1. [request[r] EXCEPT !.op = "release"].order = request[r].order
        BY <3>1 DEF CancelRequest
      <4>2. /\ order' = order
            /\ request' = [request EXCEPT ![r] =
                   [request[r] EXCEPT !.op = "release"]]
        BY <2>3, <3>2 DEF RereadForCancel
      <4> QED
        BY <1>8, <3>1, <4>1, <4>2
    <3>3. CASE ~StatusAllowed(order[request[r].order], "cancelled")
      BY <1>8, <2>3, <3>3 DEF RereadForCancel
    <3> QED
      BY <3>2, <3>3
  <2>4. ASSUME NEW r \in Request, WriteStatus(r)
        PROVE  AskedIsPlaced'
    <3>1. /\ request[r].order \in Order /\ request[r].to \in Status
          /\ request[r].method \in Method
      BY <1>1, <2>4, RequestKinds DEF WriteStatus, StatusRequest
    <3> PICK o \in Order : o = request[r].order
      BY <3>1
    <3>2. order[o] \in Row
      BY <1>1 DEF TypeOK
    <3> PICK row : row = StatusUpdated(order[o], request[r].to, request[r].method)
      OBVIOUS
    <3>3. row \in Row /\ row.status = request[r].to
      BY <3>1, <3>2 DEF StatusUpdated, Row, Fulfillment, Payment
    <3>4. /\ order' = [order EXCEPT ![o] = row]
          /\ request' = [request EXCEPT ![r] = Idle]
      BY <2>4 DEF WriteStatus
    <3>5. row.status /= "absent"
      BY <3>1, <3>3 DEF Status
    <3> QED
      BY <1>7, <3>3, <3>4, <3>5
  <2>5. ASSUME NEW r \in Request, WriteCancel(r)
        PROVE  AskedIsPlaced'
    <3>1. request[r].order \in Order /\ request[r] \in CancelRequest
      BY <1>1, <2>5, RequestKinds DEF WriteCancel, CancelRequest
    <3> PICK o \in Order : o = request[r].order
      BY <3>1
    <3>2. order[o] \in Row
      BY <1>1 DEF TypeOK
    <3> PICK row : row = Cancelled(order[o], request[r].payment)
      OBVIOUS
    <3> DEFINE payment == IF request[r].payment \in {"paid", "refunded"}
                          THEN order[o].payment ELSE "failed"
    <3>3. payment \in Payment
      BY <3>2 DEF Row, Payment
    <3>4. row = [order[o] EXCEPT !.status = "cancelled", !.fulfillment = "ready",
                                 !.payment = payment]
      BY DEF Cancelled
    <3> HIDE DEF payment
    <3>5. row \in Row /\ row.status = "cancelled"
      BY <3>2, <3>3, <3>4 DEF Row, Fulfillment, Status
    <3>6. /\ order' = [order EXCEPT ![o] = row]
          /\ request' = [request EXCEPT ![r] = Idle]
      BY <2>5 DEF WriteCancel
    <3> QED
      BY <1>7, <3>5, <3>6
  <2>6. ASSUME NEW r \in Request, WritePayment(r)
        PROVE  AskedIsPlaced'
    <3>1. request[r].order \in Order /\ request[r].action \in ManualAction
      BY <1>1, <2>6, RequestKinds DEF WritePayment, PaymentRequest
    <3> PICK o \in Order : o = request[r].order
      BY <3>1
    <3>2. order[o] \in Row /\ order[o].status /= "absent"
      BY <1>1, <2>6 DEF TypeOK, WritePayment, StockInv, AskedIsPlaced, Idle
    <3> PICK row : row = PaymentUpdated(order[o], request[r].action)
      OBVIOUS
    <3>3. row \in Row /\ row.status = order[o].status
      BY <3>1, <3>2 DEF PaymentUpdated, Row, Payment, Method
    <3>4. /\ order' = [order EXCEPT ![o] = row]
          /\ request' = [request EXCEPT ![r] = Idle]
      BY <2>6 DEF WritePayment
    <3> QED
      BY <1>7, <3>2, <3>3, <3>4
  <2> QED
    BY <1>11, <2>1, <2>2, <2>3, <2>4, <2>5, <2>6 DEF AdminNext
<1> QED
  BY <1>9, <1>10, <1>11 DEF Next

LEMMA IssuedNext ==
    ASSUME OrdersAssumption, StockInv, [Next]_vars
    PROVE  StockInv'
<1>1. TypeOK /\ TypeOK'
  BY NextType DEF StockInv
<1>2. ASSUME UNCHANGED <<managed, item, issued>> PROVE IssuedWithin'
  BY <1>2 DEF StockInv, IssuedWithin
<1>3. ASSUME NEW o \in Order, NEW method \in OfferedMethod,
             NEW basket \in [Product -> 0..MaxQuantity],
             Checkout(o, method, basket)
      PROVE  IssuedWithin'
  <2>1. /\ managed' = managed
        /\ \A oo \in Order \ {o} :
               item'[oo] = item[oo] /\ issued'[oo] = issued[oo]
        /\ \A p \in Product : /\ item'[o][p].allocated = Taken(basket)[p]
                              /\ issued'[o][p] = IF p \in managed
                                                 THEN Taken(basket)[p] ELSE 0
    BY <1>1, <1>3 DEF Checkout, OrderedItems, IssueStock, TypeOK
  <2>2. ASSUME NEW p \in Product PROVE Taken(basket)[p] \in Nat
    BY <1>1, AllocationBounds DEF Taken, OrdersAssumption, TypeOK
  <2> QED
    BY <2>1, <2>2 DEF StockInv, IssuedWithin
<1>4. ASSUME NEW o \in Order, MarkFulfillmentReady(o)
      PROVE  IssuedWithin'
  <2>1. /\ managed' = managed
        /\ \A oo \in Order \ {o} :
               item'[oo] = item[oo] /\ issued'[oo] = issued[oo]
        /\ \A p \in Product :
               /\ item'[o][p] = Fulfilled(item[o][p])
               /\ issued'[o][p] = IF p \in managed
                                  THEN issued[o][p] + item[o][p].backordered
                                  ELSE issued[o][p]
    BY <1>1, <1>4 DEF MarkFulfillmentReady, TypeOK
  <2>2. ASSUME NEW p \in Product
        PROVE  /\ p \notin managed => issued'[o][p] = 0
               /\ issued'[o][p] <= item'[o][p].allocated
    <3>1. /\ item[o][p].backordered \in Nat /\ item[o][p].allocated \in Nat
          /\ issued[o][p] \in Nat
      BY <1>1 DEF TypeOK, Item
    <3>2. item'[o][p] = Fulfilled(item[o][p])
      BY <2>1
    <3>3. item'[o][p].allocated = item[o][p].allocated + item[o][p].backordered
      BY <3>2 DEF Fulfilled
    <3> QED
      BY <2>1, <3>1, <3>3 DEF StockInv, IssuedWithin
  <2> QED
    BY <2>1, <2>2 DEF StockInv, IssuedWithin
<1>5. ASSUME NEW p \in Product, MoveToLedger(p)
      PROVE  IssuedWithin'
  <2>1. UNCHANGED <<item, issued>> /\ managed' = managed \cup {p}
    BY <1>5 DEF MoveToLedger
  <2> QED
    BY <2>1 DEF StockInv, IssuedWithin
<1>6. IssuedWithin'
  <2>1. CASE UNCHANGED vars
    BY <1>2, <2>1 DEF vars
  <2>2. CASE CustomerNext
    BY <1>2, <1>3, <1>4, <2>2 DEF CustomerNext, ReservationLapses, stockVars
  <2>3. CASE WorkshopNext
    BY <1>2, <1>5, <2>3 DEF WorkshopNext, Produce
  <2>4. CASE AdminNext
    BY <1>2, <2>4
       DEF AdminNext, ReadForStatus, ReadForPayment, WriteStatus, WritePayment,
           RereadForCancel, WriteCancel, stockVars
  <2> QED
    BY <2>1, <2>2, <2>3, <2>4 DEF Next
<1>7. AskedIsPlaced'
  BY PlacedNext
<1> QED
  BY <1>1, <1>6, <1>7 DEF StockInv

\* A cancellation puts back what was allocated, but for what it forgets.
LEMMA RestoredIsAllocated ==
    ASSUME StockInv, NEW o \in Order, NEW p \in Product
    PROVE  Restored(o, p) =
               item[o][p].allocated -
                   (IF p \in managed /\ issued[o][p] > 0
                    THEN item[o][p].allocated - issued[o][p] ELSE 0)
<1>1. /\ item[o][p].allocated \in Nat /\ issued[o][p] \in Nat
      /\ issued[o][p] <= item[o][p].allocated
  BY DEF StockInv, TypeOK, Item, IssuedWithin
<1>2. CASE p \in managed /\ issued[o][p] > 0
  BY <1>1, <1>2 DEF Restored
<1>3. CASE ~(p \in managed /\ issued[o][p] > 0)
  BY <1>1, <1>3 DEF Restored
<1> QED
  BY <1>2, <1>3

\* What an order accounts for is a number, at most what it was allocated.
LEMMA HeldNat ==
    ASSUME OrdersAssumption, StockInv, NEW p \in Product
    PROVE  /\ \A o \in Order : /\ Held(p)[o] \in Nat
                               /\ Held(p)[o] <= item[o][p].allocated
           /\ HeldUnits(p) \in Nat
           /\ Supply(p) \in Int
<1>1. ASSUME NEW o \in Order
      PROVE  Held(p)[o] \in Nat /\ Held(p)[o] <= item[o][p].allocated
  <2>1. /\ item[o][p].allocated \in Nat /\ issued[o][p] \in Nat
        /\ issued[o][p] <= item[o][p].allocated
    BY DEF StockInv, TypeOK, Item, IssuedWithin
  <2>2. Held(p)[o] = IF Live(o) THEN item[o][p].allocated ELSE Forgotten(o, p)
    BY DEF Held
  <2> QED
    BY <2>1, <2>2 DEF Forgotten
<1>2. IsFiniteSet(Order)
  BY DEF OrdersAssumption
<1>3. HeldUnits(p) \in Nat
  BY <1>1, <1>2, TotalNat DEF HeldUnits
<1>4. Supply(p) \in Int
  BY DEF Supply, OrdersAssumption, StockInv, TypeOK
<1> QED
  BY <1>1, <1>3, <1>4

LEMMA HeldNatNext ==
    ASSUME OrdersAssumption, StockInv', NEW p \in Product
    PROVE  \A o \in Order : Held(p)'[o] \in Nat
<1> SUFFICES ASSUME NEW o \in Order PROVE Held(p)'[o] \in Nat
  OBVIOUS
<1>1. /\ item'[o][p].allocated \in Nat /\ issued'[o][p] \in Nat
      /\ issued'[o][p] <= item'[o][p].allocated
  BY DEF StockInv, TypeOK, Item, IssuedWithin
<1>2. Held(p)'[o] = IF Live(o)' THEN item'[o][p].allocated ELSE Forgotten(o, p)'
  BY DEF Held
<1> QED
  BY <1>1, <1>2 DEF Forgotten

\* One order changes what it accounts for.
LEMMA HeldChange ==
    ASSUME OrdersAssumption, StockInv, StockInv', NEW o \in Order,
           NEW p \in Product,
           \A oo \in Order \ {o} : Held(p)'[oo] = Held(p)[oo]
    PROVE  HeldUnits(p)' = HeldUnits(p) - Held(p)[o] + Held(p)'[o]
<1> DEFINE f == Held(p)
           g == Held(p)'
<1>1. \A oo \in Order : f[oo] \in Nat /\ g[oo] \in Nat
  BY HeldNat, HeldNatNext
<1>2. \A oo \in Order \ {o} : g[oo] = f[oo]
  OBVIOUS
<1>3. IsFiniteSet(Order)
  BY DEF OrdersAssumption
<1>4. HeldUnits(p) = Total(f, Order) /\ HeldUnits(p)' = Total(g, Order)
  BY DEF HeldUnits
<1> HIDE DEF f, g
<1>5. Total(g, Order) = Total(f, Order) - f[o] + g[o]
  BY <1>1, <1>2, <1>3, TotalChange
<1> QED
  BY <1>4, <1>5 DEF f, g

\* An order that keeps its status, its items and its movements accounts for
\* the same.
LEMMA HeldOther ==
    ASSUME NEW o \in Order, NEW p \in Product,
           order'[o].status = order[o].status, item'[o] = item[o],
           issued'[o] = issued[o], managed' = managed
    PROVE  Held(p)'[o] = Held(p)[o]
<1>1. Live(o)' <=> Live(o)
  BY DEF Live
<1>2. Forgotten(o, p)' = Forgotten(o, p)
  BY DEF Forgotten
<1>3. /\ Held(p)[o] = IF Live(o) THEN item[o][p].allocated ELSE Forgotten(o, p)
      /\ Held(p)'[o] = IF Live(o)' THEN item'[o][p].allocated
                                   ELSE Forgotten(o, p)'
  BY DEF Held
<1> QED
  BY <1>1, <1>2, <1>3

\* Nothing that is counted changes.
LEMMA HeldSame ==
    ASSUME \A o \in Order : order'[o].status = order[o].status,
           UNCHANGED <<item, issued, managed>>, NEW p \in Product
    PROVE  HeldUnits(p)' = HeldUnits(p)
<1>1. \A o \in Order : Live(o)' <=> Live(o)
  BY DEF Live
<1>2. \A o \in Order : Forgotten(o, p)' = Forgotten(o, p)
  BY DEF Forgotten
<1>3. Held(p)' = Held(p)
  BY <1>1, <1>2 DEF Held
<1> QED
  BY <1>3 DEF HeldUnits

LEMMA BalanceSame ==
    ASSUME OrdersAssumption, UNCHANGED <<stock, produced, item, issued, managed>>,
           \A o \in Order : order'[o].status = order[o].status,
           NEW p \in Product
    PROVE  Balance(p)' = Balance(p)
<1>1. HeldUnits(p)' = HeldUnits(p)
  BY HeldSame
<1> QED
  BY <1>1 DEF Balance, Supply

\* What was sold before the move to the ledger has issued nothing, so no
\* cancelled order forgets more after it.
LEMMA BalanceMove ==
    ASSUME OrdersAssumption, StockInv, NEW q \in Product, MoveToLedger(q),
           NEW p \in Product
    PROVE  Balance(p)' = Balance(p)
<1>1. \A o \in Order : Live(o)' <=> Live(o)
  BY DEF Live, MoveToLedger
<1>2. \A o \in Order : Forgotten(o, p)' = Forgotten(o, p)
  BY DEF Forgotten, MoveToLedger, StockInv, IssuedWithin
<1>3. Held(p)' = Held(p)
  BY <1>1, <1>2 DEF Held, MoveToLedger
<1>4. HeldUnits(p)' = HeldUnits(p)
  BY <1>3 DEF HeldUnits
<1> QED
  BY <1>4 DEF Balance, Supply, MoveToLedger

LEMMA BalanceProduce ==
    ASSUME OrdersAssumption, StockInv, NEW q \in Product, Produce(q),
           NEW p \in Product
    PROVE  Balance(p)' = Balance(p)
<1>1. HeldUnits(p)' = HeldUnits(p)
  BY HeldSame DEF Produce
<1>2. HeldUnits(p) \in Nat
  BY HeldNat
<1>3. stock[p] \in Int /\ produced[p] \in Nat /\ OpeningStock[p] \in Nat
  BY DEF StockInv, TypeOK, OrdersAssumption
<1>4. \/ stock'[p] = stock[p] /\ produced'[p] = produced[p]
      \/ stock'[p] = stock[p] + 1 /\ produced'[p] = produced[p] + 1
  BY DEF Produce, StockInv, TypeOK
<1> QED
  BY <1>1, <1>2, <1>3, <1>4 DEF Balance, Supply

\* What stock loses, the items of one order gain.
LEMMA BalanceTaken ==
    ASSUME OrdersAssumption, StockInv, StockInv', NEW o \in Order,
           NEW p \in Product, produced' = produced,
           \A oo \in Order \ {o} : Held(p)'[oo] = Held(p)[oo],
           stock'[p] - stock[p] = Held(p)[o] - Held(p)'[o]
    PROVE  Balance(p)' = Balance(p)
<1>1. HeldUnits(p)' = HeldUnits(p) - Held(p)[o] + Held(p)'[o]
  BY HeldChange
<1>2. HeldUnits(p) \in Nat /\ Held(p)[o] \in Nat /\ Supply(p) \in Int
  BY HeldNat
<1>3. Held(p)'[o] \in Nat
  BY HeldNatNext
<1>4. Supply(p)' = Supply(p)
  BY DEF Supply
<1>5. stock[p] \in Int /\ stock'[p] \in Int
  BY DEF StockInv, TypeOK
<1> QED
  BY <1>1, <1>2, <1>3, <1>4, <1>5 DEF Balance

LEMMA BalanceCheckout ==
    ASSUME OrdersAssumption, StockInv, StockInv', NEW o \in Order,
           NEW method \in Method, NEW basket \in [Product -> 0..MaxQuantity],
           Checkout(o, method, basket), NEW p \in Product
    PROVE  Balance(p)' = Balance(p)
<1>1. TypeOK
  BY DEF StockInv
<1>2. /\ order[o].status = "absent"
      /\ order'[o].status = "pending"
      /\ item'[o][p].allocated = Taken(basket)[p]
      /\ stock'[p] = stock[p] - Taken(basket)[p]
      /\ produced' = produced /\ managed' = managed
      /\ \A oo \in Order \ {o} : /\ order'[oo] = order[oo]
                                 /\ item'[oo] = item[oo]
                                 /\ issued'[oo] = issued[oo]
  BY <1>1 DEF Checkout, Placed, OrderedItems, IssueStock, TypeOK
<1>3. Taken(basket)[p] \in Nat
  BY <1>1, AllocationBounds DEF Taken, OrdersAssumption, TypeOK
<1>4. Held(p)[o] = 0 /\ Held(p)'[o] = Taken(basket)[p]
  BY <1>2 DEF Held, Live, Forgotten
<1>5. stock[p] \in Int
  BY <1>1 DEF TypeOK
<1>6. stock'[p] - stock[p] = Held(p)[o] - Held(p)'[o]
  BY <1>2, <1>3, <1>4, <1>5
<1>7. \A oo \in Order \ {o} : Held(p)'[oo] = Held(p)[oo]
  BY <1>2, HeldOther
<1> QED
  BY <1>2, <1>6, <1>7, BalanceTaken

LEMMA BalanceReady ==
    ASSUME OrdersAssumption, StockInv, StockInv', NEW o \in Order,
           MarkFulfillmentReady(o), NEW p \in Product
    PROVE  Balance(p)' = Balance(p)
<1>1. TypeOK
  BY DEF StockInv
<1>2. /\ order[o].status \in {"pending", "confirmed"}
      /\ order'[o].status = order[o].status
      /\ item'[o][p] = Fulfilled(item[o][p])
      /\ stock'[p] = stock[p] - item[o][p].backordered
      /\ produced' = produced /\ managed' = managed
      /\ \A oo \in Order \ {o} : /\ order'[oo] = order[oo]
                                 /\ item'[oo] = item[oo]
                                 /\ issued'[oo] = issued[oo]
  BY <1>1 DEF MarkFulfillmentReady, FulfillmentOpen, TypeOK, Row
<1>3. item'[o][p].allocated = item[o][p].allocated + item[o][p].backordered
  BY <1>2 DEF Fulfilled
<1>4. /\ Held(p)[o] = item[o][p].allocated
      /\ Held(p)'[o] = item'[o][p].allocated
  BY <1>2 DEF Held, Live
<1>5. /\ stock[p] \in Int
      /\ item[o][p].allocated \in Nat /\ item[o][p].backordered \in Nat
  BY <1>1 DEF TypeOK, Item
<1>6. stock'[p] - stock[p] = Held(p)[o] - Held(p)'[o]
  BY <1>2, <1>3, <1>4, <1>5
<1>7. \A oo \in Order \ {o} : Held(p)'[oo] = Held(p)[oo]
  BY <1>2, HeldOther
<1> QED
  BY <1>2, <1>6, <1>7, BalanceTaken

\* An order changes its status and keeps its units: one that comes back to
\* life is counted again, though its units are back on the shelf.
LEMMA BalanceStatus ==
    ASSUME OrdersAssumption, StockInv, StockInv', NEW o \in Order,
           NEW p \in Product, UNCHANGED <<stock, produced, item>>,
           \A oo \in Order \ {o} : Held(p)'[oo] = Held(p)[oo],
           Live(o)'
    PROVE  /\ Balance(p)' >= Balance(p)
           /\ Live(o) => Balance(p)' = Balance(p)
<1>1. HeldUnits(p)' = HeldUnits(p) - Held(p)[o] + Held(p)'[o]
  BY HeldChange
<1>2. /\ HeldUnits(p) \in Nat /\ Held(p)[o] \in Nat /\ Supply(p) \in Int
      /\ Held(p)[o] <= item[o][p].allocated
  BY HeldNat
<1>3. item[o][p].allocated \in Nat /\ stock[p] \in Int
  BY DEF StockInv, TypeOK, Item
<1>4. /\ Held(p)'[o] = item[o][p].allocated
      /\ Live(o) => Held(p)[o] = item[o][p].allocated
  BY DEF Held, Live
<1>5. Supply(p)' = Supply(p)
  BY DEF Supply
<1> QED
  BY <1>1, <1>2, <1>3, <1>4, <1>5 DEF Balance

\* An order is cancelled, perhaps for the second time.
LEMMA BalanceReleased ==
    ASSUME OrdersAssumption, StockInv, StockInv', NEW o \in Order,
           NEW p \in Product, ReleaseStock(o),
           UNCHANGED <<produced, item, issued, managed>>,
           order'[o].status = "cancelled",
           \A oo \in Order \ {o} : Held(p)'[oo] = Held(p)[oo]
    PROVE  /\ Balance(p)' >= Balance(p)
           /\ Live(o) => Balance(p)' = Balance(p)
<1> DEFINE forgotten == IF p \in managed /\ issued[o][p] > 0
                        THEN item[o][p].allocated - issued[o][p] ELSE 0
<1>1. HeldUnits(p)' = HeldUnits(p) - Held(p)[o] + Held(p)'[o]
  BY HeldChange
<1>2. /\ HeldUnits(p) \in Nat /\ Held(p)[o] \in Nat /\ Supply(p) \in Int
      /\ Held(p)[o] <= item[o][p].allocated
  BY HeldNat
<1>3. /\ item[o][p].allocated \in Nat /\ stock[p] \in Int
      /\ issued[o][p] \in Nat /\ issued[o][p] <= item[o][p].allocated
  BY DEF StockInv, TypeOK, Item, IssuedWithin
<1>4. /\ Held(p)'[o] = forgotten
      /\ Live(o) => Held(p)[o] = item[o][p].allocated
  BY DEF Held, Live, Forgotten
<1>5. stock'[p] = stock[p] + (item[o][p].allocated - forgotten)
  BY RestoredIsAllocated DEF ReleaseStock
<1>6. forgotten \in Int
  BY <1>3
<1>7. Supply(p)' = Supply(p)
  BY DEF Supply
<1> HIDE DEF forgotten
<1> QED
  BY <1>1, <1>2, <1>3, <1>4, <1>5, <1>6, <1>7 DEF Balance

\* Every step but the write of a request leaves the balance as it is.
LEMMA BalanceOthers ==
    ASSUME OrdersAssumption, StockInv, StockInv', NEW p \in Product,
           \/ CustomerNext
           \/ WorkshopNext
           \/ UNCHANGED vars
           \/ \E r \in Request :
                  \/ \E o \in Order : \/ \E to \in Status : ReadForStatus(r, o, to)
                                      \/ \E action \in AdminAction :
                                             ReadForPayment(r, o, action)
                  \/ WritePayment(r)
                  \/ RereadForCancel(r)
    PROVE  Balance(p)' = Balance(p)
<1>1. TypeOK
  BY DEF StockInv
<1>2. ASSUME UNCHANGED <<stock, produced, item, issued, managed, order>>
      PROVE  Balance(p)' = Balance(p)
  BY <1>1, <1>2, BalanceSame
<1>3. ASSUME NEW o \in Order, ReservationLapses(o)
      PROVE  Balance(p)' = Balance(p)
  <2>1. \A oo \in Order : order'[oo].status = order[oo].status
    BY <1>1, <1>3 DEF ReservationLapses, TypeOK, Row
  <2> QED
    BY <1>1, <1>3, <2>1, BalanceSame DEF ReservationLapses, stockVars
<1>4. ASSUME NEW r \in Request, WritePayment(r)
      PROVE  Balance(p)' = Balance(p)
  <2>1. request[r].order \in Order
    BY <1>1, <1>4, RequestKinds DEF WritePayment, PaymentRequest
  <2>2. ASSUME NEW row \in Row
        PROVE  PaymentUpdated(row, request[r].action).status = row.status
    BY DEF PaymentUpdated, Row
  <2>3. \A oo \in Order : order'[oo].status = order[oo].status
    BY <1>1, <1>4, <2>1, <2>2 DEF WritePayment, TypeOK
  <2> QED
    BY <1>1, <1>4, <2>3, BalanceSame DEF WritePayment, stockVars
<1>5. CASE CustomerNext
  BY <1>3, <1>5, BalanceCheckout, BalanceReady
     DEF CustomerNext, OrdersAssumption
<1>6. CASE WorkshopNext
  BY <1>6, BalanceProduce, BalanceMove DEF WorkshopNext
<1>7. CASE UNCHANGED vars
  BY <1>2, <1>7 DEF vars
<1>8. ASSUME NEW r \in Request, NEW o \in Order, NEW to \in Status,
             ReadForStatus(r, o, to)
      PROVE  Balance(p)' = Balance(p)
  BY <1>2, <1>8 DEF ReadForStatus, stockVars
<1>9. ASSUME NEW r \in Request, NEW o \in Order, NEW action \in AdminAction,
             ReadForPayment(r, o, action)
      PROVE  Balance(p)' = Balance(p)
  BY <1>2, <1>9 DEF ReadForPayment, stockVars
<1>10. ASSUME NEW r \in Request, RereadForCancel(r)
       PROVE  Balance(p)' = Balance(p)
  BY <1>2, <1>10 DEF RereadForCancel, stockVars
<1> QED
  BY <1>4, <1>5, <1>6, <1>7, <1>8, <1>9, <1>10

\* The order a request is about to write.
LEMMA BalanceWritten ==
    ASSUME OrdersAssumption, StockInv, StockInv', NEW p \in Product,
           NEW r \in Request, WriteStatus(r) \/ WriteCancel(r)
    PROVE  /\ Balance(p)' >= Balance(p)
           /\ Live(request[r].order) => Balance(p)' = Balance(p)
<1>1. TypeOK
  BY DEF StockInv
<1>2. request[r].order \in Order
  BY <1>1, RequestKinds
     DEF WriteStatus, WriteCancel, StatusRequest, CancelRequest
<1> PICK o \in Order : o = request[r].order
  BY <1>2
<1>0. order[o] \in Row
  BY <1>1 DEF TypeOK
<1>3. CASE WriteCancel(r)
  <2>1. order' = [order EXCEPT ![o] = Cancelled(order[o], request[r].payment)]
    BY <1>3 DEF WriteCancel
  <2>2. /\ order'[o].status = "cancelled"
        /\ \A oo \in Order \ {o} : order'[oo] = order[oo]
        /\ UNCHANGED <<produced, item, issued, managed>>
        /\ ReleaseStock(o)
    BY <1>0, <1>1, <1>3, <2>1 DEF WriteCancel, TypeOK, Row, Cancelled
  <2>3. \A oo \in Order \ {o} : Held(p)'[oo] = Held(p)[oo]
    BY <2>2, HeldOther
  <2> QED
    BY <2>2, <2>3, BalanceReleased
<1>4. CASE WriteStatus(r)
  <2>1. order' = [order EXCEPT ![o] =
            StatusUpdated(order[o], request[r].to, request[r].method)]
    BY <1>4 DEF WriteStatus
  <2>2. /\ order'[o].status = request[r].to
        /\ \A oo \in Order \ {o} : order'[oo] = order[oo]
        /\ UNCHANGED <<produced, item, issued, managed>>
    BY <1>0, <1>1, <1>4, <2>1 DEF WriteStatus, TypeOK, Row, StatusUpdated
  <2>3. \A oo \in Order \ {o} : Held(p)'[oo] = Held(p)[oo]
    BY <2>2, HeldOther
  <2>4. CASE request[r].to = "cancelled"
    <3>1. ReleaseStock(o)
      BY <1>4, <2>4 DEF WriteStatus
    <3> QED
      BY <2>2, <2>3, <2>4, <3>1, BalanceReleased
  <2>5. CASE request[r].to /= "cancelled"
    <3>1. request[r].to \in Status
      BY <1>1, <1>4, RequestKinds DEF WriteStatus, StatusRequest
    <3>2. Live(o)'
      BY <2>2, <2>5, <3>1 DEF Live, Status
    <3>3. UNCHANGED stock
      BY <1>4, <2>5 DEF WriteStatus
    <3> QED
      BY <2>2, <2>3, <3>2, <3>3, BalanceStatus
  <2> QED
    BY <2>4, <2>5
<1> QED
  BY <1>3, <1>4

LEMMA StockInvariant == Spec => []StockInv
<1>1. Init => StockInv
  BY IssuedInit, OrdersAssumption
<1>2. StockInv /\ [Next]_vars => StockInv'
  BY IssuedNext, OrdersAssumption
<1> QED
  BY <1>1, <1>2, PTL DEF Spec

LEMMA BalanceInit ==
    ASSUME OrdersAssumption, Init, NEW p \in Product PROVE Balance(p) = 0
<1>1. \A o \in Order : Held(p)[o] = 0
  BY DEF Init, Held, Live, AbsentRow, Forgotten
<1>2. HeldUnits(p) = 0
  BY <1>1, TotalZero DEF HeldUnits
<1>3. stock[p] = OpeningStock[p] /\ produced[p] = 0 /\ OpeningStock[p] \in Nat
  BY DEF Init, OrdersAssumption
<1> QED
  BY <1>2, <1>3 DEF Balance, Supply

BalanceInt == \A p \in Product : Balance(p) \in Int

LEMMA BalanceIsInt == StockInv => BalanceInt
<1> SUFFICES ASSUME StockInv, NEW p \in Product PROVE Balance(p) \in Int
  BY DEF BalanceInt
<1>1. HeldUnits(p) \in Nat /\ Supply(p) \in Int /\ stock[p] \in Int
  BY HeldNat, OrdersAssumption DEF StockInv, TypeOK
<1> QED
  BY <1>1 DEF Balance

LEMMA BalanceIsIntNext == StockInv' => BalanceInt'
  BY BalanceIsInt, PTL

LEMMA BalanceNext ==
    ASSUME OrdersAssumption, StockInv, [Next]_vars, NEW p \in Product
    PROVE  \/ Balance(p)' = Balance(p)
           \/ \E r \in Request : /\ WriteStatus(r) \/ WriteCancel(r)
                                 /\ Balance(p)' >= Balance(p)
                                 /\ ~Live(request[r].order)
<1>0. StockInv'
  BY IssuedNext
<1>1. CASE CustomerNext \/ WorkshopNext \/ UNCHANGED vars
  BY <1>0, <1>1, BalanceOthers
<1>2. CASE AdminNext
  <2>1. ASSUME NEW r \in Request, WriteStatus(r) \/ WriteCancel(r)
        PROVE  \/ Balance(p)' = Balance(p)
               \/ Balance(p)' >= Balance(p) /\ ~Live(request[r].order)
    BY <1>0, <2>1, BalanceWritten
  <2> QED
    BY <1>0, <1>2, <2>1, BalanceOthers DEF AdminNext
<1> QED
  BY <1>1, <1>2 DEF Next

\* However checkouts, allocations, production, moves to the ledger and any
\* number of admin requests on stale reads interleave, no unit disappears:
\* what a cancelled order had taken is back on the shelf, but for what such a
\* move makes it forget.
THEOREM NoUnitIsLost == Spec => []NoUnitLost
<1>1. Init => NoUnitLost
  BY BalanceInit, OrdersAssumption DEF NoUnitLost
<1>2. ASSUME StockInv, StockInv', NoUnitLost, [Next]_vars
      PROVE  NoUnitLost'
  <2>1. \A p \in Product : Balance(p) >= 0 /\ Balance(p) \in Int
    BY <1>2, BalanceIsInt DEF BalanceInt, NoUnitLost
  <2>2. \A p \in Product : Balance(p)' \in Int
    BY <1>2, BalanceIsIntNext DEF BalanceInt
  <2>3. \A p \in Product : Balance(p)' = Balance(p) \/ Balance(p)' >= Balance(p)
    BY <1>2, BalanceNext, OrdersAssumption
  <2> QED
    BY <2>1, <2>2, <2>3 DEF NoUnitLost
<1> QED
  BY <1>1, <1>2, StockInvariant, PTL DEF Spec

\* One step of any number of requests, as MiscountedOnlyByOverwrite has it.
OverwriteStep ==
    \A p \in Product : Balance(p)' = Balance(p)
        \/ \E r \in Request : OverwritesCancellation(r)

\* No unit is made from nothing unless an update_status is committed over a
\* cancellation that it has not seen: whatever else overlaps, shelf and orders
\* hold together what came in.
THEOREM OnlyOverwritesMiscount == Spec => MiscountedOnlyByOverwrite
<1>1. ASSUME StockInv, [Next]_vars PROVE OverwriteStep
  <2> SUFFICES ASSUME NEW p \in Product, Balance(p)' /= Balance(p)
               PROVE  \E r \in Request : OverwritesCancellation(r)
    BY DEF OverwriteStep
  <2>1. PICK r \in Request : /\ WriteStatus(r) \/ WriteCancel(r)
                             /\ ~Live(request[r].order)
    BY <1>1, BalanceNext, OrdersAssumption
  <2>2. /\ request[r].op \in {"status", "release"}
        /\ request'[r] = Idle
    BY <1>1, <2>1 DEF WriteStatus, WriteCancel, StockInv, TypeOK
  <2>3. order[request[r].order].status = "cancelled"
    BY <1>1, <2>1, <2>2 DEF StockInv, AskedIsPlaced, Idle, Live
  <2> QED
    BY <2>2, <2>3 DEF OverwritesCancellation
<1>2. Spec => [][OverwriteStep]_vars
  BY <1>1, StockInvariant, PTL DEF Spec
<1> QED
  BY <1>2 DEF MiscountedOnlyByOverwrite, OverwriteStep

\* Served one at a time, no unit is put back twice either: what is on the
\* shelf and with the orders is always what came in.
THEOREM SerialConserves == SerialSpec => []StockConserved
<1>1. Init => StockConserved
  BY BalanceInit, OrdersAssumption DEF StockConserved
<1>2. ASSUME StockInv, SerialInv, StockConserved, [Next]_vars
      PROVE  StockConserved'
  <2>1. \A r \in Request :
            WriteStatus(r) \/ WriteCancel(r) => Live(request[r].order)
    BY <1>2 DEF SerialInv, ReadsStillValid, ValidTransitions, Live,
                WriteStatus, WriteCancel
  <2>2. \A p \in Product : Balance(p)' = Balance(p)
    BY <1>2, <2>1, BalanceNext, OrdersAssumption
  <2> QED
    BY <1>2, <2>2 DEF StockConserved
<1>3. SerialSpec => []StockInv
  BY StockInvariant DEF SerialSpec
<1> QED
  BY <1>1, <1>2, <1>3, SerialInvariant, PTL DEF Spec, SerialSpec

-----------------------------------------------------------------------------
(* What a handler or a sweep holds while it is in flight.                  *)

LEMMA JobKinds ==
    ASSUME CardTypeOK, NEW h \in Handler
    PROVE  /\ job[h].op = "create"    => job[h] \in SessionJob
           /\ job[h].op = "persist"   => job[h] \in PersistJob
           /\ job[h].op = "completed" => job[h] \in WebhookJob
  BY DEF CardTypeOK, SessionJob, PersistJob, WebhookJob, Idle

LEMMA SweepKinds ==
    ASSUME CardTypeOK, NEW w \in Sweeper
    PROVE  /\ sweep[w].op \in {"close", "closing"} => sweep[w] \in ClosingSweep
           /\ sweep[w].op \in {"review", "marking"} => sweep[w] \in ReviewSweep
  BY DEF CardTypeOK, ClosingSweep, ReviewSweep, Idle

LEMMA StripeKinds ==
    ASSUME CardTypeOK, NEW s \in Session, stripe[s].state /= "unused"
    PROVE  stripe[s] \in StripeSession
  BY DEF CardTypeOK, Unused

-----------------------------------------------------------------------------
(* Types.                                                                  *)

LEMMA RowEdits ==
    ASSUME NEW row \in Row
    PROVE  /\ \A read \in Payment : Retried(row, read) \in Row
           /\ \A outcome \in Outcome : Completed(row, outcome) \in Row
           /\ Closed(row) \in Row
           /\ [row EXCEPT !.payment = "review_required"] \in Row
           /\ [row EXCEPT !.payment = "review_required",
                          !.reservation = "held"] \in Row
<1>1. \A payment \in Payment : [row EXCEPT !.payment = payment] \in Row
  BY DEF Row
<1>2. \A read \in Payment : Retried(row, read) \in Row
  BY <1>1 DEF Retried, Payment
<1>3. \A outcome \in Outcome : Completed(row, outcome) \in Row
  BY <1>1 DEF Completed, Payment, Outcome
<1>4. Closed(row) \in Row
  BY DEF Closed, Row, Status, Fulfillment, Payment
<1>5. [row EXCEPT !.payment = "review_required",
                  !.reservation = "held"] \in Row
  BY DEF Row, Payment
<1> QED
  BY <1>1, <1>2, <1>3, <1>4, <1>5 DEF Payment

\* Only the order table of the order service changes, in one row.
LEMMA RowChange ==
    ASSUME TypeOK, NEW o \in Order, NEW row \in Row,
           order' = [order EXCEPT ![o] = row],
           UNCHANGED <<stockVars, item, issued, emails, request>>
    PROVE  TypeOK'
  BY DEF TypeOK, stockVars

LEMMA PlaceCardOrderType ==
    ASSUME OrdersAssumption, CardTypeOK, NEW h \in Handler, NEW o \in Order,
           NEW basket \in [Product -> 0..MaxQuantity],
           PlaceCardOrder(h, o, basket)
    PROVE  CardTypeOK'
<1>1. TypeOK'
  BY CheckoutType DEF PlaceCardOrder, CardTypeOK, Method
<1>2. [op |-> "create", order |-> o, payment |-> "pending"] \in SessionJob
  BY DEF SessionJob, Payment
<1> QED
  BY <1>1, <1>2 DEF PlaceCardOrder, CardTypeOK, sessionVars, webhookVars

LEMMA SessionType ==
    ASSUME CardTypeOK, NEW h \in Handler
    PROVE  /\ \A o \in Order : StartRetry(h, o) => CardTypeOK'
           /\ \A s \in Session : CreateSession(h, s) => CardTypeOK'
           /\ PersistSession(h) => CardTypeOK'
           /\ SessionRefused(h) => CardTypeOK'
<1>1. ASSUME UNCHANGED vars PROVE TypeOK'
  BY <1>1 DEF CardTypeOK, TypeOK, vars
<1>2. ASSUME NEW o \in Order, StartRetry(h, o) PROVE CardTypeOK'
  <2>1. [op |-> "create", order |-> o, payment |-> order[o].payment]
            \in SessionJob
    BY DEF SessionJob, CardTypeOK, TypeOK, Row
  <2> QED
    BY <1>1, <1>2, <2>1
       DEF StartRetry, CardTypeOK, sessionVars, webhookVars
<1>3. ASSUME NEW s \in Session, CreateSession(h, s) PROVE CardTypeOK'
  <2>1. job[h] \in SessionJob
    BY <1>3, JobKinds DEF CreateSession
  <2>2. [state |-> "created", order |-> job[h].order] \in StripeSession
    BY <2>1 DEF StripeSession, SessionJob
  <2>3. [op |-> "persist", order |-> job[h].order,
         payment |-> job[h].payment, session |-> s] \in PersistJob
    BY <2>1 DEF PersistJob, SessionJob
  <2> QED
    BY <1>1, <1>3, <2>2, <2>3 DEF CreateSession, CardTypeOK, webhookVars
<1>4. ASSUME PersistSession(h) PROVE CardTypeOK'
  <2>1. job[h] \in PersistJob
    BY <1>4, JobKinds DEF PersistSession
  <2>2. /\ job[h].order \in Order /\ job[h].payment \in Payment
        /\ job[h].session \in Session
    BY <2>1 DEF PersistJob
  <2>3. Retried(order[job[h].order], job[h].payment) \in Row
    BY <2>2, RowEdits DEF CardTypeOK, TypeOK
  <2>4. TypeOK'
    BY <1>4, <2>2, <2>3, RowChange DEF PersistSession, CardTypeOK
  <2>5. stripe' \in [Session -> {Unused} \cup StripeSession]
    BY <1>4, <2>2 DEF PersistSession, CardTypeOK, StripeSession, Unused
  <2> QED
    BY <1>4, <2>2, <2>4, <2>5 DEF PersistSession, CardTypeOK, webhookVars
<1>5. ASSUME SessionRefused(h) PROVE CardTypeOK'
  BY <1>1, <1>5 DEF SessionRefused, CardTypeOK, sessionVars, webhookVars
<1> QED
  BY <1>2, <1>3, <1>4, <1>5

LEMMA StripeType ==
    ASSUME CardTypeOK
    PROVE  /\ \A s \in Session : CustomerPays(s) => CardTypeOK'
           /\ \A s \in Session : SessionExpires(s) => CardTypeOK'
           /\ \A s \in Session : DeliverExpired(s) => CardTypeOK'
           /\ \A o \in Order : DayPasses(o) => CardTypeOK'
<1>1. ASSUME UNCHANGED vars PROVE TypeOK'
  BY <1>1 DEF CardTypeOK, TypeOK, vars
<1>2. ASSUME NEW s \in Session, stripe[s].state = "open",
             NEW state \in {"paid", "expired"},
             stripe' = [stripe EXCEPT ![s].state = state]
      PROVE  stripe' \in [Session -> {Unused} \cup StripeSession]
  <2>1. [stripe[s] EXCEPT !.state = state] \in StripeSession
    BY <1>2, StripeKinds DEF StripeSession
  <2> QED
    BY <1>2, <2>1 DEF CardTypeOK
<1>3. ASSUME NEW s \in Session, CustomerPays(s) PROVE CardTypeOK'
  BY <1>1, <1>2, <1>3 DEF CustomerPays, CardTypeOK, webhookVars
<1>4. ASSUME NEW s \in Session, SessionExpires(s) PROVE CardTypeOK'
  BY <1>1, <1>2, <1>4 DEF SessionExpires, CardTypeOK, webhookVars
<1>5. ASSUME NEW s \in Session, DeliverExpired(s) PROVE CardTypeOK'
  <2>1. stripe[s].order \in Order
    BY <1>5, StripeKinds DEF DeliverExpired, StripeSession
  <2>2. order[stripe[s].order] \in Row
    BY <2>1 DEF CardTypeOK, TypeOK
  <2>3. TypeOK'
    <3>1. CASE ExpiryMatters(stripe[s].order, s)
      BY <1>5, <2>1, <2>2, <3>1, RowEdits, RowChange
         DEF DeliverExpired, CardTypeOK
    <3>2. CASE ~ExpiryMatters(stripe[s].order, s)
      BY <1>1, <1>5, <3>2 DEF DeliverExpired, vars, stockVars
    <3> QED
      BY <3>1, <3>2
  <2> QED
    BY <1>5, <2>3 DEF DeliverExpired, CardTypeOK, sessionVars
<1>6. ASSUME NEW o \in Order, DayPasses(o) PROVE CardTypeOK'
  BY <1>1, <1>6 DEF DayPasses, CardTypeOK, sessionVars, webhookVars
<1> QED
  BY <1>3, <1>4, <1>5, <1>6

LEMMA WebhookType ==
    ASSUME CardTypeOK, NEW h \in Handler
    PROVE  /\ \A s \in Session : ReadCompleted(h, s) => CardTypeOK'
           /\ /\ WriteCompleted(h)
              /\ stripe[job[h].session].state = "paid"
              => CardTypeOK'
<1>1. ASSUME NEW s \in Session, ReadCompleted(h, s) PROVE CardTypeOK'
  <2>1. OutcomeFor(stripe[s].order, s) \in Outcome
    BY DEF OutcomeFor, Outcome
  <2>2. [op |-> "completed", session |-> s,
         outcome |-> OutcomeFor(stripe[s].order, s)] \in WebhookJob
    BY <2>1 DEF WebhookJob
  <2>3. TypeOK'
    BY <1>1 DEF ReadCompleted, CardTypeOK, TypeOK, vars
  <2> QED
    BY <1>1, <2>2, <2>3
       DEF ReadCompleted, CardTypeOK, sessionVars, webhookVars
<1>2. ASSUME WriteCompleted(h), stripe[job[h].session].state = "paid"
      PROVE  CardTypeOK'
  <2>1. job[h].session \in Session /\ job[h].outcome \in Outcome
    BY <1>2, JobKinds DEF WriteCompleted, WebhookJob
  <2> DEFINE o == stripe[job[h].session].order
  <2>2. o \in Order
    BY <1>2, <2>1, StripeKinds DEF StripeSession
  <2>3. Completed(order[o], job[h].outcome) \in Row
    BY <2>1, <2>2, RowEdits DEF CardTypeOK, TypeOK
  <2>4. TypeOK'
    BY <1>2, <2>2, <2>3
       DEF WriteCompleted, CardTypeOK, TypeOK, stockVars, Event
  <2>5. thanks' \in [Order -> Nat] /\ alerts' \in SUBSET Order
    BY <1>2, <2>2 DEF WriteCompleted, CardTypeOK, Alerted
  <2> QED
    BY <1>2, <2>1, <2>4, <2>5 DEF WriteCompleted, CardTypeOK, sessionVars
<1> QED
  BY <1>1, <1>2

LEMMA SweeperType ==
    ASSUME CardTypeOK, NEW w \in Sweeper
    PROVE  /\ \A o \in Order : StartSweep(w, o) => CardTypeOK'
           /\ RereadForClose(w) => CardTypeOK'
           /\ CloseOrder(w) => CardTypeOK'
           /\ ExpireAtStripe(w) => CardTypeOK'
           /\ MarkForReview(w) => CardTypeOK'
<1>1. ASSUME UNCHANGED vars PROVE TypeOK'
  BY <1>1 DEF CardTypeOK, TypeOK, vars
<1>2. ASSUME NEW o \in Order, StartSweep(w, o) PROVE CardTypeOK'
  <2>1. [op |-> "close", order |-> o] \in ClosingSweep
    BY DEF ClosingSweep
  <2>2. [op |-> "review", order |-> o, session |-> session[o]] \in ReviewSweep
    BY DEF ReviewSweep, CardTypeOK
  <2> QED
    BY <1>1, <1>2, <2>1, <2>2
       DEF StartSweep, CardTypeOK, sessionVars, webhookVars
<1>3. ASSUME RereadForClose(w) PROVE CardTypeOK'
  <2>1. sweep[w].order \in Order
    BY <1>3, SweepKinds DEF RereadForClose, ClosingSweep
  <2>2. [op |-> "closing", order |-> sweep[w].order] \in ClosingSweep
    BY <2>1 DEF ClosingSweep
  <2> QED
    BY <1>1, <1>3, <2>2
       DEF RereadForClose, CardTypeOK, sessionVars, webhookVars
<1>4. ASSUME CloseOrder(w) PROVE CardTypeOK'
  <2> DEFINE o == sweep[w].order
  <2>1. o \in Order
    BY <1>4, SweepKinds DEF CloseOrder, ClosingSweep
  <2>2. Closed(order[o]) \in Row
    BY <2>1, RowEdits DEF CardTypeOK, TypeOK
  <2>3. stock' \in [Product -> Int] /\ ledger' \in [Product -> Int]
    BY <1>4, <2>1, ReleaseStockType DEF CloseOrder, CardTypeOK
  <2>4. TypeOK'
    BY <1>4, <2>1, <2>2, <2>3 DEF CloseOrder, CardTypeOK, TypeOK
  <2> QED
    BY <1>4, <2>4 DEF CloseOrder, CardTypeOK, sessionVars, webhookVars
<1>5. ASSUME ExpireAtStripe(w) PROVE CardTypeOK'
  <2> DEFINE s == sweep[w].session
  <2>1. /\ sweep[w].order \in Order
        /\ s \in Session \cup {NoSession}
    BY <1>5, SweepKinds DEF ExpireAtStripe, ReviewSweep
  <2>2. [op |-> "marking", order |-> sweep[w].order, session |-> s]
            \in ReviewSweep
    BY <2>1 DEF ReviewSweep
  <2>3. stripe' \in [Session -> {Unused} \cup StripeSession]
    <3>1. CASE UNCHANGED stripe
      BY <3>1 DEF CardTypeOK
    <3>2. CASE /\ s \in Session
               /\ stripe[s].state = "open"
               /\ stripe' = [stripe EXCEPT ![s].state = "expired"]
      <4>1. [stripe[s] EXCEPT !.state = "expired"] \in StripeSession
        BY <3>2, StripeKinds DEF StripeSession
      <4> QED
        BY <3>2, <4>1 DEF CardTypeOK
    <3> QED
      BY <1>5, <3>1, <3>2 DEF ExpireAtStripe
  <2> QED
    BY <1>1, <1>5, <2>2, <2>3 DEF ExpireAtStripe, CardTypeOK, webhookVars
<1>6. ASSUME MarkForReview(w) PROVE CardTypeOK'
  <2> DEFINE o == sweep[w].order
  <2>1. o \in Order
    BY <1>6, SweepKinds DEF MarkForReview, ReviewSweep
  <2>2. [order[o] EXCEPT !.payment = "review_required",
                         !.reservation = "held"] \in Row
    BY <2>1, RowEdits DEF CardTypeOK, TypeOK
  <2>3. order' \in [Order -> Row]
    BY <1>6, <2>1, <2>2 DEF MarkForReview, CardTypeOK, TypeOK
  <2>4. TypeOK'
    BY <1>6, <2>3 DEF MarkForReview, CardTypeOK, TypeOK, stockVars
  <2> QED
    BY <1>6, <2>4 DEF MarkForReview, CardTypeOK, sessionVars, webhookVars
<1> QED
  BY <1>2, <1>3, <1>4, <1>5, <1>6

LEMMA CrashType ==
    ASSUME CardAssumption, CardTypeOK
    PROVE  /\ \A h \in Handler : HandlerCrash(h) => CardTypeOK'
           /\ \A w \in Sweeper : SweeperCrash(w) => CardTypeOK'
<1>1. ASSUME UNCHANGED vars PROVE TypeOK'
  BY <1>1 DEF CardTypeOK, TypeOK, vars
<1>2. crashes < MaxCrashes => crashes + 1 \in 0..MaxCrashes
  BY DEF CardAssumption, CardTypeOK
<1> QED
  BY <1>1, <1>2
     DEF HandlerCrash, SweeperCrash, CardTypeOK, sessionVars, webhookVars

LEMMA ShopType ==
    ASSUME OrdersAssumption, CardTypeOK, ShopNext
    PROVE  CardTypeOK'
<1>1. TypeOK'
  BY NextType DEF CardTypeOK, ShopNext
<1> QED
  BY <1>1 DEF ShopNext, CardTypeOK, cardVars

-----------------------------------------------------------------------------
(* One thank-you email per captured payment.  stripe_events makes the      *)
(* webhooks of one event id exclusive: a session whose event is being      *)
(* handled is not in seen and is handled once.  A session that is being    *)
(* stored was just created, so storing it never undoes a payment.          *)

JobInv ==
    /\ \A s \in seen : stripe[s].state = "paid"
    /\ \A h \in Handler : job[h].op = "persist" =>
           stripe[job[h].session].state = "created"
    /\ \A h \in Handler : job[h].op = "completed" =>
           stripe[job[h].session].state = "paid" /\ job[h].session \notin seen
    /\ \A g, h \in Handler :
           /\ g /= h
           /\ job[g].op = job[h].op
           /\ job[g].op \in {"persist", "completed"}
           => job[g].session /= job[h].session

Counted(o) == {s \in seen : stripe[s].order = o}

ThankInv ==
    /\ CardTypeOK
    /\ JobInv
    /\ \A o \in Order : thanks[o] <= Cardinality(Counted(o))

LEMMA ThankInvImplies ==
    ASSUME CardAssumption, ThankInv
    PROVE  ThankedOncePerCapture
<1> SUFFICES ASSUME NEW o \in Order
             PROVE  thanks[o] <= Cardinality(Captured(o))
  BY DEF ThankedOncePerCapture
<1>1. Counted(o) \subseteq Captured(o)
  BY DEF Counted, Captured, ThankInv, JobInv, CardTypeOK
<1>2. IsFiniteSet(Captured(o))
  BY FS_Subset DEF CardAssumption, Captured
<1>3. /\ IsFiniteSet(Counted(o))
      /\ Cardinality(Counted(o)) <= Cardinality(Captured(o))
  BY <1>1, <1>2, FS_Subset
<1>4. /\ Cardinality(Counted(o)) \in Nat
      /\ Cardinality(Captured(o)) \in Nat
  BY <1>2, <1>3, FS_CardinalityType
<1> QED
  BY <1>3, <1>4 DEF ThankInv, CardTypeOK

LEMMA ThankInit ==
    ASSUME OrdersAssumption, CardAssumption, CardInit
    PROVE  ThankInv
<1>1. CardTypeOK
  BY InitType DEF CardInit, CardTypeOK, CardAssumption, Unused
<1>2. JobInv
  BY DEF CardInit, JobInv, Idle
<1>3. ASSUME NEW o \in Order PROVE thanks[o] <= Cardinality(Counted(o))
  <2>1. Counted(o) = {} /\ thanks[o] = 0
    BY DEF CardInit, Counted
  <2> QED
    BY <2>1, FS_EmptySet
<1> QED
  BY <1>1, <1>2, <1>3 DEF ThankInv

\* Steps that touch neither the sessions nor the webhook's records.
LEMMA ThankUnchanged ==
    ASSUME ThankInv, CardTypeOK', UNCHANGED <<stripe, seen, thanks, job>>
    PROVE  ThankInv'
<1>1. JobInv'
  BY DEF ThankInv, JobInv
<1>2. \A o \in Order : Counted(o)' = Counted(o)
  BY DEF Counted
<1> QED
  BY <1>1, <1>2 DEF ThankInv

\* Steps after which a handler is idle or about to call Stripe.
LEMMA ThankIdle ==
    ASSUME ThankInv, CardTypeOK', NEW h \in Handler,
           job'[h].op \in {"idle", "create"},
           \A g \in Handler \ {h} : job'[g] = job[g],
           UNCHANGED <<stripe, seen, thanks>>
    PROVE  ThankInv'
<1>1. JobInv'
  BY DEF ThankInv, JobInv
<1>2. \A o \in Order : Counted(o)' = Counted(o)
  BY DEF Counted
<1> QED
  BY <1>1, <1>2 DEF ThankInv

\* An open session is paid or expires.
LEMMA ThankStripe ==
    ASSUME ThankInv, CardTypeOK', NEW s \in Session, stripe[s].state = "open",
           NEW state \in {"paid", "expired"},
           stripe' = [stripe EXCEPT ![s].state = state],
           UNCHANGED <<seen, thanks, job>>
    PROVE  ThankInv'
<1>1. s \notin seen
  BY DEF ThankInv, JobInv
<1>2. \A t \in Session \ {s} : stripe'[t] = stripe[t]
  BY DEF ThankInv, CardTypeOK
<1>3. seen \subseteq Session
  BY DEF ThankInv, CardTypeOK
<1>4. \A h \in Handler : job[h].op \in {"persist", "completed"} =>
          job[h].session \in Session \ {s}
  BY JobKinds DEF ThankInv, JobInv, PersistJob, WebhookJob
<1>5. JobInv'
  BY <1>1, <1>2, <1>3, <1>4 DEF ThankInv, JobInv
<1>6. \A o \in Order : Counted(o)' = Counted(o)
  BY <1>1, <1>2, <1>3 DEF Counted
<1> QED
  BY <1>5, <1>6 DEF ThankInv

LEMMA ThankCreate ==
    ASSUME ThankInv, NEW h \in Handler, NEW s \in Session, CreateSession(h, s)
    PROVE  ThankInv'
<1>1. CardTypeOK'
  BY SessionType DEF ThankInv
<1>2. /\ stripe'[s].state = "created" /\ stripe[s].state = "unused"
      /\ \A t \in Session \ {s} : stripe'[t] = stripe[t]
      /\ job'[h].op = "persist" /\ job'[h].session = s
      /\ \A g \in Handler \ {h} : job'[g] = job[g]
      /\ seen' = seen /\ thanks' = thanks
  BY DEF CreateSession, ThankInv, CardTypeOK, webhookVars
<1>3. s \notin seen /\ seen \subseteq Session
  BY <1>2 DEF ThankInv, JobInv, CardTypeOK
<1>4. \A g \in Handler \ {h} : job[g].op \in {"persist", "completed"} =>
          job[g].session \in Session \ {s}
  BY <1>2, JobKinds DEF ThankInv, JobInv, PersistJob, WebhookJob
<1>5. JobInv'
  BY <1>2, <1>3, <1>4 DEF ThankInv, JobInv
<1>6. \A o \in Order : Counted(o)' = Counted(o)
  BY <1>2, <1>3 DEF Counted
<1> QED
  BY <1>1, <1>2, <1>5, <1>6 DEF ThankInv

LEMMA ThankPersist ==
    ASSUME ThankInv, NEW h \in Handler, PersistSession(h)
    PROVE  ThankInv'
<1> DEFINE s == job[h].session
<1>1. CardTypeOK'
  BY SessionType DEF ThankInv
<1>2. s \in Session /\ stripe[s].state = "created"
  BY JobKinds DEF PersistSession, ThankInv, JobInv, PersistJob
<1>3. /\ \A t \in Session \ {s} : stripe'[t] = stripe[t]
      /\ job'[h] = Idle
      /\ \A g \in Handler \ {h} : job'[g] = job[g]
      /\ seen' = seen /\ thanks' = thanks
  BY <1>2 DEF PersistSession, ThankInv, CardTypeOK, webhookVars
<1>4. s \notin seen /\ seen \subseteq Session
  BY <1>2 DEF ThankInv, JobInv, CardTypeOK
<1>5. \A g \in Handler \ {h} : job[g].op \in {"persist", "completed"} =>
          job[g].session \in Session \ {s}
  BY <1>2, JobKinds
     DEF ThankInv, JobInv, PersistJob, WebhookJob, PersistSession
<1>6. JobInv'
  BY <1>3, <1>4, <1>5 DEF ThankInv, JobInv, Idle
<1>7. \A o \in Order : Counted(o)' = Counted(o)
  BY <1>3, <1>4 DEF Counted
<1> QED
  BY <1>1, <1>3, <1>6, <1>7 DEF ThankInv

LEMMA ThankRead ==
    ASSUME ThankInv, NEW h \in Handler, NEW s \in Session, ReadCompleted(h, s)
    PROVE  ThankInv'
<1>1. CardTypeOK'
  BY WebhookType DEF ThankInv
<1>2. /\ job'[h].op = "completed" /\ job'[h].session = s
      /\ \A g \in Handler \ {h} : job'[g] = job[g]
      /\ UNCHANGED <<stripe, seen, thanks>>
  BY DEF ReadCompleted, ThankInv, CardTypeOK, sessionVars, webhookVars
<1>3. JobInv'
  BY <1>2 DEF ReadCompleted, ThankInv, JobInv
<1>4. \A o \in Order : Counted(o)' = Counted(o)
  BY <1>2 DEF Counted
<1> QED
  BY <1>1, <1>2, <1>3, <1>4 DEF ThankInv

LEMMA ThankWrite ==
    ASSUME CardAssumption, ThankInv, NEW h \in Handler, WriteCompleted(h)
    PROVE  ThankInv'
<1> DEFINE s == job[h].session
           owner == stripe[s].order
<1>1. s \in Session /\ stripe[s].state = "paid" /\ s \notin seen
  BY JobKinds DEF WriteCompleted, ThankInv, JobInv, WebhookJob
<1>2. CardTypeOK'
  BY <1>1, WebhookType DEF ThankInv
<1>3. /\ job'[h] = Idle
      /\ \A g \in Handler \ {h} : job'[g] = job[g]
      /\ stripe' = stripe /\ seen' = seen \cup {s}
  BY DEF WriteCompleted, ThankInv, CardTypeOK, sessionVars
<1>4. \A g \in Handler \ {h} : job[g].op = "completed" => job[g].session /= s
  BY DEF WriteCompleted, ThankInv, JobInv
<1>5. JobInv'
  BY <1>1, <1>3, <1>4 DEF ThankInv, JobInv, Idle
<1>6. ASSUME NEW o \in Order
      PROVE  thanks'[o] <= Cardinality(Counted(o)')
  <2>1. IsFiniteSet(Counted(o)) /\ thanks[o] \in Nat
    <3>1. Counted(o) \subseteq Session
      BY DEF Counted, ThankInv, CardTypeOK
    <3> QED
      BY <3>1, FS_Subset DEF CardAssumption, ThankInv, CardTypeOK
  <2>2. Cardinality(Counted(o)) \in Nat
    BY <2>1, FS_CardinalityType
  <2>3. CASE o = owner
    <3>1. Counted(o)' = Counted(o) \cup {s} /\ s \notin Counted(o)
      BY <1>1, <1>3, <2>3 DEF Counted
    <3>2. Cardinality(Counted(o)') = Cardinality(Counted(o)) + 1
      BY <2>1, <3>1, FS_AddElement
    <3>3. thanks'[o] \in {thanks[o], thanks[o] + 1}
      BY <2>3 DEF WriteCompleted, ThankInv, CardTypeOK
    <3>4. thanks[o] <= Cardinality(Counted(o))
      BY DEF ThankInv
    <3> HIDE DEF owner, s
    <3> QED
      BY <2>1, <2>2, <3>2, <3>3, <3>4
  <2>4. CASE o /= owner
    <3>1. Counted(o)' = Counted(o)
      BY <1>3, <2>4 DEF Counted
    <3>2. thanks'[o] = thanks[o]
      BY <2>4 DEF WriteCompleted, ThankInv, CardTypeOK
    <3> QED
      BY <3>1, <3>2 DEF ThankInv
  <2> QED
    BY <2>3, <2>4
<1> QED
  BY <1>2, <1>5, <1>6 DEF ThankInv

LEMMA ThankNext ==
    ASSUME OrdersAssumption, CardAssumption, ThankInv, [CardNext]_allVars
    PROVE  ThankInv'
<1>1. CASE ShopNext
  BY <1>1, ShopType, ThankUnchanged DEF ShopNext, cardVars, ThankInv
<1>2. ASSUME NEW h \in Handler, NEW o \in Order,
             NEW basket \in [Product -> 0..MaxQuantity],
             PlaceCardOrder(h, o, basket)
      PROVE  ThankInv'
  <2>1. CardTypeOK'
    BY <1>2, PlaceCardOrderType DEF ThankInv
  <2>2. /\ job'[h].op \in {"idle", "create"}
        /\ \A g \in Handler \ {h} : job'[g] = job[g]
        /\ UNCHANGED <<stripe, seen, thanks>>
    BY <1>2 DEF PlaceCardOrder, sessionVars, webhookVars, ThankInv,
            CardTypeOK
  <2> QED
    BY <2>1, <2>2, ThankIdle
<1>3. ASSUME NEW h \in Handler, NEW o \in Order, StartRetry(h, o)
      PROVE  ThankInv'
  <2>1. CardTypeOK'
    BY <1>3, SessionType DEF ThankInv
  <2>2. /\ job'[h].op \in {"idle", "create"}
        /\ \A g \in Handler \ {h} : job'[g] = job[g]
        /\ UNCHANGED <<stripe, seen, thanks>>
    BY <1>3 DEF StartRetry, sessionVars, webhookVars, ThankInv,
            CardTypeOK
  <2> QED
    BY <2>1, <2>2, ThankIdle
<1>4. ASSUME NEW h \in Handler, SessionRefused(h) \/ HandlerCrash(h)
      PROVE  ThankInv'
  <2>1. CardTypeOK'
    BY <1>4, SessionType, CrashType DEF ThankInv
  <2>2. /\ job'[h].op \in {"idle", "create"}
        /\ \A g \in Handler \ {h} : job'[g] = job[g]
        /\ UNCHANGED <<stripe, seen, thanks>>
    BY <1>4 DEF SessionRefused, HandlerCrash, sessionVars, webhookVars, Idle,
            ThankInv, CardTypeOK
  <2> QED
    BY <2>1, <2>2, ThankIdle
<1>6. CASE HandlerNext
  BY <1>2, <1>3, <1>4, <1>6, ThankCreate, ThankPersist, ThankRead,
     ThankWrite DEF HandlerNext
<1>7. ASSUME NEW s \in Session, CustomerPays(s) \/ SessionExpires(s)
      PROVE  ThankInv'
  BY <1>7, StripeType, ThankStripe
     DEF CustomerPays, SessionExpires, webhookVars, ThankInv
<1>8. ASSUME NEW s \in Session, DeliverExpired(s)
      PROVE  ThankInv'
  BY <1>8, StripeType, ThankUnchanged DEF DeliverExpired, sessionVars, ThankInv
<1>9. ASSUME NEW o \in Order, DayPasses(o)
      PROVE  ThankInv'
  BY <1>9, StripeType, ThankUnchanged
     DEF DayPasses, sessionVars, webhookVars, ThankInv
<1>10. CASE StripeNext
  BY <1>7, <1>8, <1>9, <1>10 DEF StripeNext
<1>11. ASSUME NEW w \in Sweeper, ExpireAtStripe(w)
       PROVE  ThankInv'
  <2>1. CardTypeOK'
    BY <1>11, SweeperType DEF ThankInv
  <2>2. CASE UNCHANGED stripe
    BY <1>11, <2>1, <2>2, ThankUnchanged DEF ExpireAtStripe, webhookVars
  <2>3. ASSUME NEW s \in Session, stripe[s].state = "open",
               stripe' = [stripe EXCEPT ![s].state = "expired"]
        PROVE  ThankInv'
    BY <1>11, <2>1, <2>3, ThankStripe DEF ExpireAtStripe, webhookVars
  <2> QED
    BY <1>11, <2>2, <2>3 DEF ExpireAtStripe
<1>12. ASSUME NEW w \in Sweeper, NEW o \in Order, StartSweep(w, o)
       PROVE  ThankInv'
  BY <1>12, SweeperType, ThankUnchanged
     DEF StartSweep, sessionVars, webhookVars, ThankInv
<1>13. ASSUME NEW w \in Sweeper,
              RereadForClose(w) \/ CloseOrder(w) \/ MarkForReview(w)
       PROVE  ThankInv'
  BY <1>13, SweeperType, ThankUnchanged
     DEF RereadForClose, CloseOrder, MarkForReview, sessionVars, webhookVars,
         ThankInv
<1>14. ASSUME NEW w \in Sweeper, SweeperCrash(w)
       PROVE  ThankInv'
  BY <1>14, CrashType, ThankUnchanged
     DEF SweeperCrash, sessionVars, webhookVars, ThankInv
<1>15. CASE SweeperNext
  BY <1>11, <1>12, <1>13, <1>14, <1>15 DEF SweeperNext
<1>16. CASE UNCHANGED allVars
  <2>1. CardTypeOK'
    BY <1>16 DEF allVars, vars, cardVars, CardTypeOK, TypeOK, ThankInv
  <2> QED
    BY <1>16, <2>1, ThankUnchanged DEF allVars, cardVars
<1> QED
  BY <1>1, <1>6, <1>10, <1>15, <1>16 DEF CardNext

LEMMA ThankInvariant == CardSpec => []ThankInv
<1>1. CardInit => ThankInv
  BY ThankInit, OrdersAssumption, CardAssumption
<1>2. ThankInv /\ [CardNext]_allVars => ThankInv'
  BY ThankNext, OrdersAssumption, CardAssumption
<1> QED
  BY <1>1, <1>2, PTL DEF CardSpec

\* Every row, session and task in flight stays well formed, whatever crashes
\* and whatever Stripe delivers.
THEOREM CardTypeCorrect == CardSpec => []CardTypeOK
<1>1. ThankInv => CardTypeOK
  BY DEF ThankInv
<1> QED
  BY <1>1, ThankInvariant, PTL

\* For any number of concurrent and repeated webhook deliveries, of retries
\* and of sweepers, one captured payment queues at most one thank-you email.
THEOREM ThankedOnce == CardSpec => []ThankedOncePerCapture
<1>1. ThankInv => ThankedOncePerCapture
  BY ThankInvImplies, CardAssumption
<1> QED
  BY <1>1, ThankInvariant, PTL

-----------------------------------------------------------------------------
(* The payments below never put an order into 'refund_pending', and into   *)
(* 'refunded' only on the word of an admin.                                *)

NoneBecomes(payment) ==
    \A o \in Order : order'[o].payment = payment => order[o].payment = payment

NoneMarksRefunded ==
    \A r \in Request :
        request[r].op = "payment" => request[r].action /= "mark_refunded"

LEMMA ShopPayment ==
    ASSUME OrdersAssumption, TypeOK, Next,
           NEW x \in {"refund_pending", "refunded"},
           x = "refunded" => NoneMarksRefunded
    PROVE  NoneBecomes(x)
<1>1. ASSUME UNCHANGED order PROVE NoneBecomes(x)
  BY <1>1 DEF NoneBecomes
<1>2. ASSUME NEW o \in Order, NEW method \in OfferedMethod,
             NEW basket \in [Product -> 0..MaxQuantity],
             Checkout(o, method, basket)
      PROVE  NoneBecomes(x)
  BY <1>2 DEF Checkout, Placed, NoneBecomes, TypeOK
<1>3. ASSUME NEW o \in Order, MarkFulfillmentReady(o)
      PROVE  NoneBecomes(x)
  BY <1>3 DEF MarkFulfillmentReady, NoneBecomes, TypeOK, Row
<1>4. ASSUME NEW o \in Order, ReservationLapses(o)
      PROVE  NoneBecomes(x)
  BY <1>4 DEF ReservationLapses, NoneBecomes, TypeOK, Row
<1>5. CASE CustomerNext
  BY <1>2, <1>3, <1>4, <1>5 DEF CustomerNext
<1>6. CASE WorkshopNext
  BY <1>1, <1>6 DEF WorkshopNext, Produce, MoveToLedger
<1>7. ASSUME NEW r \in Request, WriteStatus(r)
      PROVE  NoneBecomes(x)
  BY <1>7 DEF WriteStatus, StatusUpdated, NoneBecomes, TypeOK, Row
<1>8. ASSUME NEW r \in Request, WritePayment(r)
      PROVE  NoneBecomes(x)
  BY <1>8 DEF WritePayment, PaymentUpdated, NoneBecomes, NoneMarksRefunded,
                   TypeOK, Row
<1>9. ASSUME NEW r \in Request, WriteCancel(r)
      PROVE  NoneBecomes(x)
  BY <1>9 DEF WriteCancel, Cancelled, NoneBecomes, TypeOK, Row
<1>10. ASSUME NEW r \in Request, RereadForCancel(r)
       PROVE  NoneBecomes(x)
  BY <1>1, <1>10 DEF RereadForCancel
<1>11. ASSUME NEW r \in Request, NEW o \in Order, NEW to \in Status,
              ReadForStatus(r, o, to)
       PROVE  NoneBecomes(x)
  BY <1>1, <1>11 DEF ReadForStatus
<1>12. ASSUME NEW r \in Request, NEW o \in Order, NEW action \in AdminAction,
              ReadForPayment(r, o, action)
       PROVE  NoneBecomes(x)
  BY <1>1, <1>12 DEF ReadForPayment
<1>13. CASE AdminNext
  BY <1>7, <1>8, <1>9, <1>10, <1>11, <1>12, <1>13 DEF AdminNext
<1> QED
  BY <1>5, <1>6, <1>13 DEF Next

LEMMA HandlerPayment ==
    ASSUME OrdersAssumption, CardTypeOK, HandlerNext,
           NEW x \in {"refund_pending", "refunded"}
    PROVE  NoneBecomes(x)
<1>1. ASSUME UNCHANGED vars PROVE NoneBecomes(x)
  BY <1>1 DEF NoneBecomes, vars
<1>2. TypeOK
  BY DEF CardTypeOK
<1>3. ASSUME NEW h \in Handler, NEW o \in Order,
             NEW basket \in [Product -> 0..MaxQuantity],
             PlaceCardOrder(h, o, basket)
      PROVE  NoneBecomes(x)
  BY <1>2, <1>3 DEF PlaceCardOrder, Checkout, Placed, NoneBecomes, TypeOK
<1>4. ASSUME NEW h \in Handler, PersistSession(h)
      PROVE  NoneBecomes(x)
  BY <1>2, <1>4
     DEF PersistSession, Retried, NoneBecomes, TypeOK, Row
<1>5. ASSUME NEW h \in Handler, WriteCompleted(h)
      PROVE  NoneBecomes(x)
  <2>1. job[h].outcome \in Outcome
    BY <1>5, JobKinds DEF WriteCompleted, WebhookJob
  <2>2. ASSUME NEW row \in Row
        PROVE  Completed(row, job[h].outcome).payment \in
                   {row.payment, "paid", "review_required"}
    BY <2>1 DEF Completed, Outcome, Row
  <2>3. \A o \in Order : order'[o].payment \in
                             {order[o].payment, "paid", "review_required"}
    BY <1>2, <1>5, <2>2 DEF WriteCompleted, TypeOK
  <2> QED
    BY <2>3 DEF NoneBecomes
<1>6. ASSUME NEW h \in Handler, NEW o \in Order, StartRetry(h, o)
      PROVE  NoneBecomes(x)
  BY <1>1, <1>6 DEF StartRetry
<1>7. ASSUME NEW h \in Handler, NEW s \in Session,
             CreateSession(h, s) \/ ReadCompleted(h, s)
      PROVE  NoneBecomes(x)
  BY <1>1, <1>7 DEF CreateSession, ReadCompleted
<1>8. ASSUME NEW h \in Handler, SessionRefused(h) \/ HandlerCrash(h)
      PROVE  NoneBecomes(x)
  BY <1>1, <1>8 DEF SessionRefused, HandlerCrash
<1> QED
  BY <1>3, <1>4, <1>5, <1>6, <1>7, <1>8 DEF HandlerNext

LEMMA SweepPayment ==
    ASSUME CardTypeOK, StripeNext \/ SweeperNext,
           NEW x \in {"refund_pending", "refunded"}
    PROVE  NoneBecomes(x)
<1>1. ASSUME UNCHANGED vars PROVE NoneBecomes(x)
  BY <1>1 DEF NoneBecomes, vars
<1>2. TypeOK
  BY DEF CardTypeOK
<1>3. ASSUME NEW s \in Session, CustomerPays(s) \/ SessionExpires(s)
      PROVE  NoneBecomes(x)
  BY <1>1, <1>3 DEF CustomerPays, SessionExpires
<1>4. ASSUME NEW s \in Session, DeliverExpired(s)
      PROVE  NoneBecomes(x)
  BY <1>2, <1>4 DEF DeliverExpired, NoneBecomes, TypeOK, Row
<1>5. ASSUME NEW o \in Order, DayPasses(o)
      PROVE  NoneBecomes(x)
  BY <1>1, <1>5 DEF DayPasses
<1>6. ASSUME NEW w \in Sweeper, CloseOrder(w)
      PROVE  NoneBecomes(x)
  BY <1>2, <1>6 DEF CloseOrder, Closed, NoneBecomes, TypeOK, Row
<1>7. ASSUME NEW w \in Sweeper, MarkForReview(w)
      PROVE  NoneBecomes(x)
  BY <1>2, <1>7 DEF MarkForReview, NoneBecomes, TypeOK, Row
<1>8. ASSUME NEW w \in Sweeper, NEW o \in Order, StartSweep(w, o)
      PROVE  NoneBecomes(x)
  BY <1>1, <1>8 DEF StartSweep
<1>9. ASSUME NEW w \in Sweeper,
             RereadForClose(w) \/ ExpireAtStripe(w) \/ SweeperCrash(w)
      PROVE  NoneBecomes(x)
  BY <1>1, <1>9 DEF RereadForClose, ExpireAtStripe, SweeperCrash
<1>10. CASE StripeNext
  BY <1>3, <1>4, <1>5, <1>10 DEF StripeNext
<1>11. CASE SweeperNext
  BY <1>6, <1>7, <1>8, <1>9, <1>11 DEF SweeperNext
<1> QED
  BY <1>10, <1>11

LEMMA CardPayment ==
    ASSUME OrdersAssumption, CardTypeOK, CardNext,
           NEW x \in {"refund_pending", "refunded"},
           x = "refunded" => NoneMarksRefunded
    PROVE  NoneBecomes(x)
<1>1. TypeOK
  BY DEF CardTypeOK
<1> QED
  BY <1>1, ShopPayment, HandlerPayment, SweepPayment DEF CardNext, ShopNext

-----------------------------------------------------------------------------
(* What is in flight refers to rows that exist.                            *)

Made(k) == refund[k] \in RefundRow

JobsMade == \A a \in Admin :
    refundJob[a].op \in {"call", "store", "fail"} => Made(refundJob[a].key)

ProviderMade == \A k \in Key : provider[k] /= "none" => Made(k)

EventsMade == \A e \in emitted \cap RefundEvent : Made(e.key)

DeliveriesMade == \A d \in Delivery : delivery[d] /= Idle =>
    /\ Made(delivery[d].event.key)
    /\ delivery[d].payment /= "refund_pending"

RefundInv ==
    /\ ThankInv
    /\ RefundTypeOK
    /\ JobsMade
    /\ ProviderMade
    /\ EventsMade
    /\ DeliveriesMade
    /\ PendingHasRefund

LEMMA RefundJobKinds ==
    ASSUME RefundTypeOK, NEW a \in Admin
    PROVE  /\ refundJob[a].op = "insert" => refundJob[a] \in InsertJob
           /\ refundJob[a].op \in {"call", "store", "fail"} =>
                  refundJob[a] \in CallJob
  BY DEF RefundTypeOK, InsertJob, CallJob, Idle

LEMMA RefundRowEdits ==
    ASSUME NEW row \in RefundRow
    PROVE  /\ [row EXCEPT !.matched = TRUE] \in RefundRow
           /\ \A status \in {"pending", "succeeded", "failed"} :
                  [row EXCEPT !.status = status] \in RefundRow
  BY DEF RefundRow

LEMMA PaymentAfterKinds ==
    ASSUME NEW e \in RefundEvent
    PROVE  PaymentAfter(e) \in {"review_required", "refunded",
                                "partially_refunded"}
  BY DEF PaymentAfter, PaymentAfterFailure

LEMMA RefundInitInv ==
    ASSUME OrdersAssumption, CardAssumption, RefundAssumption, RefundInit
    PROVE  RefundInv
<1>1. ThankInv
  BY ThankInit DEF RefundInit
<1>2. RefundTypeOK
  BY <1>1 DEF RefundInit, RefundTypeOK, RefundAssumption, ThankInv
<1>3. JobsMade /\ ProviderMade /\ EventsMade /\ DeliveriesMade
  BY DEF RefundInit, JobsMade, ProviderMade, EventsMade, DeliveriesMade, Idle
<1>4. PendingHasRefund
  BY DEF RefundInit, CardInit, Init, AbsentRow, PendingHasRefund
<1> QED
  BY <1>1, <1>2, <1>3, <1>4 DEF RefundInv

-----------------------------------------------------------------------------
(* Steps that leave the orders alone.                                      *)

\* Only the payment of one order changes, besides refund variables.
LEMMA PaymentWritten ==
    ASSUME RefundInv, NEW o \in Order, NEW payment \in Payment,
           order' = [order EXCEPT ![o].payment = payment],
           UNCHANGED <<stockVars, item, issued, emails, request, cardVars>>
    PROVE  ThankInv'
<1>1. order[o] \in Row
  BY DEF RefundInv, RefundTypeOK, CardTypeOK, TypeOK
<1>2. [order[o] EXCEPT !.payment = payment] \in Row
  BY <1>1 DEF Row
<1>3. TypeOK'
  BY <1>2, RowChange DEF RefundInv, RefundTypeOK, CardTypeOK
<1>4. CardTypeOK'
  BY <1>3 DEF RefundInv, RefundTypeOK, CardTypeOK, cardVars
<1> QED
  BY <1>4, ThankUnchanged DEF RefundInv, cardVars

LEMMA CardsUntouched ==
    ASSUME RefundInv, UNCHANGED allVars
    PROVE  ThankInv'
<1>1. CardTypeOK'
  BY DEF RefundInv, RefundTypeOK, CardTypeOK, TypeOK, allVars, vars, cardVars
<1> QED
  BY <1>1, ThankUnchanged DEF RefundInv, allVars, cardVars

\* The rows of payment_refunds keep their orders and statuses.
LEMMA PendingUntouched ==
    ASSUME RefundInv, UNCHANGED order,
           \A k \in Key : refund'[k].status = refund[k].status
                          /\ refund'[k].order = refund[k].order
    PROVE  PendingHasRefund'
  BY DEF RefundInv, PendingHasRefund, RefundsOf

\* What a request sums is a number.
LEMMA CommittedNat ==
    ASSUME RefundAssumption, RefundTypeOK, NEW o \in Order
    PROVE  Committed(o) \in Nat
<1> DEFINE s == RefundsOf(o, {"pending", "succeeded"})
           f == [k \in s |-> refund[k].amount]
<1>1. \A k \in s : k \in Key /\ refund[k] \in RefundRow
  BY DEF RefundsOf, RefundTypeOK, NoRefund
<1>2. \A k \in s : f[k] \in Nat
  BY <1>1 DEF RefundRow, RefundAssumption
<1>3. IsFiniteSet(s)
  BY <1>1, FS_Subset DEF RefundAssumption
<1>4. Committed(o) = Total(f, s)
  BY DEF Committed, Amount
<1> HIDE DEF s, f
<1> QED
  BY <1>2, <1>3, <1>4, TotalNat

LEMMA RequestInv ==
    ASSUME RefundInv, RefundAssumption, NEW a \in Admin, NEW k \in Key,
           NEW o \in Order, NEW amount \in 1..Price,
           RequestRefund(a, k, o, amount)
    PROVE  RefundInv'
<1>1. ThankInv'
  BY CardsUntouched DEF RequestRefund
<1>2. [op |-> "insert", key |-> k, order |-> o, amount |-> amount,
       counted |-> Committed(o)] \in InsertJob
  BY CommittedNat DEF InsertJob, RefundInv
<1>3. RefundTypeOK'
  BY <1>1, <1>2 DEF RequestRefund, RefundInv, RefundTypeOK, ThankInv
<1>4. JobsMade'
  BY DEF RequestRefund, RefundInv, RefundTypeOK, JobsMade, Made
<1>5. ProviderMade' /\ EventsMade' /\ DeliveriesMade'
  BY DEF RequestRefund, RefundInv, ProviderMade, EventsMade, DeliveriesMade, Made
<1>6. PendingHasRefund'
  BY PendingUntouched DEF RequestRefund, allVars, vars
<1> QED
  BY <1>1, <1>3, <1>4, <1>5, <1>6 DEF RefundInv

LEMMA CollisionInv ==
    ASSUME RefundInv, NEW a \in Admin, InsertCollides(a)
    PROVE  RefundInv'
<1>1. ThankInv'
  BY CardsUntouched DEF InsertCollides
<1>2. RefundTypeOK'
  BY <1>1 DEF InsertCollides, RefundInv, RefundTypeOK, ThankInv
<1>3. JobsMade'
  BY DEF InsertCollides, RefundInv, RefundTypeOK, JobsMade, Made, Idle
<1>4. ProviderMade' /\ EventsMade' /\ DeliveriesMade'
  BY DEF InsertCollides, RefundInv, ProviderMade, EventsMade, DeliveriesMade, Made
<1>5. PendingHasRefund'
  BY PendingUntouched DEF InsertCollides, allVars, vars
<1> QED
  BY <1>1, <1>2, <1>3, <1>4, <1>5 DEF RefundInv

\* Stripe answers, or its answer is lost.
LEMMA CallInv ==
    ASSUME RefundInv, RefundAssumption, NEW a \in Admin,
           StripeAnswers(a) \/ StripeAnswerLost(a)
    PROVE  RefundInv'
<1> DEFINE k == refundJob[a].key
<1>1. refundJob[a].op = "call" /\ UNCHANGED <<allVars, refund, emitted, received,
                                             delivery>>
  BY DEF StripeAnswers, StripeAnswerLost
<1>2. refundJob[a] \in CallJob /\ k \in Key /\ Made(k)
  BY <1>1, RefundJobKinds DEF RefundInv, JobsMade, CallJob
<1>3. ThankInv'
  BY <1>1, CardsUntouched
<1>4. provider' = [provider EXCEPT ![k] = "pending"] \/ UNCHANGED provider
  BY DEF StripeAnswers, StripeAnswerLost
<1>5. \E op \in {"store", "fail"} :
          refundJob' = [refundJob EXCEPT ![a].op = op]
  BY DEF StripeAnswers, StripeAnswerLost
<1>6. lost' \in 0..MaxLostAnswers
  BY DEF StripeAnswers, StripeAnswerLost, RefundInv, RefundTypeOK,
         RefundAssumption
<1>7. PICK op \in {"store", "fail"} :
          refundJob' = [refundJob EXCEPT ![a].op = op]
  BY <1>5
<1>8. [refundJob[a] EXCEPT !.op = op] \in CallJob
  BY <1>2 DEF CallJob
<1>9. RefundTypeOK'
  BY <1>1, <1>2, <1>3, <1>4, <1>6, <1>7, <1>8
     DEF RefundInv, RefundTypeOK, ThankInv
<1>10. JobsMade'
  BY <1>1, <1>2, <1>7 DEF RefundInv, RefundTypeOK, JobsMade, Made
<1>11. ProviderMade'
  BY <1>1, <1>2, <1>4 DEF RefundInv, RefundTypeOK, ProviderMade, Made
<1>12. EventsMade' /\ DeliveriesMade'
  BY <1>1 DEF RefundInv, EventsMade, DeliveriesMade, Made
<1>13. PendingHasRefund'
  BY <1>1, PendingUntouched DEF allVars, vars
<1> QED
  BY <1>3, <1>9, <1>10, <1>11, <1>12, <1>13 DEF RefundInv

-----------------------------------------------------------------------------
(* Steps that write a row of payment_refunds, and the payment with it.     *)

\* A row is replaced by a row: what exists goes on existing.
LEMMA RowWritten ==
    ASSUME RefundInv, NEW k \in Key, NEW row \in RefundRow,
           refund' = [refund EXCEPT ![k] = row],
           UNCHANGED <<provider, emitted>>
    PROVE  /\ refund' \in [Key -> RefundRow \cup {NoRefund}]
           /\ \A j \in Key : Made(j) => Made(j)'
           /\ ProviderMade'
           /\ EventsMade'
<1>1. refund' \in [Key -> RefundRow \cup {NoRefund}]
  BY DEF RefundInv, RefundTypeOK
<1>2. \A j \in Key : Made(j) => Made(j)'
  BY DEF RefundInv, RefundTypeOK, Made
<1>3. ProviderMade'
  BY <1>2 DEF RefundInv, ProviderMade
<1>4. EventsMade'
  BY <1>2 DEF RefundInv, EventsMade, RefundEvent
<1> QED
  BY <1>1, <1>2, <1>3, <1>4

\* The payment of the row's order leaves 'refund_pending', and the rows of
\* other orders stay pending.
LEMMA PaymentLeaves ==
    ASSUME RefundInv, NEW k \in Key, Made(k), NEW row \in RefundRow,
           row.order = refund[k].order, NEW payment \in Payment,
           payment /= "refund_pending",
           refund' = [refund EXCEPT ![k] = row],
           order' = [order EXCEPT ![refund[k].order].payment = payment]
    PROVE  PendingHasRefund'
<1> SUFFICES ASSUME NEW o \in Order, order'[o].payment = "refund_pending"
             PROVE  RefundsOf(o, {"pending"})' /= {}
  BY DEF PendingHasRefund
<1>1. refund[k].order \in Order
  BY DEF Made, RefundRow
<1>2. order \in [Order -> Row]
  BY DEF RefundInv, RefundTypeOK, CardTypeOK, TypeOK
<1>3. o /= refund[k].order /\ order[o].payment = "refund_pending"
  BY <1>1, <1>2 DEF Row
<1>4. PICK j \in Key : refund[j].status = "pending" /\ refund[j].order = o
  BY <1>3 DEF RefundInv, PendingHasRefund, RefundsOf
<1>5. refund'[j] = refund[j]
  BY <1>3, <1>4 DEF RefundInv, RefundTypeOK
<1> QED
  BY <1>4, <1>5 DEF RefundsOf

LEMMA InsertInv ==
    ASSUME RefundInv, NEW a \in Admin, InsertRefund(a)
    PROVE  RefundInv'
<1> DEFINE q == refundJob[a]
           row == [status |-> "pending", order |-> q.order, amount |-> q.amount,
                   matched |-> FALSE]
<1>1. q.key \in Key /\ q.order \in Order /\ q.amount \in 1..Price
  BY RefundJobKinds DEF RefundInv, InsertRefund, InsertJob
<1>2. row \in RefundRow
  BY <1>1 DEF RefundRow
<1>3. /\ refund' = [refund EXCEPT ![q.key] = row]
      /\ order' = [order EXCEPT ![q.order].payment = "refund_pending"]
      /\ refundJob' = [refundJob EXCEPT ![a] = [op |-> "call", key |-> q.key]]
      /\ refund[q.key] = NoRefund
      /\ UNCHANGED <<stockVars, item, issued, emails, request, cardVars,
                     provider, emitted, received, delivery, lost>>
  BY DEF InsertRefund
<1>4. ThankInv'
  BY <1>1, <1>3, PaymentWritten DEF Payment
<1>5. /\ refund' \in [Key -> RefundRow \cup {NoRefund}]
      /\ \A j \in Key : Made(j) => Made(j)'
      /\ ProviderMade'
      /\ EventsMade'
  BY <1>1, <1>2, <1>3, RowWritten
<1>6. Made(q.key)'
  BY <1>1, <1>2, <1>3 DEF RefundInv, RefundTypeOK, Made
<1>7. RefundTypeOK'
  BY <1>1, <1>3, <1>4, <1>5 DEF RefundInv, RefundTypeOK, ThankInv, CallJob
<1>8. JobsMade'
  <2>1. ASSUME NEW b \in Admin, b /= a,
               refundJob[b].op \in {"call", "store", "fail"}
        PROVE  Made(refundJob[b].key)'
    <3>1. refundJob[b].key \in Key /\ Made(refundJob[b].key)
      BY <2>1, RefundJobKinds DEF RefundInv, JobsMade, CallJob
    <3>2. refundJob'[b] = refundJob[b]
      BY <1>3, <2>1 DEF RefundInv, RefundTypeOK
    <3> QED
      BY <1>5, <3>1, <3>2 DEF Made
  <2> QED
    BY <1>3, <1>6, <2>1 DEF RefundInv, RefundTypeOK, JobsMade, Made
<1>9. DeliveriesMade'
  BY <1>3, <1>5 DEF RefundInv, RefundTypeOK, DeliveriesMade, Made, ApplyJob,
                    RefundEvent
<1>10. PendingHasRefund'
  <2> SUFFICES ASSUME NEW o \in Order, order'[o].payment = "refund_pending"
               PROVE  RefundsOf(o, {"pending"})' /= {}
    BY DEF PendingHasRefund
  <2>1. CASE o = q.order
    <3>1. refund'[q.key] = row
      BY <1>1, <1>3 DEF RefundInv, RefundTypeOK
    <3> QED
      BY <1>1, <2>1, <3>1 DEF RefundsOf
  <2>2. CASE o /= q.order
    <3>1. order[o].payment = "refund_pending"
      BY <1>3, <2>2 DEF RefundInv, RefundTypeOK, CardTypeOK, TypeOK
    <3>2. PICK j \in Key : refund[j].status = "pending" /\ refund[j].order = o
      BY <3>1 DEF RefundInv, PendingHasRefund, RefundsOf
    <3>3. refund'[j] = refund[j]
      BY <1>3, <3>2 DEF RefundInv, RefundTypeOK, NoRefund
    <3> QED
      BY <3>2, <3>3 DEF RefundsOf
  <2> QED
    BY <2>1, <2>2
<1> QED
  BY <1>4, <1>5, <1>7, <1>8, <1>9, <1>10 DEF RefundInv

\* The jobs and deliveries of the others still refer to rows that exist.
LEMMA OthersMade ==
    ASSUME RefundInv, \A j \in Key : Made(j) => Made(j)'
    PROVE  /\ \A b \in Admin :
                  /\ refundJob'[b] = refundJob[b]
                  /\ refundJob[b].op \in {"call", "store", "fail"}
                  => Made(refundJob[b].key)'
           /\ \A d \in Delivery :
                  delivery'[d] = delivery[d] /\ delivery[d] /= Idle =>
                      Made(delivery[d].event.key)'
<1>1. ASSUME NEW b \in Admin, refundJob'[b] = refundJob[b],
             refundJob[b].op \in {"call", "store", "fail"}
      PROVE  Made(refundJob[b].key)'
  <2>1. refundJob[b].key \in Key /\ Made(refundJob[b].key)
    BY <1>1, RefundJobKinds DEF RefundInv, JobsMade, CallJob
  <2> QED
    BY <1>1, <2>1 DEF Made
<1>2. ASSUME NEW d \in Delivery, delivery'[d] = delivery[d],
             delivery[d] /= Idle
      PROVE  Made(delivery[d].event.key)'
  <2>1. delivery[d].event.key \in Key /\ Made(delivery[d].event.key)
    BY <1>2 DEF RefundInv, RefundTypeOK, DeliveriesMade, ApplyJob, RefundEvent
  <2> QED
    BY <1>2, <2>1 DEF Made
<1> QED
  BY <1>1, <1>2

LEMMA StoreInv ==
    ASSUME RefundInv, NEW a \in Admin, StoreProviderId(a)
    PROVE  RefundInv'
<1> DEFINE k == refundJob[a].key
           row == [refund[k] EXCEPT !.matched = TRUE]
<1>1. k \in Key /\ Made(k)
  BY RefundJobKinds DEF RefundInv, StoreProviderId, JobsMade, CallJob
<1>2. row \in RefundRow /\ row.status = refund[k].status
                        /\ row.order = refund[k].order
  BY <1>1, RefundRowEdits DEF Made, RefundRow
<1>3. /\ refund' = [refund EXCEPT ![k] = row]
      /\ refundJob' = [refundJob EXCEPT ![a] = Idle]
      /\ UNCHANGED <<allVars, provider, emitted, received, delivery, lost>>
  BY DEF StoreProviderId
<1>4. ThankInv'
  BY <1>3, CardsUntouched
<1> HIDE DEF row
<1>5. /\ refund' \in [Key -> RefundRow \cup {NoRefund}]
      /\ \A j \in Key : Made(j) => Made(j)'
      /\ ProviderMade'
      /\ EventsMade'
  BY <1>1, <1>2, <1>3, RowWritten
<1>6. RefundTypeOK'
  BY <1>3, <1>4, <1>5 DEF RefundInv, RefundTypeOK, ThankInv
<1>7. JobsMade'
  BY <1>3, <1>5, OthersMade DEF RefundInv, RefundTypeOK, JobsMade, Idle, Made
<1>8. DeliveriesMade'
  BY <1>3, <1>5, OthersMade DEF RefundInv, DeliveriesMade, Made
<1>9. \A j \in Key : refund'[j].status = refund[j].status
                     /\ refund'[j].order = refund[j].order
  BY <1>1, <1>2, <1>3 DEF RefundInv, RefundTypeOK
<1>10. PendingHasRefund'
  BY <1>3, <1>9, PendingUntouched DEF allVars, vars
<1> QED
  BY <1>4, <1>5, <1>6, <1>7, <1>8, <1>10 DEF RefundInv

LEMMA FailureInv ==
    ASSUME RefundInv, NEW a \in Admin, RecordFailure(a)
    PROVE  RefundInv'
<1> DEFINE k == refundJob[a].key
           row == [refund[k] EXCEPT !.status = "failed"]
<1>1. k \in Key /\ Made(k)
  BY RefundJobKinds DEF RefundInv, RecordFailure, JobsMade, CallJob
<1>2. row \in RefundRow /\ row.order = refund[k].order
  BY <1>1, RefundRowEdits DEF Made, RefundRow
<1>3. /\ refund' = [refund EXCEPT ![k] = row]
      /\ order' = [order EXCEPT ![refund[k].order].payment = "review_required"]
      /\ refundJob' = [refundJob EXCEPT ![a] = Idle]
      /\ UNCHANGED <<stockVars, item, issued, emails, request, cardVars,
                     provider, emitted, received, delivery, lost>>
  BY DEF RecordFailure, PaymentAfterFailure
<1> HIDE DEF row
<1>4. ThankInv'
  BY <1>1, <1>3, PaymentWritten DEF Made, RefundRow, Payment
<1>5. /\ refund' \in [Key -> RefundRow \cup {NoRefund}]
      /\ \A j \in Key : Made(j) => Made(j)'
      /\ ProviderMade'
      /\ EventsMade'
  BY <1>1, <1>2, <1>3, RowWritten
<1>6. RefundTypeOK'
  BY <1>3, <1>4, <1>5 DEF RefundInv, RefundTypeOK, ThankInv
<1>7. JobsMade'
  BY <1>3, <1>5, OthersMade DEF RefundInv, RefundTypeOK, JobsMade, Idle, Made
<1>8. DeliveriesMade'
  BY <1>3, <1>5, OthersMade DEF RefundInv, DeliveriesMade, Made
<1>9. PendingHasRefund'
  BY <1>1, <1>2, <1>3, PaymentLeaves DEF Payment
<1> QED
  BY <1>4, <1>5, <1>6, <1>7, <1>8, <1>9 DEF RefundInv

-----------------------------------------------------------------------------
(* Stripe and the webhook.                                                 *)

LEMMA SettleInv ==
    ASSUME RefundInv, NEW k \in Key, NEW outcome \in {"succeeded", "failed"},
           RefundSettles(k, outcome)
    PROVE  RefundInv'
<1>1. Made(k)
  BY DEF RefundSettles, RefundInv, ProviderMade
<1>2. ThankInv'
  BY CardsUntouched DEF RefundSettles
<1>3. [key |-> k, outcome |-> outcome] \in RefundEvent
  BY DEF RefundEvent
<1>4. RefundTypeOK'
  BY <1>2, <1>3 DEF RefundSettles, RefundInv, RefundTypeOK, ThankInv
<1>5. ProviderMade'
  BY <1>1 DEF RefundSettles, RefundInv, RefundTypeOK, ProviderMade, Made
<1>6. EventsMade'
  BY <1>1 DEF RefundSettles, RefundInv, EventsMade, Made
<1>7. JobsMade' /\ DeliveriesMade'
  BY DEF RefundSettles, RefundInv, JobsMade, DeliveriesMade, Made
<1>8. PendingHasRefund'
  BY PendingUntouched DEF RefundSettles, allVars, vars
<1> QED
  BY <1>2, <1>4, <1>5, <1>6, <1>7, <1>8 DEF RefundInv

\* An event of a dispute is emitted.
LEMMA DisputeInv ==
    ASSUME RefundInv, NEW e \in DisputeEvent, emitted' = emitted \cup {e},
           UNCHANGED <<allVars, refund, provider, received, refundJob, delivery,
                       lost>>
    PROVE  RefundInv'
<1>1. ThankInv'
  BY CardsUntouched
<1>2. RefundTypeOK'
  BY <1>1 DEF RefundInv, RefundTypeOK, ThankInv
<1>3. e \notin RefundEvent
  BY DEF DisputeEvent, RefundEvent, DisputeStatus
<1>4. EventsMade'
  BY <1>3 DEF RefundInv, EventsMade, Made
<1>5. ProviderMade' /\ JobsMade' /\ DeliveriesMade'
  BY DEF RefundInv, ProviderMade, JobsMade, DeliveriesMade, Made
<1>6. PendingHasRefund'
  BY PendingUntouched DEF allVars, vars
<1> QED
  BY <1>1, <1>2, <1>4, <1>5, <1>6 DEF RefundInv

LEMMA UnmatchedInv ==
    ASSUME RefundInv, NEW e \in Undelivered, IgnoreUnmatched(e)
    PROVE  RefundInv'
<1>1. ThankInv'
  BY CardsUntouched DEF IgnoreUnmatched
<1>2. RefundTypeOK'
  BY <1>1 DEF IgnoreUnmatched, RefundInv, RefundTypeOK, ThankInv
<1>3. ProviderMade' /\ EventsMade' /\ JobsMade' /\ DeliveriesMade'
  BY DEF IgnoreUnmatched, RefundInv, ProviderMade, EventsMade, JobsMade,
         DeliveriesMade, Made
<1>4. PendingHasRefund'
  BY PendingUntouched DEF IgnoreUnmatched, allVars, vars
<1> QED
  BY <1>1, <1>2, <1>3, <1>4 DEF RefundInv

LEMMA ReadEventInv ==
    ASSUME RefundInv, NEW d \in Delivery, NEW e \in Undelivered,
           ReadRefundEvent(d, e)
    PROVE  RefundInv'
<1>1. e \in RefundEvent /\ e \in emitted
  BY DEF ReadRefundEvent, Undelivered
<1>2. Made(e.key)
  BY <1>1 DEF RefundInv, EventsMade
<1>3. PaymentAfter(e) \in Payment /\ PaymentAfter(e) /= "refund_pending"
  BY <1>1, PaymentAfterKinds DEF Payment
<1>4. [op |-> "apply", event |-> e, payment |-> PaymentAfter(e)] \in ApplyJob
  BY <1>1, <1>3 DEF ApplyJob
<1>5. ThankInv'
  BY CardsUntouched DEF ReadRefundEvent
<1>6. RefundTypeOK'
  BY <1>4, <1>5 DEF ReadRefundEvent, RefundInv, RefundTypeOK, ThankInv
<1>7. ProviderMade' /\ EventsMade' /\ JobsMade'
  BY DEF ReadRefundEvent, RefundInv, ProviderMade, EventsMade, JobsMade, Made
<1>8. DeliveriesMade'
  BY <1>2, <1>3
     DEF ReadRefundEvent, RefundInv, RefundTypeOK, DeliveriesMade, Made
<1>9. PendingHasRefund'
  BY PendingUntouched DEF ReadRefundEvent, allVars, vars
<1> QED
  BY <1>5, <1>6, <1>7, <1>8, <1>9 DEF RefundInv

LEMMA WriteEventInv ==
    ASSUME RefundInv, NEW d \in Delivery, WriteRefundEvent(d)
    PROVE  RefundInv'
<1> DEFINE e == delivery[d].event
           k == e.key
           payment == delivery[d].payment
           row == [refund[k] EXCEPT !.status = e.outcome]
<1>1. delivery[d] \in ApplyJob
  BY DEF WriteRefundEvent, RefundInv, RefundTypeOK
<1>2. /\ e \in RefundEvent /\ k \in Key
      /\ e.outcome \in {"succeeded", "failed"} /\ payment \in Payment
  BY <1>1 DEF ApplyJob, RefundEvent
<1>3. Made(k) /\ payment /= "refund_pending"
  BY DEF WriteRefundEvent, RefundInv, DeliveriesMade
<1>4. row \in RefundRow /\ row.order = refund[k].order
  BY <1>2, <1>3, RefundRowEdits DEF Made, RefundRow
<1>5. /\ refund' = [refund EXCEPT ![k] = row]
      /\ order' = [order EXCEPT ![refund[k].order].payment = payment]
      /\ received' = received \cup {e}
      /\ delivery' = [delivery EXCEPT ![d] = Idle]
      /\ UNCHANGED <<stockVars, item, issued, emails, request, cardVars,
                     provider, emitted, refundJob, lost>>
  BY DEF WriteRefundEvent
<1> HIDE DEF row, payment
<1>6. ThankInv'
  BY <1>2, <1>3, <1>5, PaymentWritten DEF Made, RefundRow
<1>7. /\ refund' \in [Key -> RefundRow \cup {NoRefund}]
      /\ \A j \in Key : Made(j) => Made(j)'
      /\ ProviderMade'
      /\ EventsMade'
  BY <1>2, <1>4, <1>5, RowWritten
<1>8. RefundTypeOK'
  BY <1>2, <1>5, <1>6, <1>7 DEF RefundInv, RefundTypeOK, ThankInv
<1>9. JobsMade'
  BY <1>5, <1>7, OthersMade DEF RefundInv, JobsMade, Made
<1>10. DeliveriesMade'
  BY <1>5, <1>7, OthersMade DEF RefundInv, RefundTypeOK, DeliveriesMade, Made
<1>11. PendingHasRefund'
  BY <1>2, <1>3, <1>4, <1>5, PaymentLeaves
<1> QED
  BY <1>6, <1>7, <1>8, <1>9, <1>10, <1>11 DEF RefundInv

LEMMA ReceiveDisputeInv ==
    ASSUME RefundInv, NEW e \in Undelivered, ReceiveDispute(e)
    PROVE  RefundInv'
<1>1. e \in DisputeEvent
  BY DEF ReceiveDispute
<1>2. e.order \in Order /\ e.outcome \in Payment
      /\ e.outcome /= "refund_pending"
  BY <1>1 DEF DisputeEvent, DisputeStatus, Payment
<1>3. ThankInv'
  BY <1>2, PaymentWritten DEF ReceiveDispute
<1>4. RefundTypeOK'
  BY <1>1, <1>3 DEF ReceiveDispute, RefundInv, RefundTypeOK, ThankInv
<1>5. ProviderMade' /\ EventsMade' /\ JobsMade' /\ DeliveriesMade'
  BY DEF ReceiveDispute, RefundInv, ProviderMade, EventsMade, JobsMade,
         DeliveriesMade, Made
<1>6. NoneBecomes("refund_pending")
  BY <1>2 DEF ReceiveDispute, NoneBecomes, RefundInv, RefundTypeOK,
              CardTypeOK, TypeOK, Row
<1>7. PendingHasRefund'
  BY <1>6 DEF ReceiveDispute, NoneBecomes, RefundInv, PendingHasRefund,
              RefundsOf
<1> QED
  BY <1>3, <1>4, <1>5, <1>7 DEF RefundInv

LEMMA RefundCrashInv ==
    ASSUME CardAssumption, RefundInv, RefundCrash
    PROVE  RefundInv'
<1>1. CardTypeOK'
  <2>1. crashes' \in 0..MaxCrashes
    BY DEF RefundCrash, RefundInv, RefundTypeOK, CardTypeOK, CardAssumption
  <2> QED
    BY <2>1 DEF RefundCrash, RefundInv, RefundTypeOK, CardTypeOK, TypeOK, vars,
                sessionVars, webhookVars
<1>2. ThankInv'
  BY <1>1, ThankUnchanged DEF RefundCrash, RefundInv, sessionVars, webhookVars
<1>3. /\ refundJob' \in [Admin -> InsertJob \cup CallJob \cup {Idle}]
      /\ delivery' \in [Delivery -> ApplyJob \cup {Idle}]
  BY DEF RefundCrash, RefundInv, RefundTypeOK
<1>4. RefundTypeOK'
  BY <1>1, <1>3 DEF RefundCrash, RefundInv, RefundTypeOK
<1>5. ProviderMade' /\ EventsMade'
  BY DEF RefundCrash, RefundInv, ProviderMade, EventsMade, Made
<1>6. JobsMade'
  BY DEF RefundCrash, RefundInv, RefundTypeOK, JobsMade, Made, Idle
<1>7. DeliveriesMade'
  BY DEF RefundCrash, RefundInv, RefundTypeOK, DeliveriesMade, Made
<1>8. PendingHasRefund'
  BY PendingUntouched DEF RefundCrash, vars
<1> QED
  BY <1>2, <1>4, <1>5, <1>6, <1>7, <1>8 DEF RefundInv

\* A step of the card payments, or none at all.
LEMMA PaymentsInv ==
    ASSUME OrdersAssumption, CardAssumption, RefundInv, [CardNext]_allVars,
           UNCHANGED refundVars
    PROVE  RefundInv'
<1>1. ThankInv'
  BY ThankNext DEF RefundInv
<1>2. RefundTypeOK'
  BY <1>1 DEF RefundInv, RefundTypeOK, ThankInv, refundVars
<1>3. ProviderMade' /\ EventsMade' /\ JobsMade' /\ DeliveriesMade'
  BY DEF refundVars, RefundInv, ProviderMade, EventsMade, JobsMade,
         DeliveriesMade, Made
<1>4. NoneBecomes("refund_pending")
  <2>1. CASE CardNext
    BY <2>1, CardPayment DEF RefundInv, RefundTypeOK
  <2>2. CASE UNCHANGED allVars
    BY <2>2 DEF NoneBecomes, allVars, vars
  <2> QED
    BY <2>1, <2>2
<1>5. PendingHasRefund'
  BY <1>4 DEF refundVars, NoneBecomes, RefundInv, PendingHasRefund,
              RefundsOf
<1> QED
  BY <1>1, <1>2, <1>3, <1>5 DEF RefundInv

-----------------------------------------------------------------------------
LEMMA RefundNextInv ==
    ASSUME OrdersAssumption, CardAssumption, RefundAssumption, RefundInv,
           [RefundNext]_everyVar
    PROVE  RefundInv'
<1>1. CASE PaymentsNext
  BY <1>1, PaymentsInv DEF PaymentsNext
<1>2. CASE RefundRequestNext
  BY <1>2, RequestInv, InsertInv, CollisionInv, CallInv, StoreInv, FailureInv
     DEF RefundRequestNext
<1>3. ASSUME NEW o \in Order, DisputeOpens(o)
      PROVE  RefundInv'
  <2>1. [order |-> o, outcome |-> "dispute_open"] \in DisputeEvent
    BY DEF DisputeEvent, DisputeStatus
  <2> QED
    BY <1>3, <2>1, DisputeInv DEF DisputeOpens
<1>4. ASSUME NEW o \in Order, NEW outcome \in {"dispute_won", "dispute_lost"},
             DisputeCloses(o, outcome)
      PROVE  RefundInv'
  <2>1. [order |-> o, outcome |-> outcome] \in DisputeEvent
    BY DEF DisputeEvent, DisputeStatus
  <2> QED
    BY <1>4, <2>1, DisputeInv DEF DisputeCloses
<1>5. CASE RefundStripeNext
  BY <1>3, <1>4, <1>5, SettleInv DEF RefundStripeNext
<1>6. CASE RefundWebhookNext
  BY <1>6, UnmatchedInv, ReceiveDisputeInv, ReadEventInv, WriteEventInv
     DEF RefundWebhookNext
<1>7. CASE RefundCrash
  BY <1>7, RefundCrashInv
<1>8. CASE UNCHANGED everyVar
  BY <1>8, PaymentsInv DEF everyVar
<1> QED
  BY <1>1, <1>2, <1>5, <1>6, <1>7, <1>8 DEF RefundNext

LEMMA RefundInvariant == RefundSpec => []RefundInv
<1>1. RefundInit => RefundInv
  BY RefundInitInv, OrdersAssumption, CardAssumption, RefundAssumption
<1>2. RefundInv /\ [RefundNext]_everyVar => RefundInv'
  BY RefundNextInv, OrdersAssumption, CardAssumption, RefundAssumption
<1> QED
  BY <1>1, <1>2, PTL DEF RefundSpec

\* Every row, event and request in flight stays well formed.
THEOREM RefundTypeCorrect == RefundSpec => []RefundTypeOK
<1>1. RefundInv => RefundTypeOK
  BY DEF RefundInv
<1> QED
  BY <1>1, RefundInvariant, PTL

\* An order in 'refund_pending' has a pending refund: for any number of
\* concurrent requests and deliveries, disputes, bounces and crashes.
THEOREM PendingRefunded == RefundSpec => []PendingHasRefund
<1>1. RefundInv => PendingHasRefund
  BY DEF RefundInv
<1> QED
  BY <1>1, RefundInvariant, PTL

-----------------------------------------------------------------------------
(* A 'refunded' order was refunded in full.                                *)

\* No unit of a sum goes missing when the set grows.
LEMMA TotalGrows ==
    ASSUME NEW f, NEW g, NEW T, IsFiniteSet(T), NEW S \in SUBSET T,
           \A x \in T : g[x] \in Nat, \A x \in S : f[x] = g[x]
    PROVE  Total(f, S) <= Total(g, T)
<1>1. Total(f, S) = Total(g, S)
  BY TotalSame
<1>2. Total(g, S) <= Total(g, T)
  BY TotalSubset
<1> QED
  BY <1>1, <1>2

\* The refunds of o that Stripe confirmed.
Confirmations(o) ==
    {k \in Key : /\ [key |-> k, outcome |-> "succeeded"] \in emitted
                 /\ refund[k].order = o}

SucceededIsConfirmed ==
    \A k \in Key : refund[k].status = "succeeded" =>
        [key |-> k, outcome |-> "succeeded"] \in emitted

DeliveriesConfirmed ==
    \A d \in Delivery : delivery[d] /= Idle =>
        /\ delivery[d].event \in emitted
        /\ delivery[d].payment = "refunded" =>
               Amount(Confirmations(refund[delivery[d].event.key].order))
                   >= Price

ConfirmedInv ==
    /\ RefundInv
    /\ NoneMarksRefunded
    /\ SucceededIsConfirmed
    /\ DeliveriesConfirmed
    /\ RefundedIsConfirmed

\* The rows that exist keep their order and their amount.
RowsKept ==
    \A k \in Key : Made(k) => /\ Made(k)'
                              /\ refund'[k].order = refund[k].order
                              /\ refund'[k].amount = refund[k].amount

\* More rows, or the same rows later, have a larger amount.
LEMMA AmountGrows ==
    ASSUME RefundAssumption, NEW f, NEW g,
           NEW more \in SUBSET Key, NEW keys \in SUBSET more,
           \A k \in more : g[k] \in 1..Price,
           \A k \in keys : f[k] = g[k]
    PROVE  /\ Total(f, keys) <= Total(g, more)
           /\ Total(f, keys) \in Nat
           /\ Total(g, more) \in Nat
<1>1. \A k \in more : g[k] \in Nat
  BY DEF RefundAssumption
<1>2. IsFiniteSet(more) /\ IsFiniteSet(keys)
  BY FS_Subset DEF RefundAssumption
<1>3. \A k \in keys : f[k] \in Nat
  BY <1>1
<1> QED
  BY <1>1, <1>2, <1>3, TotalGrows, TotalNat

\* A confirmation belongs to a row.
ConfirmedRows == \A o \in Order : \A k \in Confirmations(o) : k \in Key /\ Made(k)

LEMMA ConfirmationsMade ==
    RefundInv => ConfirmedRows
<1> SUFFICES ASSUME RefundInv, NEW o \in Order, NEW k \in Confirmations(o)
             PROVE  k \in Key /\ Made(k)
  BY DEF ConfirmedRows
<1> DEFINE e == [key |-> k, outcome |-> "succeeded"]
<1>1. k \in Key /\ e \in emitted
  BY DEF Confirmations
<1>2. e \in RefundEvent /\ e.key = k
  BY <1>1 DEF RefundEvent
<1> QED
  BY <1>1, <1>2 DEF RefundInv, EventsMade

LEMMA ConfirmationsMadeNext == RefundInv' => ConfirmedRows'
  BY ConfirmationsMade, PTL

\* What Stripe has confirmed of an order stays confirmed.
LEMMA ConfirmedGrows ==
    ASSUME RefundAssumption, RefundInv, RefundInv', RowsKept,
           emitted \subseteq emitted', NEW o \in Order
    PROVE  /\ Amount(Confirmations(o)) <= Amount(Confirmations(o))'
           /\ Amount(Confirmations(o)) \in Nat
           /\ Amount(Confirmations(o))' \in Nat
<1> DEFINE c == Confirmations(o)
           d == Confirmations(o)'
           f == [k \in c |-> refund[k].amount]
           g == [k \in d |-> refund'[k].amount]
<1>1. \A k \in c : k \in Key /\ refund[k] \in RefundRow
  BY ConfirmationsMade DEF ConfirmedRows, Made
<1>2. \A k \in d : k \in Key /\ refund'[k] \in RefundRow
  BY ConfirmationsMadeNext DEF ConfirmedRows, Made
<1>3. c \subseteq d
  BY <1>1 DEF RowsKept, Made, Confirmations
<1>4. \A k \in c : f[k] = g[k]
  BY <1>1, <1>3 DEF RowsKept, Made
<1>5. \A k \in d : g[k] \in 1..Price
  BY <1>2 DEF RefundRow
<1>6. /\ Amount(Confirmations(o)) = Total(f, c)
      /\ Amount(Confirmations(o))' = Total(g, d)
  BY DEF Amount
<1>7. c \in SUBSET d /\ d \in SUBSET Key
  BY <1>2, <1>3
<1> HIDE DEF c, d, f, g
<1> QED
  BY <1>4, <1>5, <1>6, <1>7, AmountGrows

\* One row is edited in place.
LEMMA RowEdited ==
    ASSUME RefundInv, NEW k \in Key, Made(k), NEW row \in RefundRow,
           row.order = refund[k].order, row.amount = refund[k].amount,
           refund' = [refund EXCEPT ![k] = row]
    PROVE  RowsKept
<1>1. \A j \in Key : refund'[j] = IF j = k THEN row ELSE refund[j]
  BY DEF RefundInv, RefundTypeOK
<1> QED
  BY <1>1 DEF RowsKept, Made

\* No step deletes a row or rewrites its order or amount, and Stripe takes
\* no event back.
LEMMA RowsKeptNext ==
    ASSUME RefundInv, [RefundNext]_everyVar
    PROVE  RowsKept /\ emitted \subseteq emitted'
<1>1. ASSUME UNCHANGED refund PROVE RowsKept
  BY <1>1 DEF RowsKept, Made
<1>2. ASSUME NEW a \in Admin, InsertRefund(a)
      PROVE  RowsKept
  <2> DEFINE q == refundJob[a]
             row == [status |-> "pending", order |-> q.order,
                     amount |-> q.amount, matched |-> FALSE]
  <2>1. refund[q.key] = NoRefund /\ refund' = [refund EXCEPT ![q.key] = row]
    BY <1>2 DEF InsertRefund
  <2>2. \A k \in Key : Made(k) => k /= q.key
    BY <2>1 DEF Made, NoRefund, RefundRow
  <2> QED
    BY <2>1, <2>2 DEF RowsKept, Made, RefundInv, RefundTypeOK
<1>3. ASSUME NEW a \in Admin, StoreProviderId(a) \/ RecordFailure(a)
      PROVE  RowsKept
  <2> DEFINE k == refundJob[a].key
  <2>1. k \in Key /\ Made(k)
    BY <1>3, RefundJobKinds
       DEF RefundInv, StoreProviderId, RecordFailure, JobsMade, CallJob
  <2>2. PICK row : /\ refund' = [refund EXCEPT ![k] = row]
                   /\ \/ row = [refund[k] EXCEPT !.matched = TRUE]
                      \/ row = [refund[k] EXCEPT !.status = "failed"]
    BY <1>3 DEF StoreProviderId, RecordFailure
  <2>3. /\ row \in RefundRow
        /\ row.order = refund[k].order /\ row.amount = refund[k].amount
    BY <2>1, <2>2 DEF Made, RefundRow
  <2> QED
    BY <2>1, <2>2, <2>3, RowEdited
<1>4. ASSUME NEW d \in Delivery, WriteRefundEvent(d)
      PROVE  RowsKept
  <2> DEFINE e == delivery[d].event
             k == e.key
             row == [refund[k] EXCEPT !.status = e.outcome]
  <2>1. delivery[d] \in ApplyJob
    BY <1>4 DEF WriteRefundEvent, RefundInv, RefundTypeOK
  <2>2. k \in Key /\ e.outcome \in {"succeeded", "failed"}
    BY <2>1 DEF ApplyJob, RefundEvent
  <2>3. Made(k)
    BY <1>4 DEF WriteRefundEvent, RefundInv, DeliveriesMade
  <2>4. /\ row \in RefundRow
        /\ row.order = refund[k].order /\ row.amount = refund[k].amount
    BY <2>2, <2>3 DEF Made, RefundRow
  <2>5. refund' = [refund EXCEPT ![k] = row]
    BY <1>4 DEF WriteRefundEvent
  <2> HIDE DEF row
  <2> QED
    BY <2>2, <2>3, <2>4, <2>5, RowEdited
<1>5. RowsKept
  <2>1. CASE PaymentsNext \/ RefundStripeNext \/ RefundCrash
             \/ UNCHANGED everyVar
    BY <1>1, <2>1
       DEF PaymentsNext, refundVars, RefundStripeNext, RefundSettles,
           DisputeOpens, DisputeCloses, RefundCrash, everyVar
  <2>2. CASE RefundRequestNext
    BY <1>1, <1>2, <1>3, <2>2
       DEF RefundRequestNext, RequestRefund, InsertCollides, StripeAnswers,
           StripeAnswerLost
  <2>3. CASE RefundWebhookNext
    BY <1>1, <1>4, <2>3
       DEF RefundWebhookNext, IgnoreUnmatched, ReceiveDispute, ReadRefundEvent
  <2> QED
    BY <2>1, <2>2, <2>3 DEF RefundNext
<1>6. emitted \subseteq emitted'
  <2>1. CASE PaymentsNext \/ RefundCrash \/ UNCHANGED everyVar
             \/ RefundStripeNext
    BY <2>1 DEF PaymentsNext, refundVars, RefundCrash, everyVar,
                RefundStripeNext, RefundSettles, DisputeOpens, DisputeCloses
  <2>2. CASE RefundRequestNext
    BY <2>2 DEF RefundRequestNext, RequestRefund, InsertRefund, InsertCollides,
                StripeAnswers, StripeAnswerLost, StoreProviderId, RecordFailure
  <2>3. CASE RefundWebhookNext
    BY <2>3 DEF RefundWebhookNext, IgnoreUnmatched, ReceiveDispute,
                ReadRefundEvent, WriteRefundEvent
  <2> QED
    BY <2>1, <2>2, <2>3 DEF RefundNext
<1> QED
  BY <1>5, <1>6

\* Requests mark what their admins may mark.
LEMMA MarksNext ==
    ASSUME OrdersAssumption, "mark_refunded" \notin AdminAction, TypeOK,
           NoneMarksRefunded, [Next]_vars
    PROVE  NoneMarksRefunded'
<1>1. ASSUME UNCHANGED request PROVE NoneMarksRefunded'
  BY <1>1 DEF NoneMarksRefunded
<1>2. ASSUME NEW r \in Request, NEW q,
             request' = [request EXCEPT ![r] = q],
             q.op = "payment" => q.action /= "mark_refunded"
      PROVE  NoneMarksRefunded'
  BY <1>2 DEF NoneMarksRefunded, TypeOK
<1>3. ASSUME NEW r \in Request, NEW o \in Order, NEW to \in Status,
             ReadForStatus(r, o, to)
      PROVE  NoneMarksRefunded'
  BY <1>2, <1>3 DEF ReadForStatus
<1>4. ASSUME NEW r \in Request, NEW o \in Order, NEW action \in AdminAction,
             ReadForPayment(r, o, action)
      PROVE  NoneMarksRefunded'
  <2>1. CASE action = "cancel"
    <3>1. request' = [request EXCEPT ![r] =
              [op |-> "cancel", order |-> o, payment |-> order[o].payment]]
      BY <1>4, <2>1 DEF ReadForPayment
    <3> QED
      BY <1>2, <3>1
  <2>2. CASE action /= "cancel"
    BY <1>2, <1>4, <2>2 DEF ReadForPayment
  <2> QED
    BY <2>1, <2>2
<1>5. ASSUME NEW r \in Request, RereadForCancel(r)
      PROVE  NoneMarksRefunded'
  <2>1. request[r] \in CancelRequest
    BY <1>5, RequestKinds DEF RereadForCancel
  <2>2. [request[r] EXCEPT !.op = "release"].op = "release"
    BY <2>1 DEF CancelRequest
  <2> QED
    BY <1>2, <1>5, <2>2 DEF RereadForCancel, Idle
<1>6. ASSUME NEW r \in Request,
             WriteStatus(r) \/ WritePayment(r) \/ WriteCancel(r)
      PROVE  NoneMarksRefunded'
  BY <1>2, <1>6 DEF WriteStatus, WritePayment, WriteCancel, Idle
<1>7. CASE CustomerNext \/ WorkshopNext \/ UNCHANGED vars
  BY <1>1, <1>7
     DEF CustomerNext, Checkout, MarkFulfillmentReady, ReservationLapses,
         WorkshopNext, Produce, MoveToLedger, vars
<1>8. CASE AdminNext
  BY <1>3, <1>4, <1>5, <1>6, <1>8 DEF AdminNext
<1> QED
  BY <1>7, <1>8 DEF Next

LEMMA MarksKept ==
    ASSUME OrdersAssumption, "mark_refunded" \notin AdminAction, RefundInv,
           NoneMarksRefunded, [RefundNext]_everyVar
    PROVE  NoneMarksRefunded'
<1>1. TypeOK
  BY DEF RefundInv, RefundTypeOK, CardTypeOK
<1>2. ASSUME UNCHANGED request PROVE NoneMarksRefunded'
  BY <1>2 DEF NoneMarksRefunded
<1>3. CASE CardNext
  <2>1. CASE ShopNext
    BY <1>1, <2>1, MarksNext DEF ShopNext
  <2>2. CASE HandlerNext
    BY <1>2, <2>2
       DEF HandlerNext, PlaceCardOrder, Checkout, StartRetry, CreateSession,
           ReadCompleted, PersistSession, SessionRefused, WriteCompleted,
           HandlerCrash, vars
  <2>3. CASE StripeNext
    BY <1>2, <2>3
       DEF StripeNext, CustomerPays, SessionExpires, DeliverExpired, DayPasses,
           vars
  <2>4. CASE SweeperNext
    BY <1>2, <2>4
       DEF SweeperNext, StartSweep, RereadForClose, CloseOrder, ExpireAtStripe,
           MarkForReview, SweeperCrash, vars
  <2> QED
    BY <1>3, <2>1, <2>2, <2>3, <2>4 DEF CardNext
<1>4. CASE RefundRequestNext
  BY <1>2, <1>4 DEF RefundRequestNext, RequestRefund, InsertRefund,
                    InsertCollides, StripeAnswers, StripeAnswerLost,
                    StoreProviderId, RecordFailure, allVars, vars
<1>5. CASE RefundStripeNext
  BY <1>2, <1>5 DEF RefundStripeNext, RefundSettles, DisputeOpens,
                    DisputeCloses, allVars, vars
<1>6. CASE RefundWebhookNext
  BY <1>2, <1>6 DEF RefundWebhookNext, IgnoreUnmatched, ReceiveDispute,
                    ReadRefundEvent, WriteRefundEvent, allVars, vars
<1>7. CASE RefundCrash \/ UNCHANGED everyVar
  BY <1>2, <1>7 DEF RefundCrash, everyVar, allVars, vars
<1> QED
  BY <1>3, <1>4, <1>5, <1>6, <1>7 DEF RefundNext, PaymentsNext

\* The steps that write no 'refunded' and handle no confirmation.
LEMMA ConfirmedKept ==
    ASSUME RefundAssumption, ConfirmedInv, RefundInv', NoneMarksRefunded',
           RowsKept, emitted \subseteq emitted', NoneBecomes("refunded"),
           \A k \in Key : refund'[k].status = "succeeded" =>
               refund[k].status = "succeeded",
           \A d \in Delivery : delivery'[d] = delivery[d] \/ delivery'[d] = Idle
    PROVE  ConfirmedInv'
<1>1. SucceededIsConfirmed'
  BY DEF ConfirmedInv, SucceededIsConfirmed
<1>2. DeliveriesConfirmed'
  <2> SUFFICES ASSUME NEW d \in Delivery, delivery'[d] /= Idle
               PROVE  /\ delivery'[d].event \in emitted'
                      /\ delivery'[d].payment = "refunded" =>
                             Amount(Confirmations(
                                 refund[delivery[d].event.key].order))' >= Price
    BY DEF DeliveriesConfirmed
  <2>1. delivery'[d] = delivery[d] /\ delivery[d] /= Idle
    OBVIOUS
  <2> DEFINE k == delivery[d].event.key
  <2>2. k \in Key /\ Made(k) /\ delivery[d].event \in emitted
    BY <2>1 DEF ConfirmedInv, RefundInv, RefundTypeOK, ApplyJob, RefundEvent,
                DeliveriesMade, DeliveriesConfirmed
  <2> PICK o \in Order : o = refund[k].order /\ o = refund'[k].order
    BY <2>2 DEF Made, RefundRow, RowsKept
  <2>3. delivery[d].payment = "refunded" => Amount(Confirmations(o)) >= Price
    BY <2>1 DEF ConfirmedInv, DeliveriesConfirmed
  <2>4. /\ Amount(Confirmations(o)) <= Amount(Confirmations(o))'
        /\ Amount(Confirmations(o)) \in Nat
        /\ Amount(Confirmations(o))' \in Nat
    BY ConfirmedGrows DEF ConfirmedInv
  <2>5. delivery[d].payment = "refunded" => Amount(Confirmations(o))' >= Price
    BY <2>3, <2>4 DEF RefundAssumption
  <2> QED
    BY <2>1, <2>2, <2>5
<1>3. RefundedIsConfirmed'
  <2> SUFFICES ASSUME NEW o \in Order, order'[o].payment = "refunded"
               PROVE  Amount(Confirmations(o))' >= Price
    BY DEF RefundedIsConfirmed, Confirmations
  <2>1. order[o].payment = "refunded"
    BY DEF NoneBecomes
  <2>2. Amount(Confirmations(o)) >= Price
    BY <2>1 DEF ConfirmedInv, RefundedIsConfirmed, Confirmations
  <2>3. /\ Amount(Confirmations(o)) <= Amount(Confirmations(o))'
        /\ Amount(Confirmations(o)) \in Nat
        /\ Amount(Confirmations(o))' \in Nat
    BY ConfirmedGrows DEF ConfirmedInv
  <2> QED
    BY <2>2, <2>3 DEF RefundAssumption
<1> QED
  BY <1>1, <1>2, <1>3 DEF ConfirmedInv

LEMMA ConfirmedRead ==
    ASSUME RefundAssumption, ConfirmedInv, RefundInv', NoneMarksRefunded',
           RowsKept, NEW d \in Delivery, NEW e \in Undelivered,
           ReadRefundEvent(d, e)
    PROVE  ConfirmedInv'
<1>1. e \in RefundEvent /\ e \in emitted /\ e.key \in Key
  BY DEF ReadRefundEvent, Undelivered, RefundEvent
<1>2. /\ delivery' = [delivery EXCEPT ![d] =
             [op |-> "apply", event |-> e, payment |-> PaymentAfter(e)]]
      /\ refund' = refund /\ emitted' = emitted /\ order' = order
  BY DEF ReadRefundEvent, allVars, vars
<1>3. refund[e.key] \in RefundRow
  BY <1>1 DEF ConfirmedInv, RefundInv, EventsMade, Made
<1> PICK o \in Order : o = refund[e.key].order
  BY <1>3 DEF RefundRow
<1>4. PaymentAfter(e) = "refunded" => Amount(Confirmations(o)) >= Price
  <2> SUFFICES ASSUME PaymentAfter(e) = "refunded"
               PROVE  Amount(Confirmations(o)) >= Price
    OBVIOUS
  <2> DEFINE s == RefundsOf(o, {"succeeded"}) \cup {e.key}
             c == Confirmations(o)
             f == [k \in s |-> refund[k].amount]
             g == [k \in c |-> refund[k].amount]
  <2>1. e.outcome = "succeeded" /\ Amount(s) >= Price
    BY <1>1 DEF PaymentAfter, PaymentAfterFailure, RefundEvent
  <2>2. e = [key |-> e.key, outcome |-> "succeeded"]
    BY <1>1, <2>1 DEF RefundEvent
  <2>3. e.key \in c
    BY <1>1, <2>2 DEF Confirmations
  <2>4. RefundsOf(o, {"succeeded"}) \subseteq c
    BY DEF RefundsOf, Confirmations, ConfirmedInv, SucceededIsConfirmed
  <2>5. \A k \in c : k \in Key /\ refund[k] \in RefundRow
    BY ConfirmationsMade DEF ConfirmedInv, ConfirmedRows, Made
  <2>6. s \in SUBSET c /\ c \in SUBSET Key
    BY <2>3, <2>4, <2>5
  <2>7. Amount(s) = Total(f, s) /\ Amount(c) = Total(g, c)
    BY DEF Amount
  <2>8. (\A k \in c : g[k] \in 1..Price) /\ (\A k \in s : f[k] = g[k])
    BY <2>5, <2>6 DEF RefundRow
  <2> HIDE DEF s, c, f, g
  <2>9. Total(f, s) <= Total(g, c) /\ Total(f, s) \in Nat /\ Total(g, c) \in Nat
    BY <2>6, <2>8, AmountGrows
  <2> QED
    BY <2>1, <2>7, <2>9 DEF c, RefundAssumption
<1>5. SucceededIsConfirmed' /\ RefundedIsConfirmed'
  BY <1>2 DEF ConfirmedInv, SucceededIsConfirmed, RefundedIsConfirmed, Amount
<1>6. \A oo \in Order : Confirmations(oo)' = Confirmations(oo)
  BY <1>2 DEF Confirmations
<1>7. DeliveriesConfirmed'
  <2> SUFFICES ASSUME NEW c \in Delivery, delivery'[c] /= Idle
               PROVE  /\ delivery'[c].event \in emitted
                      /\ delivery'[c].payment = "refunded" =>
                             Amount(Confirmations(
                                 refund[delivery'[c].event.key].order)) >= Price
    BY <1>2 DEF DeliveriesConfirmed, Confirmations, Amount
  <2>1. CASE c = d
    BY <1>1, <1>2, <1>4, <2>1 DEF ConfirmedInv, RefundInv, RefundTypeOK
  <2>2. CASE c /= d
    BY <1>2, <2>2
       DEF ConfirmedInv, RefundInv, RefundTypeOK, DeliveriesConfirmed
  <2> QED
    BY <2>1, <2>2
<1> QED
  BY <1>5, <1>7 DEF ConfirmedInv

LEMMA ConfirmedWrite ==
    ASSUME RefundAssumption, ConfirmedInv, RefundInv', NoneMarksRefunded',
           RowsKept, NEW d \in Delivery, WriteRefundEvent(d)
    PROVE  ConfirmedInv'
<1> DEFINE e == delivery[d].event
           k == e.key
           payment == delivery[d].payment
<1>1. delivery[d] \in ApplyJob /\ e \in emitted
  BY DEF WriteRefundEvent, ConfirmedInv, RefundInv, RefundTypeOK,
         DeliveriesConfirmed
<1>2. e \in RefundEvent /\ k \in Key /\ refund[k] \in RefundRow
  BY <1>1 DEF ApplyJob, RefundEvent, ConfirmedInv, RefundInv, EventsMade, Made
<1> PICK o \in Order : o = refund[k].order
  BY <1>2 DEF RefundRow
<1>3. /\ refund' = [refund EXCEPT ![k].status = e.outcome]
      /\ order' = [order EXCEPT ![o].payment = payment]
      /\ delivery' = [delivery EXCEPT ![d] = Idle]
      /\ emitted' = emitted
  BY DEF WriteRefundEvent
<1>4. payment = "refunded" => Amount(Confirmations(o)) >= Price
  BY DEF WriteRefundEvent, ConfirmedInv, DeliveriesConfirmed
<1>5. \A oo \in Order : /\ Amount(Confirmations(oo)) <= Amount(Confirmations(oo))'
                        /\ Amount(Confirmations(oo)) \in Nat
                        /\ Amount(Confirmations(oo))' \in Nat
  BY <1>3, ConfirmedGrows DEF ConfirmedInv
<1>6. SucceededIsConfirmed'
  <2> SUFFICES ASSUME NEW j \in Key, refund'[j].status = "succeeded"
               PROVE  [key |-> j, outcome |-> "succeeded"] \in emitted
    BY <1>3 DEF SucceededIsConfirmed
  <2>1. CASE j /= k
    BY <1>3, <2>1
       DEF ConfirmedInv, RefundInv, RefundTypeOK, SucceededIsConfirmed
  <2>2. CASE j = k
    <3>1. e.outcome = "succeeded"
      BY <1>2, <1>3, <2>2 DEF ConfirmedInv, RefundInv, RefundTypeOK, RefundRow
    <3>2. e = [key |-> j, outcome |-> "succeeded"]
      BY <1>2, <2>2, <3>1 DEF RefundEvent
    <3> QED
      BY <1>1, <3>2
  <2> QED
    BY <2>1, <2>2
<1>7. RefundedIsConfirmed'
  <2> SUFFICES ASSUME NEW oo \in Order, order'[oo].payment = "refunded"
               PROVE  Amount(Confirmations(oo))' >= Price
    BY DEF RefundedIsConfirmed, Confirmations
  <2>1. order'[oo].payment = IF oo = o THEN payment ELSE order[oo].payment
    BY <1>3 DEF ConfirmedInv, RefundInv, RefundTypeOK, CardTypeOK, TypeOK, Row
  <2>2. Amount(Confirmations(oo)) >= Price
    BY <1>4, <2>1 DEF ConfirmedInv, RefundedIsConfirmed, Confirmations
  <2> QED
    BY <1>5, <2>2 DEF RefundAssumption
<1>8. DeliveriesConfirmed'
  <2> SUFFICES ASSUME NEW c \in Delivery, delivery'[c] /= Idle
               PROVE  /\ delivery'[c].event \in emitted'
                      /\ delivery'[c].payment = "refunded" =>
                             Amount(Confirmations(
                                 refund[delivery[c].event.key].order))' >= Price
    BY DEF DeliveriesConfirmed
  <2>1. delivery'[c] = delivery[c] /\ delivery[c] /= Idle
    BY <1>3 DEF ConfirmedInv, RefundInv, RefundTypeOK
  <2> DEFINE j == delivery[c].event.key
  <2>2. j \in Key /\ Made(j) /\ delivery[c].event \in emitted
    BY <2>1 DEF ConfirmedInv, RefundInv, RefundTypeOK, ApplyJob, RefundEvent,
                DeliveriesMade, DeliveriesConfirmed
  <2> PICK oo \in Order : oo = refund[j].order /\ oo = refund'[j].order
    BY <2>2 DEF Made, RefundRow, RowsKept
  <2>3. delivery[c].payment = "refunded" => Amount(Confirmations(oo)) >= Price
    BY <2>1 DEF ConfirmedInv, DeliveriesConfirmed
  <2>4. delivery[c].payment = "refunded" => Amount(Confirmations(oo))' >= Price
    BY <1>5, <2>3 DEF RefundAssumption
  <2>5. emitted' = emitted
    BY <1>3
  <2> QED
    BY <2>1, <2>2, <2>4, <2>5
<1> QED
  BY <1>6, <1>7, <1>8 DEF ConfirmedInv

LEMMA ConfirmedNext ==
    ASSUME OrdersAssumption, CardAssumption, RefundAssumption,
           "mark_refunded" \notin AdminAction, ConfirmedInv,
           [RefundNext]_everyVar
    PROVE  ConfirmedInv'
<1>1. RefundInv' /\ NoneMarksRefunded' /\ RowsKept /\ emitted \subseteq emitted'
  BY RefundNextInv, MarksKept, RowsKeptNext DEF ConfirmedInv
<1>2. ASSUME NoneBecomes("refunded"), UNCHANGED <<refund, delivery>>
      PROVE  ConfirmedInv'
  BY <1>1, <1>2, ConfirmedKept
<1>3. ASSUME NEW o \in Order, NEW payment, payment /= "refunded",
             order' = [order EXCEPT ![o].payment = payment]
      PROVE  NoneBecomes("refunded")
  BY <1>3 DEF NoneBecomes, ConfirmedInv, RefundInv, RefundTypeOK, CardTypeOK,
              TypeOK, Row
<1>4. ASSUME UNCHANGED order PROVE NoneBecomes("refunded")
  BY <1>4 DEF NoneBecomes
<1>5. ASSUME NEW a \in Admin, InsertRefund(a)
      PROVE  ConfirmedInv'
  <2> DEFINE q == refundJob[a]
             row == [status |-> "pending", order |-> q.order,
                     amount |-> q.amount, matched |-> FALSE]
  <2>1. q.order \in Order
    BY <1>5, RefundJobKinds DEF ConfirmedInv, RefundInv, InsertRefund, InsertJob
  <2>2. NoneBecomes("refunded")
    BY <1>3, <1>5, <2>1 DEF InsertRefund
  <2>3. refund' = [refund EXCEPT ![q.key] = row] /\ UNCHANGED delivery
    BY <1>5 DEF InsertRefund
  <2>4. \A k \in Key : refund'[k] = row \/ refund'[k] = refund[k]
    BY <2>3 DEF ConfirmedInv, RefundInv, RefundTypeOK
  <2> QED
    BY <1>1, <2>2, <2>3, <2>4, ConfirmedKept
<1>6. ASSUME NEW a \in Admin, StoreProviderId(a) \/ RecordFailure(a)
      PROVE  ConfirmedInv'
  <2> DEFINE k == refundJob[a].key
  <2>1. k \in Key /\ refund[k] \in RefundRow
    BY <1>6, RefundJobKinds
       DEF ConfirmedInv, RefundInv, StoreProviderId, RecordFailure, JobsMade,
           CallJob, Made
  <2>2. PICK row : /\ refund' = [refund EXCEPT ![k] = row]
                   /\ \/ row = [refund[k] EXCEPT !.matched = TRUE]
                      \/ row = [refund[k] EXCEPT !.status = "failed"]
    BY <1>6 DEF StoreProviderId, RecordFailure
  <2>3. row.status \in {refund[k].status, "failed"}
    BY <2>1, <2>2 DEF RefundRow
  <2>4. \A j \in Key : refund'[j].status \in {refund[j].status, "failed"}
    BY <2>2, <2>3 DEF ConfirmedInv, RefundInv, RefundTypeOK
  <2>5. NoneBecomes("refunded")
    <3>1. CASE StoreProviderId(a)
      BY <1>4, <3>1 DEF StoreProviderId, allVars, vars
    <3>2. CASE RecordFailure(a)
      <4>1. refund[k].order \in Order
        BY <2>1 DEF RefundRow
      <4> QED
        BY <1>3, <3>2, <4>1 DEF RecordFailure, PaymentAfterFailure
    <3> QED
      BY <1>6, <3>1, <3>2
  <2>6. UNCHANGED delivery
    BY <1>6 DEF StoreProviderId, RecordFailure
  <2> QED
    BY <1>1, <2>4, <2>5, <2>6, ConfirmedKept
<1>7. ASSUME NEW e \in Undelivered, ReceiveDispute(e)
      PROVE  ConfirmedInv'
  <2>1. e.order \in Order /\ e.outcome \in DisputeStatus
    BY <1>7 DEF ReceiveDispute, DisputeEvent
  <2>2. NoneBecomes("refunded")
    BY <1>3, <1>7, <2>1 DEF ReceiveDispute, DisputeStatus
  <2> QED
    BY <1>2, <1>7, <2>2 DEF ReceiveDispute
<1>8. CASE RefundCrash
  <2>1. \A d \in Delivery : delivery'[d] = delivery[d] \/ delivery'[d] = Idle
    BY <1>8 DEF RefundCrash, ConfirmedInv, RefundInv, RefundTypeOK
  <2>2. UNCHANGED <<order, refund>>
    BY <1>8 DEF RefundCrash, vars
  <2> QED
    BY <1>1, <1>4, <2>1, <2>2, ConfirmedKept
<1>9. CASE PaymentsNext
  <2>1. NoneBecomes("refunded")
    BY <1>9, CardPayment DEF PaymentsNext, ConfirmedInv, RefundInv, RefundTypeOK
  <2> QED
    BY <1>2, <1>9, <2>1 DEF PaymentsNext, refundVars
<1>10. CASE RefundRequestNext
  BY <1>2, <1>4, <1>5, <1>6, <1>10
     DEF RefundRequestNext, RequestRefund, InsertCollides, StripeAnswers,
         StripeAnswerLost, allVars, vars
<1>11. CASE RefundStripeNext
  BY <1>2, <1>4, <1>11
     DEF RefundStripeNext, RefundSettles, DisputeOpens, DisputeCloses, allVars,
         vars
<1>12. CASE RefundWebhookNext
  <2>1. ASSUME NEW e \in Undelivered, IgnoreUnmatched(e)
        PROVE  ConfirmedInv'
    BY <1>2, <1>4, <2>1 DEF IgnoreUnmatched, allVars, vars
  <2> QED
    BY <1>1, <1>7, <1>12, <2>1, ConfirmedRead, ConfirmedWrite
       DEF RefundWebhookNext
<1>13. CASE UNCHANGED everyVar
  BY <1>2, <1>4, <1>13 DEF everyVar, allVars, vars, refundVars
<1> QED
  BY <1>8, <1>9, <1>10, <1>11, <1>12, <1>13 DEF RefundNext

LEMMA ConfirmedInit ==
    ASSUME OrdersAssumption, CardAssumption, RefundAssumption, RefundInit
    PROVE  ConfirmedInv
<1>1. RefundInv
  BY RefundInitInv
<1>2. \A o \in Order : order[o].payment = "pending"
  BY DEF RefundInit, CardInit, Init, AbsentRow
<1>3. NoneMarksRefunded
  BY DEF RefundInit, CardInit, Init, NoneMarksRefunded, Idle
<1>4. SucceededIsConfirmed /\ DeliveriesConfirmed /\ RefundedIsConfirmed
  BY <1>2 DEF RefundInit, SucceededIsConfirmed, DeliveriesConfirmed,
              RefundedIsConfirmed, NoRefund
<1> QED
  BY <1>1, <1>3, <1>4 DEF ConfirmedInv

\* No order claims to be refunded before Stripe confirmed its full price: for
\* any number of concurrent refund requests and deliveries, in spite of
\* bounces, disputes, lost answers and crashes, as long as no admin marks an
\* order refunded by hand.
THEOREM RefundedConfirmed ==
    "mark_refunded" \notin AdminAction /\ RefundSpec => []RefundedIsConfirmed
<1> SUFFICES ASSUME "mark_refunded" \notin AdminAction
             PROVE  RefundSpec => []RefundedIsConfirmed
  OBVIOUS
<1>1. RefundInit => ConfirmedInv
  BY ConfirmedInit, OrdersAssumption, CardAssumption, RefundAssumption
<1>2. ConfirmedInv /\ [RefundNext]_everyVar => ConfirmedInv'
  BY ConfirmedNext, OrdersAssumption, CardAssumption, RefundAssumption
<1>3. ConfirmedInv => RefundedIsConfirmed
  BY DEF ConfirmedInv
<1> QED
  BY <1>1, <1>2, <1>3, PTL DEF RefundSpec

-----------------------------------------------------------------------------
(* The refunds of an order exceed its price only after a race.             *)

\* A request that is about to insert compared its amount with a sum.
InsertsCompared ==
    \A a \in Admin : refundJob[a].op = "insert" =>
        refundJob[a].amount + refundJob[a].counted <= Price

LEMMA ComparedNext ==
    ASSUME RefundAssumption, RefundInv, InsertsCompared, [RefundNext]_everyVar
    PROVE  InsertsCompared'
<1>1. ASSUME \A a \in Admin : refundJob'[a].op = "insert" =>
                 refundJob'[a] = refundJob[a]
      PROVE  InsertsCompared'
  BY <1>1 DEF InsertsCompared
<1>2. CASE PaymentsNext \/ UNCHANGED everyVar
  BY <1>1, <1>2 DEF PaymentsNext, refundVars, everyVar
<1>3. CASE RefundStripeNext
  BY <1>1, <1>3 DEF RefundStripeNext, RefundSettles, DisputeOpens, DisputeCloses
<1>4. CASE RefundWebhookNext
  BY <1>1, <1>4 DEF RefundWebhookNext, IgnoreUnmatched, ReceiveDispute,
                    ReadRefundEvent, WriteRefundEvent
<1>5. CASE RefundCrash
  BY <1>1, <1>5 DEF RefundCrash, RefundInv, RefundTypeOK, Idle
<1>6. ASSUME NEW a \in Admin, NEW k \in Key, NEW o \in Order,
             NEW amount \in 1..Price, RequestRefund(a, k, o, amount)
      PROVE  InsertsCompared'
  <2>1. Committed(o) \in Nat /\ amount \in Nat
    BY CommittedNat DEF RefundInv, RefundAssumption
  <2>2. amount + Committed(o) <= Price
    BY <1>6, <2>1 DEF RequestRefund, RefundAssumption
  <2>3. \A b \in Admin : refundJob'[b] =
            IF b = a THEN [op |-> "insert", key |-> k, order |-> o,
                           amount |-> amount, counted |-> Committed(o)]
            ELSE refundJob[b]
    BY <1>6 DEF RequestRefund, RefundInv, RefundTypeOK
  <2> QED
    BY <2>2, <2>3 DEF InsertsCompared
<1>7. ASSUME NEW a \in Admin, NEW q, q.op /= "insert",
             refundJob' = [refundJob EXCEPT ![a] = q]
      PROVE  InsertsCompared'
  BY <1>1, <1>7 DEF RefundInv, RefundTypeOK
<1>8. ASSUME NEW a \in Admin, InsertRefund(a) \/ InsertCollides(a)
      PROVE  InsertsCompared'
  BY <1>7, <1>8 DEF InsertRefund, InsertCollides, Idle
<1>9. ASSUME NEW a \in Admin, StripeAnswers(a) \/ StripeAnswerLost(a)
      PROVE  InsertsCompared'
  <2>1. refundJob[a] \in CallJob
    BY <1>9, RefundJobKinds DEF StripeAnswers, StripeAnswerLost, RefundInv
  <2>2. PICK op \in {"store", "fail"} :
            refundJob' = [refundJob EXCEPT ![a].op = op]
    BY <1>9 DEF StripeAnswers, StripeAnswerLost
  <2>3. [refundJob[a] EXCEPT !.op = op].op /= "insert"
    BY <2>1 DEF CallJob
  <2> QED
    BY <1>7, <2>2, <2>3
<1>10. ASSUME NEW a \in Admin, StoreProviderId(a) \/ RecordFailure(a)
       PROVE  InsertsCompared'
  BY <1>7, <1>10 DEF StoreProviderId, RecordFailure, Idle
<1>11. CASE RefundRequestNext
  BY <1>6, <1>8, <1>9, <1>10, <1>11 DEF RefundRequestNext
<1> QED
  BY <1>2, <1>3, <1>4, <1>5, <1>11 DEF RefundNext

LEMMA ComparedInvariant == RefundSpec => []InsertsCompared
<1>1. RefundInit => InsertsCompared
  BY DEF RefundInit, InsertsCompared, Idle
<1>2. RefundInv /\ InsertsCompared /\ [RefundNext]_everyVar => InsertsCompared'
  BY ComparedNext, RefundAssumption
<1> QED
  BY <1>1, <1>2, RefundInvariant, PTL DEF RefundSpec

CommittedNats == \A o \in Order : Committed(o) \in Nat

LEMMA CommittedIsNat == RefundTypeOK => CommittedNats
  BY CommittedNat, RefundAssumption DEF CommittedNats

LEMMA CommittedIsNatNext == RefundTypeOK' => CommittedNats'
  BY CommittedIsNat, PTL

\* When no row joins the pending and the confirmed ones, no sum grows.
LEMMA CommittedShrinks ==
    ASSUME RefundAssumption, RefundInv, RefundInv', RowsKept, NEW o \in Order,
           \A k \in Key : /\ refund'[k].status \in {"pending", "succeeded"}
                          /\ refund'[k].order = o
                          => refund[k].status \in {"pending", "succeeded"}
    PROVE  Committed(o)' <= Committed(o)
<1> DEFINE s == RefundsOf(o, {"pending", "succeeded"})
           t == RefundsOf(o, {"pending", "succeeded"})'
           f == [k \in s |-> refund[k].amount]
           g == [k \in t |-> refund'[k].amount]
<1>1. \A k \in s : k \in Key /\ refund[k] \in RefundRow
  BY DEF RefundsOf, RefundInv, RefundTypeOK, NoRefund
<1>2. \A k \in t : k \in s /\ refund'[k].amount = refund[k].amount
  <2> SUFFICES ASSUME NEW k \in t
               PROVE  k \in s /\ refund'[k].amount = refund[k].amount
    OBVIOUS
  <2>1. /\ k \in Key
        /\ refund'[k].status \in {"pending", "succeeded"}
        /\ refund'[k].order = o
    BY DEF RefundsOf
  <2>2. refund[k].status \in {"pending", "succeeded"}
    BY <2>1
  <2>3. Made(k)
    BY <2>1, <2>2 DEF Made, RefundInv, RefundTypeOK, NoRefund
  <2> QED
    BY <2>1, <2>2, <2>3 DEF RowsKept, RefundsOf
<1>3. (\A k \in s : f[k] \in 1..Price) /\ (\A k \in t : g[k] = f[k])
  BY <1>1, <1>2 DEF RefundRow
<1>4. s \in SUBSET Key /\ t \in SUBSET s
  BY <1>1, <1>2
<1>5. Committed(o) = Total(f, s) /\ Committed(o)' = Total(g, t)
  BY DEF Committed, Amount
<1> HIDE DEF s, t, f, g
<1> QED
  BY <1>3, <1>4, <1>5, AmountGrows

\* One more row.
LEMMA CommittedPlus ==
    ASSUME RefundAssumption, RefundInv, RefundInv', RowsKept,
           NEW k \in Key, ~Made(k), Made(k)', refund'[k].status = "pending",
           \A j \in Key \ {k} : refund'[j] = refund[j],
           NEW o \in Order
    PROVE  /\ refund'[k].order = o =>
                  Committed(o)' = Committed(o) + refund'[k].amount
           /\ refund'[k].order /= o => Committed(o)' = Committed(o)
<1> DEFINE s == RefundsOf(o, {"pending", "succeeded"})
           t == RefundsOf(o, {"pending", "succeeded"})'
           f == [j \in s |-> refund[j].amount]
           g == [j \in t |-> refund'[j].amount]
<1>1. \A j \in s : j \in Key /\ refund[j] \in RefundRow /\ j /= k
  BY DEF RefundsOf, RefundInv, RefundTypeOK, NoRefund, Made
<1>2. \A j \in t : j \in Key /\ refund'[j] \in RefundRow
  BY DEF RefundsOf, RefundInv, RefundTypeOK, NoRefund
<1>3. t = IF refund'[k].order = o THEN s \cup {k} ELSE s
  <2>1. \A j \in Key \ {k} : j \in s <=> j \in t
    BY DEF RefundsOf
  <2>2. k \in t <=> refund'[k].order = o
    BY DEF RefundsOf
  <2> QED
    BY <1>1, <1>2, <2>1, <2>2
<1>4. \A j \in s : f[j] = refund[j].amount /\ f[j] \in Nat
  BY <1>1 DEF RefundRow, RefundAssumption
<1>5. \A j \in t : g[j] = refund'[j].amount /\ g[j] \in Nat
  BY <1>2 DEF RefundRow, RefundAssumption
<1>6. \A j \in s : g[j] = f[j]
  BY <1>1, <1>3
<1>7. Committed(o) = Total(f, s) /\ Committed(o)' = Total(g, t)
  BY DEF Committed, Amount
<1>8. IsFiniteSet(s) /\ IsFiniteSet(t) /\ k \notin s
  BY <1>1, <1>2, FS_Subset DEF RefundAssumption
<1> HIDE DEF s, t, f, g
<1>9. Total(f, s) = Total(g, s)
  BY <1>6, <1>8, TotalSame
<1>10. CASE refund'[k].order = o
  <2>1. t = s \cup {k} /\ k \in t /\ t \ {k} = s
    BY <1>3, <1>8, <1>10
  <2>2. Total(g, t) = g[k] + Total(g, s)
    BY <1>5, <1>8, <2>1, TotalSplit
  <2>3. g[k] = refund'[k].amount /\ g[k] \in Nat
    BY <1>5, <2>1
  <2>4. Total(g, s) \in Nat
    BY <1>5, <1>8, <2>1, TotalNat
  <2> QED
    BY <1>7, <1>9, <1>10, <2>2, <2>3, <2>4
<1>11. CASE refund'[k].order /= o
  BY <1>3, <1>7, <1>9, <1>11
<1> QED
  BY <1>10, <1>11

\* A row that is inserted on the sum that was read fits under the price.
LEMMA RaceInsert ==
    ASSUME RefundAssumption, RefundInv, RefundInv', RowsKept, InsertsCompared,
           NEW a \in Admin, InsertRefund(a)
    PROVE  ExceedsByRace
<1> DEFINE q == refundJob[a]
           row == [status |-> "pending", order |-> q.order,
                   amount |-> q.amount, matched |-> FALSE]
<1> SUFFICES ASSUME NEW o \in Order, WithinPrice(o),
                    ~InsertsOnStaleSum(a, o)
             PROVE  WithinPrice(o)'
  BY DEF ExceedsByRace
<1>1. q \in InsertJob
  BY RefundJobKinds DEF InsertRefund, RefundInv
<1> PICK k \in Key : k = q.key
  BY <1>1 DEF InsertJob
<1>2. /\ refund' = [refund EXCEPT ![k] = row]
      /\ refundJob' = [refundJob EXCEPT ![a] = [op |-> "call", key |-> k]]
      /\ refund[k] = NoRefund /\ q.op = "insert"
  BY DEF InsertRefund
<1>3. \A j \in Key : refund'[j] = IF j = k THEN row ELSE refund[j]
  BY <1>2 DEF RefundInv, RefundTypeOK
<1>4. ~Made(k) /\ Made(k)'
  BY <1>1, <1>2, <1>3 DEF Made, NoRefund, RefundRow, InsertJob
<1>5. refund'[k].status = "pending" /\ refund'[k].order = q.order
      /\ refund'[k].amount = q.amount
  BY <1>3
<1>6. /\ q.order = o => Committed(o)' = Committed(o) + q.amount
      /\ q.order /= o => Committed(o)' = Committed(o)
  BY <1>3, <1>4, <1>5, CommittedPlus
<1>7. q.order = o => q.counted = Committed(o)
  BY <1>2 DEF InsertsOnStaleSum, RefundInv, RefundTypeOK
<1>8. q.amount + q.counted <= Price /\ q.amount \in Nat
  BY <1>1, <1>2 DEF InsertsCompared, InsertJob, RefundAssumption
<1>9. Committed(o) <= Price /\ Committed(o) \in Nat
  BY CommittedNat DEF RefundInv, WithinPrice, Committed
<1>10. Committed(o)' <= Price
  BY <1>6, <1>7, <1>8, <1>9 DEF RefundAssumption
<1> QED
  BY <1>10 DEF WithinPrice, Committed

\* When no row joins those that count, no order comes to exceed its price.
LEMMA RaceShrinks ==
    ASSUME RefundAssumption, RefundInv, RefundInv', RowsKept, NEW o \in Order,
           WithinPrice(o),
           \A k \in Key : /\ refund'[k].status \in {"pending", "succeeded"}
                          /\ refund'[k].order = o
                          => refund[k].status \in {"pending", "succeeded"}
    PROVE  WithinPrice(o)'
<1>1. Committed(o)' <= Committed(o)
  BY CommittedShrinks
<1>2. Committed(o) <= Price /\ Committed(o) \in Nat
  BY CommittedNat DEF RefundInv, WithinPrice, Committed
<1>3. Committed(o)' \in Nat
  BY CommittedIsNatNext DEF RefundInv, CommittedNats
<1>4. Committed(o)' <= Price
  BY <1>1, <1>2, <1>3 DEF RefundAssumption
<1> QED
  BY <1>4 DEF WithinPrice, Committed

LEMMA RaceNext ==
    ASSUME OrdersAssumption, CardAssumption, RefundAssumption, RefundInv,
           InsertsCompared, [RefundNext]_everyVar
    PROVE  ExceedsByRace
<1>1. RefundInv' /\ RowsKept
  BY RefundNextInv, RowsKeptNext
<1>2. ASSUME \A k \in Key : refund'[k].status \in {"pending", "succeeded"} =>
                 refund[k].status \in {"pending", "succeeded"}
      PROVE  ExceedsByRace
  BY <1>1, <1>2, RaceShrinks DEF ExceedsByRace
<1>3. CASE UNCHANGED refund
  BY <1>2, <1>3
<1>4. ASSUME NEW a \in Admin, InsertRefund(a)
      PROVE  ExceedsByRace
  BY <1>1, <1>4, RaceInsert
<1>5. ASSUME NEW a \in Admin, StoreProviderId(a) \/ RecordFailure(a)
      PROVE  ExceedsByRace
  <2>1. refundJob[a] \in CallJob /\ Made(refundJob[a].key)
    BY <1>5, RefundJobKinds DEF StoreProviderId, RecordFailure, RefundInv,
                                JobsMade
  <2> PICK k \in Key : k = refundJob[a].key
    BY <2>1 DEF CallJob
  <2>2. refund[k] \in RefundRow
    BY <2>1 DEF Made
  <2>3. PICK row : /\ refund' = [refund EXCEPT ![k] = row]
                   /\ row.status \in {refund[k].status, "failed"}
    BY <1>5, <2>2 DEF StoreProviderId, RecordFailure, RefundRow
  <2> QED
    BY <1>2, <2>3 DEF RefundInv, RefundTypeOK
<1>6. ASSUME NEW d \in Delivery, WriteRefundEvent(d)
      PROVE  ExceedsByRace
  <2>1. delivery[d] \in ApplyJob /\ Made(delivery[d].event.key)
    BY <1>6 DEF WriteRefundEvent, RefundInv, RefundTypeOK, DeliveriesMade
  <2> PICK e \in RefundEvent : e = delivery[d].event
    BY <2>1 DEF ApplyJob
  <2> PICK k \in Key : k = e.key
    BY DEF RefundEvent
  <2>2. refund[k] \in RefundRow
    BY <2>1 DEF Made
  <2>3. refund' = [refund EXCEPT ![k] = [refund[k] EXCEPT !.status = e.outcome]]
    BY <1>6 DEF WriteRefundEvent
  <2>4. \A j \in Key : /\ j /= k => refund'[j] = refund[j]
                       /\ j = k => /\ refund'[j].status = e.outcome
                                   /\ refund'[j].order = refund[k].order
    BY <2>2, <2>3 DEF RefundInv, RefundTypeOK, RefundRow
  <2> SUFFICES ASSUME NEW o \in Order, WithinPrice(o), ~RevivesFailed(d, o)
               PROVE  WithinPrice(o)'
    BY DEF ExceedsByRace
  <2>5. delivery[d] /= Idle /\ delivery'[d] = Idle
    BY <1>6 DEF WriteRefundEvent, RefundInv, RefundTypeOK
  <2>6. refund[k].order = o /\ e.outcome = "succeeded" =>
            refund[k].status /= "failed"
    BY <2>5 DEF RevivesFailed
  <2>7. e.outcome \in {"succeeded", "failed"}
    BY DEF RefundEvent
  <2> QED
    BY <1>1, <2>2, <2>4, <2>6, <2>7, RaceShrinks DEF RefundRow
<1>7. CASE RefundRequestNext
  <2>1. ASSUME NEW a \in Admin, NEW k \in Key, NEW o \in Order,
               NEW amount \in 1..Price, RequestRefund(a, k, o, amount)
        PROVE  ExceedsByRace
    BY <1>3, <2>1 DEF RequestRefund
  <2>2. ASSUME NEW a \in Admin, \/ InsertCollides(a)
                                \/ StripeAnswers(a)
                                \/ StripeAnswerLost(a)
        PROVE  ExceedsByRace
    BY <1>3, <2>2 DEF InsertCollides, StripeAnswers, StripeAnswerLost
  <2> QED
    BY <1>4, <1>5, <1>7, <2>1, <2>2 DEF RefundRequestNext
<1>8. CASE RefundWebhookNext
  BY <1>3, <1>6, <1>8 DEF RefundWebhookNext, IgnoreUnmatched, ReceiveDispute,
                          ReadRefundEvent
<1>9. CASE PaymentsNext \/ RefundStripeNext \/ RefundCrash \/ UNCHANGED everyVar
  BY <1>3, <1>9 DEF PaymentsNext, RefundStripeNext, RefundSettles, DisputeOpens,
                    DisputeCloses, RefundCrash, refundVars, everyVar
<1> QED
  BY <1>7, <1>8, <1>9 DEF RefundNext

\* For any number of overlapping refund requests and events, with lost
\* answers, crashes, disputes and refunds that bounce: an order is refunded
\* beyond its price only by a request whose sum another refund overtook, or by
\* a late confirmation of a refund that was given up.
THEOREM OnlyRacesOverRefund == RefundSpec => OverRefundedOnlyByRace
<1>1. RefundInv /\ InsertsCompared /\ [RefundNext]_everyVar => [ExceedsByRace]_everyVar
  BY RaceNext, OrdersAssumption, CardAssumption, RefundAssumption
<1>2. RefundSpec => [][ExceedsByRace]_everyVar
  BY <1>1, RefundInvariant, ComparedInvariant, PTL DEF RefundSpec
<1> QED
  BY <1>2 DEF OverRefundedOnlyByRace
=============================================================================
