------------------------------ MODULE Shipping ------------------------------
(***************************************************************************)
(* Fulfillment at the couriers: speedy_admin_service.py and                *)
(* econt_fulfillment_service.py with their clients, the circuit breaker,   *)
(* the status machine of order_service.py from 'confirmed' on, and         *)
(* courier_polling_service.py.  Returns adds the return cases.             *)
(*                                                                         *)
(* A request that calls a courier reads the order (Start...), awaits the   *)
(* answer, and writes (Finish...) without looking at what it read again,   *)
(* unless a comment says so.  The courier acts when it answers.  One event *)
(* loop serves the program, so what is written after an answer is one      *)
(* step.  Time passes in polling intervals.                                *)
(*                                                                         *)
(* An order belongs to one courier and enters when it is confirmed, with   *)
(* every unit allocated.  Labels, addresses and what a courier says of a   *)
(* parcel are left out, except that it comes back.                         *)
(***************************************************************************)
EXTENDS Integers, Sequences, FiniteSetsExt, SequencesExt

CONSTANTS
    Order,       \* orders handed to a courier
    Request,     \* admin requests being served at the same time
    Poller,      \* courier_status_polling_loop, one per process
    MaxParcels,  \* bound: waybills the couriers ever create
    MaxCases,    \* bound: return cases
    MaxRecords,  \* bound: waybills and return cases together
    MaxEvents,   \* bound: crashes, and reviews and settings that change
    LeaseTime,   \* courier_polling_lease_seconds, in polling intervals
    MaxBackoff,  \* courier_polling_max_backoff_seconds, in intervals
    MaxAttempts, \* bound: failures in a row that are told apart
    Threshold    \* failures that open a circuit

ASSUME ShippingAssumption ==
    /\ MaxParcels \in Nat /\ MaxCases \in Nat /\ MaxRecords \in Nat
    /\ MaxEvents \in Nat
    /\ LeaseTime \in Nat \ {0} /\ MaxBackoff \in Nat \ {0}
    /\ MaxAttempts \in Nat \ {0} /\ Threshold \in Nat \ {0}

VARIABLES
    order,    \* the courier columns of orders, with status and payment review
    parcel,   \* the waybills at the couriers, in the order of their creation
    econt,    \* econt_settings, as far as a label needs it
    circuit,  \* the circuit breaker of each courier
    request,  \* the admin requests in flight
    poller,   \* the polling loops
    cases,    \* order_returns (the actions are in Returns)
    events    \* crashes, reviews and settings so far

vars == <<order, parcel, econt, circuit, request, poller, cases, events>>
adminVars == <<econt, poller, events>>

NoNumber == 0
Typed == -1         \* a number an admin typed in
Idle == [op |-> "idle"]
NoOrder == "none"
Couriers == {"speedy", "econt"}
Resting == [selected |-> {}, leased |-> {}, asked |-> NoOrder]

OrderRow == [courier : Couriers,
             status : {"confirmed", "shipped", "delivered", "return_in_transit",
                       "returned", "cancelled"},
             number : {NoNumber, Typed} \cup 1..MaxParcels,
             withdrawn : BOOLEAN,   \* courier_sync_status = 'shipment_cancelled'
             review : BOOLEAN,      \* payment_status = 'review_required'
             next : 0..MaxBackoff, lease : 0..LeaseTime, attempts : 0..MaxAttempts]
Parcel == [order : Order, live : BOOLEAN,
           lost : {"no", "answer", "refused", "retyped"}]
Case == [order : Order, source : {"admin", "courier"},
         status : {"requested", "return_in_transit", "received", "inspected",
                   "rejected", "closed"}, back : Nat, off : Nat]
Call == [op : {"waybill", "label", "label_and_ship", "delete", "withdraw",
               "refresh", "pickup", "consult"}, order : Order,
         number : {NoNumber, Typed} \cup 1..MaxParcels]

Inspection == [op : {"inspect"}, case : 1..MaxCases, back : Nat]

ShippingTypeOK ==
    /\ order \in [Order -> OrderRow]
    /\ parcel \in Seq(Parcel) /\ Len(parcel) <= MaxParcels
    /\ econt \in [enabled : BOOLEAN]
    /\ circuit \in [Couriers -> [state : {"closed", "open", "half_open"},
                                 failures : 0..Threshold]]
    /\ request \in [Request -> Call \cup Inspection \cup {Idle}]
    /\ poller \in [Poller -> [selected : SUBSET Order, leased : SUBSET Order,
                              asked : Order \cup {NoOrder}]]
    /\ cases \in Seq(Case) /\ Len(cases) <= MaxCases
    /\ events \in 0..MaxEvents

Init ==
    /\ order \in [Order -> {[courier |-> c,
            status |-> "confirmed", number |-> NoNumber, withdrawn |-> FALSE,
            review |-> FALSE, next |-> 0, lease |-> 0, attempts |-> 0] : c \in Couriers}]
    /\ parcel = <<>>
    /\ econt = [enabled |-> TRUE]
    /\ circuit = [c \in Couriers |-> [state |-> "closed", failures |-> 0]]
    /\ request = [r \in Request |-> Idle]
    /\ poller = [w \in Poller |-> Resting]
    /\ cases = <<>>
    /\ events = 0

(***************************************************************************)
(* The circuit breaker.  It guards every call to Econt and, of Speedy's,   *)
(* only the operations of _post_operational_json: waybills, tracking and   *)
(* labels go past it.                                                      *)
(***************************************************************************)
Allowed(c) == circuit[c].state /= "open"

Succeeded(b) ==
    IF b.state = "half_open" THEN [state |-> "closed", failures |-> 0] ELSE b

Failed(b) ==
    IF b.state = "half_open" \/ (b.state = "closed" /\ b.failures + 1 >= Threshold)
    THEN [state |-> "open", failures |-> Threshold]
    ELSE IF b.state = "closed" THEN [b EXCEPT !.failures = @ + 1] ELSE b

\* recovery_timeout has passed when the state is next evaluated.
Recover(c) ==
    /\ circuit[c].state = "open"
    /\ circuit' = [circuit EXCEPT ![c].state = "half_open"]
    /\ UNCHANGED <<order, parcel, request, cases, adminVars>>

\* Every failure of a closed circuit has left failure_window.
Forget(c) ==
    /\ circuit[c].state = "closed" /\ circuit[c].failures > 0
    /\ circuit' = [circuit EXCEPT ![c].failures = 0]
    /\ UNCHANGED <<order, parcel, request, cases, adminVars>>

\* An answer of the courier, before its content is looked at.
CallSucceeds(c) == circuit' = [circuit EXCEPT ![c] = Succeeded(@)]

\* A transport error, a timeout, a 5xx or malformed answer counts as a
\* failure; a refusal (auth, validation) neither as one nor as a success.
CallFails(c) == circuit' = [circuit EXCEPT ![c] = Failed(@)] \/ UNCHANGED circuit

(***************************************************************************)
(* Parcels and the rows that name them.                                    *)
(***************************************************************************)
Econt(o) == order[o].courier = "econt"
Live(p) == parcel[p].live /\ parcel[p].lost = "no"
NewParcel(o, why) == Append(parcel, [order |-> o, live |-> TRUE, lost |-> why])
Next1 == Len(parcel) + 1
Room == Len(parcel) + Len(cases) < MaxRecords
MayCreate == Len(parcel) < MaxParcels /\ Room
MayOpen == Len(cases) < MaxCases /\ Room

\* A number that is typed over hides the parcel it replaces.
Retyped(o) ==
    IF order[o].number \in 1..Len(parcel)
    THEN [parcel EXCEPT ![order[o].number].lost = IF @ = "no" THEN "retyped" ELSE @]
    ELSE parcel

Free(r) == request[r] = Idle
Begin(r, op, o) ==
    /\ request' = [request EXCEPT ![r] = [op |-> op, order |-> o,
                                          number |-> order[o].number]]
    /\ UNCHANGED <<order, parcel, circuit, cases, adminVars>>
End(r) == request' = [request EXCEPT ![r] = Idle]

\* VALID_TRANSITIONS, from 'confirmed' on.
Successors == [confirmed |-> {"shipped", "cancelled"},
               shipped |-> {"delivered", "return_in_transit"},
               delivered |-> {"return_in_transit"},
               return_in_transit |-> {"returned"},
               returned |-> {}, cancelled |-> {}]
MayBecome(o, status) == status \in Successors[order[o].status]
MayShip(o) == MayBecome(o, "shipped") /\ ~order[o].review

\* Shipped by update_status: a Speedy waybill clears the mark of a withdrawn
\* shipment, an Econt number leaves it.
ShippedRow(o, number) ==
    [order[o] EXCEPT !.status = "shipped", !.number = number,
                     !.withdrawn = @ /\ Econt(o)]

(***************************************************************************)
(* Payment reviews come and go with card payments and refunds.             *)
(***************************************************************************)
PaymentReview(o) ==
    /\ events < MaxEvents
    /\ events' = events + 1
    /\ order' = [order EXCEPT ![o].review = ~@]
    /\ UNCHANGED <<parcel, econt, circuit, request, poller, cases>>

\* PATCH /orders/{id}/status with every number the admin has to type, and the
\* number an Econt label left; returns go through Returns.
MarkStatus(r, o, status) ==
    /\ Free(r)
    /\ MayBecome(o, status)
    /\ IF status = "shipped"
       THEN /\ MayShip(o)
            /\ \/ /\ order' = [order EXCEPT ![o] = ShippedRow(o, Typed)]
                  /\ parcel' = Retyped(o)
               \/ /\ Econt(o) /\ order[o].number /= NoNumber
                  /\ order' = [order EXCEPT ![o] = ShippedRow(o, order[o].number)]
                  /\ UNCHANGED parcel
       ELSE /\ order' = [order EXCEPT ![o].status = status]
            /\ UNCHANGED parcel
    /\ UNCHANGED <<circuit, request, cases, adminVars>>

(***************************************************************************)
(* Speedy: create_or_reuse_waybill and update_status_async.                *)
(***************************************************************************)
\* An order that has a number keeps it: only an audit event is written.
Reuses(o) == order[o].number /= NoNumber

StartWaybill(r, o) ==
    /\ Free(r) /\ ~Econt(o)
    /\ ~Reuses(o)
    /\ MayShip(o)
    /\ Begin(r, "waybill", o)

\* The parcel exists; update_status looks at the order again, and when it is
\* refused the transaction rolls back.
FinishWaybill(r) ==
    LET o == request[r].order
    IN  /\ request[r].op = "waybill"
        /\ MayCreate
        /\ \/ /\ MayShip(o)
              /\ order' = [order EXCEPT ![o] = ShippedRow(o, Next1)]
              /\ parcel' = Append(Retyped(o),
                                  [order |-> o, live |-> TRUE, lost |-> "no"])
           \/ /\ ~MayShip(o)
              /\ parcel' = NewParcel(o, "refused")
              /\ UNCHANGED order
        /\ End(r)
        /\ UNCHANGED <<circuit, cases, adminVars>>

\* The call fails, for all the program knows: the courier may have acted.
FailWaybill(r) ==
    /\ request[r].op = "waybill"
    /\ \/ UNCHANGED parcel
       \/ MayCreate /\ parcel' = NewParcel(request[r].order, "answer")
    /\ End(r)
    /\ UNCHANGED <<order, circuit, cases, adminVars>>

\* cancel_order_shipment: blockers, the call, and the mark on the order.
MayWithdraw(o) ==
    /\ ~Econt(o)
    /\ order[o].number /= NoNumber
    /\ order[o].status \notin {"delivered", "returned", "cancelled"}
    /\ ~order[o].withdrawn

StartWithdraw(r, o) ==
    /\ Free(r) /\ MayWithdraw(o)
    /\ Allowed("speedy")
    /\ Begin(r, "withdraw", o)

Gone(p) == IF p \in 1..Len(parcel) THEN [parcel EXCEPT ![p].live = FALSE] ELSE parcel

FinishWithdraw(r) ==
    /\ request[r].op = "withdraw"
    /\ parcel' = Gone(request[r].number)
    /\ order' = [order EXCEPT ![request[r].order].withdrawn = TRUE]
    /\ CallSucceeds("speedy")
    /\ End(r)
    /\ UNCHANGED <<cases, adminVars>>

\* _eligible_pickup_order_ids and request_pickup, for one parcel.
MayFetch(o) ==
    /\ ~Econt(o)
    /\ order[o].number /= NoNumber
    /\ order[o].status \in {"shipped", "confirmed"}
    /\ ~order[o].withdrawn

StartPickup(r, o) ==
    /\ Free(r) /\ MayFetch(o)
    /\ Allowed("speedy")
    /\ Begin(r, "pickup", o)

FinishPickup(r) ==
    /\ request[r].op = "pickup"
    /\ CallSucceeds("speedy")
    /\ End(r)
    /\ UNCHANGED <<order, parcel, cases, adminVars>>

\* search_shipments, shipment_info, pickup_terms and the client check of
\* get_health: a guarded call that changes nothing but the audit trail.
StartConsult(r, o) ==
    /\ Free(r) /\ ~Econt(o)
    /\ Allowed("speedy")
    /\ Begin(r, "consult", o)

FinishConsult(r) ==
    /\ request[r].op = "consult"
    /\ CallSucceeds("speedy")
    /\ End(r)
    /\ UNCHANGED <<order, parcel, cases, adminVars>>

(***************************************************************************)
(* Econt: create_label, create_label_and_mark_shipped, delete_label.       *)
(***************************************************************************)
\* _readiness_blockers with require_status.
LabelReady(o) == econt.enabled /\ order[o].status = "confirmed"

StartLabel(r, o, op) ==
    /\ Free(r) /\ Econt(o)
    /\ ~Reuses(o)
    /\ LabelReady(o)
    /\ Allowed("econt")
    /\ op \in {"label", "label_and_ship"}
    /\ Begin(r, op, o)

\* create_label_and_mark_shipped with the label that is there already.
ShipLabelled(r, o) ==
    /\ Free(r) /\ Econt(o)
    /\ Reuses(o) /\ MayShip(o)
    /\ order' = [order EXCEPT ![o] = ShippedRow(o, order[o].number)]
    /\ UNCHANGED <<parcel, circuit, request, cases, adminVars>>

\* The label is stored; a request that also ships is refused by update_status
\* when the order is under review or has moved on, and everything it wrote is
\* rolled back.
FinishLabel(r) ==
    LET o == request[r].order
        ships == request[r].op = "label_and_ship"
    IN  /\ request[r].op \in {"label", "label_and_ship"}
        /\ MayCreate
        /\ \/ /\ ships => MayShip(o)
              /\ order' = [order EXCEPT ![o] =
                     IF ships THEN ShippedRow(o, Next1) ELSE [@ EXCEPT !.number = Next1]]
              /\ parcel' = NewParcel(o, "no")
           \/ /\ ships /\ ~MayShip(o)
              /\ parcel' = NewParcel(o, "refused")
              /\ UNCHANGED order
        /\ CallSucceeds("econt")
        /\ End(r)
        /\ UNCHANGED <<cases, adminVars>>

FailLabel(r) ==
    /\ request[r].op \in {"label", "label_and_ship"}
    /\ \/ UNCHANGED parcel
       \/ MayCreate /\ parcel' = NewParcel(request[r].order, "answer")
    /\ CallFails("econt")
    /\ End(r)
    /\ UNCHANGED <<order, cases, adminVars>>

MayDelete(o) ==
    /\ Econt(o)
    /\ order[o].status \notin {"shipped", "delivered"}
    /\ order[o].number /= NoNumber

StartDelete(r, o) ==
    /\ Free(r) /\ MayDelete(o)
    /\ Allowed("econt")
    /\ Begin(r, "delete", o)

FinishDelete(r) ==
    /\ request[r].op = "delete"
    /\ parcel' = Gone(request[r].number)
    /\ order' = [order EXCEPT ![request[r].order].number = NoNumber]
    /\ CallSucceeds("econt")
    /\ End(r)
    /\ UNCHANGED <<cases, adminVars>>

\* Another call fails: _persist_failure overwrites the mark of a withdrawn
\* shipment (when the search was about this order); only the failure of a
\* cancellation and of a call that names no order leave it.
FailCall(r) ==
    LET q == request[r]
    IN  /\ q.op \in {"delete", "withdraw", "pickup", "consult"}
        /\ \/ q.op \in {"withdraw", "consult"} /\ UNCHANGED order
           \/ /\ q.op /= "withdraw"
              /\ order' = [order EXCEPT ![q.order].withdrawn = FALSE]
        /\ CallFails(order[q.order].courier)
        /\ End(r)
        /\ UNCHANGED <<parcel, cases, adminVars>>

\* PATCH /econt/settings
ChangeEcontSettings ==
    /\ events < MaxEvents
    /\ events' = events + 1
    /\ econt' = [econt EXCEPT !.enabled = ~@]
    /\ UNCHANGED <<order, parcel, circuit, request, poller, cases>>

(***************************************************************************)
(* Polling.                                                                *)
(***************************************************************************)
\* min(interval * 2 ** min(attempts - 1, 6), max), in intervals.
Backoff(attempts) ==
    LET longer == IF attempts - 1 > 6 THEN 64 ELSE 2 ^ (attempts - 1)
    IN  IF longer > MaxBackoff THEN MaxBackoff ELSE longer

\* _mark_success: whoever polled, and under whatever lease.
PolledRow(row) ==
    [row EXCEPT !.next = 1, !.attempts = 0, !.lease = 0, !.withdrawn = FALSE]

\* _mark_failure
FailedRow(row) ==
    LET attempts == IF row.attempts < MaxAttempts THEN row.attempts + 1 ELSE MaxAttempts
    IN  [row EXCEPT !.attempts = attempts, !.next = Backoff(attempts), !.lease = 0,
                        !.withdrawn = FALSE]

Trackable(o) ==
    /\ order[o].status \in {"shipped", "return_in_transit"}
    /\ order[o].number /= NoNumber

\* Fault: an order that failed MaxAttempts times is given up.
DueUntilGivenUp(o) ==
    Trackable(o) /\ order[o].next = 0 /\ order[o].lease = 0
    /\ order[o].attempts < MaxAttempts

\* _select_due_candidates
Due(o) == Trackable(o) /\ order[o].next = 0 /\ order[o].lease = 0

SelectDue(w) ==
    /\ poller[w] = Resting
    /\ \E o \in Order : Due(o)
    /\ poller' = [poller EXCEPT ![w].selected = {o \in Order : Due(o)}]
    /\ UNCHANGED <<order, parcel, econt, circuit, request, cases, events>>

\* The conditional update of acquire_due_orders, committed row by row.
AcquireLease(w, o) ==
    /\ o \in poller[w].selected
    /\ poller' = [poller EXCEPT
           ![w].selected = @ \ {o},
           ![w].leased = IF order[o].lease = 0 THEN @ \cup {o} ELSE @]
    /\ order' = [order EXCEPT ![o].lease = IF @ = 0 THEN LeaseTime ELSE @]
    /\ UNCHANGED <<parcel, econt, circuit, request, cases, events>>

MayAsk(o) ==
    /\ order[o].number /= NoNumber
    /\ Econt(o) => Allowed("econt")

\* poll_due_shipments asks about one order after the other.
AskCourier(w, o) ==
    /\ poller[w].selected = {} /\ poller[w].asked = NoOrder
    /\ o \in poller[w].leased
    /\ IF MayAsk(o)
       THEN /\ poller' = [poller EXCEPT ![w].asked = o]
            /\ UNCHANGED order
       ELSE /\ poller' = [poller EXCEPT ![w].leased = @ \ {o}]
            /\ order' = [order EXCEPT ![o] = FailedRow(@)]
    /\ UNCHANGED <<parcel, econt, circuit, request, cases, events>>

HasCase(o) == \E n \in 1..Len(cases) : cases[n].order = o
Signal(o) == [order |-> o, source |-> "courier", status |-> "requested",
              back |-> 0, off |-> 0]

\* Fault: every sign that a parcel comes back opens a case.
SignalledAgain(o, comesBack) == IF comesBack THEN Append(cases, Signal(o)) ELSE cases

\* _record_return_review_signal: only when the order has no case yet.
Signalled(o, comesBack) ==
    IF comesBack /\ ~HasCase(o)
    THEN Append(cases, Signal(o))
    ELSE cases

\* refresh_tracking or refresh_trace stores what the courier says: Speedy's
\* answer overwrites the mark of a withdrawn shipment too.
Refreshed(o, comesBack) ==
    /\ order' = [order EXCEPT ![o] = PolledRow(@)]
    /\ comesBack => MayOpen \/ HasCase(o)
    /\ cases' = Signalled(o, comesBack)
    /\ IF Econt(o) THEN CallSucceeds("econt") ELSE UNCHANGED circuit

RefreshFailed(o) ==
    /\ order' = [order EXCEPT ![o] = FailedRow(@)]
    /\ IF Econt(o) THEN CallFails("econt") ELSE UNCHANGED circuit

PollAnswered(w, comesBack) ==
    LET o == poller[w].asked
    IN  /\ o /= NoOrder
        /\ Refreshed(o, comesBack)
        /\ poller' = [poller EXCEPT ![w].asked = NoOrder, ![w].leased = @ \ {o}]
        /\ UNCHANGED <<parcel, econt, request, events>>

PollFailed(w) ==
    LET o == poller[w].asked
    IN  /\ o /= NoOrder
        /\ RefreshFailed(o)
        /\ poller' = [poller EXCEPT ![w].asked = NoOrder, ![w].leased = @ \ {o}]
        /\ UNCHANGED <<parcel, econt, request, cases, events>>

\* refresh_order_now: an admin asks, without a lease.
StartRefresh(r, o) ==
    /\ Free(r)
    /\ IF MayAsk(o)
       THEN Begin(r, "refresh", o)
       ELSE /\ order' = [order EXCEPT ![o] = FailedRow(@)]
            /\ UNCHANGED <<parcel, circuit, request, cases, adminVars>>

FinishRefresh(r, comesBack) ==
    /\ request[r].op = "refresh"
    /\ Refreshed(request[r].order, comesBack)
    /\ End(r)
    /\ UNCHANGED <<parcel, adminVars>>

FailRefresh(r) ==
    /\ request[r].op = "refresh"
    /\ RefreshFailed(request[r].order)
    /\ End(r)
    /\ UNCHANGED <<parcel, cases, adminVars>>

\* record_manual_status: evidence an admin types in, with a number or without.
RecordManualStatus(r, o, typed, comesBack) ==
    /\ Free(r) /\ Econt(o)
    /\ order' = [order EXCEPT ![o].withdrawn = FALSE,
                              ![o].number = IF typed THEN Typed ELSE @]
    /\ parcel' = IF typed THEN Retyped(o) ELSE parcel
    /\ comesBack => MayOpen \/ HasCase(o)
    /\ cases' = Signalled(o, comesBack)
    /\ UNCHANGED <<circuit, request, adminVars>>

\* An interval passes for every due time and every lease.
Down(n) == IF n > 0 THEN n - 1 ELSE 0
Tick ==
    /\ \E o \in Order : order[o].next > 0 \/ order[o].lease > 0
    /\ order' = [o \in Order |->
           [order[o] EXCEPT !.next = Down(@), !.lease = Down(@)]]
    /\ UNCHANGED <<parcel, econt, circuit, request, poller, cases, events>>

\* The process dies and starts again with closed circuits.  What it leased
\* stays leased until the lease expires; a waybill it had asked for may exist.
Crash(created) ==
    /\ events < MaxEvents
    /\ events' = events + 1
    /\ poller' = [w \in Poller |-> Resting]
    /\ request' = [r \in Request |-> Idle]
    /\ circuit' = [c \in Couriers |-> [state |-> "closed", failures |-> 0]]
    /\ IF created
       THEN \E r \in Request :
                /\ request[r].op \in {"waybill", "label", "label_and_ship"}
                /\ MayCreate
                /\ parcel' = NewParcel(request[r].order, "answer")
       ELSE UNCHANGED parcel
    /\ UNCHANGED <<order, econt, cases>>

SpeedyNext ==
    \E r \in Request :
        \/ \E o \in Order : StartWaybill(r, o) \/ StartWithdraw(r, o)
                            \/ StartPickup(r, o) \/ StartConsult(r, o)
        \/ FinishWaybill(r) \/ FailWaybill(r) \/ FinishWithdraw(r)
        \/ FinishPickup(r) \/ FinishConsult(r)

EcontNext ==
    \/ \E r \in Request :
        \/ \E o \in Order :
            \/ \E op \in {"label", "label_and_ship"} : StartLabel(r, o, op)
            \/ ShipLabelled(r, o) \/ StartDelete(r, o)
            \/ \E typed, comesBack \in BOOLEAN :
                   RecordManualStatus(r, o, typed, comesBack)
        \/ FinishLabel(r) \/ FailLabel(r) \/ FinishDelete(r) \/ FailCall(r)
    \/ ChangeEcontSettings

RefreshNext ==
    \E r \in Request :
        \/ \E o \in Order : StartRefresh(r, o)
        \/ \E comesBack \in BOOLEAN : FinishRefresh(r, comesBack)
        \/ FailRefresh(r)

PollNext ==
    \E w \in Poller :
        \/ SelectDue(w)
        \/ \E o \in Order : AcquireLease(w, o) \/ AskCourier(w, o)
        \/ \E comesBack \in BOOLEAN : PollAnswered(w, comesBack)
        \/ PollFailed(w)

ShippingNext ==
    \/ SpeedyNext \/ EcontNext \/ RefreshNext \/ PollNext
    \/ \E r \in Request, o \in Order, status \in {"shipped", "delivered", "cancelled",
           "return_in_transit", "returned"} : MarkStatus(r, o, status)
    \/ \E o \in Order : PaymentReview(o)
    \/ \E c \in Couriers : Recover(c) \/ Forget(c)
    \/ Tick
    \/ \E created \in BOOLEAN : Crash(created)
=============================================================================
