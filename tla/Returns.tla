------------------------------- MODULE Returns -------------------------------
(***************************************************************************)
(* Return cases, app/services/return_service.py and the return routes of   *)
(* app/routes/admin.py, over Shipping.  The routes are synchronous: a      *)
(* request reads a case and writes it in one transaction without a lock,   *)
(* so an inspection, whose guard and whose writes others may come between, *)
(* is two steps; the other requests are one.                               *)
(*                                                                         *)
(* An order has one line of Ordered units.  The cases' fees, claims and    *)
(* notes are left out.                                                     *)
(***************************************************************************)
EXTENDS Shipping

CONSTANTS
    Ordered,   \* units of an order
    Ledger,    \* orders of goods whose stock the inventory ledger manages
    Opening    \* statuses an admin creates a case with

ASSUME ReturnsAssumption ==
    /\ Ordered \in Nat \ {0}
    /\ Ledger \subseteq Order
    /\ Opening \subseteq {"requested", "return_in_transit", "received", "inspected",
                        "rejected", "closed"}

RETURN_TRANSITIONS ==
    [requested |-> {"return_in_transit", "received", "rejected", "closed"},
     return_in_transit |-> {"received", "rejected"},
     received |-> {"inspected", "rejected"},
     inspected |-> {"closed"},
     rejected |-> {"closed"},
     closed |-> {}]

CaseMay(n, status) == status \in RETURN_TRANSITIONS[cases[n].status]

\* POST /orders/{id}/returns, for an order in any state and however many cases
\* it has; a case that is in transit takes the order along.
CreateCase(r, o, status) ==
    /\ Free(r)
    /\ MayOpen
    /\ status = "return_in_transit" => MayBecome(o, "return_in_transit")
    /\ order' = IF status = "return_in_transit"
                THEN [order EXCEPT ![o].status = "return_in_transit"] ELSE order
    /\ cases' = Append(cases, [order |-> o, source |-> "admin", status |-> status,
                               back |-> 0, off |-> 0])
    /\ UNCHANGED <<parcel, circuit, request, adminVars>>

\* POST .../receive: an order that is on its way back is 'returned'.
ReceiveCase(r, n) ==
    LET o == cases[n].order
    IN  /\ Free(r)
        /\ CaseMay(n, "received")
        /\ cases' = [cases EXCEPT ![n].status = "received"]
        /\ order' = IF order[o].status = "return_in_transit"
                    THEN [order EXCEPT ![o].status = "returned"] ELSE order
        /\ UNCHANGED <<parcel, circuit, request, adminVars>>

\* Fault: a case is inspected for as long as it is not closed.
InspectableOpen(n) == cases[n].status \in {"received", "inspected"}

Inspectable(n) == cases[n].status = "received"

\* PATCH .../inspect, with what _restock_quantities_for_decision lets through.
StartInspection(r, n, back) ==
    /\ Free(r)
    /\ Inspectable(n)
    /\ request' = [request EXCEPT ![r] = [op |-> "inspect", case |-> n, back |-> back]]
    /\ UNCHANGED <<order, parcel, circuit, cases, adminVars>>

\* Goods of the ledger that are not restocked come in and are written off.
OffFor(o, back) == IF o \in Ledger THEN Ordered - back ELSE 0

FinishInspection(r) ==
    LET n == request[r].case
        back == request[r].back
    IN  /\ request[r].op = "inspect"
        /\ cases' = [cases EXCEPT
               ![n].status = "inspected",
               ![n].back = @ + back,
               ![n].off = @ + OffFor(cases[n].order, back)]
        /\ End(r)
        /\ UNCHANGED <<order, parcel, circuit, adminVars>>

CloseCase(r, n) ==
    /\ Free(r)
    /\ CaseMay(n, "closed")
    /\ cases' = [cases EXCEPT ![n].status = "closed"]
    /\ UNCHANGED <<order, parcel, circuit, request, adminVars>>

ReturnsNext ==
    \E r \in Request :
        \/ \E o \in Order, status \in Opening : CreateCase(r, o, status)
        \/ \E n \in 1..Len(cases) :
               \/ ReceiveCase(r, n)
               \/ \E back \in 0..Ordered : StartInspection(r, n, back)
               \/ CloseCase(r, n)
        \/ FinishInspection(r)

Next == ShippingNext \/ ReturnsNext
Spec == Init /\ [][Next]_vars

(***************************************************************************)
(* Properties.                                                             *)
(***************************************************************************)

\* A parcel that exists, and whose creation the program heard of and kept, is
\* the one its order names: nothing is labelled twice, and no number is
\* dropped while its parcel is on its way.
KnownParcels ==
    \A p \in 1..Len(parcel) : Live(p) => order[parcel[p].order].number = p

\* An order that left has the number its customer and the polling loop follow.
ShippedHasNumber ==
    \A o \in Order :
        order[o].status \in {"shipped", "delivered"} => order[o].number /= NoNumber

\* However often the courier says that a parcel comes back, to the loop and to
\* admins, it opens one case at most.
OneSignalCase ==
    \A m, n \in 1..Len(cases) :
        /\ cases[m].source = "courier" /\ cases[n].source = "courier"
        /\ cases[m].order = cases[n].order
        => m = n

\* A case puts the units of its order back, or writes them off, once.
RestockOncePerCase ==
    \A n \in 1..Len(cases) :
        /\ cases[n].back + cases[n].off <= Ordered
        /\ cases[n].order \in Ledger
               => cases[n].back + cases[n].off \in {0, Ordered}

\* Two admins inspect a case at the same time: both found it 'received'.
InspectsAgain(r) ==
    FinishInspection(r) /\ cases[request[r].case].status /= "received"

\* However many requests overlap, a case that was put back or written off once
\* is so again only by such an inspection.
OnlyOverlapRestocks ==
    RestockOncePerCase => RestockOncePerCase' \/ \E r \in Request : InspectsAgain(r)
RestockedAgainOnlyByOverlap == [][OnlyOverlapRestocks]_vars

\* Once a courier is up for good, an order that is due is asked about with
\* success, after failures, backoff, crashes and leases left behind.
Answered(o) == order[o].attempts = 0 /\ order[o].next > 0
KeepsPolling ==
    (\A c \in Couriers : <>[](circuit[c].state /= "open"))
        => \A o \in Order :
               (Trackable(o) /\ order[o].next = 0) ~> (Answered(o) \/ ~Trackable(o))

\* Not kept by the code (see the README):
\* update_status refuses only what has no parcel yet;
RefusedLeavesNoParcel == \A p \in 1..Len(parcel) : parcel[p].lost /= "refused"

\* a courier is never sent for a parcel that was withdrawn;
WithdrawnNotFetched ==
    \A r \in Request :
        request[r].op = "pickup" /\ request[r].number /= Typed
            => parcel[request[r].number].live

\* the cases of an order put its units back once;
RestockedOnce ==
    \A o \in Order :
        MapThenSumSet(LAMBDA n : cases[n].back,
                      {n \in 1..Len(cases) : cases[n].order = o}) <= Ordered

\* one loop at a time asks about an order.
OnePoll ==
    \A v, w \in Poller :
        poller[v].asked = poller[w].asked /\ poller[v].asked /= NoOrder => v = w

(***************************************************************************)
(* The loop always runs again, time passes, circuits half-open, and a      *)
(* courier that is asked again and again, by the loop or by admins,        *)
(* answers some day.                                                       *)
(***************************************************************************)
Fairness ==
    /\ WF_vars(Tick)
    /\ \A c \in Couriers : WF_vars(Recover(c))
    /\ \A r \in Request :
           SF_vars(\E comesBack \in BOOLEAN : FinishRefresh(r, comesBack))
    /\ \A w \in Poller :
        /\ WF_vars(SelectDue(w))
        /\ \A o \in Order : WF_vars(AcquireLease(w, o)) /\ WF_vars(AskCourier(w, o))
        /\ SF_vars(\E comesBack \in BOOLEAN : PollAnswered(w, comesBack))

FairSpec == Spec /\ Fairness
=============================================================================
