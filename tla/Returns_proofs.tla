--------------------------- MODULE Returns_proofs ---------------------------
(***************************************************************************)
(* Theorems about the return cases, with everything Shipping does beside   *)
(* them, for every set of orders, requests and pollers.                    *)
(***************************************************************************)
EXTENDS Returns, TLAPS

PollerRow == [selected : SUBSET Order, leased : SUBSET Order, asked : Order \cup {NoOrder}]

\* What the steps that open a case find in the variables.
RowsOK ==
    /\ cases \in Seq(Case)
    /\ poller \in [Poller -> PollerRow]
    /\ request = [r \in Request |-> request[r]]
    /\ \A r \in Request :
           /\ request[r].op = "refresh" => request[r].order \in Order
           /\ request[r].op = "inspect" => /\ request[r].case \in 1..Len(cases)
                                          /\ request[r].back \in 0..Ordered

\* Units came back only for cases that were inspected.
Untouched(c) == c.status \notin {"inspected", "closed"} => c.back = 0 /\ c.off = 0

AllUntouched == \A n \in 1..Len(cases) : Untouched(cases[n])

ReturnsInv == RowsOK /\ OneSignalCase /\ AllUntouched

\* A step that keeps the invariant, and what was put back once.
Stays == ReturnsInv' /\ (RestockOncePerCase => RestockOncePerCase')

LEMMA InitInv == ASSUME ReturnsAssumption, Init PROVE ReturnsInv
<1>1. cases = <<>> /\ Len(cases) = 0
  BY DEF Init
<1>2. RowsOK
  BY DEF Init, RowsOK, PollerRow, Resting, Idle
<1>3. OneSignalCase /\ AllUntouched
  BY <1>1 DEF OneSignalCase, AllUntouched
<1> QED
  BY <1>2, <1>3 DEF ReturnsInv

-----------------------------------------------------------------------------
(* Steps that leave the cases alone.                                       *)

LEMMA CasesAlone ==
    ASSUME ReturnsInv, UNCHANGED cases,
           poller' \in [Poller -> PollerRow],
           request' = [r \in Request |-> request'[r]],
           \A r \in Request : \/ request'[r] = request[r]
                              \/ request'[r].op = "refresh" /\ request'[r].order \in Order
                              \/ request'[r].op \notin {"refresh", "inspect"}
    PROVE  Stays
<1>1. RowsOK'
  BY DEF ReturnsInv, RowsOK
<1>2. OneSignalCase'
  BY DEF ReturnsInv, OneSignalCase
<1>3. AllUntouched' /\ (RestockOncePerCase => RestockOncePerCase')
  BY DEF ReturnsInv, AllUntouched, RestockOncePerCase
<1> QED
  BY <1>1, <1>2, <1>3 DEF ReturnsInv, Stays

LEMMA NothingMoves ==
    ASSUME ReturnsInv, UNCHANGED <<cases, poller, request>> PROVE Stays
  BY CasesAlone DEF ReturnsInv, RowsOK

LEMMA Begins ==
    ASSUME ReturnsInv, NEW r \in Request, NEW o \in Order, NEW op, op /= "inspect",
           Begin(r, op, o)
    PROVE  Stays
<1>1. /\ request' = [request EXCEPT ![r] = [op |-> op, order |-> o, number |-> order[o].number]]
      /\ UNCHANGED <<cases, poller>>
  BY DEF Begin, adminVars
<1>2. request' = [s \in Request |-> request'[s]]
      /\ \A s \in Request : s /= r => request'[s] = request[s]
  BY <1>1 DEF ReturnsInv, RowsOK
<1>3. request'[r].op = op /\ request'[r].order = o
  BY <1>1 DEF ReturnsInv, RowsOK
<1> QED
  BY <1>1, <1>2, <1>3, CasesAlone DEF ReturnsInv, RowsOK

LEMMA EndsAlone ==
    ASSUME ReturnsInv, NEW r \in Request, End(r), UNCHANGED <<cases, poller>>
    PROVE  Stays
<1>1. request' = [request EXCEPT ![r] = Idle] /\ UNCHANGED <<cases, poller>>
  BY DEF End
<1>2. /\ request' = [s \in Request |-> request'[s]]
      /\ request'[r].op = "idle"
      /\ \A s \in Request : s /= r => request'[s] = request[s]
  BY <1>1 DEF ReturnsInv, RowsOK, Idle
<1> QED
  BY <1>1, <1>2, CasesAlone DEF ReturnsInv, RowsOK

LEMMA SpeedyKeeps == ASSUME ReturnsInv, SpeedyNext PROVE Stays
<1> PICK r \in Request :
        \/ \E o \in Order : StartWaybill(r, o) \/ StartWithdraw(r, o)
                            \/ StartPickup(r, o) \/ StartConsult(r, o)
        \/ FinishWaybill(r) \/ FailWaybill(r) \/ FinishWithdraw(r)
        \/ FinishPickup(r) \/ FinishConsult(r)
  BY DEF SpeedyNext
<1>1. CASE \E o \in Order : StartWaybill(r, o) \/ StartWithdraw(r, o)
                            \/ StartPickup(r, o) \/ StartConsult(r, o)
  BY <1>1, Begins DEF StartWaybill, StartWithdraw, StartPickup, StartConsult
<1>2. CASE FinishWaybill(r) \/ FailWaybill(r) \/ FinishWithdraw(r)
           \/ FinishPickup(r) \/ FinishConsult(r)
  BY <1>2, EndsAlone DEF FinishWaybill, FailWaybill, FinishWithdraw, FinishPickup,
     FinishConsult, adminVars
<1> QED
  BY <1>1, <1>2

LEMMA PollersAlone ==
    ASSUME ReturnsInv, UNCHANGED <<cases, request>>, poller' \in [Poller -> PollerRow]
    PROVE  Stays
  BY CasesAlone DEF ReturnsInv, RowsOK

-----------------------------------------------------------------------------
(* Steps that open a case: one of a signal only where none is.             *)

LEMMA CaseOpened ==
    ASSUME ReturnsInv, ReturnsAssumption, NEW c \in Case, c.back = 0, c.off = 0,
           c.source = "courier" => ~HasCase(c.order),
           cases' = Append(cases, c),
           poller' \in [Poller -> PollerRow],
           request' = [r \in Request |-> request'[r]],
           \A r \in Request : \/ request'[r] = request[r]
                              \/ request'[r].op \notin {"refresh", "inspect"}
    PROVE  Stays
<1>1. /\ cases \in Seq(Case)
      /\ Len(cases) \in Nat /\ Len(cases') = Len(cases) + 1
      /\ \A n \in 1..Len(cases) : cases'[n] = cases[n]
      /\ cases'[Len(cases) + 1] = c
  BY DEF ReturnsInv, RowsOK
<1>2. cases' \in Seq(Case)
  BY <1>1
<1>3. RowsOK'
  BY <1>1, <1>2 DEF ReturnsInv, RowsOK
<1>4. OneSignalCase'
  <2> SUFFICES ASSUME NEW m \in 1..Len(cases'), NEW n \in 1..Len(cases'),
                      cases'[m].source = "courier", cases'[n].source = "courier",
                      cases'[m].order = cases'[n].order
               PROVE  m = n
    BY DEF OneSignalCase
  <2>1. CASE m \in 1..Len(cases) /\ n \in 1..Len(cases)
    BY <2>1, <1>1 DEF ReturnsInv, OneSignalCase
  <2>2. CASE m \notin 1..Len(cases) /\ n \in 1..Len(cases)
    <3>1. m = Len(cases) + 1
      BY <2>2, <1>1
    <3>2. HasCase(c.order)
      BY <3>1, <2>2, <1>1 DEF HasCase
    <3> QED
      BY <3>1, <3>2, <1>1
  <2>3. CASE m \in 1..Len(cases) /\ n \notin 1..Len(cases)
    <3>1. n = Len(cases) + 1
      BY <2>3, <1>1
    <3>2. HasCase(c.order)
      BY <3>1, <2>3, <1>1 DEF HasCase
    <3> QED
      BY <3>1, <3>2, <1>1
  <2>4. CASE m \notin 1..Len(cases) /\ n \notin 1..Len(cases)
    BY <2>4, <1>1
  <2> QED
    BY <2>1, <2>2, <2>3, <2>4
<1>5. \A n \in 1..Len(cases') : n \in 1..Len(cases) \/ cases'[n] = c
  BY <1>1
<1>6. AllUntouched'
  BY <1>1, <1>5 DEF ReturnsInv, AllUntouched, Untouched
<1>7. ASSUME RestockOncePerCase PROVE RestockOncePerCase'
  BY <1>1, <1>5, <1>7 DEF RestockOncePerCase, ReturnsAssumption
<1> QED
  BY <1>3, <1>4, <1>6, <1>7 DEF ReturnsInv, Stays

\* _record_return_review_signal
LEMMA SignalKeeps ==
    ASSUME ReturnsInv, ReturnsAssumption, NEW o \in Order, NEW comesBack \in BOOLEAN,
           cases' = Signalled(o, comesBack),
           poller' \in [Poller -> PollerRow],
           request' = [r \in Request |-> request'[r]],
           \A r \in Request : \/ request'[r] = request[r]
                              \/ request'[r].op \notin {"refresh", "inspect"}
    PROVE  Stays
<1>1. CASE comesBack /\ ~HasCase(o)
  <2>1. /\ Signal(o) \in Case
        /\ Signal(o).back = 0 /\ Signal(o).off = 0 /\ Signal(o).order = o
    BY DEF Signal, Case
  <2>2. cases' = Append(cases, Signal(o))
    BY <1>1 DEF Signalled
  <2> QED
    BY <2>1, <2>2, <1>1, CaseOpened
<1>2. CASE ~(comesBack /\ ~HasCase(o))
  <2>1. UNCHANGED cases
    BY <1>2 DEF Signalled
  <2> QED
    BY <2>1, CasesAlone
<1> QED
  BY <1>1, <1>2

LEMMA RefreshKeeps ==
    ASSUME ReturnsInv, ReturnsAssumption, RefreshNext PROVE Stays
<1> PICK r \in Request :
        \/ \E o \in Order : StartRefresh(r, o)
        \/ \E comesBack \in BOOLEAN : FinishRefresh(r, comesBack)
        \/ FailRefresh(r)
  BY DEF RefreshNext
<1>1. ASSUME NEW o \in Order, StartRefresh(r, o) PROVE Stays
  <2>1. CASE MayAsk(o)
    BY <1>1, <2>1, Begins DEF StartRefresh
  <2>2. CASE ~MayAsk(o)
    BY <1>1, <2>2, NothingMoves DEF StartRefresh, adminVars
  <2> QED
    BY <2>1, <2>2
<1>2. ASSUME NEW comesBack \in BOOLEAN, FinishRefresh(r, comesBack) PROVE Stays
  <2>1. /\ request[r].op = "refresh"
        /\ cases' = Signalled(request[r].order, comesBack)
        /\ UNCHANGED poller
        /\ request' = [request EXCEPT ![r] = Idle]
    BY <1>2 DEF FinishRefresh, Refreshed, End, adminVars
  <2>2. request[r].order \in Order
    BY <2>1 DEF ReturnsInv, RowsOK
  <2>3. /\ request' = [s \in Request |-> request'[s]]
        /\ request'[r].op = "idle"
        /\ \A s \in Request : s /= r => request'[s] = request[s]
    BY <2>1 DEF ReturnsInv, RowsOK, Idle
  <2>4. poller' \in [Poller -> PollerRow]
    BY <2>1 DEF ReturnsInv, RowsOK
  <2> QED
    BY <2>1, <2>2, <2>3, <2>4, SignalKeeps
<1>3. CASE FailRefresh(r)
  BY <1>3, EndsAlone DEF FailRefresh, adminVars
<1> QED
  BY <1>1, <1>2, <1>3

LEMMA EcontKeeps ==
    ASSUME ReturnsInv, ReturnsAssumption, EcontNext PROVE Stays
<1>1. ASSUME NEW r \in Request, NEW o \in Order, NEW op \in {"label", "label_and_ship"},
             StartLabel(r, o, op)
      PROVE  Stays
  <2>1. op /= "inspect" /\ Begin(r, op, o)
    BY <1>1 DEF StartLabel
  <2> QED
    BY <2>1, Begins
<1>2. ASSUME NEW r \in Request, NEW o \in Order, ShipLabelled(r, o) \/ StartDelete(r, o)
      PROVE  Stays
  <2>1. CASE ShipLabelled(r, o)
    BY <2>1, NothingMoves DEF ShipLabelled, adminVars
  <2>2. CASE StartDelete(r, o)
    BY <2>2, Begins DEF StartDelete
  <2> QED
    BY <1>2, <2>1, <2>2
<1>3. ASSUME NEW r \in Request, NEW o \in Order,
             NEW typed \in BOOLEAN, NEW comesBack \in BOOLEAN,
             RecordManualStatus(r, o, typed, comesBack)
      PROVE  Stays
  <2>1. cases' = Signalled(o, comesBack) /\ UNCHANGED <<request, poller>>
    BY <1>3 DEF RecordManualStatus, adminVars
  <2>2. /\ poller' \in [Poller -> PollerRow]
        /\ request' = [s \in Request |-> request'[s]]
        /\ \A s \in Request : request'[s] = request[s]
    BY <2>1 DEF ReturnsInv, RowsOK
  <2> QED
    BY <2>1, <2>2, SignalKeeps
<1>4. ASSUME NEW r \in Request,
             FinishLabel(r) \/ FailLabel(r) \/ FinishDelete(r) \/ FailCall(r)
      PROVE  Stays
  BY <1>4, EndsAlone DEF FinishLabel, FailLabel, FinishDelete, FailCall, adminVars
<1>5. CASE ChangeEcontSettings
  BY <1>5, NothingMoves DEF ChangeEcontSettings
<1> QED
  BY <1>1, <1>2, <1>3, <1>4, <1>5 DEF EcontNext

LEMMA PollingKeeps ==
    ASSUME ReturnsInv, ReturnsAssumption, PollNext PROVE Stays
<1>0. poller \in [Poller -> PollerRow]
  BY DEF ReturnsInv, RowsOK
<1> PICK w \in Poller :
        \/ SelectDue(w)
        \/ \E o \in Order : AcquireLease(w, o) \/ AskCourier(w, o)
        \/ \E comesBack \in BOOLEAN : PollAnswered(w, comesBack)
        \/ PollFailed(w)
  BY DEF PollNext
<1>1. CASE SelectDue(w)
  <2>1. poller' \in [Poller -> PollerRow]
    BY <1>0, <1>1 DEF SelectDue, PollerRow
  <2> QED
    BY <1>1, <2>1, PollersAlone DEF SelectDue
<1>2. ASSUME NEW o \in Order, AcquireLease(w, o) PROVE Stays
  <2>1. poller' \in [Poller -> PollerRow]
    BY <1>0, <1>2 DEF AcquireLease, PollerRow
  <2> QED
    BY <1>2, <2>1, PollersAlone DEF AcquireLease
<1>3. ASSUME NEW o \in Order, AskCourier(w, o) PROVE Stays
  <2>1. poller' \in [Poller -> PollerRow]
    BY <1>0, <1>3 DEF AskCourier, PollerRow
  <2> QED
    BY <1>3, <2>1, PollersAlone DEF AskCourier
<1>4. ASSUME NEW comesBack \in BOOLEAN, PollAnswered(w, comesBack) PROVE Stays
  <2>1. poller[w].asked \in Order
    BY <1>0, <1>4 DEF PollAnswered, PollerRow
  <2>2. cases' = Signalled(poller[w].asked, comesBack) /\ UNCHANGED request
    BY <1>4 DEF PollAnswered, Refreshed
  <2>3. poller' \in [Poller -> PollerRow]
    BY <1>0, <1>4 DEF PollAnswered, PollerRow
  <2>4. /\ request' = [s \in Request |-> request'[s]]
        /\ \A s \in Request : request'[s] = request[s]
    BY <2>2 DEF ReturnsInv, RowsOK
  <2> QED
    BY <2>1, <2>2, <2>3, <2>4, SignalKeeps
<1>5. CASE PollFailed(w)
  <2>1. poller' \in [Poller -> PollerRow]
    BY <1>0, <1>5 DEF PollFailed, PollerRow
  <2> QED
    BY <1>5, <2>1, PollersAlone DEF PollFailed
<1> QED
  BY <1>1, <1>2, <1>3, <1>4, <1>5

LEMMA ShippingKeeps ==
    ASSUME ReturnsInv, ReturnsAssumption, ShippingNext PROVE Stays
<1>1. ASSUME NEW r \in Request, NEW o \in Order, NEW status, MarkStatus(r, o, status)
      PROVE  Stays
  BY <1>1, NothingMoves DEF MarkStatus, adminVars
<1>2. ASSUME NEW o \in Order, PaymentReview(o) PROVE Stays
  BY <1>2, NothingMoves DEF PaymentReview
<1>3. ASSUME NEW c \in Couriers, Recover(c) \/ Forget(c) PROVE Stays
  BY <1>3, NothingMoves DEF Recover, Forget, adminVars
<1>4. CASE Tick
  BY <1>4, NothingMoves DEF Tick
<1>5. ASSUME NEW created \in BOOLEAN, Crash(created) PROVE Stays
  <2>1. /\ UNCHANGED cases
        /\ poller' = [w \in Poller |-> Resting]
        /\ request' = [r \in Request |-> Idle]
    BY <1>5 DEF Crash
  <2>2. poller' \in [Poller -> PollerRow]
    BY <2>1 DEF Resting, PollerRow
  <2>3. /\ request' = [r \in Request |-> request'[r]]
        /\ \A r \in Request : request'[r].op \notin {"refresh", "inspect"}
    BY <2>1 DEF Idle
  <2> QED
    BY <2>1, <2>2, <2>3, CasesAlone
<1> QED
  BY <1>1, <1>2, <1>3, <1>4, <1>5, SpeedyKeeps, EcontKeeps, RefreshKeeps, PollingKeeps
  DEF ShippingNext

-----------------------------------------------------------------------------
(* Steps of the return cases.                                              *)

LEMMA CreateKeeps ==
    ASSUME ReturnsInv, ReturnsAssumption, NEW r \in Request, NEW o \in Order,
           NEW status \in Opening, CreateCase(r, o, status)
    PROVE  Stays
<1> DEFINE c == [order |-> o, source |-> "admin", status |-> status, back |-> 0, off |-> 0]
<1>1. c \in Case
  BY DEF Case, ReturnsAssumption
<1>2. /\ cases' = Append(cases, c) /\ UNCHANGED <<request, poller>>
      /\ c.back = 0 /\ c.off = 0 /\ c.source = "admin"
  BY DEF CreateCase, adminVars
<1>3. /\ poller' \in [Poller -> PollerRow]
      /\ request' = [s \in Request |-> request'[s]]
      /\ \A s \in Request : request'[s] = request[s]
  BY <1>2 DEF ReturnsInv, RowsOK
<1> HIDE DEF c
<1> QED
  BY <1>1, <1>2, <1>3, CaseOpened

\* A case changes and stays the case of its order and of its source.
LEMMA CaseMoved ==
    ASSUME ReturnsInv, NEW n \in 1..Len(cases), NEW c \in Case,
           c.order = cases[n].order, c.source = cases[n].source,
           cases' = [cases EXCEPT ![n] = c],
           UNCHANGED poller,
           request' = [r \in Request |-> request'[r]],
           \A r \in Request : \/ request'[r] = request[r]
                              \/ request'[r].op \notin {"refresh", "inspect"},
           Untouched(c)
    PROVE  /\ ReturnsInv'
           /\ RestockOncePerCase
              /\ c.back + c.off <= Ordered
              /\ (c.order \in Ledger => c.back + c.off \in {0, Ordered})
              => RestockOncePerCase'
<1>1. /\ cases \in Seq(Case)
      /\ Len(cases') = Len(cases)
      /\ cases'[n] = c
      /\ \A m \in 1..Len(cases) : m /= n => cases'[m] = cases[m]
  BY DEF ReturnsInv, RowsOK
<1>2. cases' \in Seq(Case)
  BY <1>1
<1>3. RowsOK'
  BY <1>1, <1>2 DEF ReturnsInv, RowsOK
<1>4. OneSignalCase'
  <2>1. \A m \in 1..Len(cases) : /\ cases'[m].order = cases[m].order
                                 /\ cases'[m].source = cases[m].source
    BY <1>1
  <2> QED
    BY <2>1, <1>1 DEF ReturnsInv, OneSignalCase
<1>5. \A m \in 1..Len(cases) : cases'[m] = cases[m] \/ cases'[m] = c
  BY <1>1
<1>6. AllUntouched'
  BY <1>1, <1>5 DEF ReturnsInv, AllUntouched, Untouched
<1>7. ASSUME RestockOncePerCase, c.back + c.off <= Ordered,
             c.order \in Ledger => c.back + c.off \in {0, Ordered}
      PROVE  RestockOncePerCase'
  <2>1. ASSUME NEW m \in 1..Len(cases)
        PROVE  /\ cases'[m].back + cases'[m].off <= Ordered
               /\ cases'[m].order \in Ledger
                      => cases'[m].back + cases'[m].off \in {0, Ordered}
    <3>1. CASE cases'[m] = cases[m]
      BY <3>1, <1>7 DEF RestockOncePerCase
    <3>2. CASE cases'[m] = c
      BY <3>2, <1>7
    <3> QED
      BY <3>1, <3>2, <1>5
  <2> QED
    BY <2>1, <1>1 DEF RestockOncePerCase
<1> QED
  BY <1>3, <1>4, <1>6, <1>7 DEF ReturnsInv

LEMMA StatusMoved ==
    ASSUME ReturnsInv, NEW r \in Request, Free(r), NEW n \in 1..Len(cases),
           NEW status \in {"received", "closed"}, CaseMay(n, status),
           cases' = [cases EXCEPT ![n].status = status],
           UNCHANGED <<request, poller>>
    PROVE  Stays
<1> DEFINE c == [cases[n] EXCEPT !.status = status]
<1>1. cases[n] \in Case
  BY DEF ReturnsInv, RowsOK
<1>2. /\ c \in Case
      /\ c.order = cases[n].order /\ c.source = cases[n].source
      /\ c.back = cases[n].back /\ c.off = cases[n].off /\ c.status = status
      /\ cases' = [cases EXCEPT ![n] = c]
  BY <1>1 DEF Case
<1>3. /\ request' = [s \in Request |-> request'[s]]
      /\ \A s \in Request : request'[s] = request[s]
  BY DEF ReturnsInv, RowsOK
<1>4. status = "received" => cases[n].status \in {"requested", "return_in_transit"}
  BY <1>1 DEF CaseMay, RETURN_TRANSITIONS, Case
<1>5. Untouched(c)
  BY <1>2, <1>4 DEF ReturnsInv, AllUntouched, Untouched
<1>6. RestockOncePerCase => /\ c.back + c.off <= Ordered
                            /\ c.order \in Ledger => c.back + c.off \in {0, Ordered}
  BY <1>2 DEF RestockOncePerCase
<1> HIDE DEF c
<1> QED
  BY <1>2, <1>3, <1>5, <1>6, CaseMoved DEF Stays

LEMMA InspectStarts ==
    ASSUME ReturnsInv, NEW r \in Request, NEW n \in 1..Len(cases),
           NEW back \in 0..Ordered, StartInspection(r, n, back)
    PROVE  Stays
<1>1. /\ UNCHANGED <<cases, poller>>
      /\ cases[n].status = "received"
      /\ request' = [request EXCEPT ![r] = [op |-> "inspect", case |-> n, back |-> back]]
  BY DEF StartInspection, Inspectable, adminVars
<1>2. /\ request' = [s \in Request |-> request'[s]]
      /\ request'[r] = [op |-> "inspect", case |-> n, back |-> back]
      /\ \A s \in Request : s /= r => request'[s] = request[s]
  BY <1>1 DEF ReturnsInv, RowsOK
<1>3. RowsOK'
  BY <1>1, <1>2 DEF ReturnsInv, RowsOK
<1>4. OneSignalCase'
  BY <1>1 DEF ReturnsInv, OneSignalCase
<1>5. AllUntouched' /\ (RestockOncePerCase => RestockOncePerCase')
  BY <1>1 DEF ReturnsInv, AllUntouched, RestockOncePerCase
<1> QED
  BY <1>3, <1>4, <1>5 DEF ReturnsInv, Stays

LEMMA InspectEnds ==
    ASSUME ReturnsInv, ReturnsAssumption, NEW r \in Request, FinishInspection(r)
    PROVE  ReturnsInv' /\ (~InspectsAgain(r) => Stays)
<1> DEFINE n == request[r].case
           back == request[r].back
           c == [cases[n] EXCEPT !.status = "inspected", !.back = cases[n].back + back,
                                 !.off = cases[n].off + OffFor(cases[n].order, back)]
<1>0. /\ request[r].op = "inspect"
      /\ request' = [request EXCEPT ![r] = Idle]
      /\ UNCHANGED poller
  BY DEF FinishInspection, End, adminVars
<1>1. /\ n \in 1..Len(cases) /\ back \in 0..Ordered /\ Ordered \in Nat
      /\ cases[n] \in Case
  BY <1>0 DEF ReturnsInv, RowsOK, ReturnsAssumption
<1>2. /\ OffFor(cases[n].order, back) \in Nat
      /\ back + OffFor(cases[n].order, back) <= Ordered
      /\ cases[n].order \in Ledger => back + OffFor(cases[n].order, back) = Ordered
  BY <1>1 DEF OffFor
<1>3. /\ c \in Case
      /\ c.order = cases[n].order /\ c.source = cases[n].source
      /\ c.status = "inspected"
      /\ c.back = cases[n].back + back
      /\ c.off = cases[n].off + OffFor(cases[n].order, back)
  <2> DEFINE off == OffFor(cases[n].order, back)
  <2>1. cases[n].back \in Nat /\ cases[n].off \in Nat
    BY <1>1 DEF Case
  <2>2. back \in Nat /\ off \in Nat
    BY <1>1, <1>2
  <2> HIDE DEF n, back, off
  <2>3. cases[n].back + back \in Nat /\ cases[n].off + off \in Nat
    BY <2>1, <2>2
  <2>4. cases[n] \in Case
    BY <1>1
  <2> DEFINE b == cases[n].back + back
             f == cases[n].off + off
  <2>5. c = [cases[n] EXCEPT !.status = "inspected", !.back = b, !.off = f]
    BY DEF off
  <2> HIDE DEF b, f, c
  <2>6. /\ c \in Case
        /\ c.order = cases[n].order /\ c.source = cases[n].source
        /\ c.status = "inspected" /\ c.back = b /\ c.off = f
    <3>1. b \in Nat /\ f \in Nat
      BY <2>3 DEF b, f
    <3> QED
      BY <3>1, <2>4, <2>5 DEF Case
  <2> QED
    BY <2>6 DEF b, f, off
<1>4. cases' = [cases EXCEPT ![n] = c]
  BY DEF FinishInspection
<1>5. /\ request' = [s \in Request |-> request'[s]]
      /\ request'[r].op = "idle"
      /\ \A s \in Request : s /= r => request'[s] = request[s]
  BY <1>0 DEF ReturnsInv, RowsOK, Idle
<1>6. Untouched(c)
  BY <1>3 DEF Untouched
<1>7. ASSUME ~InspectsAgain(r)
      PROVE  c.back + c.off <= Ordered /\ (c.order \in Ledger => c.back + c.off \in {0, Ordered})
  <2>1. cases[n].status = "received"
    BY <1>7 DEF InspectsAgain
  <2>2. cases[n].back = 0 /\ cases[n].off = 0
    BY <2>1, <1>1 DEF ReturnsInv, AllUntouched, Untouched
  <2> HIDE DEF n, back, c
  <2> QED
    BY <2>2, <1>1, <1>2, <1>3
<1>8. \A s \in Request : \/ request'[s] = request[s]
                          \/ request'[s].op \notin {"refresh", "inspect"}
  BY <1>5
<1> HIDE DEF n, back, c
<1> QED
  BY <1>0, <1>1, <1>3, <1>4, <1>5, <1>6, <1>7, <1>8, CaseMoved DEF Stays

LEMMA ReturnsKeep ==
    ASSUME ReturnsInv, ReturnsAssumption, ReturnsNext PROVE ReturnsInv' /\ OnlyOverlapRestocks
<1> PICK r \in Request :
        \/ \E o \in Order, status \in Opening : CreateCase(r, o, status)
        \/ \E n \in 1..Len(cases) :
               \/ ReceiveCase(r, n)
               \/ \E back \in 0..Ordered : StartInspection(r, n, back)
               \/ CloseCase(r, n)
        \/ FinishInspection(r)
  BY DEF ReturnsNext
<1>0. Stays => ReturnsInv' /\ OnlyOverlapRestocks
  BY DEF Stays, OnlyOverlapRestocks
<1>1. CASE \E o \in Order, status \in Opening : CreateCase(r, o, status)
  BY <1>0, <1>1, CreateKeeps
<1>2. ASSUME NEW n \in 1..Len(cases), ReceiveCase(r, n) \/ CloseCase(r, n) PROVE ReturnsInv' /\ OnlyOverlapRestocks
  <2>1. CASE ReceiveCase(r, n)
    BY <1>0, <2>1, StatusMoved DEF ReceiveCase, adminVars
  <2>2. CASE CloseCase(r, n)
    BY <1>0, <2>2, StatusMoved DEF CloseCase, adminVars
  <2> QED
    BY <1>2, <2>1, <2>2
<1>3. ASSUME NEW n \in 1..Len(cases), NEW back \in 0..Ordered, StartInspection(r, n, back)
      PROVE  ReturnsInv' /\ OnlyOverlapRestocks
  BY <1>0, <1>3, InspectStarts
<1>4. CASE FinishInspection(r)
  BY <1>4, InspectEnds DEF Stays, OnlyOverlapRestocks
<1> QED
  BY <1>1, <1>2, <1>3, <1>4

-----------------------------------------------------------------------------
LEMMA NextInv ==
    ASSUME ReturnsInv, ReturnsAssumption, [Next]_vars
    PROVE  ReturnsInv' /\ OnlyOverlapRestocks
<1>0. Stays => ReturnsInv' /\ OnlyOverlapRestocks
  BY DEF Stays, OnlyOverlapRestocks
<1>1. CASE UNCHANGED vars
  BY <1>0, <1>1, NothingMoves DEF vars
<1> QED
  BY <1>0, <1>1, ShippingKeeps, ReturnsKeep DEF Next

\* However many admins and polling loops hear that the parcel of an order
\* comes back, and whatever fails or dies between, they open one case of it:
\* _record_return_review_signal looks for a case in the step that adds one.
THEOREM OneSignal == ASSUME ReturnsAssumption PROVE Spec => []OneSignalCase
<1>1. Init => ReturnsInv
  BY InitInv
<1>2. ReturnsInv /\ [Next]_vars => ReturnsInv'
  BY NextInv
<1>3. ReturnsInv => OneSignalCase
  BY DEF ReturnsInv
<1> QED
  BY <1>1, <1>2, <1>3, PTL DEF Spec

\* However many admins inspect, receive and close cases at once, a case puts
\* units back, or writes them off, a second time only by an inspection that
\* ends after another one of the same case: inspect_return_case reads the
\* status without a lock.
THEOREM OnlyOverlapRestocksAgain ==
    ASSUME ReturnsAssumption PROVE Spec => RestockedAgainOnlyByOverlap
<1>1. Init => ReturnsInv
  BY InitInv
<1>2. ReturnsInv /\ [Next]_vars => ReturnsInv'
  BY NextInv
<1>3. ReturnsInv /\ [Next]_vars => [OnlyOverlapRestocks]_vars
  BY NextInv
<1>4. Spec => [][OnlyOverlapRestocks]_vars
  BY <1>1, <1>2, <1>3, PTL DEF Spec
<1> QED
  BY <1>4 DEF RestockedAgainOnlyByOverlap
=============================================================================
