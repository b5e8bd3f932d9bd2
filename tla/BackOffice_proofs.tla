-------------------------- MODULE BackOffice_proofs --------------------------
(***************************************************************************)
(* Theorems about the back office with one admin request at a time, for    *)
(* every set of orders, periods, admins, batches, recipes, items, amounts  *)
(* and every bound: the output of a batch is posted once and a posting     *)
(* finds what it consumes, which are theorems of Production; no order is   *)
(* reported in two finance periods, and a period only closes over problems *)
(* that were decided; no movement is valued twice, and a cancelled order   *)
(* costs nothing.                                                          *)
(*                                                                         *)
(* The induction rules of the library take a predicate as a parameter. An  *)
(* induction over numbers is therefore a proof by least counterexample: a  *)
(* set of numbers that is not empty has a least member (LeastNatural).     *)
(***************************************************************************)
EXTENDS MCBackOffice, SequenceTheorems, FiniteSetTheorems, WellFoundedInduction, TLAPS

\* Every set of naturals has a least element.
LEMMA LeastNatural ==
    ASSUME NEW S, S \subseteq Nat, S /= {}
    PROVE  \E n \in S : \A m \in S : n <= m
<1>1. PICK R : R = OpToRel(<, Nat)
  OBVIOUS
<1>2. IsWellFoundedOn(R, Nat)
  BY <1>1, NatLessThanWellFounded
<1>3. PICK n \in S : \A m \in S : ~(<<m, n>> \in R)
  BY <1>2, WFMin
<1>4. \A m, k \in Nat : m < k => <<m, k>> \in R
  BY <1>1 DEF OpToRel
<1>5. \A m \in S : ~(m < n)
  BY <1>3, <1>4
<1> QED
  BY <1>5

-----------------------------------------------------------------------------
(* The workshop: the theorem of Production_proofs holds of the back office. *)

LEMMA ProductionOfBackOffice == BackOfficeSpec => P!SerialSpec
<1>1. BackOfficeInit => P!Init
  BY DEF BackOfficeInit
<1>2. [Producing \/ Valuing \/ Reporting]_everything => [P!SerialNext]_P!vars
  BY DEF Producing, Valuing, Reporting, everything, production, P!vars
<1> QED
  BY <1>1, <1>2, PTL DEF BackOfficeSpec, P!SerialSpec

\* A batch's output enters the stock once, exactly when it is produced.
THEOREM OutputPostedOnce == BackOfficeSpec => []ProducedOnce
<1>1. P!SerialSpec => []P!ProducedOnce /\ []P!OneActiveRecipe
  BY P!SerialProduces, BackOfficeAssumption
<1> QED
  BY <1>1, ProductionOfBackOffice, PTL DEF ProducedOnce

\* A posting never takes more of a material than there is.
THEOREM NoPostingUncovered == BackOfficeSpec => PostingCovered
<1>1. P!SerialSpec => P!PostingCovered
  BY P!PostingsCovered, BackOfficeAssumption
<1> QED
  BY <1>1, ProductionOfBackOffice, PTL DEF PostingCovered

-----------------------------------------------------------------------------
(* The books: no order in two periods.                                     *)

OrderRow == [day : Day, method : Method, status : {"placed", "delivered", "cancelled"},
             paid : BOOLEAN, ready : BOOLEAN, period : Period \cup {NoPeriod}]
PeriodOf(S) == [first : Day, last : Day, status : Status, summary : S]
PackageOf(S) == [period : Period, version : S, final : BOOLEAN, accepted : BOOLEAN,
                 summary : S, sales : SUBSET Order, refunds : SUBSET Order]

Opened(p) == \E S : periods[p] \in PeriodOf(S)

\* Every order's day is a day of the period it is assigned to.
OrdersSound ==
    /\ orders \in [Order -> OrderRow \cup {NotPlaced}]
    /\ \A o \in Order : orders[o] /= NotPlaced /\ orders[o].period /= NoPeriod =>
           /\ Opened(orders[o].period)
           /\ orders[o].day \in DaysOf(orders[o].period)

\* Periods do not overlap.
PeriodsSound ==
    /\ periods = [p \in Period |-> periods[p]]
    /\ \A p \in Period : periods[p] = NotCreated \/ Opened(p)
    /\ \A p, q \in Period : Opened(p) /\ Opened(q) /\ p /= q =>
           periods[p].last < periods[q].first \/ periods[q].last < periods[p].first

\* A package reports orders of its period's days.
Reports(e) ==
    /\ \E S : e \in PackageOf(S)
    /\ Opened(e.period)
    /\ \A o \in e.sales : orders[o] /= NotPlaced /\ orders[o].day \in DaysOf(e.period)

\* One package of a period is final.
ExportsSound ==
    /\ \E T : exports \in Seq(T)
    /\ \A n \in 1..Len(exports) : Reports(exports[n])
    /\ \A x, y \in 1..Len(exports) :
           exports[x].final /\ exports[y].final /\ exports[x].period = exports[y].period => x = y

\* What a request found is so until it writes, for it is the only one.
Found(j) ==
    \/ j = Idle
    \/ /\ j.op = "create" /\ j.period \in Period /\ j.first \in Day /\ j.last \in Day
       /\ periods[j.period] = NotCreated /\ Overlaps(j.first, j.last) = {}
    \/ j.op = "export" /\ Reports(j.package)

JobsSound ==
    /\ job = [a \in Admin |-> job[a]]
    /\ \A a \in Admin : Found(job[a])
    /\ \A a, b \in Admin : job[a] /= Idle /\ job[b] /= Idle => a = b

FinanceInv == OrdersSound /\ PeriodsSound /\ ExportsSound /\ JobsSound

LEMMA OpenedRow ==
    ASSUME NEW p, Opened(p)
    PROVE  /\ periods[p] /= NotCreated
           /\ periods[p].first \in Day /\ periods[p].last \in Day
           /\ periods[p].first \in Nat /\ periods[p].last \in Nat
<1>1. "first" \notin DOMAIN NotCreated
  BY DEF NotCreated
<1> QED
  BY <1>1, BooksAssumption DEF Opened, PeriodOf, BooksAssumption

LEMMA SoundMeansOnce == ASSUME FinanceInv PROVE ReportedOnce
<1>1. ASSUME NEW x \in 1..Len(exports), NEW y \in 1..Len(exports),
             exports[x].final, exports[y].final, x /= y,
             NEW o \in exports[x].sales, o \in exports[y].sales
      PROVE  FALSE
  <2> DEFINE p == exports[x].period
             q == exports[y].period
  <2>1. /\ p /= q /\ p \in Period /\ q \in Period /\ o \in Order
        /\ Opened(p) /\ Opened(q)
        /\ orders[o] /= NotPlaced /\ orders[o].day \in DaysOf(p) /\ orders[o].day \in DaysOf(q)
    BY <1>1 DEF FinanceInv, ExportsSound, Reports, PackageOf
  <2>2. orders[o].day \in Nat
    BY <2>1, BooksAssumption DEF FinanceInv, OrdersSound, OrderRow, BooksAssumption
  <2>3. periods[p].last < periods[q].first \/ periods[q].last < periods[p].first
    BY <2>1 DEF FinanceInv, PeriodsSound
  <2> HIDE DEF p, q
  <2> QED
    BY <2>1, <2>2, <2>3, OpenedRow DEF DaysOf
<1> QED
  BY <1>1 DEF ReportedOnce, FinanceInv, OrdersSound

-----------------------------------------------------------------------------
(* What no step of the books and of the periods undoes.                     *)

\* An order keeps its day.
OrdersStay ==
    \A o \in Order : orders[o] /= NotPlaced =>
        orders'[o] /= NotPlaced /\ orders'[o].day = orders[o].day

\* An order keeps its day and its period.
OrdersOnward ==
    /\ orders' \in [Order -> OrderRow \cup {NotPlaced}]
    /\ \A o \in Order :
           IF orders[o] = NotPlaced
           THEN orders'[o] = NotPlaced \/ orders'[o].period = NoPeriod
           ELSE /\ orders'[o] /= NotPlaced
                /\ orders'[o].day = orders[o].day /\ orders'[o].period = orders[o].period

\* A period keeps its days.
PeriodsStay ==
    /\ periods' = [p \in Period |-> periods'[p]]
    /\ \A p \in Period :
           \/ periods'[p] = periods[p]
           \/ /\ Opened(p) /\ Opened(p)'
              /\ periods'[p].first = periods[p].first /\ periods'[p].last = periods[p].last

\* The days of the periods there are stay.
DaysKept ==
    \A p \in Period : Opened(p) => /\ Opened(p)'
                                  /\ periods'[p].first = periods[p].first
                                  /\ periods'[p].last = periods[p].last

LEMMA KeptStays == ASSUME PeriodsStay PROVE DaysKept
  BY DEF PeriodsStay, DaysKept, Opened

LEMMA DaysStay ==
    ASSUME DaysKept, NEW p \in Period, Opened(p)
    PROVE  Opened(p)' /\ DaysOf(p)' = DaysOf(p)
  BY DEF DaysKept, DaysOf

LEMMA PeriodsSoundStays == ASSUME PeriodsSound, PeriodsStay PROVE PeriodsSound'
<1>1. \A p \in Period : Opened(p)' => Opened(p)
  BY DEF PeriodsStay, Opened
<1>2. \A p \in Period : /\ periods'[p] = NotCreated \/ Opened(p)'
                        /\ Opened(p) => /\ periods'[p].first = periods[p].first
                                        /\ periods'[p].last = periods[p].last
  BY DEF PeriodsStay, PeriodsSound, Opened
<1> QED
  BY <1>1, <1>2 DEF PeriodsStay, PeriodsSound

LEMMA ReportsStay ==
    ASSUME NEW e, Reports(e), OrdersStay, DaysKept
    PROVE  Reports(e)'
<1>1. e.period \in Period /\ e.sales \subseteq Order
  BY DEF Reports, PackageOf
<1> QED
  BY <1>1, DaysStay DEF Reports, OrdersStay

LEMMA ExportsStay ==
    ASSUME ExportsSound, exports' = exports, OrdersStay, DaysKept
    PROVE  ExportsSound'
  BY ReportsStay DEF ExportsSound

LEMMA OnwardStays == ASSUME OrdersOnward PROVE OrdersStay
  BY DEF OrdersOnward, OrdersStay

LEMMA OnwardSound ==
    ASSUME OrdersSound, OrdersOnward, DaysKept
    PROVE  OrdersSound'
<1> SUFFICES ASSUME NEW o \in Order, NEW q, q = orders'[o].period,
                    orders'[o] /= NotPlaced, q /= NoPeriod
             PROVE  Opened(q)' /\ orders'[o].day \in DaysOf(q)'
  BY DEF OrdersSound, OrdersOnward, DaysOf, Opened
<1>1. /\ orders[o] /= NotPlaced
      /\ orders'[o].day = orders[o].day /\ orders'[o].period = orders[o].period
  BY DEF OrdersOnward
<1>2. q \in Period /\ Opened(q) /\ orders[o].day \in DaysOf(q)
  BY <1>1 DEF OrdersSound, OrderRow
<1> QED
  BY <1>1, <1>2, DaysStay

\* With no request in flight, nothing that was found can have gone stale.
LEMMA AloneStays ==
    ASSUME FinanceInv, Alone, job' = job,
           exports' = exports, OrdersStay, OrdersSound', PeriodsStay
    PROVE  FinanceInv'
<1>1. JobsSound'
  BY DEF FinanceInv, JobsSound, Alone, Found
<1> QED
  BY <1>1, ExportsStay, PeriodsSoundStays, KeptStays DEF FinanceInv

LEMMA UnchangedKeeps ==
    ASSUME FinanceInv, UNCHANGED <<orders, periods, exports, job>>
    PROVE  FinanceInv'
<1>1. /\ \A p : (Opened(p)' <=> Opened(p)) /\ DaysOf(p)' = DaysOf(p)
      /\ \A d, e : Overlaps(d, e)' = Overlaps(d, e)
  BY DEF Opened, DaysOf, Overlaps
<1>2. \A e : Reports(e)' <=> Reports(e)
  BY <1>1 DEF Reports
<1>3. \A j : Found(j)' <=> Found(j)
  BY <1>1, <1>2 DEF Found
<1>4. OrdersSound'
  BY <1>1 DEF FinanceInv, OrdersSound
<1>5. PeriodsSound'
  BY <1>1 DEF FinanceInv, PeriodsSound
<1>6. ExportsSound'
  BY <1>2 DEF FinanceInv, ExportsSound
<1>7. JobsSound'
  BY <1>3 DEF FinanceInv, JobsSound
<1> QED
  BY <1>4, <1>5, <1>6, <1>7 DEF FinanceInv

-----------------------------------------------------------------------------
(* The books.                                                              *)

LEMMA SettingsOnward == ASSUME FinanceInv, SettingsNext PROVE orders' = orders
  BY DEF SettingsNext, CreateSellerProfile, CreateVatSettings, UpdateExpenseSettings,
         UpdateCostSettings, UpdateInventorySettings, configOnly

LEMMA RecordsOnward == ASSUME FinanceInv, RecordsNext PROVE orders' = orders
  BY DEF RecordsNext, ImportTxn, ReviewMatch, CreateExpense, UpdateExpense, CreateProductCost,
         UpdateProductCost, txnsOnly

LEMMA SameOnward == ASSUME FinanceInv, orders' = orders PROVE OrdersOnward
  BY DEF FinanceInv, OrdersSound, OrdersOnward

LEMMA SalesOnward == ASSUME FinanceInv, SalesNext PROVE OrdersOnward
<1> PICK o \in Order :
        \/ \E d \in Day, method \in Method : PlaceOrder(o, d, method)
        \/ PayOrder(o)
        \/ \E s \in {"delivered", "cancelled"} : CloseOrder(o, s)
        \/ orders' = orders
  BY DEF SalesNext, RefundOrder, SettleCod, BookCogs, CreateDocument, VoidDocument, ordersOnly,
         documentsOnly
<1>1. ASSUME NEW d \in Day, NEW method \in Method, PlaceOrder(o, d, method)
      PROVE  OrdersOnward
  <2> DEFINE row == Placed(d, method, ReadyAtCheckout)
  <2>1. row \in OrderRow /\ row.period = NoPeriod
    BY DEF Placed, ReadyAtCheckout, OrderRow
  <2>2. orders[o] = NotPlaced /\ orders' = [orders EXCEPT ![o] = row]
    BY <1>1 DEF PlaceOrder
  <2> HIDE DEF row
  <2> QED
    BY <2>1, <2>2 DEF FinanceInv, OrdersSound, OrdersOnward
<1>2. CASE PayOrder(o)
  <2> DEFINE row == [orders[o] EXCEPT !.paid = TRUE]
  <2>1. orders[o] /= NotPlaced /\ orders' = [orders EXCEPT ![o] = row]
    BY <1>2 DEF PayOrder
  <2>2. row \in OrderRow /\ row.day = orders[o].day /\ row.period = orders[o].period
    BY <2>1 DEF FinanceInv, OrdersSound, OrderRow
  <2>3. row /= NotPlaced
    BY <2>2 DEF OrderRow, NotPlaced
  <2> HIDE DEF row
  <2> QED
    BY <2>1, <2>2, <2>3 DEF FinanceInv, OrdersSound, OrdersOnward
<1>3. ASSUME NEW s \in {"delivered", "cancelled"}, CloseOrder(o, s) PROVE OrdersOnward
  <2>1. /\ orders[o] /= NotPlaced
        /\ orders' = [orders EXCEPT ![o].status = s,
                          ![o].paid = @ \/ (s = "delivered" /\ orders[o].method = "cod")]
    BY <1>3 DEF CloseOrder
  <2>2. orders[o] \in OrderRow
    BY <2>1 DEF FinanceInv, OrdersSound
  <2>3. PICK row : row = orders'[o]
    OBVIOUS
  <2>4. row \in OrderRow /\ row.day = orders[o].day /\ row.period = orders[o].period
    BY <2>1, <2>2, <2>3 DEF FinanceInv, OrdersSound, OrderRow
  <2>5. row /= NotPlaced
    BY <2>4 DEF OrderRow, NotPlaced
  <2>6. orders' = [orders EXCEPT ![o] = row]
    BY <2>1, <2>3 DEF FinanceInv, OrdersSound
  <2> QED
    BY <2>1, <2>4, <2>5, <2>6 DEF FinanceInv, OrdersSound, OrdersOnward
<1> QED
  BY <1>1, <1>2, <1>3, SameOnward

LEMMA SamePeriods == ASSUME FinanceInv, periods' = periods PROVE PeriodsStay
  BY DEF FinanceInv, PeriodsSound, PeriodsStay

LEMMA RecordKeeps == ASSUME FinanceInv, Alone, RecordInBooks PROVE FinanceInv'
<1>1. OrdersOnward
  BY SettingsOnward, RecordsOnward, SalesOnward, SameOnward DEF RecordInBooks, BooksNext
<1>2. PeriodsStay /\ job' = job /\ exports' = exports
  BY SamePeriods DEF RecordInBooks, periodVars
<1> QED
  BY <1>1, <1>2, OnwardStays, OnwardSound, KeptStays, AloneStays DEF FinanceInv

-----------------------------------------------------------------------------
(* The periods.                                                            *)

\* What has a status is a period that was created.
LEMMA StatusOpened ==
    ASSUME FinanceInv, NEW p \in Period, periods[p].status \in Status
    PROVE  Opened(p)
  BY DEF FinanceInv, PeriodsSound, Status, NotCreated, Absent

\* A change of status, or of status and summary, leaves the days.
LEMMA MarkedStays ==
    ASSUME FinanceInv, NEW p \in Period, Opened(p), NEW s \in Status, NEW x,
           \/ periods' = [periods EXCEPT ![p].status = s]
           \/ periods' = [periods EXCEPT ![p].status = s, ![p].summary = x]
    PROVE  PeriodsStay
<1>1. periods = [q \in Period |-> periods[q]]
  BY DEF FinanceInv, PeriodsSound
<1>2. PICK S : periods[p] \in PeriodOf(S)
  BY DEF Opened
<1>3. PICK row : row = periods'[p]
  OBVIOUS
<1>4. /\ row \in PeriodOf(S \cup {x})
      /\ row.first = periods[p].first /\ row.last = periods[p].last
  BY <1>1, <1>2, <1>3 DEF PeriodOf
<1>5. Opened(p)'
  BY <1>3, <1>4 DEF Opened
<1>6. periods' = [periods EXCEPT ![p] = row]
  BY <1>1, <1>3
<1> QED
  BY <1>1, <1>3, <1>4, <1>5, <1>6 DEF PeriodsStay

\* An order is only assigned to a period that contains its day.
LEMMA AssignedStays ==
    ASSUME FinanceInv, NEW p \in Period, Opened(p), PeriodsStay, orders' = Assigned(p)
    PROVE  OrdersStay /\ OrdersSound'
<1>1. ASSUME NEW o \in Order
      PROVE  \/ /\ orders'[o] = orders[o]
             \/ /\ orders[o] /= NotPlaced /\ orders'[o] \in OrderRow
                /\ orders'[o].day = orders[o].day /\ orders'[o].day \in DaysOf(p)
                /\ orders'[o].period = p
  <2> DEFINE row == [orders[o] EXCEPT !.period = p]
  <2>1. orders[o] = NotPlaced \/ orders[o] \in OrderRow
    BY DEF FinanceInv, OrdersSound
  <2>2. orders[o] /= NotPlaced =>
            row \in OrderRow /\ row.day = orders[o].day /\ row.period = p
    BY <2>1 DEF OrderRow
  <2>3. \/ orders'[o] = orders[o]
        \/ orders[o] /= NotPlaced /\ orders[o].day \in DaysOf(p) /\ orders'[o] = row
    BY DEF Assigned
  <2> HIDE DEF row
  <2> QED
    BY <2>2, <2>3
<1>2. NotPlaced \notin OrderRow
  BY DEF OrderRow, NotPlaced
<1>3. OrdersStay
  BY <1>1, <1>2 DEF OrdersStay
<1>4. orders' \in [Order -> OrderRow \cup {NotPlaced}]
  <2>1. orders' = [o \in Order |-> orders'[o]]
    BY DEF Assigned
  <2>2. \A o \in Order : orders'[o] \in OrderRow \cup {NotPlaced}
    BY <1>1 DEF FinanceInv, OrdersSound
  <2> QED
    BY <2>1, <2>2
<1>5. ASSUME NEW o \in Order, NEW q, q = orders'[o].period,
             orders'[o] /= NotPlaced, q /= NoPeriod
      PROVE  Opened(q)' /\ orders'[o].day \in DaysOf(q)'
  <2>1. CASE orders'[o] = orders[o]
    <3>1. q \in Period /\ Opened(q) /\ orders[o].day \in DaysOf(q)
      BY <1>5, <2>1 DEF FinanceInv, OrdersSound, OrderRow
    <3> QED
      BY <3>1, <2>1, DaysStay, KeptStays
  <2>2. CASE orders'[o].day \in DaysOf(p) /\ orders'[o].period = p
    BY <1>5, <2>2, DaysStay, KeptStays
  <2> QED
    BY <1>1, <2>1, <2>2
<1> QED
  BY <1>3, <1>4, <1>5 DEF OrdersSound, DaysOf, Opened

LEMMA ReviewKeeps ==
    ASSUME FinanceInv, Alone, NEW p \in Period, StartReview(p) \/ ClosePeriod(p)
    PROVE  FinanceInv'
<1>1. Opened(p)
  BY StatusOpened DEF StartReview, ClosePeriod, Status
<1>2. /\ orders' = Assigned(p) /\ exports' = exports /\ job' = job
      /\ \E s \in {"review", "closed"} : \E x :
             periods' = [periods EXCEPT ![p].status = s, ![p].summary = x]
  BY DEF StartReview, ClosePeriod
<1>3. PeriodsStay
  BY <1>1, <1>2, MarkedStays DEF Status
<1> QED
  BY <1>1, <1>2, <1>3, AssignedStays, AloneStays

LEMMA SameOrders ==
    ASSUME FinanceInv, orders' = orders, PeriodsStay
    PROVE  OrdersStay /\ OrdersSound'
  BY SameOnward, OnwardStays, OnwardSound, KeptStays DEF FinanceInv

LEMMA MarkKeeps ==
    ASSUME FinanceInv, Alone, NEW p \in Period,
           MarkExported(p) \/ AcceptPeriod(p) \/ ReopenPeriod(p)
    PROVE  FinanceInv'
<1>1. Opened(p)
  BY StatusOpened DEF MarkExported, AcceptPeriod, ReopenPeriod, Status
<1>2. /\ orders' = orders /\ exports' = exports /\ job' = job
      /\ \E s \in Status : periods' = [periods EXCEPT ![p].status = s]
  BY DEF MarkExported, AcceptPeriod, ReopenPeriod, Status, statusOnly, bookVars
<1>3. PeriodsStay
  BY <1>1, <1>2, MarkedStays
<1> QED
  BY <1>2, <1>3, SameOrders, AloneStays

LEMMA RowsKeep ==
    ASSUME FinanceInv,
           \/ \E p \in Period : ListExceptions(p)
           \/ \E r \in rows, s \in {"resolved", "waived"} : DecideException(r, s)
    PROVE  FinanceInv'
  BY UnchangedKeeps DEF ListExceptions, DecideException, bookVars

-----------------------------------------------------------------------------
(* The requests.                                                           *)

\* A request that only reads enters its job.
LEMMA Enters ==
    ASSUME FinanceInv, Alone, NEW a \in Admin, NEW j, Found(j),
           job' = [job EXCEPT ![a] = j],
           UNCHANGED <<orders, periods, exports>>
    PROVE  FinanceInv'
<1>1. /\ \A p : (Opened(p)' <=> Opened(p)) /\ DaysOf(p)' = DaysOf(p)
      /\ \A d, e : Overlaps(d, e)' = Overlaps(d, e)
  BY DEF Opened, DaysOf, Overlaps
<1>2. \A e : Reports(e)' <=> Reports(e)
  BY <1>1 DEF Reports
<1>3. \A i : Found(i)' <=> Found(i)
  BY <1>1, <1>2 DEF Found
<1>4. /\ job' = [c \in Admin |-> job'[c]]
      /\ job'[a] = j /\ \A c \in Admin \ {a} : job'[c] = Idle
  BY DEF FinanceInv, JobsSound, Alone
<1>5. JobsSound'
  <2>1. Found(Idle)
    BY DEF Found
  <2>2. ASSUME NEW c \in Admin PROVE Found(job[c])'
    <3>1. PICK i : i = job'[c]
      OBVIOUS
    <3>2. Found(i)
      BY <2>1, <1>4, <3>1
    <3> QED
      BY <3>1, <3>2, <1>3 DEF Found, Reports, Overlaps, Opened, DaysOf
  <2> QED
    BY <2>2, <1>4 DEF JobsSound
<1>6. OrdersSound'
  BY <1>1 DEF FinanceInv, OrdersSound
<1>7. PeriodsSound'
  BY <1>1 DEF FinanceInv, PeriodsSound
<1>8. ExportsSound'
  BY <1>2 DEF FinanceInv, ExportsSound
<1> QED
  BY <1>5, <1>6, <1>7, <1>8 DEF FinanceInv

LEMMA CreateEnters ==
    ASSUME FinanceInv, Alone, NEW a \in Admin, NEW p \in Period,
           NEW first \in Day, NEW last \in Day, StartCreate(a, p, first, last)
    PROVE  FinanceInv'
<1> DEFINE j == [op |-> "create", period |-> p, first |-> first, last |-> last]
<1>1. Found(j)
  BY DEF StartCreate, Found
<1>2. job' = [job EXCEPT ![a] = j] /\ UNCHANGED <<orders, periods, exports>>
  BY DEF StartCreate, bookVars
<1> HIDE DEF j
<1> QED
  BY <1>1, <1>2, Enters

LEMMA ExportEnters ==
    ASSUME FinanceInv, Alone, NEW a \in Admin, NEW p \in Period, StartExport(a, p)
    PROVE  FinanceInv'
<1> DEFINE new == [period |-> p, version |-> NextVersion(p), final |-> TRUE,
                   accepted |-> FALSE, summary |-> periods[p].summary,
                   sales |-> SalesLedger(p), refunds |-> RefundLedger(p)]
           j == [op |-> "export", package |-> new]
<1>1. Opened(p)
  BY StatusOpened DEF StartExport, Status
<1>2. /\ SalesLedger(p) \subseteq Order /\ RefundLedger(p) \subseteq Order
      /\ \A o \in SalesLedger(p) : orders[o] /= NotPlaced /\ orders[o].day \in DaysOf(p)
  BY DEF SalesLedger, RefundLedger, OrdersIn, InPeriod
<1>3. Reports(new)
  <2>1. new \in PackageOf({NextVersion(p), periods[p].summary})
    BY <1>2 DEF PackageOf
  <2>2. new.period = p /\ new.sales = SalesLedger(p)
    OBVIOUS
  <2> HIDE DEF new
  <2> QED
    BY <1>1, <1>2, <2>1, <2>2 DEF Reports
<1>4. job' = [job EXCEPT ![a] = j] /\ UNCHANGED <<orders, periods, exports>>
  BY DEF StartExport, bookVars
<1>5. j.op = "export" /\ j.package = new
  OBVIOUS
<1> HIDE DEF new, j
<1>6. Found(j)
  BY <1>3, <1>5 DEF Found
<1> QED
  BY <1>4, <1>6, Enters

\* What the other requests have is idle once the only one in flight ends.
LEMMA LastEnds ==
    ASSUME FinanceInv, NEW a \in Admin, job[a] /= Idle, job' = [job EXCEPT ![a] = Idle]
    PROVE  JobsSound'
<1>1. job' = [c \in Admin |-> Idle]
  BY DEF FinanceInv, JobsSound
<1> QED
  BY <1>1 DEF JobsSound, Found

LEMMA CreateKeeps ==
    ASSUME FinanceInv, NEW a \in Admin, FinishCreate(a) PROVE FinanceInv'
<1>0. PICK j, row : /\ j = job[a]
                    /\ row = [first |-> j.first, last |-> j.last, status |-> "open",
                              summary |-> NoSummary]
  OBVIOUS
<1>1. /\ j.op = "create" /\ job' = [job EXCEPT ![a] = Idle]
      /\ periods' = [periods EXCEPT ![j.period] = row]
      /\ orders' = orders /\ exports' = exports
  BY <1>0 DEF FinishCreate, bookVars
<1>2. j /= Idle
  BY <1>1 DEF Idle
<1>3. /\ j.period \in Period /\ j.first \in Day /\ j.last \in Day
      /\ periods[j.period] = NotCreated /\ Overlaps(j.first, j.last) = {}
  <2>1. Found(j)
    BY <1>0 DEF FinanceInv, JobsSound
  <2> QED
    BY <2>1, <1>1, <1>2 DEF Found
<1>4. row \in PeriodOf({NoSummary}) /\ row.first = j.first /\ row.last = j.last
  BY <1>0, <1>3 DEF PeriodOf, Status
<1>5. /\ periods' = [p \in Period |-> periods'[p]]
      /\ periods'[j.period] = row
      /\ \A p \in Period : p /= j.period => periods'[p] = periods[p]
  BY <1>1, <1>3 DEF FinanceInv, PeriodsSound
<1>6. Opened(j.period)'
  BY <1>4, <1>5 DEF Opened
<1>7. \A p \in Period : p /= j.period => (Opened(p)' <=> Opened(p))
  BY <1>5 DEF Opened
<1>8. \A p \in Period : Opened(p) => p /= j.period
  BY <1>3, OpenedRow
<1>9. DaysKept
  BY <1>5, <1>7, <1>8 DEF DaysKept
<1>10. OrdersSound'
  BY <1>1, <1>9, SameOnward, OnwardSound DEF FinanceInv
<1>11. ExportsSound'
  BY <1>1, <1>9, SameOnward, OnwardStays, ExportsStay DEF FinanceInv
<1>12. JobsSound'
  BY <1>0, <1>1, <1>2, LastEnds
<1>13. PeriodsSound'
  <2>1. ASSUME NEW p \in Period, Opened(p)
        PROVE  periods[p].last < j.first \/ periods[p].first > j.last
    BY <2>1, <1>3, OpenedRow DEF Overlaps
  <2>2. \A p \in Period : periods'[p] = NotCreated \/ Opened(p)'
    BY <1>5, <1>6, <1>7 DEF FinanceInv, PeriodsSound
  <2>3. ASSUME NEW p \in Period, NEW q \in Period, Opened(p)', Opened(q)', p /= q
        PROVE  periods'[p].last < periods'[q].first \/ periods'[q].last < periods'[p].first
    <3>1. CASE p = j.period
      <4>1. Opened(q) /\ periods'[q] = periods[q] /\ periods'[p] = row
        BY <2>3, <3>1, <1>5, <1>7
      <4>2. periods[q].first \in Nat /\ periods[q].last \in Nat /\ j.first \in Nat /\ j.last \in Nat
        BY <4>1, <1>3, OpenedRow, BooksAssumption DEF BooksAssumption
      <4> QED
        BY <4>1, <4>2, <2>1, <1>4
    <3>2. CASE q = j.period
      <4>1. Opened(p) /\ periods'[p] = periods[p] /\ periods'[q] = row
        BY <2>3, <3>2, <1>5, <1>7
      <4>2. periods[p].first \in Nat /\ periods[p].last \in Nat /\ j.first \in Nat /\ j.last \in Nat
        BY <4>1, <1>3, OpenedRow, BooksAssumption DEF BooksAssumption
      <4> QED
        BY <4>1, <4>2, <2>1, <1>4
    <3>3. CASE p /= j.period /\ q /= j.period
      BY <2>3, <3>3, <1>5, <1>7 DEF FinanceInv, PeriodsSound
    <3> QED
      BY <3>1, <3>2, <3>3
  <2> QED
    BY <1>5, <2>2, <2>3 DEF PeriodsSound
<1> QED
  BY <1>10, <1>11, <1>12, <1>13 DEF FinanceInv

\* What a package says of its orders does not depend on whether it is final
\* or accepted.
LEMMA ReportsAlike ==
    ASSUME NEW e, NEW n, Reports(e), NEW f \in BOOLEAN,
           n = [e EXCEPT !.final = f] \/ n = [e EXCEPT !.accepted = f]
    PROVE  Reports(n) /\ n.period = e.period
<1>1. PICK S : e \in PackageOf(S)
  BY DEF Reports
<1>2. n \in PackageOf(S) /\ n.period = e.period /\ n.sales = e.sales
  BY <1>1 DEF PackageOf
<1> QED
  BY <1>1, <1>2 DEF Reports

LEMMA ExportKeeps ==
    ASSUME FinanceInv, NEW a \in Admin, FinishExport(a) PROVE FinanceInv'
<1> DEFINE new == job[a].package
<1>1. /\ job[a].op = "export" /\ job' = [job EXCEPT ![a] = Idle]
      /\ orders' = orders
      /\ \/ exports' = exports /\ periods' = periods
         \/ /\ exports' = Append(Superseded(new.period), new)
            /\ periods' = [periods EXCEPT ![new.period].status = "exported"]
  BY DEF FinishExport, bookVars
<1>2. job[a] /= Idle
  BY <1>1 DEF Idle
<1>3. Reports(new)
  <2>1. PICK j : j = job[a]
    OBVIOUS
  <2>2. Found(j) /\ j /= Idle /\ j.op = "export"
    BY <2>1, <1>1, <1>2 DEF FinanceInv, JobsSound
  <2> QED
    BY <2>1, <2>2 DEF Found
<1> HIDE DEF new
<1>4. JobsSound'
  BY <1>1, <1>2, LastEnds
<1>5. PeriodsStay
  <2>1. new.period \in Period /\ Opened(new.period)
    BY <1>3 DEF Reports, PackageOf
  <2> QED
    BY <2>1, <1>1, SamePeriods, MarkedStays DEF Status
<1>6. OrdersStay /\ OrdersSound'
  BY <1>1, <1>5, SameOrders
<1>7. PeriodsSound'
  BY <1>5, PeriodsSoundStays DEF FinanceInv
<1>8. ExportsSound'
  <2>1. CASE exports' = exports
    BY <2>1, <1>5, <1>6, KeptStays, ExportsStay DEF FinanceInv
  <2>2. CASE exports' = Append(Superseded(new.period), new)
    <3> DEFINE p == new.period
               old == Superseded(p)
               len == Len(exports)
    <3>1. PICK T : exports \in Seq(T)
      BY DEF FinanceInv, ExportsSound
    <3>2. len \in Nat /\ \A n \in 1..len : Reports(exports[n])
      BY <3>1 DEF FinanceInv, ExportsSound
    <3>3. \A n \in 1..len : old[n] = IF exports[n].period = p THEN [exports[n] EXCEPT !.final = FALSE]
                                     ELSE exports[n]
      BY DEF Superseded
    <3>4. \A n \in 1..len : Reports(old[n]) /\ old[n].period = exports[n].period
      BY <3>2, <3>3, ReportsAlike
    <3>5. \A n \in 1..len : /\ old[n].period = p => ~old[n].final
                            /\ old[n].period /= p => old[n] = exports[n]
      <4> TAKE n \in 1..len
      <4>1. PICK S : exports[n] \in PackageOf(S)
        BY <3>2 DEF Reports
      <4> QED
        BY <3>3, <4>1 DEF PackageOf
    <3> DEFINE U == {old[n] : n \in 1..len}
    <3>6. old \in Seq(U) /\ Len(old) = len
      <4>1. old = [n \in 1..len |-> old[n]]
        BY DEF Superseded
      <4> HIDE DEF old
      <4> QED
        BY <3>2, <4>1
    <3> HIDE DEF old
    <3> DEFINE W == U \cup {new}
    <3>7. /\ exports' \in Seq(W) /\ Len(exports') = len + 1
          /\ exports'[len + 1] = new
          /\ \A n \in 1..len : exports'[n] = old[n]
      <4>1. old \in Seq(W) /\ new \in W
        BY <3>6
      <4> HIDE DEF W, U
      <4> QED
        BY <2>2, <3>6, <4>1, <3>2 DEF old
    <3> HIDE DEF W, U
    <3>8. \A e : Reports(e) => Reports(e)'
      BY <1>5, <1>6, KeptStays, ReportsStay
    <3>9. ASSUME NEW n \in 1..Len(exports') PROVE Reports(exports[n])'
      <4>1. PICK e : e = exports'[n]
        OBVIOUS
      <4>2. Reports(e)
        BY <4>1, <3>2, <3>4, <3>7, <1>3
      <4>3. Reports(e)'
        BY <4>2, <3>8
      <4> QED
        BY <4>1, <4>3 DEF Reports, Opened, DaysOf
    <3>10. ASSUME NEW x \in 1..Len(exports'), NEW y \in 1..Len(exports'),
                  exports'[x].final, exports'[y].final, exports'[x].period = exports'[y].period
           PROVE  x = y
      <4>1. \A n \in 1..len : exports'[n].final => exports'[n].period /= p
        BY <3>5, <3>7
      <4>2. CASE x = len + 1 \/ y = len + 1
        BY <4>1, <4>2, <3>7, <3>10, <3>2
      <4>3. CASE x \in 1..len /\ y \in 1..len
        <5>1. exports'[x] = exports[x] /\ exports'[y] = exports[y]
          BY <4>1, <4>3, <3>5, <3>7, <3>10
        <5> QED
          BY <5>1, <4>3, <3>10 DEF FinanceInv, ExportsSound
      <4> QED
        BY <4>2, <4>3, <3>2, <3>7
    <3> QED
      BY <3>7, <3>9, <3>10 DEF ExportsSound
  <2> QED
    BY <1>1, <2>1, <2>2
<1> QED
  BY <1>4, <1>6, <1>7, <1>8 DEF FinanceInv

LEMMA AcceptKeeps ==
    ASSUME FinanceInv, Alone, NEW m \in 1..Len(exports), AcceptExport(m) PROVE FinanceInv'
<1>1. PICK T : exports \in Seq(T)
  BY DEF FinanceInv, ExportsSound
<1>2. Len(exports) \in Nat /\ \A n \in 1..Len(exports) : Reports(exports[n])
  BY <1>1 DEF FinanceInv, ExportsSound
<1>3. /\ job' = job /\ orders' = orders
      /\ exports' = [exports EXCEPT ![m].accepted = TRUE]
      /\ \/ periods' = periods
         \/ periods' = [periods EXCEPT ![exports[m].period].status = "accepted"]
  BY DEF AcceptExport, bookVars
<1>4. PeriodsStay
  <2>1. exports[m].period \in Period /\ Opened(exports[m].period)
    BY <1>2 DEF Reports, PackageOf
  <2> QED
    BY <2>1, <1>3, SamePeriods, MarkedStays DEF Status
<1>5. OrdersStay /\ OrdersSound'
  BY <1>3, <1>4, SameOrders
<1> DEFINE e == [exports[m] EXCEPT !.accepted = TRUE]
<1>6. Reports(e) /\ e.period = exports[m].period
  BY <1>2, ReportsAlike
<1>7. e.final = exports[m].final
  <2>1. PICK S : exports[m] \in PackageOf(S)
    BY <1>2 DEF Reports
  <2> QED
    BY <2>1 DEF PackageOf
<1>8. exports' = [exports EXCEPT ![m] = e]
  BY <1>3
<1> HIDE DEF e
<1>9. /\ exports' \in Seq(T \cup {e}) /\ Len(exports') = Len(exports)
      /\ exports'[m] = e /\ \A n \in 1..Len(exports) : n /= m => exports'[n] = exports[n]
  <2>1. exports \in Seq(T \cup {e})
    BY <1>1
  <2> QED
    BY <2>1, <1>8, <1>2
<1>10. \A r : Reports(r) => Reports(r)'
  BY <1>4, <1>5, KeptStays, ReportsStay
<1>11. ASSUME NEW n \in 1..Len(exports') PROVE Reports(exports[n])'
  <2>1. PICK r : r = exports'[n]
    OBVIOUS
  <2>2. Reports(r)'
    BY <2>1, <1>2, <1>6, <1>9, <1>10
  <2> QED
    BY <2>1, <2>2 DEF Reports, Opened, DaysOf
<1>12. \A n \in 1..Len(exports) : /\ exports'[n].final = exports[n].final
                                 /\ exports'[n].period = exports[n].period
  BY <1>6, <1>7, <1>9
<1>13. ExportsSound'
  BY <1>9, <1>11, <1>12 DEF FinanceInv, ExportsSound
<1> QED
  BY <1>3, <1>4, <1>5, <1>13, PeriodsSoundStays DEF FinanceInv, JobsSound, Alone, Found

-----------------------------------------------------------------------------
(* The theorem.                                                            *)

LEMMA ReportingKeeps == ASSUME FinanceInv, SerialNext PROVE FinanceInv'
<1>1. CASE FinishNext
  BY <1>1, CreateKeeps, ExportKeeps DEF FinishNext
<1>2. CASE Alone /\ RecordInBooks
  BY <1>2, RecordKeeps
<1>3. CASE Alone /\ PeriodNext
  BY <1>3, CreateEnters, ReviewKeeps, MarkKeeps, RowsKeep, ExportEnters DEF PeriodNext
<1>4. CASE Alone /\ DecisionNext
  BY <1>4, RowsKeep, AcceptKeeps DEF DecisionNext
<1> QED
  BY <1>1, <1>2, <1>3, <1>4 DEF SerialNext

\* The first day of the calendar.
LEMMA FirstDay == Min(Day) \in Day
<1>1. PICK d \in Day : \A e \in Day : d <= e
  BY LeastNatural, BooksAssumption DEF BooksAssumption
<1> QED
  BY <1>1 DEF Min

LEMMA FinanceStarts == ASSUME Init PROVE FinanceInv
<1>1. OrdersSound
  <2>1. PICK v \in {[latest |-> Absent, ever |-> FALSE], [latest |-> "reviewed", ever |-> TRUE]},
             early \in {{}, Order}, method \in Method :
            orders = [o \in Order |-> IF o \in early THEN Placed(Min(Day), method, v.ever)
                                      ELSE NotPlaced]
    BY DEF Init, BooksInit
  <2>2. Placed(Min(Day), method, v.ever).period = NoPeriod
    BY DEF Placed
  <2>3. Placed(Min(Day), method, v.ever) \in OrderRow
    <3>1. v = [latest |-> Absent, ever |-> FALSE] => v.ever = FALSE
      OBVIOUS
    <3>2. v = [latest |-> "reviewed", ever |-> TRUE] => v.ever = TRUE
      OBVIOUS
    <3>3. v.ever \in BOOLEAN
      BY <3>1, <3>2
    <3> QED
      BY FirstDay, <3>3 DEF Placed, OrderRow
  <2> QED
    BY <2>1, <2>2, <2>3 DEF OrdersSound
<1>2. PeriodsSound
  BY OpenedRow DEF Init, PeriodsSound
<1>3. ExportsSound
  <2>1. exports \in Seq({}) /\ Len(exports) = 0
    BY DEF Init
  <2> QED
    BY <2>1 DEF ExportsSound
<1>4. JobsSound
  BY DEF Init, JobsSound, Found
<1> QED
  BY <1>1, <1>2, <1>3, <1>4 DEF FinanceInv

LEMMA FinanceStep ==
    FinanceInv /\ [Producing \/ Valuing \/ Reporting]_everything => FinanceInv'
<1>1. ASSUME FinanceInv, Reporting PROVE FinanceInv'
  BY <1>1, ReportingKeeps DEF Reporting
<1>2. ASSUME FinanceInv, UNCHANGED vars PROVE FinanceInv'
  BY <1>2, UnchangedKeeps DEF vars, periodVars, bookVars
<1> QED
  BY <1>1, <1>2 DEF Producing, Valuing, everything

\* No order is reported in two periods.
THEOREM NothingReportedTwice == BackOfficeSpec => []ReportedOnce
<1>1. BackOfficeInit => FinanceInv
  BY FinanceStarts DEF BackOfficeInit
<1>2. FinanceInv /\ [Producing \/ Valuing \/ Reporting]_everything => FinanceInv'
  BY FinanceStep
<1> QED
  BY <1>1, <1>2, SoundMeansOnce, PTL DEF BackOfficeSpec

-----------------------------------------------------------------------------
(* Closing a period.                                                       *)

\* A blocking problem without a decided row leaves an open blocking one.
LEMMA UndecidedBlocks ==
    ASSUME NEW p \in Period, Blocking(Refreshed(p), p) = {},
           NEW s \in CollectSpecs(DaysOf(p)), s.severity = "blocking"
    PROVE  \E r \in Refreshed(p) : r.period = p /\ SameKey(r, s) /\ r.status /= "open"
<1> DEFINE specs == CollectSpecs(DaysOf(p))
           gone(r) == /\ r.period = p /\ r.status = "open"
                      /\ \A t \in specs : ~SameKey(r, t)
<1>1. Refreshed(p) = {IF gone(r) THEN [r EXCEPT !.status = "resolved"] ELSE r :
                         r \in Upserted(p, specs)}
  BY DEF Refreshed
<1>2. PICK r \in Upserted(p, specs) :
          /\ r.period = p /\ SameKey(r, s)
          /\ r.status /= "open" \/ (r.status = "open" /\ r.severity = "blocking")
  <2>1. CASE \E r \in rows : r.period = p /\ SameKey(r, s) /\ r.status /= "open"
    <3>1. PICK r \in rows : r.period = p /\ SameKey(r, s) /\ r.status /= "open"
      BY <2>1
    <3>2. r \in Upserted(p, specs)
      BY <3>1 DEF Upserted, SameKey
    <3> QED
      BY <3>1, <3>2
  <2>2. CASE ~\E r \in rows : r.period = p /\ SameKey(r, s) /\ r.status /= "open"
    <3>1. RowOf(p, s, "open") \in Upserted(p, specs)
      BY <2>2 DEF Upserted
    <3> QED
      BY <3>1 DEF RowOf, SameKey
  <2> QED
    BY <2>1, <2>2
<1>3. ~gone(r)
  BY <1>2
<1>4. r \in Refreshed(p)
  BY <1>1, <1>2, <1>3
<1> QED
  BY <1>2, <1>4 DEF Blocking

\* Only ClosePeriod closes one.
LEMMA ClosesKnowingly ==
    ASSUME FinanceInv, SerialNext, NEW p \in Period,
           periods[p].status \in {"open", "review", "reopened"}, periods'[p].status = "closed",
           NEW s \in CollectSpecs(DaysOf(p)), s.severity = "blocking"
    PROVE  \E r \in rows' : r.period = p /\ SameKey(r, s) /\ r.status /= "open"
<1>1. periods[p].status /= periods'[p].status /\ periods'[p].status = "closed"
  OBVIOUS
<1>2. ASSUME NEW q \in Period, NEW t, t /= "closed",
             \/ \E x : periods' = [periods EXCEPT ![q].status = t, ![q].summary = x]
             \/ periods' = [periods EXCEPT ![q].status = t], Opened(q)
      PROVE  FALSE
  <2>1. periods = [r \in Period |-> periods[r]]
    BY DEF FinanceInv, PeriodsSound
  <2>2. PICK S : periods[q] \in PeriodOf(S)
    BY <1>2 DEF Opened
  <2>3. periods'[q].status = t /\ \A r \in Period \ {q} : periods'[r] = periods[r]
    BY <1>2, <2>1, <2>2 DEF PeriodOf
  <2> QED
    BY <1>1, <1>2, <2>3
<1>3. CASE FinishNext
  <2> PICK a \in Admin : FinishCreate(a) \/ FinishExport(a)
    BY <1>3 DEF FinishNext
  <2>1. PICK j : j = job[a]
    OBVIOUS
  <2>2. Found(j)
    BY <2>1 DEF FinanceInv, JobsSound
  <2>3. CASE FinishCreate(a)
    <3>1. PICK row : /\ periods' = [periods EXCEPT ![j.period] = row]
                     /\ row.status = "open"
      BY <2>1, <2>3 DEF FinishCreate
    <3>2. periods = [r \in Period |-> periods[r]]
      BY DEF FinanceInv, PeriodsSound
    <3> QED
      BY <3>1, <3>2, <1>1
  <2>4. CASE FinishExport(a)
    <3>1. Reports(j.package)
      BY <2>1, <2>2, <2>4 DEF FinishExport, Found, Idle
    <3>2. PICK q : q = j.package.period
      OBVIOUS
    <3>3. q \in Period /\ Opened(q)
      BY <3>1, <3>2 DEF Reports, PackageOf
    <3> QED
      BY <2>1, <2>4, <3>2, <3>3, <1>1, <1>2 DEF FinishExport
  <2> QED
    BY <2>3, <2>4
<1>4. CASE RecordInBooks
  BY <1>1, <1>4 DEF RecordInBooks, periodVars
<1>5. CASE PeriodNext
  <2> PICK q \in Period :
          \/ \E a \in Admin, first, last \in Day : StartCreate(a, q, first, last)
          \/ StartReview(q) \/ ClosePeriod(q) \/ MarkExported(q) \/ AcceptPeriod(q)
          \/ ReopenPeriod(q) \/ ListExceptions(q)
          \/ \E a \in Admin : StartExport(a, q)
    BY <1>5 DEF PeriodNext
  <2>1. CASE ListExceptions(q) \/ (\E a \in Admin : StartExport(a, q))
                \/ \E a \in Admin, first, last \in Day : StartCreate(a, q, first, last)
    BY <1>1, <2>1 DEF StartCreate, ListExceptions, StartExport
  <2>2. CASE StartReview(q) \/ MarkExported(q) \/ AcceptPeriod(q) \/ ReopenPeriod(q)
    <3>1. Opened(q)
      BY <2>2, StatusOpened DEF StartReview, MarkExported, AcceptPeriod, ReopenPeriod, Status
    <3>2. \/ \E x : periods' = [periods EXCEPT ![q].status = "review", ![q].summary = x]
          \/ \E t \in {"exported", "accepted", "reopened"} :
                 periods' = [periods EXCEPT ![q].status = t]
      BY <2>2 DEF StartReview, MarkExported, AcceptPeriod, ReopenPeriod
    <3> QED
      BY <3>1, <3>2, <1>2
  <2>3. CASE ClosePeriod(q)
    <3>1. /\ rows' = Refreshed(q) /\ Blocking(Refreshed(q), q) = {}
          /\ \E x : periods' = [periods EXCEPT ![q].status = "closed", ![q].summary = x]
      BY <2>3 DEF ClosePeriod
    <3>2. p = q
      BY <3>1, <1>1 DEF FinanceInv, PeriodsSound
    <3> QED
      BY <3>1, <3>2, UndecidedBlocks
  <2> QED
    BY <2>1, <2>2, <2>3
<1>6. CASE DecisionNext
  <2>1. CASE \E r \in rows, t \in {"resolved", "waived"} : DecideException(r, t)
    BY <1>1, <2>1 DEF DecideException
  <2>2. CASE \E n \in 1..Len(exports) : AcceptExport(n)
    <3>1. PICK n \in 1..Len(exports) : AcceptExport(n)
      BY <2>2
    <3>2. PICK q : q = exports[n].period
      OBVIOUS
    <3>3. q \in Period /\ Opened(q)
      BY <3>2 DEF FinanceInv, ExportsSound, Reports, PackageOf
    <3> QED
      BY <3>1, <3>2, <3>3, <1>1, <1>2 DEF AcceptExport
  <2> QED
    BY <1>6, <2>1, <2>2 DEF DecisionNext
<1> QED
  BY <1>3, <1>4, <1>5, <1>6 DEF SerialNext

\* A period closes only when each problem of its books that blocks closing has
\* a row that was decided or found settled.
THEOREM PeriodsCloseKnowingly == BackOfficeSpec => ClosedKnowingly
<1>1. BackOfficeInit => FinanceInv
  BY FinanceStarts DEF BackOfficeInit
<1>2. FinanceInv /\ [Producing \/ Valuing \/ Reporting]_everything => FinanceInv'
  BY FinanceStep
<1>3. /\ FinanceInv /\ [Producing \/ Valuing \/ Reporting]_everything
      => [\A p \in Period :
             /\ periods[p].status \in {"open", "review", "reopened"}
             /\ periods'[p].status = "closed"
             => \A s \in CollectSpecs(DaysOf(p)) :
                   s.severity = "blocking"
                   => \E r \in rows' : r.period = p /\ SameKey(r, s) /\ r.status /= "open"]_vars
  BY ClosesKnowingly DEF Producing, Valuing, Reporting, everything
<1> QED
  BY <1>1, <1>2, <1>3, PTL DEF BackOfficeSpec, ClosedKnowingly

-----------------------------------------------------------------------------
(* Members of sets of numbers, and of finite sets.                         *)

\* Max of some numbers up to n is one of them.
LEMMA MaxThere ==
    ASSUME NEW n \in Nat, NEW S, S \subseteq 1..n, S /= {}
    PROVE  V!Max(S) \in S
<1> DEFINE Below == {n - x : x \in S}
<1>1. Below \subseteq Nat /\ Below /= {}
  <2>1. \A x \in S : n - x \in Nat
    OBVIOUS
  <2> QED
    BY <2>1
<1>2. PICK m \in Below : \A l \in Below : m <= l
  <2> HIDE DEF Below
  <2> QED
    BY <1>1, LeastNatural
<1>3. PICK x \in S : m = n - x
  BY <1>2
<1>4. \A y \in S : x >= y
  <2> TAKE y \in S
  <2>1. n - x <= n - y /\ x \in 1..n /\ y \in 1..n
    BY <1>2, <1>3
  <2> QED
    BY <2>1
<1> QED
  BY <1>3, <1>4 DEF V!Max

\* The members of a finite set, each once.
LEMMA SetAsSequence ==
    ASSUME NEW S, IsFiniteSet(S)
    PROVE  /\ V!SetToSeq(S) \in Seq(S)
           /\ Len(V!SetToSeq(S)) \in Nat /\ DOMAIN V!SetToSeq(S) = 1..Len(V!SetToSeq(S))
           /\ \A i, j \in 1..Len(V!SetToSeq(S)) : V!SetToSeq(S)[i] = V!SetToSeq(S)[j] => i = j
<1>1. Cardinality(S) \in Nat /\ ExistsBijection(1..Cardinality(S), S)
  BY FS_CardinalityType
<1>2. V!Cardinality(S) = Cardinality(S)
  BY DEF V!Cardinality, Cardinality
<1>3. \E f \in [1..V!Cardinality(S) -> S] : V!IsInjective(f)
  BY <1>1, <1>2 DEF ExistsBijection, Bijection, Injection, IsInjective, V!IsInjective
<1>4. /\ V!SetToSeq(S) \in [1..V!Cardinality(S) -> S] /\ V!IsInjective(V!SetToSeq(S))
  BY <1>3 DEF V!SetToSeq
<1> DEFINE f == V!SetToSeq(S)
<1> HIDE DEF f
<1>5. f \in [1..Cardinality(S) -> S] /\ \A i, j \in DOMAIN f : f[i] = f[j] => i = j
  BY <1>2, <1>4 DEF f, V!IsInjective
<1>6. f \in Seq(S) /\ Len(f) = Cardinality(S)
  BY <1>1, <1>5
<1> QED
  BY <1>1, <1>5, <1>6 DEF f

-----------------------------------------------------------------------------
(* Sums.                                                                   *)

\* The recursion of a sum has a solution.
LEMMA SumExists ==
    ASSUME NEW terms, NEW N \in Nat
    PROVE  \E f : f = [k \in 0..N |-> IF k = 0 THEN 0 ELSE f[k - 1] + terms[k]]
<1> DEFINE Solves(f, n) == f = [k \in 0..n |-> IF k = 0 THEN 0 ELSE f[k - 1] + terms[k]]
           Unsolved == {n \in Nat : ~\E f : Solves(f, n)}
<1> SUFFICES ASSUME Unsolved /= {} PROVE FALSE
  OBVIOUS
<1>1. PICK n \in Unsolved : \A l \in Unsolved : n <= l
  <2>1. Unsolved \subseteq Nat
    OBVIOUS
  <2> HIDE DEF Unsolved
  <2> QED
    BY <2>1, LeastNatural
<1>2. CASE n = 0
  <2>1. Solves([k \in 0..0 |-> 0], 0)
    OBVIOUS
  <2> QED
    BY <1>1, <1>2, <2>1
<1>3. CASE n /= 0
  <2>1. n \in Nat /\ n - 1 \in Nat /\ n - 1 < n
    BY <1>1, <1>3
  <2>2. n - 1 \notin Unsolved
    <3> HIDE DEF Unsolved
    <3> QED
      BY <1>1, <2>1
  <2>3. PICK f : Solves(f, n - 1)
    BY <2>1, <2>2
  <2> DEFINE g == [k \in 0..n |-> IF k = n THEN f[n - 1] + terms[n] ELSE f[k]]
  <2>4. \A k \in 0..(n - 1) : f[k] = IF k = 0 THEN 0 ELSE f[k - 1] + terms[k]
    BY <2>3
  <2>5. ASSUME NEW k \in 0..n
        PROVE  g[k] = IF k = 0 THEN 0 ELSE g[k - 1] + terms[k]
    <3>1. CASE k = n
      <4>1. n - 1 \in 0..n /\ n - 1 /= n /\ n \in 0..n
        BY <2>1
      <4>2. g[n - 1] = f[n - 1] /\ g[n] = f[n - 1] + terms[n]
        BY <4>1
      <4> QED
        BY <1>3, <3>1, <4>2
    <3>2. CASE k /= n
      <4>1. k \in 0..(n - 1) /\ (k /= 0 => k - 1 \in 0..n /\ k - 1 /= n)
        BY <2>1, <3>2
      <4>2. g[k] = f[k] /\ (k /= 0 => g[k - 1] = f[k - 1])
        BY <3>2, <4>1
      <4> QED
        BY <4>1, <4>2, <2>4
    <3> QED
      BY <3>1, <3>2
  <2>6. Solves(g, n)
    <3>1. g = [k \in 0..n |-> g[k]]
      OBVIOUS
    <3> HIDE DEF g
    <3> QED
      BY <2>5, <3>1
  <2> QED
    BY <1>1, <2>6
<1> QED
  BY <1>2, <1>3

LEMMA SumUnfolds ==
    ASSUME NEW terms, Len(terms) \in Nat
    PROVE  /\ V!RunningSum(terms)[0] = 0
           /\ \A k \in 1..Len(terms) :
                  V!RunningSum(terms)[k] = V!RunningSum(terms)[k - 1] + terms[k]
<1> DEFINE Solves(f) == f = [k \in 0..Len(terms) |->
                                IF k = 0 THEN 0 ELSE f[k - 1] + terms[k]]
           s == V!RunningSum(terms)
<1>1. \E f : Solves(f)
  BY SumExists
<1>2. s = CHOOSE f : Solves(f)
  BY DEF V!RunningSum
<1>3. Solves(s)
  <2> HIDE DEF Solves, s
  <2> QED
    BY <1>1, <1>2
<1> HIDE DEF s
<1>4. \A k \in 0..Len(terms) : s[k] = IF k = 0 THEN 0 ELSE s[k - 1] + terms[k]
  BY <1>3
<1>5. 0 \in 0..Len(terms) /\ \A k \in 1..Len(terms) : k \in 0..Len(terms) /\ k /= 0
  OBVIOUS
<1> QED
  BY <1>4, <1>5 DEF s

\* What grows by each term as the sum does is the sum.
LEMMA SumFollows ==
    ASSUME NEW terms, Len(terms) \in Nat, NEW g, g[0] = 0,
           \A k \in 1..Len(terms) : g[k] = g[k - 1] + terms[k]
    PROVE  V!SumOf(terms) = g[Len(terms)]
<1> DEFINE s == V!RunningSum(terms)
           Apart == {k \in 0..Len(terms) : s[k] /= g[k]}
<1>1. s[0] = 0 /\ \A k \in 1..Len(terms) : s[k] = s[k - 1] + terms[k]
  BY SumUnfolds
<1> HIDE DEF s
<1>2. Apart = {}
  <2> SUFFICES ASSUME Apart /= {} PROVE FALSE
    OBVIOUS
  <2>1. PICK k \in Apart : \A l \in Apart : k <= l
    <3>1. Apart \subseteq Nat
      OBVIOUS
    <3> HIDE DEF Apart
    <3> QED
      BY <3>1, LeastNatural
  <2>2. k \in 1..Len(terms) /\ k - 1 \in 0..Len(terms) /\ ~(k <= k - 1)
    BY <2>1, <1>1
  <2>3. s[k - 1] = g[k - 1]
    BY <2>1, <2>2
  <2> QED
    BY <2>1, <2>2, <2>3, <1>1
<1>3. Len(terms) \in 0..Len(terms)
  OBVIOUS
<1> QED
  BY <1>2, <1>3 DEF V!SumOf, s

LEMMA SumIsInt ==
    ASSUME NEW terms, Len(terms) \in Nat, \A k \in 1..Len(terms) : terms[k] \in Int
    PROVE  V!SumOf(terms) \in Int
<1> DEFINE s == V!RunningSum(terms)
           Odd == {k \in 0..Len(terms) : s[k] \notin Int}
<1>1. s[0] = 0 /\ \A k \in 1..Len(terms) : s[k] = s[k - 1] + terms[k]
  BY SumUnfolds
<1> HIDE DEF s
<1>2. Odd = {}
  <2> SUFFICES ASSUME Odd /= {} PROVE FALSE
    OBVIOUS
  <2>1. PICK k \in Odd : \A l \in Odd : k <= l
    <3>1. Odd \subseteq Nat
      OBVIOUS
    <3> HIDE DEF Odd
    <3> QED
      BY <3>1, LeastNatural
  <2>2. k \in 1..Len(terms) /\ k - 1 \in 0..Len(terms) /\ ~(k <= k - 1)
    BY <2>1, <1>1
  <2>3. s[k - 1] \in Int
    BY <2>1, <2>2
  <2> QED
    BY <2>1, <2>2, <2>3, <1>1
<1>3. Len(terms) \in 0..Len(terms)
  OBVIOUS
<1> QED
  BY <1>2, <1>3 DEF V!SumOf, s

LEMMA SumOfNone ==
    ASSUME NEW terms, Len(terms) \in Nat, \A k \in 1..Len(terms) : terms[k] = 0
    PROVE  V!SumOf(terms) = 0
<1> DEFINE g == [k \in 0..Len(terms) |-> 0]
<1>1. g[0] = 0 /\ g[Len(terms)] = 0 /\ \A k \in 1..Len(terms) : g[k] = g[k - 1] + terms[k]
  OBVIOUS
<1> HIDE DEF g
<1> QED
  BY <1>1, SumFollows

LEMMA SumOfOne ==
    ASSUME NEW terms, Len(terms) \in Nat, NEW m \in 1..Len(terms), terms[m] \in Int,
           \A k \in 1..Len(terms) : k /= m => terms[k] = 0
    PROVE  V!SumOf(terms) = terms[m]
<1> DEFINE g == [k \in 0..Len(terms) |-> IF k < m THEN 0 ELSE terms[m]]
<1>1. g[0] = 0 /\ g[Len(terms)] = terms[m]
  OBVIOUS
<1>2. ASSUME NEW k \in 1..Len(terms) PROVE g[k] = g[k - 1] + terms[k]
  <2>1. k \in 0..Len(terms) /\ k - 1 \in 0..Len(terms)
    OBVIOUS
  <2>2. /\ g[k] = IF k < m THEN 0 ELSE terms[m]
        /\ g[k - 1] = IF k - 1 < m THEN 0 ELSE terms[m]
    BY <2>1
  <2> HIDE DEF g
  <2> QED
    BY <2>2
<1> HIDE DEF g
<1> QED
  BY <1>1, <1>2, SumFollows

\* Two terms that cancel out.
LEMMA SumOfPair ==
    ASSUME NEW terms, Len(terms) \in Nat,
           NEW x \in 1..Len(terms), NEW y \in 1..Len(terms), x < y,
           terms[x] \in Int, terms[y] = -terms[x],
           \A k \in 1..Len(terms) : k /= x /\ k /= y => terms[k] = 0
    PROVE  V!SumOf(terms) = 0
<1> DEFINE g == [k \in 0..Len(terms) |-> IF x <= k /\ k < y THEN terms[x] ELSE 0]
<1>1. g[0] = 0 /\ g[Len(terms)] = 0
  OBVIOUS
<1>2. ASSUME NEW k \in 1..Len(terms) PROVE g[k] = g[k - 1] + terms[k]
  <2>1. k \in 0..Len(terms) /\ k - 1 \in 0..Len(terms)
    OBVIOUS
  <2>2. /\ g[k] = IF x <= k /\ k < y THEN terms[x] ELSE 0
        /\ g[k - 1] = IF x <= k - 1 /\ k - 1 < y THEN terms[x] ELSE 0
    BY <2>1
  <2> HIDE DEF g
  <2>3. CASE k = x
    BY <2>2, <2>3
  <2>4. CASE k = y
    BY <2>2, <2>4
  <2>5. CASE k /= x /\ k /= y
    BY <2>2, <2>5
  <2> QED
    BY <2>3, <2>4, <2>5
<1> HIDE DEF g
<1> QED
  BY <1>1, <1>2, SumFollows

-----------------------------------------------------------------------------
(* Values are numbers.                                                     *)

LEMMA RoundIsInt ==
    ASSUME NEW a \in Int, NEW d \in Nat, d > 0 PROVE V!RoundHalfUp(a, d) \in Int
<1>1. V!Magnitude(a) \in Int /\ 2 * d > 0
  BY DEF V!Magnitude
<1>2. (2 * V!Magnitude(a) + d) \in Int /\ 2 * d \in Int
  BY <1>1
<1>3. (2 * V!Magnitude(a) + d) \div (2 * d) \in Int
  BY <1>1, <1>2
<1> QED
  BY <1>3 DEF V!RoundHalfUp

LEMMA TotalIsInt == ASSUME NEW q \in Int, NEW u \in Int PROVE V!TotalOf(q, u) \in Int
<1>1. V!Magnitude(q) * u \in Int
  BY DEF V!Magnitude
<1> QED
  BY <1>1, RoundIsInt DEF V!TotalOf

LEMMA UnitIsInt == ASSUME NEW t \in Int, NEW q \in Int, q /= 0 PROVE V!UnitOf(t, q) \in Int
<1>1. V!Magnitude(q) \in Nat /\ V!Magnitude(q) > 0 /\ t * 10000 \in Int
  BY DEF V!Magnitude
<1> QED
  BY <1>1, RoundIsInt DEF V!UnitOf

LEMMA AverageIsInt ==
    ASSUME NEW ls \in Seq(V!Layer), NEW i PROVE V!Average(ls, i) \in Int
<1>1. Len(ls) \in Nat /\ \A k \in 1..Len(ls) : ls[k].qty \in Int /\ ls[k].total \in Int
  <2>1. \A k \in 1..Len(ls) : ls[k] \in V!Layer
    OBVIOUS
  <2> QED
    BY <2>1 DEF V!Layer
<1>2. V!QuantityOf(ls, i) \in Int
  <2> DEFINE terms == [k \in 1..Len(ls) |-> IF ls[k].item = i THEN ls[k].qty ELSE 0]
  <2>1. Len(terms) = Len(ls) /\ \A k \in 1..Len(terms) : terms[k] \in Int
    BY <1>1
  <2> HIDE DEF terms
  <2>2. V!SumOf(terms) \in Int
    BY <1>1, <2>1, SumIsInt
  <2> QED
    BY <2>2 DEF V!QuantityOf, terms
<1>3. V!WorthOf(ls, i) \in Int
  <2> DEFINE terms == [k \in 1..Len(ls) |-> IF ls[k].item = i THEN V!Signed(ls[k]) ELSE 0]
  <2>1. Len(terms) = Len(ls) /\ \A k \in 1..Len(terms) : terms[k] \in Int
    BY <1>1 DEF V!Signed
  <2> HIDE DEF terms
  <2>2. V!SumOf(terms) \in Int
    BY <1>1, <2>1, SumIsInt
  <2> QED
    BY <2>2 DEF V!WorthOf, terms
<1>4. CASE V!QuantityOf(ls, i) <= 0
  BY <1>4 DEF V!Average, V!NoCost
<1>5. CASE ~(V!QuantityOf(ls, i) <= 0)
  <2>1. V!WorthOf(ls, i) * 10000 \in Int /\ V!QuantityOf(ls, i) \in Nat /\ V!QuantityOf(ls, i) > 0
    BY <1>2, <1>3, <1>5
  <2>2. V!RoundHalfUp(V!WorthOf(ls, i) * 10000, V!QuantityOf(ls, i)) \in Int
    BY <2>1, RoundIsInt
  <2> QED
    BY <1>5, <2>2 DEF V!Average
<1> QED
  BY <1>4, <1>5

LEMMA LastUnitIsInt ==
    ASSUME NEW ls \in Seq(V!Layer), NEW n PROVE V!LastUnit(ls, n) \in Int
<1> DEFINE S == V!LayersFor(ls, n)
<1>1. S \subseteq 1..Len(ls) /\ Len(ls) \in Nat
  BY DEF V!LayersFor
<1> HIDE DEF S
<1>2. S /= {} => V!Max(S) \in 1..Len(ls)
  BY <1>1, MaxThere
<1>3. \A k \in 1..Len(ls) : ls[k].unit \in Int
  <2>1. \A k \in 1..Len(ls) : ls[k] \in V!Layer
    OBVIOUS
  <2> QED
    BY <2>1 DEF V!Layer
<1> QED
  BY <1>2, <1>3 DEF V!LastUnit, V!NoCost, S

LEMMA LayerTyped ==
    ASSUME log \in Seq(V!Movement), NEW ls \in Seq(V!Layer), NEW n \in 1..Len(log)
    PROVE  V!LayerOf(ls, n) \in V!Layer
<1>1. log[n] \in V!Movement /\ n \in Nat \ {0}
  OBVIOUS
<1>2. log[n].item \in Item /\ log[n].qty \in Int \ {0} /\ log[n].cost \in Int
  BY <1>1 DEF V!Movement
<1>3. V!SourceUnit(ls, n) \in Int
  BY LastUnitIsInt DEF V!SourceUnit, V!NoCost
<1>4. V!UnitValue(ls, n) \in Int
  BY <1>2, <1>3, AverageIsInt DEF V!UnitValue
<1>5. V!TotalOf(log[n].qty, V!UnitValue(ls, n)) \in Int
  BY <1>2, <1>4, TotalIsInt
<1> QED
  BY <1>1, <1>2, <1>4, <1>5 DEF V!LayerOf, V!Layer

-----------------------------------------------------------------------------
(* The loop that gives movements their layers.                             *)

\* The recursion of the loop has a solution up to every movement: the first
\* one without would have one that extends the solution before it.
LEMMA LoopExists ==
    ASSUME NEW ls, NEW N \in Nat
    PROVE  \E f : f = [n \in 0..N |-> IF n = 0 THEN ls ELSE V!WithLayer(ls, f[n - 1], n)]
<1> DEFINE Solves(f, k) == f = [n \in 0..k |-> IF n = 0 THEN ls
                                               ELSE V!WithLayer(ls, f[n - 1], n)]
           Unsolved == {k \in Nat : ~\E f : Solves(f, k)}
<1> SUFFICES ASSUME Unsolved /= {} PROVE FALSE
  OBVIOUS
<1>1. PICK k \in Unsolved : \A l \in Unsolved : k <= l
  <2>1. Unsolved \subseteq Nat
    OBVIOUS
  <2> HIDE DEF Unsolved
  <2> QED
    BY <2>1, LeastNatural
<1>2. CASE k = 0
  <2>1. Solves([n \in 0..0 |-> ls], 0)
    OBVIOUS
  <2> QED
    BY <1>1, <1>2, <2>1
<1>3. CASE k /= 0
  <2>1. k \in Nat /\ k - 1 \in Nat /\ k - 1 < k
    BY <1>1, <1>3
  <2>2. k - 1 \notin Unsolved
    <3> HIDE DEF Unsolved
    <3> QED
      BY <1>1, <2>1
  <2>3. PICK f : Solves(f, k - 1)
    BY <2>1, <2>2
  <2> DEFINE g == [n \in 0..k |-> IF n = k THEN V!WithLayer(ls, f[k - 1], k) ELSE f[n]]
  <2>4. \A n \in 0..(k - 1) : f[n] = IF n = 0 THEN ls ELSE V!WithLayer(ls, f[n - 1], n)
    BY <2>3
  <2>5. \A n \in 0..k : g[n] = IF n = 0 THEN ls ELSE V!WithLayer(ls, g[n - 1], n)
    <3> TAKE n \in 0..k
    <3>1. CASE n = k
      BY <2>1, <1>3, <3>1
    <3>2. CASE n /= k
      <4>1. n \in 0..(k - 1) /\ (n /= 0 => n - 1 \in 0..(k - 1) /\ n - 1 /= k)
        BY <2>1, <3>2
      <4> QED
        BY <4>1, <3>2, <2>4
    <3> QED
      BY <3>1, <3>2
  <2>6. Solves(g, k)
    <3>1. g = [n \in 0..k |-> g[n]]
      OBVIOUS
    <3> HIDE DEF g
    <3> QED
      BY <2>5, <3>1
  <2> QED
    BY <1>1, <2>6
<1> QED
  BY <1>2, <1>3

LEMMA LoopUnfolds ==
    ASSUME NEW ls, Len(log) \in Nat
    PROVE  V!LoopFrom(ls) = [n \in 0..Len(log) |->
               IF n = 0 THEN ls ELSE V!WithLayer(ls, V!LoopFrom(ls)[n - 1], n)]
<1> DEFINE Solves(f) == f = [n \in 0..Len(log) |->
                                IF n = 0 THEN ls ELSE V!WithLayer(ls, f[n - 1], n)]
<1>1. \E f : Solves(f)
  BY LoopExists
<1>2. V!LoopFrom(ls) = CHOOSE f : Solves(f)
  BY DEF V!LoopFrom
<1> HIDE DEF Solves
<1>3. Solves(V!LoopFrom(ls))
  BY <1>1, <1>2
<1> QED
  BY <1>3 DEF Solves

\* Layers of the first n movements, one of each at most.
Once(ls, n) ==
    /\ ls \in Seq(V!Layer)
    /\ \A k \in 1..Len(ls) : ls[k].movement \in 1..n
    /\ \A x, y \in 1..Len(ls) : ls[x].movement = ls[y].movement => x = y

\* The loop has added layers to ls of movements up to n that had none.
Grown(acc, ls, n) ==
    /\ acc \in Seq(V!Layer)
    /\ Len(ls) <= Len(acc)
    /\ \A k \in 1..Len(ls) : acc[k] = ls[k]
    /\ \A k \in (Len(ls) + 1)..Len(acc) :
           acc[k].movement \in 1..n /\ acc[k].movement \in V!Unvalued(ls)
    /\ \A x, y \in (Len(ls) + 1)..Len(acc) : acc[x].movement = acc[y].movement => x = y

LEMMA GrowsOnce ==
    ASSUME NEW ls, Once(ls, Len(log)), NEW acc, Grown(acc, ls, Len(log)), Len(log) \in Nat
    PROVE  Once(acc, Len(log))
<1>1. /\ Len(ls) \in Nat /\ Len(acc) \in Nat /\ Len(ls) <= Len(acc)
      /\ acc \in Seq(V!Layer)
  BY DEF Once, Grown
<1>2. \A k \in 1..Len(acc) : k \in 1..Len(ls) \/ k \in (Len(ls) + 1)..Len(acc)
  BY <1>1
<1>3. \A k \in 1..Len(ls) : acc[k] = ls[k]
  BY DEF Grown
<1>4. \A x \in 1..Len(ls), y \in (Len(ls) + 1)..Len(acc) : acc[x].movement /= acc[y].movement
  BY <1>3 DEF Grown, V!Unvalued, V!LayersFor
<1>5. \A k \in 1..Len(acc) : acc[k].movement \in 1..Len(log)
  BY <1>2, <1>3 DEF Grown, Once
<1>6. \A x, y \in 1..Len(acc) : acc[x].movement = acc[y].movement => x = y
  BY <1>2, <1>3, <1>4 DEF Grown, Once
<1> QED
  BY <1>1, <1>5, <1>6 DEF Once

LEMMA GrowsByOne ==
    ASSUME NEW ls, Once(ls, Len(log)), NEW n \in 1..Len(log), Len(log) \in Nat,
           log \in Seq(V!Movement), NEW acc, Grown(acc, ls, n - 1)
    PROVE  Grown(V!WithLayer(ls, acc, n), ls, n)
<1>1. Len(ls) \in Nat
  BY DEF Once
<1>2. acc \in Seq(V!Layer)
  BY DEF Grown
<1>3. Len(acc) \in Nat /\ Len(ls) <= Len(acc) /\ n \in Nat /\ n - 1 \in Nat
  BY <1>2 DEF Grown
<1>4. Grown(acc, ls, n)
  <2>1. \A i \in 1..(n - 1) : i \in 1..n
    BY <1>3
  <2> QED
    BY <2>1 DEF Grown
<1>5. ASSUME n \in V!Unvalued(ls), NEW l \in V!Layer, l.movement = n PROVE Grown(Append(acc, l), ls, n)
  <2> DEFINE new == Append(acc, l)
  <2>1. /\ new \in Seq(V!Layer) /\ Len(new) = Len(acc) + 1
        /\ new[Len(acc) + 1] = l /\ \A k \in 1..Len(acc) : new[k] = acc[k]
    BY <1>2, AppendProperties
  <2> HIDE DEF new
  <2>2. \A k \in 1..Len(ls) : k \in 1..Len(acc) /\ new[k] = ls[k]
    BY <1>1, <1>3, <2>1 DEF Grown
  <2>3. \A k \in (Len(ls) + 1)..Len(new) :
            \/ k \in (Len(ls) + 1)..Len(acc) /\ new[k] = acc[k] /\ new[k].movement \in 1..(n - 1)
            \/ k = Len(acc) + 1 /\ new[k].movement = n
    <3> TAKE k \in (Len(ls) + 1)..Len(new)
    <3>1. CASE k = Len(acc) + 1
      BY <3>1, <2>1, <1>5
    <3>2. CASE k /= Len(acc) + 1
      <4>1. k \in (Len(ls) + 1)..Len(acc) /\ k \in 1..Len(acc)
        BY <3>2, <1>1, <1>3, <2>1
      <4> QED
        BY <4>1, <2>1 DEF Grown
    <3> QED
      BY <3>1, <3>2
  <2>4. \A k \in (Len(ls) + 1)..Len(new) :
            new[k].movement \in 1..n /\ new[k].movement \in V!Unvalued(ls)
    <3>1. n \in 1..n /\ \A i \in 1..(n - 1) : i \in 1..n
      BY <1>3
    <3> QED
      BY <2>3, <3>1, <1>5 DEF Grown
  <2>5. \A x, y \in (Len(ls) + 1)..Len(new) : new[x].movement = new[y].movement => x = y
    <3>1. n \notin 1..(n - 1)
      BY <1>3
    <3> QED
      BY <2>3, <3>1 DEF Grown
  <2>6. Len(ls) <= Len(new)
    BY <1>1, <1>3, <2>1
  <2>7. Grown(new, ls, n)
    BY <2>1, <2>2, <2>4, <2>5, <2>6 DEF Grown
  <2> QED
    BY <2>7 DEF new
<1>6. V!LayerOf(acc, n).movement = n /\ V!LayerOf(acc, n) \in V!Layer
  BY <1>2, LayerTyped DEF V!LayerOf
<1> QED
  BY <1>4, <1>5, <1>6 DEF V!WithLayer

\* What the loop adds is valued once: the first movement with which it was not
\* would have followed one with which it was.
LEMMA LoopOnce ==
    ASSUME NEW ls, Once(ls, Len(log)), log \in Seq(V!Movement)
    PROVE  Grown(V!Valued(ls), ls, Len(log))
<1> DEFINE f == V!LoopFrom(ls)
           Bad == {n \in 0..Len(log) : ~Grown(f[n], ls, n)}
<1>1. /\ f[0] = ls
      /\ \A n \in 1..Len(log) : f[n] = V!WithLayer(ls, f[n - 1], n)
  <2> HIDE DEF f
  <2>1. f = [n \in 0..Len(log) |-> IF n = 0 THEN ls ELSE V!WithLayer(ls, f[n - 1], n)]
    BY LoopUnfolds DEF f
  <2>2. \A n \in 0..Len(log) : f[n] = IF n = 0 THEN ls ELSE V!WithLayer(ls, f[n - 1], n)
    BY <2>1
  <2>3. \A n \in 1..Len(log) : n \in 0..Len(log) /\ n /= 0
    OBVIOUS
  <2> QED
    BY <2>2, <2>3
<1> HIDE DEF f
<1>2. Bad = {}
  <2> SUFFICES ASSUME Bad /= {} PROVE FALSE
    OBVIOUS
  <2>1. PICK n \in Bad : \A m \in Bad : n <= m
    <3>1. Bad \subseteq Nat
      OBVIOUS
    <3> HIDE DEF Bad
    <3> QED
      BY <3>1, LeastNatural
  <2>2. Grown(ls, ls, 0)
    <3>1. Len(ls) \in Nat
      BY DEF Once
    <3> QED
      BY <3>1 DEF Once, Grown
  <2>3. n \in 1..Len(log) /\ n - 1 \in 0..Len(log) /\ n - 1 < n
    BY <2>1, <2>2, <1>1
  <2>4. n - 1 \notin Bad
    <3> HIDE DEF Bad
    <3> QED
      BY <2>1, <2>3
  <2>5. Grown(f[n - 1], ls, n - 1)
    BY <2>3, <2>4
  <2>6. Grown(f[n], ls, n)
    BY <2>3, <2>5, <1>1, GrowsByOne
  <2> QED
    BY <2>1, <2>6
<1>3. Grown(f[Len(log)], ls, Len(log))
  BY <1>2
<1> QED
  BY <1>3 DEF V!Valued, f

\* What a request has found, put after what there is.
LEMMA TailPut ==
    ASSUME NEW T, NEW ls \in Seq(T), NEW acc \in Seq(T), Len(ls) <= Len(acc),
           \A k \in 1..Len(ls) : acc[k] = ls[k]
    PROVE  ls \o SubSeq(acc, Len(ls) + 1, Len(acc)) = acc
<1> DEFINE new == SubSeq(acc, Len(ls) + 1, Len(acc))
<1>3. Len(ls) \in Nat /\ Len(acc) \in Nat
  OBVIOUS
<1>4. /\ new \in Seq(T) /\ Len(new) = Len(acc) - Len(ls)
      /\ \A i \in 1..(Len(acc) - Len(ls)) : new[i] = acc[Len(ls) + i]
  <2>1. \A i \in (Len(ls) + 1)..Len(acc) : acc[i] \in T
    BY <1>3
  <2>2. /\ new \in Seq(T)
        /\ Len(new) = IF Len(ls) + 1 <= Len(acc) THEN Len(acc) - (Len(ls) + 1) + 1 ELSE 0
        /\ \A i \in 1..(Len(acc) - (Len(ls) + 1) + 1) : new[i] = acc[Len(ls) + 1 + i - 1]
    BY <1>3, <2>1, SubSeqProperties
  <2> HIDE DEF new
  <2> QED
    BY <1>3, <2>2
<1> HIDE DEF new
<1> DEFINE all == ls \o new
<1>5. /\ all \in Seq(T) /\ Len(all) = Len(acc)
      /\ \A i \in 1..Len(acc) : all[i] = IF i <= Len(ls) THEN ls[i] ELSE new[i - Len(ls)]
  BY <1>3, <1>4, ConcatProperties
<1> HIDE DEF all
<1>6. ASSUME NEW i \in 1..Len(acc) PROVE all[i] = acc[i]
  <2>1. CASE i <= Len(ls)
    <3>1. i \in 1..Len(ls)
      BY <1>3, <2>1
    <3> QED
      BY <1>5, <2>1, <3>1
  <2>2. CASE ~(i <= Len(ls))
    <3>1. i - Len(ls) \in 1..(Len(acc) - Len(ls)) /\ Len(ls) + (i - Len(ls)) = i
      BY <1>3, <2>2
    <3>2. new[i - Len(ls)] = acc[i]
      BY <1>4, <3>1
    <3> QED
      BY <1>5, <2>2, <3>2
  <2> QED
    BY <2>1, <2>2
<1>7. all = acc
  BY <1>3, <1>5, <1>6
<1> QED
  BY <1>7 DEF all, new

-----------------------------------------------------------------------------
(* What holds of movements, sold items, layers and cost rows.              *)

IsSold(o) == o \in Order /\ sold[o] /= V!NotSold

\* The units of a cancelled order are back, each issue once.
LogSound ==
    /\ log \in Seq(V!Movement)
    /\ \A n \in 1..Len(log) :
           log[n].kind \in {"sale_issue", "return_restock", "cancellation_reversal"}
               => IsSold(log[n].order)
    /\ \A n \in 1..Len(log) : log[n].kind = "cancellation_reversal" =>
           /\ log[n].of \in V!OrdersMovements(log[n].order, "sale_issue")
           /\ log[n].qty = -log[log[n].of].qty
           /\ ~log[n].pending
           /\ sold[log[n].order].status = "cancelled"
    /\ \A x, y \in 1..Len(log) :
           /\ log[x].kind = "cancellation_reversal" /\ log[y].kind = "cancellation_reversal"
           /\ log[x].of = log[y].of
           => x = y
    /\ \A m \in 1..Len(log) :
           log[m].kind = "sale_issue" /\ sold[log[m].order].status = "cancelled" =>
               \E n \in 1..Len(log) : log[n].kind = "cancellation_reversal" /\ log[n].of = m

SaleRow == [item : Item, qty : SoldAtOnce, status : {"open", "cancelled"}]
SoldSound ==
    /\ sold = [o \in Order |-> sold[o]]
    /\ \A o \in Order : sold[o] = V!NotSold \/ sold[o] \in SaleRow

CostRowSet == [order : Order, qty : Int, unit : Int, total : Int, source : Nat, reverses : Nat]

\* The row of an order's cost.
IsBase(cs, k) ==
    /\ k \in 1..Len(cs) /\ cs[k].reverses = 0
    /\ IsSold(cs[k].order)
    /\ cs[k].total = V!TotalOf(sold[cs[k].order].qty, cs[k].unit)
    /\ cs[k].source = 0 \/ cs[k].source \in V!OrdersMovements(cs[k].order, "sale_issue")

\* The row that takes back the cost of base row j, for movement n.
Reverses(cs, k, j, n) ==
    /\ IsBase(cs, j)
    /\ n \in 1..Len(log)
    /\ cs[k].order = cs[j].order
    /\ cs[k].total = V!TotalOf(log[n].qty, cs[j].unit)
    /\ \/ log[n].kind = "cancellation_reversal" /\ log[n].of = cs[j].source
       \/ log[n].kind = "return_restock" /\ log[n].order = cs[j].order

\* An order has one cost row, and a movement takes it back once.
CogsSound(cs) ==
    /\ cs \in Seq(CostRowSet)
    /\ \A k \in 1..Len(cs) : IsBase(cs, k) \/ Reverses(cs, k, cs[k].reverses, cs[k].source)
    /\ \A x, y \in 1..Len(cs) :
           /\ cs[x].order = cs[y].order /\ cs[x].reverses = cs[y].reverses
           /\ cs[x].reverses = 0 \/ cs[x].source = cs[y].source
           => x = y

JobsKept ==
    /\ valuing = [a \in Admin |-> valuing[a]]
    /\ \A a \in Admin :
           \/ valuing[a] = V!Idle
           \/ valuing[a].op = "layers" /\ Once(layers \o valuing[a].new, Len(log))
           \/ valuing[a].op = "cogs" /\ CogsSound(cogs \o valuing[a].new)
    /\ \A a, b \in Admin : valuing[a] /= V!Idle /\ valuing[b] /= V!Idle => a = b

ValuationInv ==
    /\ LogSound /\ SoldSound /\ Once(layers, Len(log)) /\ CogsSound(cogs) /\ JobsKept

-----------------------------------------------------------------------------
(* The movements.                                                          *)

\* Movements were only added, and sold items stay what they were.
Onward ==
    /\ log' \in Seq(V!Movement)
    /\ Len(log) <= Len(log')
    /\ \A n \in 1..Len(log) : log'[n] = log[n]
    /\ sold' = [o \in Order |-> sold'[o]]
    /\ \A o \in Order : sold[o] /= V!NotSold =>
           sold'[o] /= V!NotSold /\ sold'[o].qty = sold[o].qty

LEMMA AddedOne ==
    ASSUME LogSound, NEW r \in V!Movement, log' = Append(log, r)
    PROVE  /\ log' \in Seq(V!Movement) /\ Len(log') = Len(log) + 1 /\ Len(log) <= Len(log')
           /\ \A n \in 1..Len(log) : log'[n] = log[n]
           /\ log'[Len(log')] = r
           /\ \A n \in 1..Len(log') : n \in 1..Len(log) \/ n = Len(log')
<1>1. log \in Seq(V!Movement)
  BY DEF LogSound
<1>2. /\ log' \in Seq(V!Movement) /\ Len(log') = Len(log) + 1
      /\ log'[Len(log) + 1] = r
      /\ \A n \in 1..Len(log) : log'[n] = log[n]
  BY <1>1, AppendProperties
<1>3. Len(log) \in Nat
  BY <1>1
<1> QED
  BY <1>2, <1>3

LEMMA AddedMany ==
    ASSUME LogSound, NEW rs \in Seq(V!Movement), log' = log \o rs
    PROVE  /\ log' \in Seq(V!Movement) /\ Len(log') = Len(log) + Len(rs)
           /\ Len(log) <= Len(log')
           /\ \A n \in 1..Len(log) : log'[n] = log[n]
           /\ \A k \in 1..Len(rs) : log'[Len(log) + k] = rs[k]
           /\ \A n \in 1..Len(log') :
                  n \in 1..Len(log) \/ \E k \in 1..Len(rs) : n = Len(log) + k
<1>1. log \in Seq(V!Movement)
  BY DEF LogSound
<1>2. /\ log' \in Seq(V!Movement) /\ Len(log') = Len(log) + Len(rs)
      /\ \A n \in 1..(Len(log) + Len(rs)) :
             log'[n] = IF n <= Len(log) THEN log[n] ELSE rs[n - Len(log)]
  BY <1>1, ConcatProperties
<1>3. Len(log) \in Nat /\ Len(rs) \in Nat
  BY <1>1
<1>4. \A n \in 1..Len(log) : n \in 1..(Len(log) + Len(rs)) /\ n <= Len(log)
  BY <1>3
<1>5. ASSUME NEW k \in 1..Len(rs) PROVE log'[Len(log) + k] = rs[k]
  <2>1. /\ Len(log) + k \in 1..(Len(log) + Len(rs)) /\ ~(Len(log) + k <= Len(log))
        /\ Len(log) + k - Len(log) = k
    BY <1>3
  <2> QED
    BY <1>2, <2>1
<1>6. ASSUME NEW n \in 1..Len(log'), n \notin 1..Len(log)
      PROVE  \E k \in 1..Len(rs) : n = Len(log) + k
  <2>1. n - Len(log) \in 1..Len(rs) /\ n = Len(log) + (n - Len(log))
    BY <1>2, <1>3, <1>6
  <2> QED
    BY <2>1
<1>7. Len(log) <= Len(log')
  BY <1>2, <1>3
<1> QED
  BY <1>2, <1>4, <1>5, <1>6, <1>7

\* A movement that takes nothing back, of an order that is not cancelled.
LEMMA LogKeeps ==
    ASSUME LogSound, SoldSound,
           log' \in Seq(V!Movement), Len(log) <= Len(log'),
           \A n \in 1..Len(log) : log'[n] = log[n],
           \A n \in 1..Len(log') : n \in 1..Len(log) \/
               /\ log'[n].kind /= "cancellation_reversal"
               /\ log'[n].kind \in {"sale_issue", "return_restock"} =>
                      IsSold(log'[n].order) /\ sold[log'[n].order].status = "open",
           \/ sold' = sold
           \/ \E o \in Order, r \in SaleRow :
                 /\ sold[o] = V!NotSold /\ r.status = "open"
                 /\ sold' = [sold EXCEPT ![o] = r]
    PROVE  LogSound' /\ SoldSound'
<1> DEFINE N == Len(log)
           M == Len(log')
<1>1. /\ N \in Nat /\ M \in Nat /\ N <= M /\ log \in Seq(V!Movement)
      /\ \A n \in 1..N : n \in 1..M
  BY DEF LogSound
<1>2. /\ SoldSound'
      /\ \A o : IsSold(o) => o \in Order /\ sold'[o] = sold[o] /\ sold'[o] /= V!NotSold
  <2>1. CASE sold' = sold
    BY <2>1 DEF SoldSound, IsSold, SaleRow
  <2>2. CASE \E o \in Order, r \in SaleRow :
                 /\ sold[o] = V!NotSold /\ r.status = "open"
                 /\ sold' = [sold EXCEPT ![o] = r]
    <3>1. PICK o \in Order, r \in SaleRow :
                 /\ sold[o] = V!NotSold /\ r.status = "open"
                 /\ sold' = [sold EXCEPT ![o] = r]
      BY <2>2
    <3>2. /\ sold'[o] = r /\ \A p \in Order \ {o} : sold'[p] = sold[p]
          /\ sold' = [p \in Order |-> sold'[p]]
      BY <3>1 DEF SoldSound
    <3> QED
      BY <3>1, <3>2 DEF SoldSound, IsSold, SaleRow
  <2> QED
    BY <2>1, <2>2
<1>3. \A o : IsSold(o) => IsSold(o)'
  BY <1>2 DEF IsSold
<1>4. \A n \in 1..N : log[n].kind \in {"sale_issue", "return_restock", "cancellation_reversal"}
          => IsSold(log[n].order)
  BY DEF LogSound
<1>5. \A o : \A m \in V!OrdersMovements(o, "sale_issue") :
          m \in V!OrdersMovements(o, "sale_issue")'
  BY <1>1 DEF V!OrdersMovements
<1>6. \A n \in 1..M : log'[n].kind = "cancellation_reversal" => n \in 1..N /\ log'[n] = log[n]
  OBVIOUS
<1>7. ASSUME NEW n \in 1..N, log[n].kind = "cancellation_reversal"
      PROVE  /\ log[n].of \in 1..N /\ log'[log[n].of] = log[log[n].of]
             /\ log[n].of \in V!OrdersMovements(log[n].order, "sale_issue")
  BY <1>7 DEF LogSound, V!OrdersMovements
<1>8. ASSUME NEW n \in 1..M, log'[n].kind = "cancellation_reversal",
             NEW o, o = log'[n].order
      PROVE  /\ log'[n].of \in V!OrdersMovements(o, "sale_issue")'
             /\ log'[n].qty = -log'[log'[n].of].qty
             /\ ~log'[n].pending
             /\ sold'[o].status = "cancelled"
  <2>1. n \in 1..N /\ log'[n] = log[n] /\ IsSold(log[n].order)
    BY <1>4, <1>6, <1>8
  <2>2. /\ log[n].of \in V!OrdersMovements(log[n].order, "sale_issue")
        /\ log[n].qty = -log[log[n].of].qty
        /\ ~log[n].pending
        /\ sold[log[n].order].status = "cancelled"
    BY <1>8, <2>1 DEF LogSound
  <2>3. sold'[log[n].order] = sold[log[n].order]
    BY <1>2, <2>1
  <2>4. log'[log[n].of] = log[log[n].of]
    BY <1>7, <1>8, <2>1
  <2>5. log'[n].of \in V!OrdersMovements(o, "sale_issue")'
    BY <1>8, <1>5, <2>1, <2>2
  <2> QED
    BY <1>8, <2>1, <2>2, <2>3, <2>4, <2>5
<1>9. ASSUME NEW m \in 1..M, log'[m].kind = "sale_issue", sold'[log'[m].order].status = "cancelled"
      PROVE  \E n \in 1..M : log'[n].kind = "cancellation_reversal" /\ log'[n].of = m
  <2>1. IsSold(log'[m].order)
    BY <1>4, <1>9
  <2>2. sold'[log'[m].order] = sold[log'[m].order]
    BY <1>2, <2>1
  <2>3. m \in 1..N /\ log'[m] = log[m]
    BY <1>9, <2>2
  <2>4. PICK n \in 1..N : log[n].kind = "cancellation_reversal" /\ log[n].of = m
    BY <1>9, <2>2, <2>3 DEF LogSound
  <2> QED
    BY <1>1, <2>4
<1>10. \A n \in 1..M : \A o :
           /\ log'[n].kind \in {"sale_issue", "return_restock", "cancellation_reversal"}
           /\ o = log'[n].order
           => IsSold(o)'
  BY <1>3, <1>4
<1>11. \A x, y \in 1..M :
           /\ log'[x].kind = "cancellation_reversal" /\ log'[y].kind = "cancellation_reversal"
           /\ log'[x].of = log'[y].of
           => x = y
  BY <1>6 DEF LogSound
<1>12. (\A n \in 1..Len(log) : log[n].kind = "cancellation_reversal" =>
            /\ log[n].of \in V!OrdersMovements(log[n].order, "sale_issue")
            /\ log[n].qty = -log[log[n].of].qty
            /\ ~log[n].pending
            /\ sold[log[n].order].status = "cancelled")'
  BY <1>8
<1>13. (\A n \in 1..Len(log) :
            log[n].kind \in {"sale_issue", "return_restock", "cancellation_reversal"}
                => IsSold(log[n].order))'
  BY <1>10
<1> QED
  BY <1>2, <1>9, <1>11, <1>12, <1>13 DEF LogSound

LEMMA AddsOne ==
    ASSUME LogSound, SoldSound, NEW r \in V!Movement, log' = Append(log, r), sold' = sold,
           r.kind /= "cancellation_reversal",
           r.kind \in {"sale_issue", "return_restock"} =>
               IsSold(r.order) /\ sold[r.order].status = "open"
    PROVE  LogSound' /\ SoldSound' /\ Onward
<1>1. /\ log' \in Seq(V!Movement) /\ Len(log) <= Len(log')
      /\ \A n \in 1..Len(log) : log'[n] = log[n]
      /\ \A n \in 1..Len(log') : n \in 1..Len(log) \/ log'[n] = r
  BY AddedOne
<1>2. LogSound' /\ SoldSound'
  BY <1>1, LogKeeps
<1> QED
  BY <1>1, <1>2 DEF Onward, SoldSound

LEMMA AddsMany ==
    ASSUME LogSound, SoldSound, NEW rs \in Seq(V!Movement), log' = log \o rs, sold' = sold,
           \A k \in 1..Len(rs) :
               /\ rs[k].kind /= "cancellation_reversal"
               /\ rs[k].kind \in {"sale_issue", "return_restock"} =>
                      IsSold(rs[k].order) /\ sold[rs[k].order].status = "open"
    PROVE  LogSound' /\ SoldSound' /\ Onward
<1>1. /\ log' \in Seq(V!Movement) /\ Len(log) <= Len(log')
      /\ \A n \in 1..Len(log) : log'[n] = log[n]
      /\ \A k \in 1..Len(rs) : log'[Len(log) + k] = rs[k]
      /\ \A n \in 1..Len(log') : n \in 1..Len(log) \/ \E k \in 1..Len(rs) : n = Len(log) + k
  BY AddedMany
<1>2. \A n \in 1..Len(log') : n \in 1..Len(log) \/
          /\ log'[n].kind /= "cancellation_reversal"
          /\ log'[n].kind \in {"sale_issue", "return_restock"} =>
                 IsSold(log'[n].order) /\ sold[log'[n].order].status = "open"
  <2>1. ASSUME NEW n \in 1..Len(log'), n \notin 1..Len(log)
        PROVE  \E k \in 1..Len(rs) : log'[n] = rs[k]
    BY <1>1, <2>1
  <2> QED
    BY <2>1
<1>3. LogSound' /\ SoldSound'
  BY <1>1, <1>2, LogKeeps
<1> QED
  BY <1>1, <1>3 DEF Onward, SoldSound

LEMMA Amounts ==
    /\ \A q \in TakenIn \cup SoldAtOnce : q \in Int /\ q > 0 /\ -q \in Int \ {0} /\ q \in Int \ {0}
    /\ \A c \in Cost \cup {V!NoCost} : c \in Int
  BY BackOfficeAssumption DEF V!ValuationAssumption, V!NoCost

LEMMA TakeInAdds ==
    ASSUME LogSound, SoldSound, NEW i \in Item, NEW q \in TakenIn,
           NEW c \in Cost \cup {V!NoCost}, V!TakeIn(i, q, c)
    PROVE  LogSound' /\ SoldSound' /\ Onward
<1> DEFINE r == [item |-> i, kind |-> "receipt", qty |-> q,
                 cost |-> IF c = V!NoCost THEN V!NoCost ELSE V!UnitOf(c, q),
                 order |-> V!NoOrder, of |-> 0, pending |-> FALSE]
<1>1. log' = Append(log, r) /\ sold' = sold
  BY DEF V!TakeIn, V!Append1
<1>2. r \in V!Movement /\ r.kind = "receipt"
  <2>1. (IF c = V!NoCost THEN V!NoCost ELSE V!UnitOf(c, q)) \in Int
    BY Amounts, UnitIsInt DEF V!NoCost
  <2> QED
    BY <2>1, Amounts DEF V!Movement, V!Kind
<1> HIDE DEF r
<1> QED
  BY <1>1, <1>2, AddsOne

LEMMA AdjustAdds ==
    ASSUME LogSound, SoldSound, NEW i \in Item, NEW q \in SoldAtOnce,
           V!Adjust(i, q) \/ V!Adjust(i, -q)
    PROVE  LogSound' /\ SoldSound' /\ Onward
<1>1. PICK d \in {q, -q} : V!Adjust(i, d)
  OBVIOUS
<1> DEFINE r == [item |-> i, kind |-> "adjustment", qty |-> d, cost |-> V!NoCost,
                 order |-> V!NoOrder, of |-> 0, pending |-> FALSE]
<1>2. log' = Append(log, r) /\ sold' = sold
  BY <1>1 DEF V!Adjust, V!Append1
<1>3. r \in V!Movement /\ r.kind = "adjustment"
  BY Amounts DEF V!Movement, V!Kind, V!NoCost
<1> HIDE DEF r
<1> QED
  BY <1>2, <1>3, AddsOne

LEMMA OpeningAdds ==
    ASSUME LogSound, SoldSound, NEW i \in Item, NEW q \in TakenIn, NEW t, NEW b,
           V!RecordOpening(i, q, t, b)
    PROVE  LogSound' /\ SoldSound' /\ Onward /\ Len(log') = Len(log) + 1
<1> DEFINE r == [item |-> i, kind |-> "opening_balance", qty |-> q, cost |-> V!NoCost,
                 order |-> V!NoOrder, of |-> 0, pending |-> FALSE]
<1>2. log' = Append(log, r) /\ sold' = sold
  BY DEF V!RecordOpening, V!Append1
<1>3. r \in V!Movement /\ r.kind = "opening_balance"
  BY Amounts DEF V!Movement, V!Kind, V!NoCost
<1> HIDE DEF r
<1> QED
  BY <1>2, <1>3, AddsOne, AddedOne

LEMMA PlaceKeeps ==
    ASSUME LogSound, SoldSound, NEW o \in Order, NEW i \in Item, NEW q \in SoldAtOnce,
           V!PlaceOrder(o, i, q)
    PROVE  LogSound' /\ SoldSound' /\ Onward
<1> DEFINE r == [item |-> i, qty |-> q, status |-> "open"]
<1>1. sold[o] = V!NotSold /\ sold' = [sold EXCEPT ![o] = r] /\ log' = log
  BY DEF V!PlaceOrder
<1>2. r \in SaleRow /\ r.status = "open"
  BY DEF SaleRow
<1> HIDE DEF r
<1>3. log \in Seq(V!Movement) /\ Len(log) <= Len(log)
  BY DEF LogSound
<1>4. LogSound' /\ SoldSound'
  BY <1>1, <1>2, <1>3, LogKeeps
<1> QED
  BY <1>1, <1>3, <1>4 DEF Onward, SoldSound

LEMMA SoldItem ==
    ASSUME SoldSound, NEW o \in Order, sold[o] /= V!NotSold
    PROVE  /\ IsSold(o) /\ sold[o].item \in Item /\ sold[o].qty \in SoldAtOnce
           /\ sold[o].status \in {"open", "cancelled"}
  BY DEF SoldSound, SaleRow, IsSold

LEMMA IssueAdds ==
    ASSUME LogSound, SoldSound, NEW o \in Order, NEW q \in SoldAtOnce, V!IssueSale(o, q)
    PROVE  LogSound' /\ SoldSound' /\ Onward
<1> DEFINE r == [item |-> sold[o].item, kind |-> "sale_issue", qty |-> -q, cost |-> V!NoCost,
                 order |-> o, of |-> 0, pending |-> FALSE]
<1>1. log' = Append(log, r) /\ sold' = sold /\ sold[o] /= V!NotSold /\ sold[o].status = "open"
  BY DEF V!IssueSale, V!Append1
<1>2. r \in V!Movement /\ r.kind = "sale_issue" /\ r.order = o
  BY <1>1, SoldItem, Amounts DEF V!Movement, V!Kind, V!NoCost
<1>3. IsSold(o)
  BY <1>1, SoldItem
<1> HIDE DEF r
<1> QED
  BY <1>1, <1>2, <1>3, AddsOne

LEMMA InspectAdds ==
    ASSUME LogSound, SoldSound, NEW o \in Order, NEW q \in SoldAtOnce \cup {0},
           V!InspectReturn(o, q)
    PROVE  LogSound' /\ SoldSound' /\ Onward
<1> DEFINE rest == sold[o].qty - q
           row(kind, n, of, pending) ==
               [item |-> sold[o].item, kind |-> kind, qty |-> n, cost |-> V!NoCost,
                order |-> o, of |-> of, pending |-> pending]
           restock == IF q = 0 THEN <<>> ELSE <<row("return_restock", q, 0, FALSE)>>
           next == Len(log) + Len(restock) + 1
           written == IF rest = 0 THEN <<>>
                      ELSE <<row("return_restock", rest, 0, TRUE),
                             row("return_write_off", -rest, next, FALSE)>>
           Good(r) == /\ r \in V!Movement /\ r.kind /= "cancellation_reversal"
                      /\ r.kind \in {"sale_issue", "return_restock"} =>
                             IsSold(r.order) /\ sold[r.order].status = "open"
<1>1. /\ log' = log \o restock \o written /\ sold' = sold
      /\ sold[o] /= V!NotSold /\ sold[o].status = "open"
  BY DEF V!InspectReturn
<1>2. IsSold(o) /\ sold[o].item \in Item /\ sold[o].qty \in Int /\ q \in Int
  BY <1>1, SoldItem, Amounts
<1>3. Len(log) \in Nat /\ log \in Seq(V!Movement)
  BY DEF LogSound
<1>4. ASSUME NEW kind \in {"return_restock", "return_write_off"}, NEW n \in Int \ {0},
             NEW of \in Nat, NEW pending \in BOOLEAN
      PROVE  Good(row(kind, n, of, pending))
  <2>1. row(kind, n, of, pending) \in V!Movement
    BY <1>2 DEF V!Movement, V!Kind, V!NoCost
  <2> QED
    BY <1>1, <1>2, <2>1
<1> DEFINE R == {r \in V!Movement : Good(r)}
<1>5. restock \in Seq(R)
  <2>1. CASE q = 0
    BY <2>1
  <2>2. CASE q /= 0
    <3>1. PICK r : r = row("return_restock", q, 0, FALSE)
      OBVIOUS
    <3>2. r \in R
      BY <1>2, <1>4, <2>2, <3>1
    <3>3. restock = <<r>>
      BY <2>2, <3>1
    <3> HIDE DEF R, restock
    <3> QED
      BY <3>2, <3>3
  <2> QED
    BY <2>1, <2>2
<1>6. next \in Nat
  BY <1>3, <1>5
<1>7. written \in Seq(R)
  <2>1. CASE rest = 0
    BY <2>1
  <2>2. CASE rest /= 0
    <3>1. rest \in Int \ {0} /\ -rest \in Int \ {0}
      BY <1>2, <2>2
    <3> HIDE DEF rest, next
    <3>2. PICK r, w : /\ r = row("return_restock", rest, 0, TRUE)
                      /\ w = row("return_write_off", -rest, next, FALSE)
      OBVIOUS
    <3>3. r \in R /\ w \in R
      BY <3>1, <3>2, <1>4, <1>6
    <3>4. written = <<r, w>>
      BY <2>2, <3>2 DEF rest
    <3> HIDE DEF R, written
    <3> QED
      BY <3>3, <3>4
  <2> QED
    BY <2>1, <2>2
<1> HIDE DEF restock, written
<1> DEFINE rs == restock \o written
<1>8. rs \in Seq(R) /\ rs \in Seq(V!Movement) /\ \A k \in 1..Len(rs) : Good(rs[k])
  <2>1. rs \in Seq(R)
    BY <1>5, <1>7, ConcatProperties
  <2> HIDE DEF rs
  <2>2. \A k \in 1..Len(rs) : rs[k] \in R
    BY <2>1
  <2>3. R \subseteq V!Movement
    OBVIOUS
  <2> HIDE DEF R
  <2>4. rs \in Seq(V!Movement)
    BY <2>1, <2>3
  <2> QED
    BY <2>1, <2>2, <2>4 DEF R
<1>9. log' = log \o rs
  <2>1. restock \in Seq(V!Movement) /\ written \in Seq(V!Movement)
    <3>1. R \subseteq V!Movement
      OBVIOUS
    <3> HIDE DEF R
    <3> QED
      BY <1>5, <1>7, <3>1
  <2> QED
    BY <1>1, <1>3, <2>1, ConcatAssociative
<1> HIDE DEF rs
<1> QED
  BY <1>1, <1>8, <1>9, AddsMany

\* The k-th from above of some numbers: each of them is one, and only one.
Latest(S, k) == CHOOSE m \in S : V!Cardinality({j \in S : j > m}) = k - 1

LEMMA LatestEach ==
    ASSUME NEW n \in Nat, NEW S, S \subseteq 1..n
    PROVE  /\ V!Cardinality(S) \in Nat
           /\ \A k \in 1..V!Cardinality(S) : Latest(S, k) \in S
           /\ \A m \in S : \E k \in 1..V!Cardinality(S) : Latest(S, k) = m
           /\ \A k, l \in 1..V!Cardinality(S) : Latest(S, k) = Latest(S, l) => k = l
<1> DEFINE c == Cardinality(S)
           After(m) == {j \in S : j > m}
           rank(m) == Cardinality(After(m))
<1>1. IsFiniteSet(S) /\ c \in Nat
  <2>1. IsFiniteSet(1..n)
    BY FS_Interval
  <2> QED
    BY <2>1, FS_Subset, FS_CardinalityType
<1>2. \A T : V!Cardinality(T) = Cardinality(T)
  BY DEF V!Cardinality, Cardinality
<1>3. ASSUME NEW m \in S
      PROVE  rank(m) \in 0..(c - 1)
  <2>1. IsFiniteSet(S \ {m}) /\ Cardinality(S \ {m}) = c - 1
    BY <1>1, FS_RemoveElement
  <2>2. After(m) \subseteq S \ {m}
    OBVIOUS
  <2> HIDE DEF After
  <2>3. rank(m) \in Nat /\ rank(m) <= c - 1
    BY <2>1, <2>2, FS_Subset, FS_CardinalityType
  <2> QED
    BY <1>1, <2>3
<1>4. ASSUME NEW m \in S, NEW p \in S, m < p
      PROVE  rank(p) < rank(m)
  <2>1. p \in After(m) /\ After(p) \subseteq After(m) \ {p} /\ After(m) \subseteq S
    <3>1. \A x \in S : x \in Nat
      OBVIOUS
    <3>2. \A j \in S : j > p => j > m /\ j /= p
      BY <1>4, <3>1
    <3> QED
      BY <1>4, <3>1, <3>2
  <2> HIDE DEF After
  <2>2. IsFiniteSet(After(m))
    BY <1>1, <2>1, FS_Subset
  <2>3. IsFiniteSet(After(m) \ {p}) /\ Cardinality(After(m) \ {p}) = rank(m) - 1
    BY <2>1, <2>2, FS_RemoveElement
  <2>4. rank(p) <= rank(m) - 1
    BY <2>1, <2>3, FS_Subset
  <2> QED
    BY <1>1, <1>3, <2>4
<1>5. \A m, p \in S : rank(m) = rank(p) => m = p
  <2> SUFFICES ASSUME NEW m \in S, NEW p \in S, rank(m) = rank(p), m /= p PROVE FALSE
    OBVIOUS
  <2>1. m < p \/ p < m
    OBVIOUS
  <2>2. rank(m) \in Int /\ rank(p) \in Int
    BY <1>3
  <2> HIDE DEF rank
  <2> QED
    BY <1>4, <2>1, <2>2
<1>6. ASSUME NEW k \in 1..c
      PROVE  \E m \in S : rank(m) = k - 1
  <2> SUFFICES ASSUME \A m \in S : rank(m) /= k - 1 PROVE FALSE
    OBVIOUS
  <2> DEFINE T == (0..(c - 1)) \ {k - 1}
             f == [m \in S |-> rank(m)]
  <2>1. IsFiniteSet(0..(c - 1)) /\ Cardinality(0..(c - 1)) = c
    <3>1. c - 1 \in Int /\ c > 0
      BY <1>1
    <3> HIDE DEF c
    <3>2. PICK b \in Int : b = c - 1
      BY <3>1
    <3>3. IsFiniteSet(0..b) /\ Cardinality(0..b) = IF 0 > b THEN 0 ELSE b - 0 + 1
      BY FS_Interval
    <3> QED
      BY <1>1, <3>1, <3>2, <3>3
  <2>2. k - 1 \in 0..(c - 1)
    BY <1>1
  <2>3. IsFiniteSet(T) /\ Cardinality(T) = c - 1
    BY <2>1, <2>2, FS_RemoveElement
  <2>4. f \in [S -> T]
    BY <1>3
  <2>5. Cardinality(T) < Cardinality(S)
    BY <1>1, <2>3
  <2> HIDE DEF f, T
  <2>6. \E x, y \in S : x # y /\ f[x] = f[y]
    BY <1>1, <2>3, <2>4, <2>5, FS_PigeonHole
  <2> HIDE DEF rank
  <2> QED
    BY <1>5, <2>6 DEF f
<1>7. ASSUME NEW k \in 1..c
      PROVE  Latest(S, k) \in S /\ rank(Latest(S, k)) = k - 1
  <2>1. Latest(S, k) = CHOOSE m \in S : rank(m) = k - 1
    BY <1>2 DEF Latest
  <2> HIDE DEF rank
  <2> QED
    BY <1>6, <2>1
<1>8. ASSUME NEW m \in S
      PROVE  \E k \in 1..c : Latest(S, k) = m
  <2>1. rank(m) + 1 \in 1..c /\ (rank(m) + 1) - 1 = rank(m)
    BY <1>1, <1>3
  <2> HIDE DEF rank, c
  <2> QED
    BY <1>5, <1>7, <2>1
<1>9. \A k, l \in 1..c : Latest(S, k) = Latest(S, l) => k = l
  <2> TAKE k, l \in 1..c
  <2>1. rank(Latest(S, k)) = k - 1 /\ rank(Latest(S, l)) = l - 1
    BY <1>7
  <2> HIDE DEF rank
  <2>2. k \in Int /\ l \in Int
    OBVIOUS
  <2> QED
    BY <2>1, <2>2
<1> QED
  BY <1>1, <1>2, <1>7, <1>8, <1>9

LEMMA CancelAdds ==
    ASSUME LogSound, SoldSound, NEW o \in Order, V!CancelOrder(o)
    PROVE  LogSound' /\ SoldSound' /\ Onward
<1> DEFINE S == V!OrdersMovements(o, "sale_issue")
           c == V!Cardinality(S)
           latest(k) == CHOOSE m \in S : V!Cardinality({j \in S : j > m}) = k - 1
           L == [k \in 1..c |-> Latest(S, k)]
           reversal(m) == [item |-> sold[o].item, kind |-> "cancellation_reversal",
                           qty |-> -log[m].qty, cost |-> V!NoCost,
                           order |-> o, of |-> m, pending |-> FALSE]
           rs == [k \in 1..c |-> reversal(L[k])]
           N == Len(log)
           M == Len(log')
<1>1. /\ sold[o] /= V!NotSold /\ sold[o].status = "open"
      /\ sold' = [sold EXCEPT ![o].status = "cancelled"]
      /\ log' = log \o [k \in 1..c |-> reversal(latest(k))]
  BY DEF V!CancelOrder
<1>2. log' = log \o rs
  <2>1. \A k \in 1..c : L[k] = latest(k)
    <3> HIDE DEF S, c
    <3> QED
      BY DEF Latest
  <2>2. rs = [k \in 1..c |-> reversal(latest(k))]
    <3> HIDE DEF latest, reversal, c, L
    <3> QED
      BY <2>1
  <2> HIDE DEF rs
  <2> QED
    BY <1>1, <2>2
<1>3. N \in Nat /\ log \in Seq(V!Movement) /\ \A n \in 1..N : log[n] \in V!Movement
  BY DEF LogSound
<1>4. S \subseteq 1..N /\ \A m \in S : log[m].order = o /\ log[m].kind = "sale_issue"
  BY DEF V!OrdersMovements
<1>5. /\ c \in Nat
      /\ \A k \in 1..c : L[k] \in S
      /\ \A m \in S : \E k \in 1..c : L[k] = m
      /\ \A k, l \in 1..c : L[k] = L[l] => k = l
  <2> HIDE DEF S
  <2>1. /\ c \in Nat
        /\ \A k \in 1..c : Latest(S, k) \in S
        /\ \A m \in S : \E k \in 1..c : Latest(S, k) = m
        /\ \A k, l \in 1..c : Latest(S, k) = Latest(S, l) => k = l
    BY <1>3, <1>4, LatestEach
  <2> HIDE DEF c
  <2>2. \A k \in 1..c : L[k] = Latest(S, k)
    OBVIOUS
  <2> HIDE DEF L
  <2> QED
    BY <2>1, <2>2
<1>6. IsSold(o) /\ sold[o].item \in Item /\ sold[o].qty \in SoldAtOnce
  BY <1>1, SoldItem
<1>7. \A m \in S : reversal(m) \in V!Movement
  <2> TAKE m \in S
  <2>1. m \in Nat /\ -log[m].qty \in Int \ {0}
    BY <1>3, <1>4 DEF V!Movement
  <2> QED
    BY <1>6, <2>1 DEF V!Movement, V!Kind, V!NoCost
<1> HIDE DEF L, S, latest
<1>8. /\ rs \in Seq(V!Movement) /\ Len(rs) = c
      /\ \A k \in 1..c : rs[k] = reversal(L[k])
  <2> HIDE DEF reversal, c
  <2> QED
    BY <1>5, <1>7
<1>9. /\ log' \in Seq(V!Movement) /\ N <= M /\ M \in Nat
      /\ \A n \in 1..N : log'[n] = log[n]
      /\ \A k \in 1..c : log'[N + k] = reversal(L[k])
      /\ \A n \in 1..M : n \in 1..N \/ \E k \in 1..c : n = N + k
  <2> HIDE DEF rs, reversal, c
  <2>1. /\ log' \in Seq(V!Movement) /\ M = N + Len(rs)
        /\ \A n \in 1..N : log'[n] = log[n]
        /\ \A k \in 1..Len(rs) : log'[N + k] = rs[k]
        /\ \A n \in 1..M : n \in 1..N \/ \E k \in 1..Len(rs) : n = N + k
    BY <1>2, <1>8, AddedMany
  <2>2. N <= M /\ M \in Nat
    BY <1>3, <1>5, <1>8, <2>1
  <2> QED
    BY <1>8, <2>1, <2>2
<1> HIDE DEF rs, c
<1>10. \A k \in 1..c : N + k \in 1..M
  <2>1. M = N + c
    BY <1>2, <1>5, <1>8, AddedMany
  <2> QED
    BY <1>3, <1>5, <2>1
<1>22. \A m : reversal(m).of = m /\ reversal(m).kind = "cancellation_reversal"
  OBVIOUS
<1>11. \A n \in 1..M : n \in 1..N \/ \E m \in S : log'[n] = reversal(m)
  <2> HIDE DEF reversal, N, M, c
  <2> QED
    BY <1>5, <1>9
<1>12. /\ sold'[o] = [sold[o] EXCEPT !.status = "cancelled"] /\ sold'[o] \in SaleRow
       /\ \A p \in Order \ {o} : sold'[p] = sold[p]
       /\ sold' = [p \in Order |-> sold'[p]]
  BY <1>1, <1>6 DEF SoldSound, SaleRow
<1>13. /\ \A p : IsSold(p) => p \in Order /\ sold'[p] /= V!NotSold /\ sold'[p].qty = sold[p].qty
       /\ sold'[o].status = "cancelled"
       /\ \A p : IsSold(p) /\ sold[p].status = "cancelled" => sold'[p].status = "cancelled"
       /\ \A p : IsSold(p) => IsSold(p)'
       /\ SoldSound'
  <2>1. sold'[o] /= V!NotSold /\ sold'[o].status = "cancelled" /\ sold'[o].qty = sold[o].qty
    BY <1>12, <1>6 DEF IsSold, SoldSound, SaleRow, V!NotSold
  <2> QED
    BY <1>12, <2>1 DEF IsSold, SoldSound
<1>14. \A n \in 1..N :
           log[n].kind \in {"sale_issue", "return_restock", "cancellation_reversal"}
               => IsSold(log[n].order)
  BY DEF LogSound
<1>15. /\ \A p : \A m \in V!OrdersMovements(p, "sale_issue") :
               m \in V!OrdersMovements(p, "sale_issue")'
       /\ \A m \in S : m \in V!OrdersMovements(o, "sale_issue")'
  <2>1. \A n \in 1..N : n \in 1..M /\ log'[n] = log[n]
    BY <1>3, <1>9
  <2>2. \A p : \A m \in V!OrdersMovements(p, "sale_issue") :
            m \in V!OrdersMovements(p, "sale_issue")'
    BY <2>1 DEF V!OrdersMovements
  <2> QED
    BY <2>2 DEF S
<1>16. ASSUME NEW n \in 1..M, log'[n].kind = "cancellation_reversal", NEW p, p = log'[n].order
       PROVE  /\ log'[n].of \in V!OrdersMovements(p, "sale_issue")'
              /\ log'[n].qty = -log'[log'[n].of].qty
              /\ ~log'[n].pending
              /\ sold'[p].status = "cancelled"
  <2>1. CASE n \in 1..N
    <3>1. log'[n] = log[n] /\ IsSold(p)
      BY <1>9, <1>14, <1>16, <2>1
    <3>2. /\ log[n].of \in V!OrdersMovements(p, "sale_issue")
          /\ log[n].qty = -log[log[n].of].qty
          /\ ~log[n].pending
          /\ sold[p].status = "cancelled"
      BY <1>16, <2>1, <3>1 DEF LogSound
    <3>3. log'[log[n].of] = log[log[n].of]
      BY <3>2, <1>9 DEF V!OrdersMovements
    <3> QED
      BY <1>13, <1>15, <3>1, <3>2, <3>3
  <2>2. CASE \E m \in S : log'[n] = reversal(m)
    <3>1. PICK m \in S : log'[n] = reversal(m)
      BY <2>2
    <3>2. log'[n].of = m /\ p = o /\ log'[n].qty = -log[m].qty /\ ~log'[n].pending
      BY <1>16, <3>1
    <3>3. log'[m] = log[m]
      BY <1>4, <1>9
    <3> QED
      BY <1>13, <1>15, <3>2, <3>3
  <2> QED
    BY <1>11, <2>1, <2>2
<1>17. ASSUME NEW x \in 1..M, NEW y \in 1..M,
              log'[x].kind = "cancellation_reversal", log'[y].kind = "cancellation_reversal",
              log'[x].of = log'[y].of
       PROVE  x = y
  <2>1. ASSUME NEW z \in 1..N, log'[z].kind = "cancellation_reversal"
        PROVE  log'[z] = log[z] /\ log'[z].of \notin S
    <3>1. log'[z] = log[z] /\ log[z].kind = "cancellation_reversal"
      BY <1>9, <2>1
    <3>2. /\ log[z].of \in V!OrdersMovements(log[z].order, "sale_issue")
          /\ sold[log[z].order].status = "cancelled"
      BY <3>1 DEF LogSound
    <3>3. log[z].order /= o
      BY <1>1, <3>2
    <3> QED
      BY <1>4, <3>1, <3>2, <3>3 DEF V!OrdersMovements
  <2>2. \A k \in 1..c : log'[N + k].of = L[k] /\ L[k] \in S
    <3> HIDE DEF reversal
    <3> QED
      BY <1>5, <1>9, <1>22
  <2>3. CASE x \in 1..N /\ y \in 1..N
    BY <1>17, <2>1, <2>3 DEF LogSound
  <2>7. \A z \in 1..M : z \notin 1..N => log'[z].of \in S
    BY <1>9, <2>2
  <2>4. CASE x \in 1..N /\ y \notin 1..N
    BY <1>17, <2>1, <2>7, <2>4
  <2>5. CASE x \notin 1..N /\ y \in 1..N
    BY <1>17, <2>1, <2>7, <2>5
  <2>6. CASE x \notin 1..N /\ y \notin 1..N
    <3>1. PICK k \in 1..c, l \in 1..c : x = N + k /\ y = N + l
      BY <1>9, <2>6
    <3>2. L[k] = L[l]
      BY <1>17, <2>2, <3>1
    <3> QED
      BY <1>5, <3>1, <3>2
  <2> QED
    BY <2>3, <2>4, <2>5, <2>6
<1>18. ASSUME NEW m \in 1..M, log'[m].kind = "sale_issue", sold'[log'[m].order].status = "cancelled"
       PROVE  \E n \in 1..M : log'[n].kind = "cancellation_reversal" /\ log'[n].of = m
  <2>1. m \in 1..N /\ log'[m] = log[m]
    <3>1. \A i \in S : log'[m] /= reversal(i)
      BY <1>18
    <3> HIDE DEF reversal, N, M
    <3> QED
      BY <1>9, <1>11, <3>1
  <2>2. CASE log[m].order = o
    <3>1. m \in S
      BY <1>18, <2>1, <2>2 DEF S, V!OrdersMovements
    <3>2. PICK k \in 1..c : L[k] = m
      BY <1>5, <3>1
    <3>3. log'[N + k] = reversal(L[k]) /\ N + k \in 1..M
      BY <1>9, <1>10
    <3> HIDE DEF reversal, N, M
    <3> QED
      BY <1>22, <3>2, <3>3
  <2>3. CASE log[m].order /= o
    <3>1. IsSold(log[m].order)
      BY <1>14, <1>18, <2>1
    <3>2. sold'[log[m].order] = sold[log[m].order]
      BY <1>12, <2>3, <3>1 DEF IsSold
    <3>3. PICK n \in 1..N : log[n].kind = "cancellation_reversal" /\ log[n].of = m
      BY <1>18, <2>1, <3>2 DEF LogSound
    <3>4. n \in 1..M
      BY <1>3, <1>9
    <3> QED
      BY <1>9, <3>3, <3>4
  <2> QED
    BY <2>2, <2>3
<1>19. ASSUME NEW n \in 1..M, NEW p, p = log'[n].order,
              log'[n].kind \in {"sale_issue", "return_restock", "cancellation_reversal"}
       PROVE  IsSold(p)'
  <2>1. CASE n \in 1..N
    BY <1>9, <1>13, <1>14, <1>19, <2>1
  <2>2. CASE \E m \in S : log'[n] = reversal(m)
    <3>1. p = o
      BY <1>19, <2>2
    <3> QED
      BY <1>6, <1>13, <3>1
  <2> QED
    BY <1>11, <2>1, <2>2
<1>20. LogSound'
  <2> HIDE DEF reversal, rs, c
  <2> QED
    BY <1>9, <1>16, <1>17, <1>18, <1>19 DEF LogSound
<1>21. Onward
  BY <1>9, <1>12, <1>13 DEF Onward, IsSold
<1> QED
  BY <1>13, <1>20, <1>21

LEMMA MovementNextAdds ==
    ASSUME LogSound, SoldSound, V!MovementNext
    PROVE  LogSound' /\ SoldSound' /\ Onward /\ UNCHANGED <<layers, cogs, valuing>>
<1>1. ASSUME NEW i \in Item, NEW q \in TakenIn, NEW c \in Cost \cup {V!NoCost}, V!TakeIn(i, q, c)
      PROVE  LogSound' /\ SoldSound' /\ Onward /\ UNCHANGED <<layers, cogs, valuing>>
  BY <1>1, TakeInAdds DEF V!TakeIn, V!ledgerVars
<1>2. ASSUME NEW i \in Item, NEW q \in SoldAtOnce, V!Adjust(i, q) \/ V!Adjust(i, -q)
      PROVE  LogSound' /\ SoldSound' /\ Onward /\ UNCHANGED <<layers, cogs, valuing>>
  BY <1>2, AdjustAdds DEF V!Adjust, V!ledgerVars
<1>3. ASSUME NEW i \in Item, NEW q \in SoldAtOnce, NEW o \in Order, V!PlaceOrder(o, i, q)
      PROVE  LogSound' /\ SoldSound' /\ Onward /\ UNCHANGED <<layers, cogs, valuing>>
  BY <1>3, PlaceKeeps DEF V!PlaceOrder, V!ledgerVars
<1>4. ASSUME NEW o \in Order, NEW q \in SoldAtOnce, V!IssueSale(o, q)
      PROVE  LogSound' /\ SoldSound' /\ Onward /\ UNCHANGED <<layers, cogs, valuing>>
  BY <1>4, IssueAdds DEF V!IssueSale, V!ledgerVars
<1>5. ASSUME NEW o \in Order, V!CancelOrder(o)
      PROVE  LogSound' /\ SoldSound' /\ Onward /\ UNCHANGED <<layers, cogs, valuing>>
  BY <1>5, CancelAdds DEF V!CancelOrder, V!ledgerVars
<1>6. ASSUME NEW o \in Order, NEW q \in SoldAtOnce \cup {0}, V!InspectReturn(o, q)
      PROVE  LogSound' /\ SoldSound' /\ Onward /\ UNCHANGED <<layers, cogs, valuing>>
  BY <1>6, InspectAdds DEF V!InspectReturn, V!ledgerVars
<1> QED
  BY <1>1, <1>2, <1>3, <1>4, <1>5, <1>6 DEF V!MovementNext

-----------------------------------------------------------------------------
(* The layers and the cost based.                                           *)

LEMMA OnceOnward ==
    ASSUME LogSound, Onward, NEW ls, Once(ls, Len(log)) PROVE Once(ls, Len(log'))
<1>1. Len(log) \in Nat /\ Len(log') \in Nat /\ Len(log) <= Len(log')
  BY DEF LogSound, Onward
<1>2. \A k \in 1..Len(log) : k \in 1..Len(log')
  BY <1>1
<1> QED
  BY <1>2 DEF Once

LEMMA OrderStays ==
    ASSUME LogSound, SoldSound, Onward, NEW o
    PROVE  /\ IsSold(o) => IsSold(o)' /\ sold'[o].qty = sold[o].qty
           /\ \A m \in V!OrdersMovements(o, "sale_issue") :
                  m \in V!OrdersMovements(o, "sale_issue")'
<1>1. \A n \in 1..Len(log) : n \in 1..Len(log') /\ log'[n] = log[n]
  BY DEF LogSound, Onward
<1> QED
  BY <1>1 DEF Onward, IsSold, V!OrdersMovements

LEMMA BaseOnward ==
    ASSUME LogSound, SoldSound, Onward, NEW cs, NEW k, IsBase(cs, k) PROVE IsBase(cs, k)'
<1>1. PICK o : o = cs[k].order
  OBVIOUS
<1>2. /\ IsSold(o)' /\ sold'[o].qty = sold[o].qty
      /\ \A m \in V!OrdersMovements(o, "sale_issue") :
             m \in V!OrdersMovements(o, "sale_issue")'
  BY <1>1, OrderStays DEF IsBase
<1> QED
  BY <1>1, <1>2 DEF IsBase

LEMMA ReversesOnward ==
    ASSUME LogSound, SoldSound, Onward, NEW cs, NEW k, NEW j, NEW n, Reverses(cs, k, j, n)
    PROVE  Reverses(cs, k, j, n)'
<1>1. IsBase(cs, j)'
  BY BaseOnward DEF Reverses
<1>2. n \in 1..Len(log') /\ log'[n] = log[n]
  BY DEF Reverses, Onward, LogSound
<1> QED
  BY <1>1, <1>2 DEF Reverses

LEMMA CogsOnward ==
    ASSUME LogSound, SoldSound, Onward, NEW cs, CogsSound(cs) PROVE CogsSound(cs)'
<1>1. \A k \in 1..Len(cs) :
          IsBase(cs, k)' \/ Reverses(cs, k, cs[k].reverses, cs[k].source)'
  BY BaseOnward, ReversesOnward DEF CogsSound
<1> QED
  BY <1>1 DEF CogsSound

\* Sound based, more of them.
LEMMA CogsExtend ==
    ASSUME NEW cs, CogsSound(cs), NEW all \in Seq(CostRowSet), Len(cs) <= Len(all),
           \A k \in 1..Len(cs) : all[k] = cs[k],
           \A k \in (Len(cs) + 1)..Len(all) :
               /\ IsBase(all, k) \/ Reverses(all, k, all[k].reverses, all[k].source)
               /\ \A y \in 1..Len(all) :
                     /\ all[k].order = all[y].order /\ all[k].reverses = all[y].reverses
                     /\ all[k].reverses = 0 \/ all[k].source = all[y].source
                     => k = y
    PROVE  CogsSound(all)
<1>1. Len(cs) \in Nat /\ Len(all) \in Nat /\ \A k \in 1..Len(cs) : k \in 1..Len(all)
  BY DEF CogsSound
<1>2. \A k \in 1..Len(all) : k \in 1..Len(cs) \/ k \in (Len(cs) + 1)..Len(all)
  BY <1>1
<1>3. ASSUME NEW j, IsBase(cs, j) PROVE IsBase(all, j)
  BY <1>1, <1>3 DEF IsBase
<1>4. ASSUME NEW k \in 1..Len(cs), NEW j, NEW n, Reverses(cs, k, j, n) PROVE Reverses(all, k, j, n)
  <2>1. IsBase(all, j) /\ j \in 1..Len(cs)
    BY <1>3, <1>4 DEF Reverses, IsBase
  <2> QED
    BY <1>4, <2>1 DEF Reverses
<1>5. \A k \in 1..Len(all) :
          IsBase(all, k) \/ Reverses(all, k, all[k].reverses, all[k].source)
  BY <1>2, <1>3, <1>4 DEF CogsSound
<1>6. ASSUME NEW x \in 1..Len(all), NEW y \in 1..Len(all),
             all[x].order = all[y].order, all[x].reverses = all[y].reverses,
             all[x].reverses = 0 \/ all[x].source = all[y].source
      PROVE  x = y
  <2>1. CASE x \in 1..Len(cs) /\ y \in 1..Len(cs)
    BY <1>6, <2>1 DEF CogsSound
  <2>2. CASE x \in (Len(cs) + 1)..Len(all)
    BY <1>6, <2>2
  <2>3. CASE y \in (Len(cs) + 1)..Len(all)
    BY <1>6, <2>3
  <2> QED
    BY <1>2, <2>1, <2>2, <2>3
<1> QED
  BY <1>5, <1>6 DEF CogsSound

\* The based put after others.
LEMMA RowsAfter ==
    ASSUME NEW T, NEW cs \in Seq(T), NEW new \in Seq(T), NEW all, all = cs \o new
    PROVE  /\ all \in Seq(T) /\ Len(cs) <= Len(all)
           /\ \A k \in 1..Len(cs) : all[k] = cs[k]
           /\ \A k \in 1..Len(all) : k \in 1..Len(cs) \/ k \in (Len(cs) + 1)..Len(all)
           /\ \A k \in (Len(cs) + 1)..Len(all) :
                  \E i \in 1..Len(new) : k = Len(cs) + i /\ all[k] = new[i]
<1>1. /\ all \in Seq(T) /\ Len(all) = Len(cs) + Len(new)
      /\ \A k \in 1..(Len(cs) + Len(new)) :
             all[k] = IF k <= Len(cs) THEN cs[k] ELSE new[k - Len(cs)]
  BY ConcatProperties
<1>2. Len(cs) \in Nat /\ Len(new) \in Nat
  OBVIOUS
<1>3. \A k \in 1..Len(cs) : k \in 1..(Len(cs) + Len(new)) /\ k <= Len(cs)
  BY <1>2
<1>4. ASSUME NEW k \in (Len(cs) + 1)..Len(all)
      PROVE  \E i \in 1..Len(new) : k = Len(cs) + i /\ all[k] = new[i]
  <2>1. /\ k \in 1..(Len(cs) + Len(new)) /\ ~(k <= Len(cs))
        /\ k - Len(cs) \in 1..Len(new) /\ k = Len(cs) + (k - Len(cs))
    BY <1>1, <1>2
  <2> QED
    BY <1>1, <2>1
<1>5. Len(cs) <= Len(all)
  BY <1>1, <1>2
<1>6. \A k \in 1..Len(all) : k \in 1..Len(cs) \/ k \in (Len(cs) + 1)..Len(all)
  BY <1>1, <1>2
<1> QED
  BY <1>1, <1>3, <1>4, <1>5, <1>6

LEMMA CostRowTyped ==
    ASSUME LogSound, SoldSound, layers \in Seq(V!Layer), NEW o \in Order, sold[o] /= V!NotSold
    PROVE  /\ V!CostRow(o) \in CostRowSet
           /\ V!CostRow(o).order = o /\ V!CostRow(o).reverses = 0
           /\ V!CostRow(o).total = V!TotalOf(sold[o].qty, V!CostRow(o).unit)
           /\ \/ V!CostRow(o).source = 0
              \/ V!CostRow(o).source \in V!OrdersMovements(o, "sale_issue")
<1>1. sold[o].qty \in Int
  BY SoldItem, Amounts
<1>2. V!CogsUnit(o) \in Int
  BY LastUnitIsInt, AverageIsInt DEF V!CogsUnit
<1>3. V!TotalOf(sold[o].qty, V!CogsUnit(o)) \in Int
  BY <1>1, <1>2, TotalIsInt
<1>4. V!SaleOf(o) = 0 \/ V!SaleOf(o) \in V!OrdersMovements(o, "sale_issue")
  <2>1. V!OrdersMovements(o, "sale_issue") \subseteq 1..Len(log) /\ Len(log) \in Nat
    BY DEF V!OrdersMovements, LogSound
  <2> QED
    BY <2>1, MaxThere DEF V!SaleOf
<1>5. V!SaleOf(o) \in Nat
  BY <1>4 DEF V!OrdersMovements, LogSound
<1> QED
  BY <1>1, <1>2, <1>3, <1>4, <1>5 DEF V!CostRow, CostRowSet

\* A row for every order without one, and one for every movement that takes
\* one back.
Costs == V!SetToSeq({o \in V!Uncosted : V!CogsUnit(o) /= V!NoCost})
WithCosts == cogs \o [i \in DOMAIN Costs |-> V!CostRow(Costs[i])]
Reversals(cs) == V!SetToSeq(V!Reversible(cs))
WithReversals(cs) ==
    cs \o [i \in DOMAIN Reversals(cs) |->
               V!ReversalRow(cs, Reversals(cs)[i][1], Reversals(cs)[i][2])]

LEMMA CostsAdded ==
    ASSUME LogSound, SoldSound, layers \in Seq(V!Layer), CogsSound(cogs),
           NEW based, based = WithCosts
    PROVE  /\ CogsSound(based) /\ Len(cogs) <= Len(based)
           /\ \A k \in 1..Len(cogs) : based[k] = cogs[k]
<1> DEFINE S == {o \in V!Uncosted : V!CogsUnit(o) /= V!NoCost}
<1> PICK cost : cost = Costs
  OBVIOUS
<1>1. IsFiniteSet(S)
  <2>1. IsFiniteSet(Order)
    BY BackOfficeAssumption DEF V!ValuationAssumption, V!IsFiniteSet, IsFiniteSet
  <2>2. S \subseteq Order
    BY DEF V!Uncosted
  <2> HIDE DEF S
  <2> QED
    BY <2>1, <2>2, FS_Subset
<1>2. /\ cost \in Seq(S) /\ Len(cost) \in Nat /\ DOMAIN cost = 1..Len(cost)
      /\ \A i, j \in 1..Len(cost) : cost[i] = cost[j] => i = j
  <2>1. cost = V!SetToSeq(S)
    BY DEF Costs
  <2> HIDE DEF S
  <2> QED
    BY <1>1, <2>1, SetAsSequence
<1>3. \A i \in 1..Len(cost) :
          /\ cost[i] \in Order /\ sold[cost[i]] /= V!NotSold
          /\ \A k \in 1..Len(cogs) : cogs[k].order /= cost[i]
  <2>1. \A i \in 1..Len(cost) : cost[i] \in S
    <3> HIDE DEF S
    <3> QED
      BY <1>2
  <2> QED
    BY <2>1 DEF V!Uncosted
<1> DEFINE new == [i \in 1..Len(cost) |-> V!CostRow(cost[i])]
<1>4. \A i \in 1..Len(cost) : V!CostRow(cost[i]) \in CostRowSet
  BY <1>3, CostRowTyped
<1>5. /\ new \in Seq(CostRowSet) /\ Len(new) = Len(cost)
      /\ \A i \in 1..Len(cost) : new[i] = V!CostRow(cost[i])
  BY <1>2, <1>4
<1>6. based = cogs \o new
  BY <1>2 DEF WithCosts
<1> HIDE DEF new, S
<1>7. cogs \in Seq(CostRowSet)
  BY DEF CogsSound
<1>8. /\ based \in Seq(CostRowSet) /\ Len(cogs) <= Len(based)
      /\ \A k \in 1..Len(cogs) : based[k] = cogs[k]
      /\ \A k \in 1..Len(based) : k \in 1..Len(cogs) \/ k \in (Len(cogs) + 1)..Len(based)
      /\ \A k \in (Len(cogs) + 1)..Len(based) :
             \E i \in 1..Len(cost) : k = Len(cogs) + i /\ based[k] = V!CostRow(cost[i])
  <2>1. based \in Seq(CostRowSet) /\ Len(cogs) <= Len(based)
    BY <1>5, <1>6, <1>7, RowsAfter
  <2>2. \A k \in 1..Len(cogs) : based[k] = cogs[k]
    BY <1>5, <1>6, <1>7, RowsAfter
  <2>3. \A k \in 1..Len(based) : k \in 1..Len(cogs) \/ k \in (Len(cogs) + 1)..Len(based)
    BY <1>5, <1>6, <1>7, RowsAfter
  <2>4. \A k \in (Len(cogs) + 1)..Len(based) :
            \E i \in 1..Len(new) : k = Len(cogs) + i /\ based[k] = new[i]
    BY <1>5, <1>6, <1>7, RowsAfter
  <2>5. \A k \in (Len(cogs) + 1)..Len(based) :
            \E i \in 1..Len(cost) : k = Len(cogs) + i /\ based[k] = V!CostRow(cost[i])
    BY <1>5, <2>4
  <2> QED
    BY <2>1, <2>2, <2>3, <2>5
<1>9. ASSUME NEW k \in (Len(cogs) + 1)..Len(based)
      PROVE  IsBase(based, k)
  <2>1. PICK i \in 1..Len(cost) : based[k] = V!CostRow(cost[i])
    BY <1>8
  <2>2. k \in 1..Len(based)
    BY <1>7
  <2> QED
    BY <1>3, <2>1, <2>2, CostRowTyped DEF IsBase, IsSold
<1>10. ASSUME NEW k \in (Len(cogs) + 1)..Len(based), NEW y \in 1..Len(based),
              based[k].order = based[y].order, based[k].reverses = based[y].reverses
       PROVE  k = y
  <2>1. PICK i \in 1..Len(cost) : k = Len(cogs) + i /\ based[k] = V!CostRow(cost[i])
    BY <1>8
  <2>2. based[k].order = cost[i]
    BY <1>3, <2>1, CostRowTyped
  <2>3. y \notin 1..Len(cogs)
    <3> SUFFICES ASSUME y \in 1..Len(cogs) PROVE FALSE
      OBVIOUS
    <3>1. based[y] = cogs[y]
      BY <1>8
    <3>2. cogs[y].order = cost[i]
      BY <1>10, <2>2, <3>1
    <3> QED
      BY <1>3, <3>2
  <2>4. PICK j \in 1..Len(cost) : y = Len(cogs) + j /\ based[y] = V!CostRow(cost[j])
    BY <1>8, <2>3
  <2>5. based[y].order = cost[j]
    BY <1>3, <2>4, CostRowTyped
  <2> QED
    BY <1>2, <1>10, <2>1, <2>2, <2>4, <2>5
<1> QED
  BY <1>8, <1>9, <1>10, CogsExtend

LEMMA ReversalsAdded ==
    ASSUME LogSound, NEW based, CogsSound(based), NEW all, all = WithReversals(based)
    PROVE  /\ CogsSound(all) /\ Len(based) <= Len(all)
           /\ \A k \in 1..Len(based) : all[k] = based[k]
<1> DEFINE S == V!Reversible(based)
<1> PICK back : back = Reversals(based)
  OBVIOUS
<1>1. based \in Seq(CostRowSet) /\ Len(based) \in Nat /\ Len(log) \in Nat
  BY DEF CogsSound, LogSound
<1>2. S \subseteq (1..Len(log)) \X (1..Len(based))
  BY DEF V!Reversible
<1>3. IsFiniteSet(S)
  <2>1. IsFiniteSet(1..Len(log)) /\ IsFiniteSet(1..Len(based))
    <3>1. Len(log) \in Int /\ Len(based) \in Int
      BY <1>1
    <3> QED
      BY <3>1, FS_Interval
  <2>2. IsFiniteSet((1..Len(log)) \X (1..Len(based)))
    BY <2>1, FS_Product
  <2> HIDE DEF S
  <2> QED
    BY <1>2, <2>2, FS_Subset
<1>4. /\ back \in Seq(S) /\ Len(back) \in Nat /\ DOMAIN back = 1..Len(back)
      /\ \A i, j \in 1..Len(back) : back[i] = back[j] => i = j
  <2>1. back = V!SetToSeq(S)
    BY DEF Reversals
  <2> HIDE DEF S
  <2> QED
    BY <1>3, <2>1, SetAsSequence
<1>5. \A i \in 1..Len(back) : back[i] \in S
  <2> HIDE DEF S
  <2> QED
    BY <1>4
<1>6. ASSUME NEW i \in 1..Len(back), NEW n, NEW k, n = back[i][1], k = back[i][2]
      PROVE  /\ n \in 1..Len(log) /\ k \in 1..Len(based) /\ based[k].reverses = 0
             /\ back[i] = <<n, k>>
             /\ \/ log[n].kind = "cancellation_reversal" /\ log[n].of = based[k].source
                \/ log[n].kind = "return_restock" /\ log[n].order = based[k].order
             /\ \A r \in 1..Len(based) : ~(based[r].reverses = k /\ based[r].source = n)
             /\ IsBase(based, k)
             /\ V!ReversalRow(based, n, k) \in CostRowSet
  <2>1. back[i] \in S
    BY <1>5
  <2>2. back[i] = <<n, k>> /\ n \in 1..Len(log) /\ k \in 1..Len(based)
    <3> HIDE DEF S
    <3> QED
      BY <1>2, <1>6, <2>1
  <2>3. /\ based[k].reverses = 0
        /\ \/ log[n].kind = "cancellation_reversal" /\ log[n].of = based[k].source
           \/ log[n].kind = "return_restock" /\ log[n].order = based[k].order
        /\ \A r \in 1..Len(based) : ~(based[r].reverses = k /\ based[r].source = n)
    BY <1>6, <2>1 DEF V!Reversible
  <2>4. IsBase(based, k)
    BY <2>2, <2>3 DEF CogsSound, Reverses, IsBase
  <2>5. based[k] \in CostRowSet /\ log[n] \in V!Movement
    BY <1>1, <2>2 DEF LogSound
  <2>6. based[k].order \in Order /\ based[k].unit \in Int /\ log[n].qty \in Int
    BY <2>5 DEF CostRowSet, V!Movement
  <2>7. V!TotalOf(log[n].qty, based[k].unit) \in Int
    BY <2>6, TotalIsInt
  <2>8. V!ReversalRow(based, n, k) \in CostRowSet
    <3>1. n \in Nat /\ k \in Nat
      BY <1>1, <2>2
    <3> QED
      BY <2>6, <2>7, <3>1 DEF V!ReversalRow, CostRowSet
  <2> QED
    BY <2>2, <2>3, <2>4, <2>8
<1>14. ASSUME NEW j \in 1..Len(back) PROVE back[j] = <<back[j][1], back[j][2]>>
  BY <1>6
<1> DEFINE new == [i \in 1..Len(back) |-> V!ReversalRow(based, back[i][1], back[i][2])]
<1> HIDE DEF S
<1>7. \A i \in 1..Len(back) : V!ReversalRow(based, back[i][1], back[i][2]) \in CostRowSet
  BY <1>6
<1>8. /\ new \in Seq(CostRowSet) /\ Len(new) = Len(back)
      /\ \A i \in 1..Len(back) : new[i] = V!ReversalRow(based, back[i][1], back[i][2])
  BY <1>4, <1>7
<1>9. all = based \o new
  BY <1>4 DEF WithReversals
<1> HIDE DEF new
<1>10. /\ all \in Seq(CostRowSet) /\ Len(based) <= Len(all)
       /\ \A k \in 1..Len(based) : all[k] = based[k]
       /\ \A k \in 1..Len(all) : k \in 1..Len(based) \/ k \in (Len(based) + 1)..Len(all)
       /\ \A k \in (Len(based) + 1)..Len(all) :
              \E i \in 1..Len(back) :
                  k = Len(based) + i /\ all[k] = V!ReversalRow(based, back[i][1], back[i][2])
  <2>1. all \in Seq(CostRowSet) /\ Len(based) <= Len(all)
    BY <1>1, <1>8, <1>9, RowsAfter
  <2>2. \A k \in 1..Len(based) : all[k] = based[k]
    BY <1>1, <1>8, <1>9, RowsAfter
  <2>3. \A k \in 1..Len(all) : k \in 1..Len(based) \/ k \in (Len(based) + 1)..Len(all)
    BY <1>1, <1>8, <1>9, RowsAfter
  <2>4. \A k \in (Len(based) + 1)..Len(all) :
            \E i \in 1..Len(new) : k = Len(based) + i /\ all[k] = new[i]
    BY <1>1, <1>8, <1>9, RowsAfter
  <2>5. \A k \in (Len(based) + 1)..Len(all) :
            \E i \in 1..Len(back) :
                k = Len(based) + i /\ all[k] = V!ReversalRow(based, back[i][1], back[i][2])
    BY <1>8, <2>4
  <2> QED
    BY <2>1, <2>2, <2>3, <2>5
<1>11. \A n, k : /\ V!ReversalRow(based, n, k).order = based[k].order
                 /\ V!ReversalRow(based, n, k).source = n
                 /\ V!ReversalRow(based, n, k).reverses = k
                 /\ V!ReversalRow(based, n, k).total = V!TotalOf(log[n].qty, based[k].unit)
  BY DEF V!ReversalRow
<1>12. ASSUME NEW p \in (Len(based) + 1)..Len(all)
       PROVE  Reverses(all, p, all[p].reverses, all[p].source)
  <2>1. PICK i \in 1..Len(back) : all[p] = V!ReversalRow(based, back[i][1], back[i][2])
    BY <1>10
  <2>2. PICK n, k : n = back[i][1] /\ k = back[i][2]
    OBVIOUS
  <2>3. /\ all[p].order = based[k].order /\ all[p].source = n /\ all[p].reverses = k
        /\ all[p].total = V!TotalOf(log[n].qty, based[k].unit)
    BY <1>11, <2>1, <2>2
  <2>4. /\ n \in 1..Len(log) /\ k \in 1..Len(based) /\ IsBase(based, k)
        /\ \/ log[n].kind = "cancellation_reversal" /\ log[n].of = based[k].source
           \/ log[n].kind = "return_restock" /\ log[n].order = based[k].order
    BY <1>6, <2>2
  <2>5. all[k] = based[k] /\ k \in 1..Len(all)
    BY <1>1, <1>10, <2>4
  <2>6. IsBase(all, k)
    BY <2>4, <2>5 DEF IsBase
  <2> QED
    BY <2>3, <2>4, <2>5, <2>6 DEF Reverses
<1>13. ASSUME NEW p \in (Len(based) + 1)..Len(all), NEW y \in 1..Len(all),
              all[p].order = all[y].order, all[p].reverses = all[y].reverses,
              all[p].reverses = 0 \/ all[p].source = all[y].source
       PROVE  p = y
  <2>1. PICK i \in 1..Len(back) :
            p = Len(based) + i /\ all[p] = V!ReversalRow(based, back[i][1], back[i][2])
    BY <1>10
  <2>2. PICK n, k : n = back[i][1] /\ k = back[i][2]
    OBVIOUS
  <2>3. /\ k \in 1..Len(based) /\ back[i] = <<n, k>>
        /\ \A r \in 1..Len(based) : ~(based[r].reverses = k /\ based[r].source = n)
    BY <1>6, <2>2
  <2>4. all[p].reverses = k /\ all[p].source = n /\ k /= 0
    BY <1>11, <2>1, <2>2, <2>3
  <2>5. all[y].reverses = k /\ all[y].source = n
    BY <1>13, <2>4
  <2>6. y \notin 1..Len(based)
    BY <1>10, <2>3, <2>5
  <2>7. PICK j \in 1..Len(back) :
            y = Len(based) + j /\ all[y] = V!ReversalRow(based, back[j][1], back[j][2])
    BY <1>10, <2>6
  <2>8. back[j] = <<n, k>>
    <3>1. PICK m, l : m = back[j][1] /\ l = back[j][2]
      OBVIOUS
    <3>2. back[j] = <<m, l>>
      BY <1>14, <3>1
    <3>3. all[y].reverses = l /\ all[y].source = m
      BY <1>11, <2>7, <3>1
    <3> QED
      BY <2>5, <3>2, <3>3
  <2> QED
    BY <1>4, <2>1, <2>3, <2>7, <2>8
<1> QED
  BY <1>10, <1>12, <1>13, CogsExtend

LEMMA CostedSound ==
    ASSUME LogSound, SoldSound, layers \in Seq(V!Layer), CogsSound(cogs),
           NEW acc, acc = V!Costed(V!Uncosted)
    PROVE  /\ CogsSound(acc) /\ Len(cogs) <= Len(acc)
           /\ \A k \in 1..Len(cogs) : acc[k] = cogs[k]
<1>2. PICK based : based = WithCosts
  OBVIOUS
<1>4. acc = WithReversals(based)
  BY <1>2 DEF V!Costed, WithReversals, Reversals, WithCosts, Costs
<1>5. /\ CogsSound(based) /\ Len(cogs) <= Len(based)
      /\ \A k \in 1..Len(cogs) : based[k] = cogs[k]
  BY <1>2, CostsAdded
<1>6. /\ CogsSound(acc) /\ Len(based) <= Len(acc)
      /\ \A k \in 1..Len(based) : acc[k] = based[k]
  BY <1>4, <1>5, ReversalsAdded
<1>7. Len(cogs) \in Nat /\ Len(based) \in Nat /\ Len(acc) \in Nat
  BY <1>5, <1>6 DEF CogsSound
<1>8. \A k \in 1..Len(cogs) : k \in 1..Len(based)
  BY <1>5, <1>7
<1>9. Len(cogs) <= Len(acc)
  BY <1>5, <1>6, <1>7
<1> QED
  BY <1>5, <1>6, <1>8, <1>9

-----------------------------------------------------------------------------
(* The invariant of the valuation.                                         *)

LEMMA CogsSame ==
    ASSUME UNCHANGED <<log, sold>>, NEW cs, CogsSound(cs) PROVE CogsSound(cs)'
<1>1. \A o, kind : V!OrdersMovements(o, kind)' = V!OrdersMovements(o, kind)
  BY DEF V!OrdersMovements
<1>2. \A o : IsSold(o)' = IsSold(o)
  BY DEF IsSold
<1>3. \A k : IsBase(cs, k) => IsBase(cs, k)'
  BY <1>1, <1>2 DEF IsBase
<1>4. \A k, j, n : Reverses(cs, k, j, n) => Reverses(cs, k, j, n)'
  BY <1>3 DEF Reverses
<1> QED
  BY <1>3, <1>4 DEF CogsSound

LEMMA RowsThere == ASSUME NEW cs, cs = cogs', CogsSound(cs)' PROVE CogsSound(cogs)'
<1>1. \A k : IsBase(cs, k)' => IsBase(cogs, k)'
  BY DEF IsBase
<1>2. \A k, j, n : Reverses(cs, k, j, n)' => Reverses(cogs, k, j, n)'
  BY <1>1 DEF Reverses
<1> QED
  BY <1>1, <1>2 DEF CogsSound

LEMMA RowsFound ==
    ASSUME NEW cs, NEW a, cs = cogs' \o valuing'[a].new, CogsSound(cs)'
    PROVE  CogsSound(cogs \o valuing[a].new)'
<1>1. \A k : IsBase(cs, k)' => IsBase(cogs \o valuing[a].new, k)'
  BY DEF IsBase
<1>2. \A k, j, n : Reverses(cs, k, j, n)' => Reverses(cogs \o valuing[a].new, k, j, n)'
  BY <1>1 DEF Reverses
<1> QED
  BY <1>1, <1>2 DEF CogsSound

LEMMA NoOneAtWork ==
    ASSUME JobsKept, V!Alone, UNCHANGED valuing PROVE JobsKept'
  BY DEF JobsKept, V!Alone

LEMMA MovementKeeps ==
    ASSUME ValuationInv, V!Alone, V!MovementNext PROVE ValuationInv'
<1>1. LogSound' /\ SoldSound' /\ Onward /\ UNCHANGED <<layers, cogs, valuing>>
  BY MovementNextAdds DEF ValuationInv
<1>2. Once(layers', Len(log'))
  BY <1>1, OnceOnward DEF ValuationInv
<1>3. PICK cs : cs = cogs
  OBVIOUS
<1>4. CogsSound(cs) /\ cs = cogs'
  BY <1>1, <1>3 DEF ValuationInv
<1>5. CogsSound(cs)'
  BY <1>1, <1>4, CogsOnward DEF ValuationInv
<1>6. CogsSound(cogs)'
  BY <1>4, <1>5, RowsThere
<1>7. JobsKept'
  BY <1>1, NoOneAtWork DEF ValuationInv
<1> QED
  BY <1>1, <1>2, <1>6, <1>7 DEF ValuationInv

LEMMA OpeningKeeps ==
    ASSUME ValuationInv, V!Alone, NEW i \in Item, NEW q \in TakenIn,
           NEW t \in Cost \cup {V!NoCost}, NEW b, V!RecordOpening(i, q, t, b)
    PROVE  ValuationInv'
<1> DEFINE l == [movement |-> Len(log) + 1, item |-> i, qty |-> q,
                 unit |-> V!UnitOf(t, q), total |-> t]
<1>1. /\ LogSound' /\ SoldSound' /\ Onward /\ Len(log') = Len(log) + 1
      /\ UNCHANGED <<cogs, valuing>>
  BY OpeningAdds DEF ValuationInv, V!RecordOpening
<1>2. layers' = layers \/ layers' = Append(layers, l)
  BY DEF V!RecordOpening
<1>3. Len(log) \in Nat /\ Once(layers, Len(log)) /\ Once(layers, Len(log'))
  BY <1>1, OnceOnward DEF ValuationInv, LogSound
<1>4. l \in V!Layer /\ l.movement = Len(log) + 1
  <2>1. V!UnitOf(t, q) \in Int /\ t \in Int /\ q \in Int \ {0}
    BY Amounts, UnitIsInt
  <2> QED
    BY <1>3, <2>1 DEF V!Layer
<1> HIDE DEF l
<1>5. ASSUME layers' = Append(layers, l) PROVE Once(layers', Len(log'))
  <2>1. layers \in Seq(V!Layer)
    BY <1>3 DEF Once
  <2>2. /\ layers' \in Seq(V!Layer) /\ Len(layers') = Len(layers) + 1
        /\ layers'[Len(layers) + 1] = l
        /\ \A k \in 1..Len(layers) : layers'[k] = layers[k]
    BY <1>4, <1>5, <2>1, AppendProperties
  <2>3. \A k \in 1..Len(layers') : k \in 1..Len(layers) \/ k = Len(layers) + 1
    BY <2>1, <2>2
  <2>4. /\ Len(log) + 1 \in 1..Len(log') /\ Len(log) + 1 \notin 1..Len(log)
        /\ \A m \in 1..Len(log) : m \in 1..Len(log')
    BY <1>1, <1>3
  <2>5. \A k \in 1..Len(layers') : layers'[k].movement \in 1..Len(log')
    BY <1>3, <1>4, <2>2, <2>3, <2>4 DEF Once
  <2>6. \A x, y \in 1..Len(layers') : layers'[x].movement = layers'[y].movement => x = y
    <3>1. \A k \in 1..Len(layers) : layers[k].movement \in 1..Len(log)
      BY <1>3 DEF Once
    <3>2. \A x, y \in 1..Len(layers) : layers[x].movement = layers[y].movement => x = y
      BY <1>3 DEF Once
    <3> QED
      BY <1>4, <2>2, <2>3, <2>4, <3>1, <3>2
  <2> QED
    BY <2>2, <2>5, <2>6 DEF Once
<1>6. Once(layers', Len(log'))
  <2>1. CASE layers' = layers
    BY <1>3, <2>1 DEF Once
  <2> QED
    BY <1>2, <1>5, <2>1
<1>7. PICK cs : cs = cogs
  OBVIOUS
<1>8. CogsSound(cs) /\ cs = cogs'
  BY <1>1, <1>7 DEF ValuationInv
<1>9. CogsSound(cs)'
  BY <1>1, <1>8, CogsOnward DEF ValuationInv
<1>10. CogsSound(cogs)'
  BY <1>8, <1>9, RowsThere
<1>11. JobsKept'
  BY <1>1, NoOneAtWork DEF ValuationInv
<1> QED
  BY <1>1, <1>6, <1>10, <1>11 DEF ValuationInv

\* What a request finds is sound until it writes, for it is the only one.
LEMMA StartKeeps ==
    ASSUME ValuationInv, V!Alone, NEW a \in Admin, NEW j, valuing' = [valuing EXCEPT ![a] = j],
           UNCHANGED <<log, layers, sold, cogs>>,
           \/ j.op = "layers" /\ Once(layers \o j.new, Len(log))
           \/ j.op = "cogs" /\ CogsSound(cogs \o j.new)
    PROVE  ValuationInv'
<1>1. /\ valuing'[a] = j
      /\ \A b \in Admin : b /= a => valuing'[b] = V!Idle
      /\ valuing' = [b \in Admin |-> valuing'[b]]
  BY DEF ValuationInv, JobsKept, V!Alone
<1>2. \A b \in Admin : valuing'[b] /= V!Idle => b = a
  BY <1>1
<1>3. LogSound' /\ SoldSound' /\ Once(layers', Len(log'))
  <2>1. LogSound /\ SoldSound /\ Once(layers, Len(log))
    BY DEF ValuationInv
  <2>2. \A o, kind : V!OrdersMovements(o, kind)' = V!OrdersMovements(o, kind)
    BY DEF V!OrdersMovements
  <2>3. \A o : IsSold(o)' = IsSold(o)
    BY DEF IsSold
  <2>4. LogSound'
    BY <2>1, <2>2, <2>3 DEF LogSound
  <2>5. SoldSound'
    BY <2>1 DEF SoldSound
  <2> QED
    BY <2>1, <2>4, <2>5 DEF Once
<1>6. CogsSound(cogs)'
  <2> PICK cs : cs = cogs
    OBVIOUS
  <2>1. CogsSound(cs)'
    BY CogsSame DEF ValuationInv
  <2>2. cs = cogs'
    OBVIOUS
  <2> QED
    BY <2>1, <2>2, RowsThere
<1>4. ASSUME NEW b \in Admin
      PROVE  \/ valuing'[b] = V!Idle
             \/ valuing'[b].op = "layers" /\ Once(layers' \o valuing'[b].new, Len(log'))
             \/ valuing'[b].op = "cogs" /\ CogsSound(cogs \o valuing[b].new)'
  <2>1. CASE b /= a
    BY <1>1, <2>1
  <2>2. CASE b = a /\ j.op = "layers" /\ Once(layers \o j.new, Len(log))
    <3>1. valuing'[b] = j /\ layers' = layers /\ log' = log
      BY <1>1, <2>2
    <3> QED
      BY <2>2, <3>1
  <2>3. CASE b = a /\ j.op = "cogs" /\ CogsSound(cogs \o j.new)
    <3> PICK cs : cs = cogs \o j.new
      OBVIOUS
    <3>1. CogsSound(cs)'
      BY <2>3, CogsSame
    <3>2. cs = cogs' \o valuing'[b].new /\ valuing'[b].op = "cogs"
      BY <1>1, <2>3
    <3>3. CogsSound(cogs \o valuing[b].new)'
      BY <3>1, <3>2, RowsFound
    <3> QED
      BY <3>2, <3>3
  <2> QED
    BY <2>1, <2>2, <2>3
<1>8. JobsKept'
  BY <1>1, <1>2, <1>4 DEF JobsKept
<1> QED
  BY <1>3, <1>6, <1>8 DEF ValuationInv

LEMMA FinishKeeps ==
    ASSUME ValuationInv, NEW a \in Admin, valuing[a] /= V!Idle,
           valuing' = [valuing EXCEPT ![a] = V!Idle], UNCHANGED <<log, sold>>,
           Once(layers', Len(log)), NEW cs, cs = cogs', CogsSound(cs)
    PROVE  ValuationInv'
<1>1. /\ valuing' = [b \in Admin |-> valuing'[b]]
      /\ \A b \in Admin : valuing'[b] = V!Idle
  BY DEF ValuationInv, JobsKept
<1>2. JobsKept'
  BY <1>1 DEF JobsKept
<1>3. CogsSound(cs)'
  BY CogsSame
<1>4. CogsSound(cogs)'
  BY <1>3, RowsThere
<1>5. LogSound' /\ SoldSound'
  <2>1. LogSound /\ SoldSound
    BY DEF ValuationInv
  <2>2. \A o, kind : V!OrdersMovements(o, kind)' = V!OrdersMovements(o, kind)
    BY DEF V!OrdersMovements
  <2>3. \A o : IsSold(o)' = IsSold(o)
    BY DEF IsSold
  <2>4. LogSound'
    BY <2>1, <2>2, <2>3 DEF LogSound
  <2> QED
    BY <2>1, <2>4 DEF SoldSound
<1> QED
  BY <1>2, <1>4, <1>5 DEF ValuationInv

LEMMA ValuationStep ==
    ASSUME ValuationInv, V!SerialNext PROVE ValuationInv'
<1>1. CASE V!Alone /\ V!MovementNext
  BY <1>1, MovementKeeps
<1>2. ASSUME V!Alone, NEW i \in Item, NEW q \in TakenIn, NEW t \in Cost \cup {V!NoCost}, NEW b,
             V!RecordOpening(i, q, t, b)
      PROVE  ValuationInv'
  BY <1>2, OpeningKeeps
<1>3. ASSUME V!Alone, NEW a \in Admin, V!StartLayers(a) PROVE ValuationInv'
  <2> DEFINE acc == V!Valued(layers)
             j == [op |-> "layers", new |-> SubSeq(acc, Len(layers) + 1, Len(acc))]
  <2>1. valuing' = [valuing EXCEPT ![a] = j] /\ UNCHANGED <<log, layers, sold, cogs>>
    BY <1>3 DEF V!StartLayers
  <2>2. log \in Seq(V!Movement) /\ Len(log) \in Nat /\ Once(layers, Len(log))
    BY DEF ValuationInv, LogSound
  <2>3. Grown(acc, layers, Len(log))
    BY <2>2, LoopOnce
  <2>4. Once(acc, Len(log))
    BY <2>2, <2>3, GrowsOnce
  <2>5. j.op = "layers" /\ layers \o j.new = acc
    BY <2>2, <2>3, TailPut DEF Once, Grown
  <2> HIDE DEF acc, j
  <2> QED
    BY <1>3, <2>1, <2>4, <2>5, StartKeeps
<1>4. ASSUME V!Alone, NEW a \in Admin, V!StartCogs(a) PROVE ValuationInv'
  <2> DEFINE acc == V!Costed(V!Uncosted)
             j == [op |-> "cogs", new |-> SubSeq(acc, Len(cogs) + 1, Len(acc))]
  <2>1. valuing' = [valuing EXCEPT ![a] = j] /\ UNCHANGED <<log, layers, sold, cogs>>
    BY <1>4 DEF V!StartCogs
  <2>2. /\ CogsSound(acc) /\ Len(cogs) <= Len(acc)
        /\ \A k \in 1..Len(cogs) : acc[k] = cogs[k]
    BY CostedSound DEF ValuationInv, Once
  <2>3. acc \in Seq(CostRowSet) /\ cogs \in Seq(CostRowSet)
    BY <2>2 DEF CogsSound, ValuationInv
  <2> HIDE DEF acc
  <2>4. j.op = "cogs" /\ cogs \o j.new = acc
    BY <2>2, <2>3, TailPut
  <2> HIDE DEF j
  <2> QED
    BY <1>4, <2>1, <2>2, <2>4, StartKeeps
<1>5. ASSUME NEW a \in Admin, V!FinishLayers(a) PROVE ValuationInv'
  <2>1. /\ valuing[a].op = "layers" /\ layers' = layers \o valuing[a].new
        /\ valuing' = [valuing EXCEPT ![a] = V!Idle] /\ UNCHANGED <<log, sold>> /\ cogs' = cogs
    BY <1>5 DEF V!FinishLayers
  <2>2. Once(layers', Len(log)) /\ valuing[a] /= V!Idle /\ CogsSound(cogs)
    BY <2>1 DEF ValuationInv, JobsKept, V!Idle
  <2>3. PICK cs : cs = cogs
    OBVIOUS
  <2> QED
    BY <2>1, <2>2, <2>3, FinishKeeps
<1>6. ASSUME NEW a \in Admin, V!FinishCogs(a) PROVE ValuationInv'
  <2>1. /\ valuing[a].op = "cogs" /\ cogs' = cogs \o valuing[a].new
        /\ valuing' = [valuing EXCEPT ![a] = V!Idle] /\ UNCHANGED <<log, sold>>
        /\ layers' = layers
    BY <1>6 DEF V!FinishCogs
  <2>2. /\ Once(layers', Len(log)) /\ valuing[a] /= V!Idle
        /\ CogsSound(cogs \o valuing[a].new)
    BY <2>1 DEF ValuationInv, JobsKept, V!Idle
  <2>3. PICK cs : cs = cogs \o valuing[a].new
    OBVIOUS
  <2>4. CogsSound(cs) /\ cs = cogs'
    BY <2>1, <2>2, <2>3
  <2> QED
    BY <2>1, <2>2, <2>4, FinishKeeps
<1> QED
  BY <1>1, <1>2, <1>3, <1>4, <1>5, <1>6 DEF V!SerialNext, V!FinishNext, V!ValuationNext

LEMMA ValuationStarts == ASSUME V!Init PROVE ValuationInv
<1>1. /\ log = <<>> /\ layers = <<>> /\ cogs = <<>>
      /\ sold = [o \in Order |-> V!NotSold]
      /\ valuing = [a \in Admin |-> V!Idle]
  BY DEF V!Init
<1>2. LogSound /\ SoldSound
  BY <1>1 DEF LogSound, SoldSound
<1>3. Once(layers, Len(log)) /\ CogsSound(cogs)
  BY <1>1 DEF Once, CogsSound
<1>4. JobsKept
  BY <1>1 DEF JobsKept
<1> QED
  BY <1>2, <1>3, <1>4 DEF ValuationInv

LEMMA ValuationHolds == BackOfficeSpec => []ValuationInv
<1>1. BackOfficeInit => ValuationInv
  BY ValuationStarts DEF BackOfficeInit
<1>2. ValuationInv /\ [Producing \/ Valuing \/ Reporting]_everything => ValuationInv'
  <2>1. ASSUME ValuationInv, UNCHANGED valuation PROVE ValuationInv'
    <3>1. UNCHANGED <<log, layers, sold, cogs, valuing>>
      BY <2>1 DEF valuation
    <3>2. \A o, kind : V!OrdersMovements(o, kind)' = V!OrdersMovements(o, kind)
      BY <3>1 DEF V!OrdersMovements
    <3>3. \A o : IsSold(o)' = IsSold(o)
      BY <3>1 DEF IsSold
    <3>4. LogSound'
      BY <2>1, <3>1, <3>2, <3>3 DEF ValuationInv, LogSound
    <3>5. SoldSound' /\ Once(layers', Len(log'))
      BY <2>1, <3>1 DEF ValuationInv, SoldSound, Once
    <3>6. CogsSound(cogs)'
      <4>1. PICK cs : cs = cogs /\ cs = cogs'
        BY <3>1
      <4>2. CogsSound(cs)'
        BY <2>1, <3>1, <4>1, CogsSame DEF ValuationInv
      <4> QED
        BY <4>1, <4>2, RowsThere
    <3>7. ASSUME NEW a, CogsSound(cogs \o valuing[a].new)
          PROVE  CogsSound(cogs \o valuing[a].new)'
      <4>1. PICK cs : cs = cogs \o valuing[a].new
        OBVIOUS
      <4>2. CogsSound(cs)' /\ cs = cogs' \o valuing'[a].new
        BY <3>1, <3>7, <4>1, CogsSame
      <4> QED
        BY <4>2, RowsFound
    <3>8. JobsKept'
      BY <2>1, <3>1, <3>7 DEF ValuationInv, JobsKept
    <3> QED
      BY <3>4, <3>5, <3>6, <3>8 DEF ValuationInv
  <2> QED
    BY <2>1, ValuationStep DEF Producing, Valuing, Reporting, everything
<1> QED
  BY <1>1, <1>2, PTL DEF BackOfficeSpec

\* A movement is valued at most once: no unit is on the books twice.
THEOREM ValuedAtMostOnce == BackOfficeSpec => []ValuedOnce
<1>1. ValuationInv => ValuedOnce
  BY DEF ValuationInv, Once, ValuedOnce, V!ValuedOnce
<1> QED
  BY <1>1, ValuationHolds, PTL

\* An order item has one cost row, and a movement takes it back at most once.
THEOREM CostedAtMostOnce == BackOfficeSpec => []V!CostedOnce
<1>1. ValuationInv => V!CostedOnce
  BY DEF ValuationInv, CogsSound, V!CostedOnce
<1> QED
  BY <1>1, ValuationHolds, PTL

\* The charge of an order of which the one row is k is taken back by row r.
LEMMA ChargesCancel ==
    ASSUME ValuationInv, NEW o \in Order, NEW k \in 1..Len(cogs), NEW r \in 1..Len(cogs),
           k /= r, cogs[k].order = o, cogs[k].reverses = 0, cogs[r].order = o,
           cogs[r].reverses /= 0, cogs[r].total = cogs[k].total,
           \A x \in 1..Len(cogs) : x /= k /\ x /= r => cogs[x].order /= o
    PROVE  V!NetCost(o) = 0
<1> DEFINE terms == [x \in 1..Len(cogs) |-> V!Charged(cogs[x], o)]
<1>1. /\ Len(cogs) \in Nat /\ \A x \in 1..Len(cogs) : cogs[x].total \in Int
  <2>1. cogs \in Seq(CostRowSet)
    BY DEF ValuationInv, CogsSound
  <2>2. \A x \in 1..Len(cogs) : cogs[x] \in CostRowSet
    BY <2>1
  <2>3. \A x \in 1..Len(cogs) : cogs[x].total \in Int
    BY <2>2 DEF CostRowSet
  <2> QED
    BY <2>1, <2>3
<1>2. Len(terms) = Len(cogs) /\ \A x \in 1..Len(cogs) : terms[x] = V!Charged(cogs[x], o)
  BY <1>1
<1> HIDE DEF terms
<1>3. /\ terms[k] = cogs[k].total /\ terms[r] = -cogs[k].total
      /\ \A x \in 1..Len(cogs) : x /= k /\ x /= r => terms[x] = 0
  BY <1>2 DEF V!Charged
<1>4. terms[k] \in Int /\ terms[r] \in Int /\ terms[r] = -terms[k] /\ terms[k] = -terms[r]
  BY <1>1, <1>3
<1>5. V!SumOf(terms) = 0
  <2>1. CASE k < r
    BY <1>1, <1>2, <1>3, <1>4, <2>1, SumOfPair
  <2>2. CASE r < k
    BY <1>1, <1>2, <1>3, <1>4, <2>2, SumOfPair
  <2> QED
    BY <1>1, <2>1, <2>2
<1> QED
  BY <1>5 DEF V!NetCost, terms

LEMMA CancelledIsFree ==
    ASSUME ValuationInv, NEW o \in Order,
           sold[o].status = "cancelled", V!InOneIssue(o),
           V!OrdersMovements(o, "return_restock") = {},
           \A k \in 1..Len(cogs) : cogs[k].order = o => cogs[k].source /= 0,
           ~\E x \in V!Reversible(cogs) : cogs[x[2]].order = o
    PROVE  V!NetCost(o) = 0
<1>1. /\ Len(cogs) \in Nat /\ Len(log) \in Nat /\ CogsSound(cogs) /\ LogSound /\ SoldSound
      /\ \A n \in 1..Len(log) : log[n] \in V!Movement
  BY DEF ValuationInv, CogsSound, LogSound
<1>2. CASE \A k \in 1..Len(cogs) : cogs[k].order /= o
  <2> DEFINE terms == [x \in 1..Len(cogs) |-> V!Charged(cogs[x], o)]
  <2>1. Len(terms) = Len(cogs) /\ \A x \in 1..Len(cogs) : terms[x] = 0
    BY <1>1, <1>2 DEF V!Charged
  <2> HIDE DEF terms
  <2>2. V!SumOf(terms) = 0
    BY <1>1, <2>1, SumOfNone
  <2> QED
    BY <2>2 DEF V!NetCost, terms
<1>3. CASE \E k \in 1..Len(cogs) : cogs[k].order = o
  \* The order's cost row, of its only issue.
  <2>1. PICK k : IsBase(cogs, k) /\ cogs[k].order = o
    <3>1. PICK x \in 1..Len(cogs) : cogs[x].order = o
      BY <1>3
    <3>2. IsBase(cogs, x) \/ Reverses(cogs, x, cogs[x].reverses, cogs[x].source)
      BY <1>1 DEF CogsSound
    <3> QED
      BY <3>1, <3>2 DEF Reverses
  <2>2. /\ k \in 1..Len(cogs) /\ cogs[k].reverses = 0 /\ IsSold(o)
        /\ cogs[k].total = V!TotalOf(sold[o].qty, cogs[k].unit)
        /\ cogs[k].source \in V!OrdersMovements(o, "sale_issue")
    BY <2>1 DEF IsBase
  <2>3. PICK m : m = cogs[k].source
    OBVIOUS
  <2>4. V!OrdersMovements(o, "sale_issue") = {m}
    <3> DEFINE S == V!OrdersMovements(o, "sale_issue")
    <3>1. S \subseteq 1..Len(log)
      BY DEF V!OrdersMovements
    <3>2. V!Cardinality(S) = Cardinality(S)
      BY DEF V!Cardinality, Cardinality
    <3>3. V!Cardinality(S) = 1
      BY DEF V!InOneIssue
    <3> HIDE DEF S
    <3>4. IsFiniteSet(S)
      <4>1. Len(log) \in Int
        BY <1>1
      <4>2. IsFiniteSet(1..Len(log))
        BY <4>1, FS_Interval
      <4> QED
        BY <3>1, <4>2, FS_Subset
    <3>5. \E x : S = {x}
      BY <3>2, <3>3, <3>4, FS_Singleton
    <3>6. m \in S
      BY <2>2, <2>3 DEF S
    <3> QED
      BY <3>5, <3>6 DEF S
  <2>5. /\ m \in 1..Len(log) /\ log[m].order = o /\ log[m].kind = "sale_issue"
        /\ log[m].qty \in Int
        /\ \A n \in 1..Len(log) : log[n].order = o /\ log[n].kind = "sale_issue" => n = m
    BY <1>1, <2>4 DEF V!OrdersMovements, V!Movement
  <2>6. sold[o].qty = -log[m].qty
    <3> DEFINE terms == [n \in 1..Len(log) |->
                            IF log[n].order = o /\ log[n].kind = "sale_issue"
                            THEN -log[n].qty ELSE 0]
    <3>1. /\ Len(terms) = Len(log) /\ terms[m] = -log[m].qty
          /\ \A n \in 1..Len(log) : n /= m => terms[n] = 0
      BY <1>1, <2>5
    <3>2. V!SumOf(terms) = V!Issued(o)
      BY DEF V!Issued
    <3> HIDE DEF terms
    <3>3. -log[m].qty \in Int
      BY <2>5
    <3>4. V!SumOf(terms) = -log[m].qty
      BY <1>1, <2>5, <3>1, <3>3, SumOfOne
    <3> QED
      BY <3>2, <3>4 DEF V!InOneIssue
  \* The movement that takes the issue back, and the row that takes back its cost.
  <2>7. PICK n \in 1..Len(log) : log[n].kind = "cancellation_reversal" /\ log[n].of = m
    BY <1>1, <2>5 DEF LogSound
  <2>8. log[n].qty = sold[o].qty /\ ~log[n].pending
    <3>1. log[n].qty = -log[m].qty /\ ~log[n].pending
      BY <1>1, <2>7 DEF LogSound
    <3> QED
      BY <2>6, <3>1
  <2>9. PICK r \in 1..Len(cogs) : cogs[r].reverses = k /\ cogs[r].source = n
    <3>1. <<n, k>> \notin V!Reversible(cogs)
      <4>1. <<n, k>>[2] = k
        OBVIOUS
      <4> QED
        BY <2>1, <4>1
    <3>2. m /= 0
      BY <2>5
    <3>3. V!ComesBack(n)
      BY <2>7, <2>8 DEF V!ComesBack
    <3> QED
      BY <2>2, <2>3, <2>7, <3>1, <3>2, <3>3 DEF V!Reversible
  <2>10. k /= 0 /\ Reverses(cogs, r, k, n)
    BY <1>1, <2>2, <2>9 DEF CogsSound, IsBase
  <2>11. /\ cogs[r].order = o /\ r /= k /\ cogs[r].reverses /= 0
         /\ cogs[r].total = cogs[k].total
    BY <2>1, <2>2, <2>8, <2>9, <2>10 DEF Reverses
  \* There is no third row.
  <2>12. ASSUME NEW x \in 1..Len(cogs), cogs[x].order = o, x /= k
         PROVE  x = r
    <3>1. ~IsBase(cogs, x)
      BY <1>1, <2>1, <2>2, <2>12 DEF CogsSound, IsBase
    <3>2. Reverses(cogs, x, cogs[x].reverses, cogs[x].source)
      BY <1>1, <3>1 DEF CogsSound
    <3>3. cogs[x].reverses = k
      <4>1. PICK j : j = cogs[x].reverses
        OBVIOUS
      <4>2. IsBase(cogs, j) /\ cogs[x].order = cogs[j].order
        BY <3>2, <4>1 DEF Reverses
      <4>3. j \in 1..Len(cogs) /\ cogs[j].order = o /\ cogs[j].reverses = 0
        BY <2>12, <4>2 DEF IsBase
      <4>4. j = k
        BY <1>1, <2>1, <2>2, <4>3 DEF CogsSound
      <4> QED
        BY <4>1, <4>4
    <3>4. PICK l : l = cogs[x].source
      OBVIOUS
    <3>5. /\ l \in 1..Len(log)
          /\ \/ log[l].kind = "cancellation_reversal" /\ log[l].of = m
             \/ log[l].kind = "return_restock" /\ log[l].order = o
      BY <2>1, <2>3, <3>2, <3>3, <3>4 DEF Reverses
    <3>6. l = n
      BY <1>1, <2>7, <3>5 DEF LogSound, V!OrdersMovements
    <3> QED
      BY <1>1, <2>9, <2>11, <2>12, <3>3, <3>4, <3>6 DEF CogsSound
  <2> QED
    BY <2>1, <2>2, <2>11, <2>12, ChargesCancel
<1> QED
  BY <1>2, <1>3

\* A cancelled order whose units left at once costs nothing: the row of its cost
\* and the one that takes it back cancel out to the cent.
THEOREM CancelledIsFreeOfCost == BackOfficeSpec => []CancelledCostsNothing
<1>1. ValuationInv => CancelledCostsNothing
  <2> SUFFICES ASSUME ValuationInv PROVE V!CancelledCostsNothing
    BY DEF CancelledCostsNothing
  <2> QED
    BY CancelledIsFree DEF V!CancelledCostsNothing
<1> QED
  BY <1>1, ValuationHolds, PTL
=============================================================================
