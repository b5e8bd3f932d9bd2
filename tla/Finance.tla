------------------------------ MODULE Finance ------------------------------
(***************************************************************************)
(* Finance periods: app/services/finance_period_service.py and             *)
(* accounting_export_service.py over the Books.  A period goes from open   *)
(* through review to closed, is exported as a package of ledgers, and      *)
(* accepted by the accountant; it can be reopened.  The exception engine   *)
(* turns what CollectSpecs finds into rows that an admin resolves or       *)
(* waives, and open blocking rows keep a period from closing.              *)
(*                                                                         *)
(* Creating a period and generating a package read first and write later   *)
(* (a package writes its files in between), so each is two actions; all    *)
(* else is one transaction.  A refused close rolls back the rows it        *)
(* refreshed, so it changes nothing.                                       *)
(***************************************************************************)
EXTENDS Books, FiniteSetsExt, SequencesExt

CONSTANTS
    Period,     \* ids of finance periods
    Admin,      \* admin requests being served at the same time
    MaxExports, \* bound: packages
    MaxChanges  \* bound: changes to the books and to periods together

ASSUME FinanceAssumption == MaxExports \in Nat /\ MaxChanges \in Nat

VARIABLES
    periods,    \* finance_periods
    rows,       \* finance_exceptions
    exports,    \* finance_export_packages
    job,        \* the requests in flight
    reviews     \* bound: how many changes of status there were

periodVars == <<periods, rows, exports, job, reviews>>
vars == <<bookVars, periodVars>>

NotCreated == [status |-> Absent]
Idle == [op |-> "idle"]
NoSummary == [sales |-> {}, refunds |-> {}, blocking |-> -1]

Status == {"open", "review", "reopened", "closed", "exported", "accepted"}
Summary == [sales : SUBSET Order, refunds : SUBSET Order, blocking : Int]
PeriodRow == [first : Day, last : Day, status : Status, summary : Summary]
ExceptionRow == [period : Period, type : STRING, severity : STRING,
                 target : Order \cup Txn \cup Expense \cup {"seller", "vat", "inventory"},
                 status : {"open", "resolved", "waived"}]
Package == [period : Period, version : Nat \ {0}, final : BOOLEAN, accepted : BOOLEAN,
            summary : Summary, sales : SUBSET Order, refunds : SUBSET Order]

FinanceTypeOK ==
    /\ BooksTypeOK
    /\ \A p \in Period : periods[p] = NotCreated \/ periods[p] \in PeriodRow
    /\ rows \subseteq ExceptionRow
    /\ exports \in Seq(Package)
    /\ \A a \in Admin : job[a].op \in {"idle", "create", "export"}
    /\ \A o \in Order : orders[o] /= NotPlaced => orders[o].period \in Period \cup {NoPeriod}

Init ==
    /\ BooksInit
    /\ periods = [p \in Period |-> NotCreated]
    /\ rows = {}
    /\ exports = <<>>
    /\ job = [a \in Admin |-> Idle]
    /\ reviews = 0

Bounded == events + reviews < MaxChanges
Review == Bounded /\ reviews' = reviews + 1
DaysOf(p) == periods[p].first..periods[p].last
booksButOrders == UNCHANGED <<config, evidence, settled, refunded, documents, txns,
                              expenses, costs, inventory, events>>

(***************************************************************************)
(* The exception engine.                                                   *)
(***************************************************************************)

RowOf(p, s, status) ==
    [period |-> p, type |-> s.type, severity |-> s.severity, target |-> s.target,
     status |-> status]
SameKey(r, s) == r.type = s.type /\ r.target = s.target

\* Fault: only what is new is looked at, not how severe it has become.
UpsertedOnce(p, specs) ==
    rows \cup {RowOf(p, s, "open") :
                  s \in {t \in specs : ~\E r \in rows : r.period = p /\ SameKey(r, t)}}

\* _upsert_exception of every spec, none of which shares its key with another:
\* a row that was resolved or waived is left alone, by whom- or whatever it was
\* resolved.
Upserted(p, specs) ==
    LET open == {s \in specs : ~\E r \in rows : /\ r.period = p /\ SameKey(r, s)
                                               /\ r.status /= "open"}
    IN  {r \in rows : ~(r.period = p /\ \E s \in open : SameKey(r, s))}
        \cup {RowOf(p, s, "open") : s \in open}

\* refresh_period_exceptions: every spec is upserted, and open rows without
\* one are resolved.
Refreshed(p) ==
    LET specs == CollectSpecs(DaysOf(p))
        gone(r) == /\ r.period = p /\ r.status = "open"
                   /\ \A s \in specs : ~SameKey(r, s)
    IN  {IF gone(r) THEN [r EXCEPT !.status = "resolved"] ELSE r : r \in Upserted(p, specs)}

Blocking(rs, p) ==
    {r \in rs : r.period = p /\ r.status = "open" /\ r.severity = "blocking"}

(***************************************************************************)
(* Summary and ledgers.                                                    *)
(***************************************************************************)

\* calculate_summary_totals: refunds of orders that are not cancelled, by the
\* day of the order.
SummaryOf(p, rs) ==
    LET os == OrdersIn(DaysOf(p))
    IN  [sales |-> os, refunds |-> {o \in os : refunded[o] /= NoDay},
         blocking |-> Cardinality(Blocking(rs, p))]

\* _sales_rows of the sales ledger, as get_ledger filters them: refunds of
\* orders of the period, the cancelled ones too, confirmed in the period.
SalesLedger(p) == OrdersIn(DaysOf(p))
RefundLedger(p) ==
    {o \in Order : /\ orders[o] /= NotPlaced
                   /\ orders[o].day \in DaysOf(p) /\ refunded[o] \in DaysOf(p)}

(***************************************************************************)
(* Periods.                                                                *)
(***************************************************************************)

Overlaps(first, last) ==
    {p \in Period : periods[p] /= NotCreated
                    /\ ~(periods[p].last < first \/ periods[p].first > last)}

StartCreate(a, p, first, last) ==
    /\ job[a] = Idle
    /\ periods[p] = NotCreated
    /\ first <= last
    /\ Overlaps(first, last) = {}
    /\ job' = [job EXCEPT ![a] = [op |-> "create", period |-> p, first |-> first, last |-> last]]
    /\ UNCHANGED <<bookVars, periods, rows, exports, reviews>>

FinishCreate(a) ==
    /\ job[a].op = "create"
    /\ periods' = [periods EXCEPT ![job[a].period] =
          [first |-> job[a].first, last |-> job[a].last, status |-> "open",
           summary |-> NoSummary]]
    /\ job' = [job EXCEPT ![a] = Idle]
    /\ UNCHANGED <<bookVars, rows, exports, reviews>>

\* _assign_orders_to_period, the cancelled ones too.
Assigned(p) ==
    [o \in Order |->
        IF /\ orders[o] /= NotPlaced
           /\ orders[o].day \in DaysOf(p)
           /\ orders[o].period \in {NoPeriod, p}
        THEN [orders[o] EXCEPT !.period = p] ELSE orders[o]]

StartReview(p) ==
    /\ Review
    /\ periods[p].status \in {"open", "reopened", "review"}
    /\ orders' = Assigned(p)
    /\ rows' = Refreshed(p)
    /\ periods' = [periods EXCEPT ![p].status = "review",
                                  ![p].summary = SummaryOf(p, rows')]
    /\ UNCHANGED <<exports, job>> /\ booksButOrders

ClosePeriod(p) ==
    /\ Review
    /\ periods[p].status \in {"open", "review", "reopened"}
    /\ Blocking(Refreshed(p), p) = {}
    /\ orders' = Assigned(p)
    /\ rows' = Refreshed(p)
    /\ periods' = [periods EXCEPT ![p].status = "closed",
                                  ![p].summary = SummaryOf(p, rows')]
    /\ UNCHANGED <<exports, job>> /\ booksButOrders

statusOnly == UNCHANGED <<bookVars, rows, exports, job>>

MarkExported(p) ==
    /\ Review
    /\ periods[p].status \in {"closed", "exported"}
    /\ periods' = [periods EXCEPT ![p].status = "exported"]
    /\ statusOnly

AcceptPeriod(p) ==
    /\ Review
    /\ periods[p].status \in {"exported", "accepted"}
    /\ periods' = [periods EXCEPT ![p].status = "accepted"]
    /\ statusOnly

ReopenPeriod(p) ==
    /\ Review
    /\ periods[p].status \in {"closed", "exported", "accepted"}
    /\ periods' = [periods EXCEPT ![p].status = "reopened"]
    /\ statusOnly

\* list_exceptions refreshes whatever the status of the period.
ListExceptions(p) ==
    /\ periods[p] /= NotCreated
    /\ Refreshed(p) /= rows
    /\ rows' = Refreshed(p)
    /\ UNCHANGED <<bookVars, periods, exports, job, reviews>>

\* resolve_exception and waive_exception look at no status.
DecideException(r, status) ==
    /\ Review
    /\ r \in rows
    /\ rows' = (rows \ {r}) \cup {[r EXCEPT !.status = status]}
    /\ UNCHANGED <<bookVars, periods, exports, job>>

(***************************************************************************)
(* Packages.                                                               *)
(***************************************************************************)

NextVersion(p) ==
    1 + Max({0} \cup {exports[n].version : n \in {k \in 1..Len(exports) : exports[k].period = p}})

\* generate_export_package until the files are written.
StartExport(a, p) ==
    /\ job[a] = Idle
    /\ Len(exports) < MaxExports
    /\ periods[p].status = "closed"
    /\ job' = [job EXCEPT ![a] =
          [op |-> "export", package |->
             [period |-> p, version |-> NextVersion(p), final |-> TRUE, accepted |-> FALSE,
              summary |-> periods[p].summary, sales |-> SalesLedger(p),
              refunds |-> RefundLedger(p)]]]
    /\ UNCHANGED <<bookVars, periods, rows, exports, reviews>>

\* Fault: the earlier packages stay final.
SupersededNone(p) == exports

Superseded(p) ==
    [n \in 1..Len(exports) |-> IF exports[n].period = p THEN [exports[n] EXCEPT !.final = FALSE]
                               ELSE exports[n]]

\* The rest: UNIQUE (period_id, version) fails a second package of a version.
FinishExport(a) ==
    LET new == job[a].package
        taken == \E n \in 1..Len(exports) : exports[n].period = new.period
                                            /\ exports[n].version = new.version
    IN  /\ job[a].op = "export"
        /\ exports' = IF taken THEN exports ELSE Append(Superseded(new.period), new)
        /\ periods' = IF taken THEN periods
                      ELSE [periods EXCEPT ![new.period].status = "exported"]
        /\ job' = [job EXCEPT ![a] = Idle]
        /\ UNCHANGED <<bookVars, rows, reviews>>

\* accept_export_package: a final package takes its period along, whatever
\* the status of the period is.
AcceptExport(n) ==
    /\ Review
    /\ exports' = [exports EXCEPT ![n].accepted = TRUE]
    /\ periods' = IF exports[n].final
                  THEN [periods EXCEPT ![exports[n].period].status = "accepted"] ELSE periods
    /\ UNCHANGED <<bookVars, rows, job>>

PeriodNext ==
    \E p \in Period :
        \/ \E a \in Admin, first, last \in Day : StartCreate(a, p, first, last)
        \/ StartReview(p) \/ ClosePeriod(p) \/ MarkExported(p) \/ AcceptPeriod(p)
        \/ ReopenPeriod(p) \/ ListExceptions(p)
        \/ \E a \in Admin : StartExport(a, p)

DecisionNext ==
    \/ \E r \in rows, s \in {"resolved", "waived"} : DecideException(r, s)
    \/ \E n \in 1..Len(exports) : AcceptExport(n)

FinishNext == \E a \in Admin : FinishCreate(a) \/ FinishExport(a)

RecordInBooks == Bounded /\ BooksNext /\ UNCHANGED periodVars

Next == RecordInBooks \/ PeriodNext \/ DecisionNext \/ FinishNext
Spec == Init /\ [][Next]_vars

\* One request at a time that creates or exports.
Alone == \A a \in Admin : job[a] = Idle
SerialNext == FinishNext \/ (Alone /\ (RecordInBooks \/ PeriodNext \/ DecisionNext))
SerialSpec == Init /\ [][SerialNext]_vars

(***************************************************************************)
(* Properties.                                                             *)
(***************************************************************************)

\* No order is reported in two periods: neither assigned to one that does not
\* contain its day, nor sold in the final packages of two.
ReportedOnce ==
    /\ \A o \in Order :
          orders[o] /= NotPlaced => \/ orders[o].period = NoPeriod
                                    \/ orders[o].day \in DaysOf(orders[o].period)
    /\ \A x, y \in 1..Len(exports) :
          exports[x].final /\ exports[y].final /\ x /= y
          => exports[x].sales \cap exports[y].sales = {}

\* A period only closes when each problem of its books that blocks closing
\* has a row that an admin decided or that was once found settled: none is
\* overlooked because it appeared, or became blocking, after the last review.
ClosedKnowingly ==
    [][\A p \in Period :
          /\ periods[p].status \in {"open", "review", "reopened"}
          /\ periods'[p].status = "closed"
          => \A s \in CollectSpecs(DaysOf(p)) :
                s.severity = "blocking"
                => \E r \in rows' : r.period = p /\ SameKey(r, s) /\ r.status /= "open"]_vars

\* The packages of a period are numbered from one without gaps, and only the
\* newest of them is final.
ExportVersions ==
    \A p \in Period :
        LET own == SelectSeq(exports, LAMBDA e : e.period = p)
        IN  \A n \in 1..Len(own) : own[n].version = n /\ (own[n].final <=> n = Len(own))

\* A period the accountant accepted was exported since it was last closed.
AcceptedAsExported ==
    [][\A p \in Period :
          periods'[p].status = "accepted" => periods[p].status \in {"exported", "accepted"}]_vars

\* A period closes only over blocking problems that an admin waived: one that
\* was marked resolved and is still there, or is there again, blocks.
ClosedClean ==
    [][\A p \in Period :
          /\ periods[p].status \in {"open", "review", "reopened"}
          /\ periods'[p].status = "closed"
          => \A s \in CollectSpecs(DaysOf(p)) :
                s.severity = "blocking"
                => \E r \in rows : r.period = p /\ SameKey(r, s) /\ r.status = "waived"]_vars

\* A refund of an order that is in a final package is in one, once a final
\* package covers the day it was confirmed.
RefundsReported ==
    \A o \in Order, x, y \in 1..Len(exports) :
        /\ exports[x].final /\ exports[y].final
        /\ o \in exports[x].sales /\ o \in exports[x].summary.refunds
        /\ refunded[o] \in DaysOf(exports[y].period)
        => \E z \in 1..Len(exports) : exports[z].final /\ o \in exports[z].refunds
=============================================================================
