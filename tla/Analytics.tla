----------------------------- MODULE Analytics -----------------------------
(***************************************************************************)
(* First-party analytics (analytics_service.py): a log of JSON lines, "the *)
(* source of truth", and DuckDB tables that reports are read from.         *)
(*                                                                         *)
(* An event is appended to the log, synced, and then inserted into DuckDB; *)
(* nearly every operation first loads what DuckDB misses from the log.     *)
(* Retention and erasure rewrite the log, replace the file, and then       *)
(* change DuckDB. Each connection to DuckDB is one step under a lock of    *)
(* the process; the log has no lock, and the operations run in threads.    *)
(***************************************************************************)
EXTENDS Integers, FiniteSets, FiniteSetsExt

CONSTANTS
    Happening,   \* (event id, session) of what visitors report
    Purchase,    \* those the program itself reports for a confirmed order
    Subject,     \* those linked to the person who asks for erasure
    Worker,      \* threads of the process
    MaxIngest,   \* bound: reports of a happening, retries included
    MaxErasure,  \* bound: erasures
    MaxStop,     \* bound: restarts of the process
    Turn         \* bound: what happens in one behaviour, sets of these

\* What the constants must satisfy; the MC module assumes it.
AnalyticsAssumption ==
    /\ Purchase \subseteq Happening /\ Subject \subseteq Happening
    /\ MaxIngest \in Nat /\ MaxErasure \in Nat /\ MaxStop \in Nat

VARIABLES
    log,       \* lines of the JSONL file
    torn,      \* the file holds a line that was cut off while it was written
    tables,    \* DuckDB's tables exist
    duck,      \* rows of analytics_events
    consent,   \* analytics_consents of the session, for the current version
    aged,      \* happenings past their retention
    worker,
    accepted,  \* happenings answered as accepted (history)
    lost,      \* those whose line a rewrite of the log overtook (history)
    ingests, erasures, stops,
    turn       \* the kinds of event of this behaviour, one of Turn

analyticsVars == <<log, torn, tables, duck, consent, aged, worker, accepted, lost,
                   ingests, erasures, stops, turn>>

\* subject 0: under the session it was reported in; n: pseudonymised by erasure n.
Row == [of : Happening, subject : 0..MaxErasure]
Line == [of : Happening, subject : 0..MaxErasure, number : 1..MaxIngest]
RowOf(line) == [of |-> line.of, subject |-> line.subject]

\* "report" reads for the health page, the reports and the metrics.
Job == {"ingest", "report", "cleanup", "erase", "rebuild"}
AtRest == [stage |-> "rest"]
Step == {"consent", "open", "load", "decide", "append", "insert", "scan", "replace",
           "purge", "update", "unlink"}
WorkerRow == [stage : Step, job : Job, of : SUBSET Happening,
              number : Nat, lines : SUBSET Line]

AnalyticsTypeOK ==
    /\ log \subseteq Line /\ torn \in BOOLEAN
    /\ tables \in BOOLEAN /\ duck \subseteq Row
    /\ consent \in BOOLEAN
    /\ aged \subseteq Happening /\ accepted \subseteq Happening /\ lost \subseteq Happening
    /\ worker \in [Worker -> WorkerRow \cup {AtRest}]
    /\ ingests \in 0..MaxIngest /\ erasures \in 0..MaxErasure /\ stops \in 0..MaxStop
    /\ turn \in Turn

AnalyticsInit ==
    /\ log = {} /\ torn = FALSE /\ tables = TRUE /\ duck = {}
    /\ consent = FALSE
    /\ aged = {}
    /\ worker = [w \in Worker |-> AtRest]
    /\ accepted = {} /\ lost = {}
    /\ ingests = 0 /\ erasures = 0 /\ stops = 0
    /\ turn \in Turn

Counters == <<ingests, erasures, stops, turn>>

\* record_consent
SetConsent ==
    /\ consent' = ~consent
    /\ UNCHANGED <<log, torn, tables, duck, aged, worker, accepted, lost, Counters>>

\* A happening's time passes the cutoff that the next cleanup computes.
GrowOld(e) ==
    /\ "cleanup" \in turn /\ e \notin aged
    /\ \E l \in log : l.of = e
    /\ aged' = aged \cup {e}
    /\ UNCHANGED <<log, torn, tables, duck, consent, worker, accepted, lost, Counters>>

(***************************************************************************)
(* Starting and ending an operation.                                       *)
(***************************************************************************)
May(w, j) == /\ worker[w] = AtRest /\ j \in turn
             /\ "together" \in turn \/ \A o \in Worker : worker[o] = AtRest

Begun(w, j, s, es, n) ==
    worker' = [worker EXCEPT ![w] = [stage |-> s, job |-> j, of |-> es, number |-> n,
                                     lines |-> {}]]
To(w, s) == worker' = [worker EXCEPT ![w].stage = s]
Reports(w) == worker' = [worker EXCEPT ![w].stage = "open", ![w].job = "report"]
Ends(w) == worker' = [worker EXCEPT ![w] = AtRest]

\* A browser reports what happened, perhaps again; or create_order does.
StartIngest(w, e) ==
    /\ May(w, "ingest") /\ ingests < MaxIngest /\ e \notin aged
    /\ ingests' = ingests + 1
    /\ Begun(w, "ingest", IF e \in Purchase THEN "open" ELSE "consent", {e}, ingests + 1)
    /\ UNCHANGED <<log, torn, tables, duck, consent, aged, accepted, lost, erasures, stops, turn>>

StartReport(w) ==
    /\ May(w, "report")
    /\ Begun(w, "report", "open", {}, 0)
    /\ UNCHANGED <<log, torn, tables, duck, consent, aged, accepted, lost, Counters>>

\* The cutoff is computed at once.
StartCleanup(w) ==
    /\ May(w, "cleanup")
    /\ Begun(w, "cleanup", "open", aged, 0)
    /\ UNCHANGED <<log, torn, tables, duck, consent, aged, accepted, lost, Counters>>

StartErasure(w) ==
    /\ May(w, "erase") /\ erasures < MaxErasure
    /\ erasures' = erasures + 1
    /\ Begun(w, "erase", "open", Subject, erasures + 1)
    /\ UNCHANGED <<log, torn, tables, duck, consent, aged, accepted, lost, ingests, stops, turn>>

\* has_current_analytics_consent, in a thread call of its own; without it
\* only the metric of refused reports is written.
ReadConsent(w) ==
    /\ worker[w].stage = "consent"
    /\ IF consent THEN To(w, "open") ELSE Reports(w)
    /\ UNCHANGED <<log, torn, tables, duck, consent, aged, accepted, lost, Counters>>

(***************************************************************************)
(* initialize_storage: the tables, then the lines DuckDB misses.           *)
(***************************************************************************)
Open(w) ==
    /\ worker[w].stage = "open"
    /\ tables' = TRUE
    /\ worker' = [worker EXCEPT ![w].stage = "load", ![w].lines = log]
    /\ UNCHANGED <<log, torn, duck, consent, aged, accepted, lost, Counters>>

AfterLoad(w) ==
    CASE worker[w].job = "ingest" -> To(w, "decide")
      [] worker[w].job \in {"report", "rebuild"} -> Ends(w)
      [] OTHER -> To(w, "scan")

\* Fault: only empty tables are loaded.
LoadedOnce(w) == IF duck = {} THEN {RowOf(l) : l \in worker[w].lines} ELSE {}

Loaded(w) == {RowOf(l) : l \in worker[w].lines}

\* Line after line, each where its row is missing; a line that is no JSON
\* ends the operation, whatever it was, and so do missing tables.
Load(w) ==
    /\ worker[w].stage = "load"
    /\ duck' = IF tables THEN duck \cup Loaded(w) ELSE duck
    /\ IF tables /\ ~torn THEN AfterLoad(w) ELSE Ends(w)
    /\ UNCHANGED <<log, torn, tables, consent, aged, accepted, lost, Counters>>

(***************************************************************************)
(* ingest_events, for one event.                                           *)
(***************************************************************************)
Reported(w) == CHOOSE e \in Happening : worker[w].of = {e}
Fresh(e) == [of |-> e, subject |-> 0]

\* Fault: the row is inserted before the line is appended.
AfterSwapped(stage) == CASE stage = "decide" -> "insert"
                         [] stage = "insert" -> "append"
                         [] stage = "append" -> "open"

After(stage) == CASE stage = "decide" -> "append"
                  [] stage = "append" -> "insert"
                  [] stage = "insert" -> "open"    \* the metric of accepted events

Goes(w) == worker' = [worker EXCEPT
               ![w].stage = After(@),
               ![w].job = IF After(worker[w].stage) = "open" THEN "report" ELSE @]

\* A repeated event is counted as a duplicate.
Decide(w) ==
    /\ worker[w].stage = "decide"
    /\ IF ~tables THEN Ends(w)
       ELSE IF Fresh(Reported(w)) \in duck THEN Reports(w) ELSE Goes(w)
    /\ UNCHANGED <<log, torn, tables, duck, consent, aged, accepted, lost, Counters>>

Append(w) ==
    /\ worker[w].stage = "append"
    /\ log' = log \cup {[of |-> Reported(w), subject |-> 0, number |-> worker[w].number]}
    /\ Goes(w)
    /\ UNCHANGED <<torn, tables, duck, consent, aged, accepted, lost, Counters>>

\* The answer follows the metrics, whose failure does not matter.
Insert(w) ==
    /\ worker[w].stage = "insert"
    /\ IF tables
       THEN /\ duck' = duck \cup {Fresh(Reported(w))}
            /\ accepted' = accepted \cup worker[w].of
            /\ Goes(w)
       ELSE Ends(w) /\ UNCHANGED <<duck, accepted>>
    /\ UNCHANGED <<log, torn, tables, consent, aged, lost, Counters>>

(***************************************************************************)
(* cleanup_expired_events and anonymize_subject.                           *)
(***************************************************************************)
Scan(w) ==
    /\ worker[w].stage = "scan"
    /\ worker' = [worker EXCEPT ![w].stage = "replace", ![w].lines = log]
    /\ UNCHANGED <<log, torn, tables, duck, consent, aged, accepted, lost, Counters>>

\* Fault: erasure leaves the log as it is.
KeptWhole(w) == worker[w].lines

Pseudonym(w, l) == IF l.of \in worker[w].of /\ l.subject = 0
                   THEN [l EXCEPT !.subject = worker[w].number] ELSE l

\* The lines that were read, without those past the cutoff, or with those of
\* the subject under a new name.
Rewritten(w) == IF worker[w].job = "cleanup"
                THEN {l \in worker[w].lines : l.of \notin worker[w].of}
                ELSE {Pseudonym(w, l) : l \in worker[w].lines}

\* Happenings whose lines came into the file after it was read.
Overtaken(w) == {l.of : l \in log} \ {l.of : l \in worker[w].lines}

\* A cleanup that removes nothing leaves the file alone.
Replace(w) ==
    /\ worker[w].stage = "replace"
    /\ IF worker[w].job = "cleanup" /\ Rewritten(w) = worker[w].lines
       THEN UNCHANGED <<log, lost>>
       ELSE log' = Rewritten(w) /\ lost' = lost \cup Overtaken(w)
    /\ To(w, IF worker[w].job = "cleanup" THEN "purge" ELSE "update")
    /\ UNCHANGED <<torn, tables, duck, consent, aged, accepted, Counters>>

Purge(w) ==
    /\ worker[w].stage = "purge"
    /\ duck' = IF tables THEN {r \in duck : r.of \notin worker[w].of} ELSE duck
    /\ Ends(w)
    /\ UNCHANGED <<log, torn, tables, consent, aged, accepted, lost, Counters>>

\* One statement: it fails as a whole where a pseudonymised row exists.
Linked(w) == {r \in duck : r.of \in worker[w].of /\ r.subject = 0}
Renamed(w) == {[r EXCEPT !.subject = worker[w].number] : r \in Linked(w)}

Update(w) ==
    /\ worker[w].stage = "update"
    /\ IF ~tables \/ Renamed(w) \cap duck # {}
       THEN Ends(w) /\ UNCHANGED duck
       ELSE /\ duck' = (duck \ Linked(w)) \cup Renamed(w)
            /\ IF \E l \in worker[w].lines : l.of \in worker[w].of /\ l.subject = 0
               THEN To(w, "unlink") ELSE Ends(w)
    /\ UNCHANGED <<log, torn, tables, consent, aged, accepted, lost, Counters>>

\* rebuild_duckdb_from_jsonl
Unlink(w) ==
    /\ worker[w].stage = "unlink"
    /\ tables' = FALSE /\ duck' = {}
    /\ worker' = [worker EXCEPT ![w].stage = "open", ![w].job = "rebuild"]
    /\ UNCHANGED <<log, torn, consent, aged, accepted, lost, Counters>>

(***************************************************************************)
(* The process stops at any step, perhaps within the write of a line.      *)
(***************************************************************************)
Stopped ==
    /\ stops < MaxStop
    /\ stops' = stops + 1
    /\ worker' = [w \in Worker |-> AtRest]
    /\ UNCHANGED <<log, tables, duck, consent, aged, accepted, lost, ingests, erasures, turn>>

Stop == "stop" \in turn /\ Stopped /\ UNCHANGED torn

StopWithin(w) ==
    /\ "tear" \in turn /\ worker[w].stage = "append"
    /\ Stopped /\ torn' = TRUE

Ingest(w) == ReadConsent(w) \/ Decide(w) \/ Append(w) \/ Insert(w)
Rewrite(w) == Scan(w) \/ Replace(w) \/ Purge(w) \/ Update(w) \/ Unlink(w)
Advance(w) == Open(w) \/ Load(w) \/ Ingest(w) \/ Rewrite(w)

AnalyticsNext ==
    \/ SetConsent
    \/ \E e \in Happening : GrowOld(e) \/ (\E w \in Worker : StartIngest(w, e))
    \/ \E w \in Worker : StartReport(w) \/ StartCleanup(w) \/ StartErasure(w)
                         \/ Advance(w) \/ StopWithin(w)
    \/ Stop

StartSome == \E w \in Worker : StartCleanup(w) \/ StartReport(w)

\* Threads advance, and the cleanup is a loop of the program. It may find the
\* others busy each time it is due, but every operation loads.
AnalyticsFairness ==
    /\ \A w \in Worker : WF_analyticsVars(Advance(w))
    /\ WF_analyticsVars(StartSome)

AnalyticsSpec == AnalyticsInit /\ [][AnalyticsNext]_analyticsVars /\ AnalyticsFairness

(***************************************************************************)
(* What the log and DuckDB promise.                                        *)
(***************************************************************************)
Logged(e) == \E l \in log : l.of = e

\* Whatever was answered as accepted, or is reported on, stays in the log,
\* which the tables can be rebuilt from, until its retention is over: also
\* when two threads report the same happening, rewrite the log at the same time
\* or stop at any step. It is lost in one way only: its line was appended
\* between the reading of the file and its replacement.
SourceOfTruth == \A e \in Happening \ (aged \cup lost) :
    e \in accepted \/ (\E r \in duck : r.of = e) => Logged(e)

\* Once an erasure that ran alone is over, neither the log nor the tables name
\* the subject in anything reported before it; nothing that was loaded or
\* cleaned up before brings a name back.
Named(S) == {e \in S : \/ \E l \in log : l.of = e /\ l.subject = 0
                       \/ \E r \in duck : r.of = e /\ r.subject = 0}

ErasureReaches ==
    [][\A w \in Worker : worker[w] # AtRest /\ worker'[w] = AtRest
          /\ worker[w].job \in {"erase", "rebuild"} /\ ~torn
       => Named(Subject)' = {}]_analyticsVars

\* A line of the log is reported on sooner or later, whichever thread stopped
\* where, unless it is removed first or a line that was cut off stops every
\* load.
CaughtUp == \A e \in Happening :
    Logged(e) ~> (torn \/ ~Logged(e) \/ \E r \in duck : r.of = e)

\* Nothing stops a rewrite from overtaking an append (checked with a turn in
\* which a cleanup or an erasure works beside others).
AcceptedStays == \A e \in accepted \ aged : Logged(e)

\* Names do not agree when an erasure is interrupted between the file and DuckDB: the next
\* load adds the renamed lines beside the named rows, and these stay (checked
\* with turns in which an erasure may stop, or another thread loads).
NamesAgree == (\A w \in Worker : worker[w] = AtRest) =>
    \A r \in duck : r.subject = 0 /\ r.of \notin aged =>
        \E l \in log : l.of = r.of /\ l.subject = 0

=============================================================================
