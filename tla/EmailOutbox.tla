------------------------------ MODULE EmailOutbox ------------------------------
(***************************************************************************)
(* The durable outbox of app/services/email_service.py: the tables         *)
(* order_emails, order_email_send_claims and suppressed_emails, and the    *)
(* sweepers that drain them, one in every uvicorn worker.                  *)
(*                                                                         *)
(* A sweeper selects a batch of row ids and processes them one after the   *)
(* other.  For each row it reads the row, acquires the send claim of the   *)
(* row's (order, event), calls the provider with no connection held, and   *)
(* records the outcome; other workers, bounces and crashes come between    *)
(* these steps.  The checks between the read of the row and the claim are  *)
(* part of the claiming step: whatever commits between them is seen by the *)
(* claim as well.  Rendering has no state; a missing template ends as a    *)
(* permanent error does.                                                   *)
(***************************************************************************)
EXTENDS Integers

CONSTANTS
    Mail,         \* (order_id, event) pairs, the keys of the claims
    Worker,       \* uvicorn workers, each with its own sweeper
    MaxRows,      \* bound: rows of order_emails
    MaxAttempts,  \* MAX_ATTEMPTS
    MaxTransient, \* bound: transient failures of the provider
    MaxCrashes    \* bound: crashes of a worker

ASSUME OutboxAssumption ==
    /\ MaxRows \in Nat
    /\ MaxAttempts \in Nat \ {0}
    /\ MaxTransient \in Nat
    /\ MaxCrashes \in Nat

RowId == 1..MaxRows

VARIABLES
    row,        \* order_emails
    claim,      \* order_email_send_claims
    suppressed, \* emails whose recipient is in suppressed_emails
    worker,     \* the sweepers, with what they have read
    delivered,  \* how often the provider accepted an email
    unanswered, \* how often an acceptance was never recorded
    failures,   \* transient failures recorded for a row
    transient,  \* transient failures so far
    crashes     \* crashes so far

vars == <<row, claim, suppressed, worker, delivered, unanswered, failures,
          transient, crashes>>

RowStatus == {"queued", "sent", "failed", "failed_permanent",
              "skipped_duplicate", "skipped_suppressed"}
EmailRow == [status : RowStatus, mail : Mail, attempts : Nat, due : BOOLEAN]
NoRow == [status |-> "absent"]
Answer == {"accepted", "transient", "permanent"}
Draining == [op : {"draining"}, batch : SUBSET RowId]
Reading == [op : {"read", "sending"} \cup Answer, batch : SUBSET RowId,
            row : RowId, attempts : Nat]
Asleep == [op |-> "asleep"]

TypeOK ==
    /\ row \in [RowId -> EmailRow \cup {NoRow}]
    /\ claim \in [Mail -> {"none", "in_flight", "expired", "failed", "sent"}]
    /\ suppressed \in SUBSET Mail
    /\ worker \in [Worker -> Draining \cup Reading \cup {Asleep}]
    /\ delivered \in [Mail -> Nat]
    /\ unanswered \in [Mail -> Nat]
    /\ failures \in [RowId -> Nat]
    /\ transient \in 0..MaxTransient
    /\ crashes \in 0..MaxCrashes

Init ==
    /\ row = [i \in RowId |-> NoRow]
    /\ claim = [m \in Mail |-> "none"]
    /\ suppressed = {}
    /\ worker = [w \in Worker |-> Asleep]
    /\ delivered = [m \in Mail |-> 0]
    /\ unanswered = [m \in Mail |-> 0]
    /\ failures = [i \in RowId |-> 0]
    /\ transient = 0
    /\ crashes = 0

(***************************************************************************)
(* The shop and the mail provider's webhook.                               *)
(***************************************************************************)

\* queue_order_email: committed with the change of the order it reports.
Queue(i, m) ==
    /\ row[i].status = "absent"
    /\ row' = [row EXCEPT ![i] =
           [status |-> "queued", mail |-> m, attempts |-> 0, due |-> TRUE]]
    /\ UNCHANGED <<claim, suppressed, worker, delivered, unanswered, failures,
                   transient, crashes>>

\* suppress_email: the recipient bounced or complained.
Suppress(m) ==
    /\ m \notin suppressed
    /\ suppressed' = suppressed \cup {m}
    /\ UNCHANGED <<row, claim, worker, delivered, unanswered, failures,
                   transient, crashes>>

\* next_attempt_at of a failed row is reached.
BackoffPasses(i) ==
    /\ row[i].status = "failed"
    /\ ~row[i].due
    /\ row' = [row EXCEPT ![i].due = TRUE]
    /\ UNCHANGED <<claim, suppressed, worker, delivered, unanswered, failures,
                   transient, crashes>>

(***************************************************************************)
(* The sweeper.                                                            *)
(***************************************************************************)

Pending(i) == row[i].status \in {"queued", "failed"}

Eligible(i) == Pending(i) /\ row[i].due /\ row[i].attempts < MaxAttempts

\* A sweeper past a row: on to the rest of its batch, or back to sleep.
After(w, i) ==
    IF worker[w].batch = {i} THEN Asleep
    ELSE [op |-> "draining", batch |-> worker[w].batch \ {i}]

\* drain_email_outbox selects the rows that are due.
StartDrain(w) ==
    LET batch == {i \in RowId : Eligible(i)}
    IN  /\ worker[w] = Asleep
        /\ batch /= {}
        /\ worker' = [worker EXCEPT ![w] = [op |-> "draining", batch |-> batch]]
        /\ UNCHANGED <<row, claim, suppressed, delivered, unanswered, failures,
                       transient, crashes>>

\* _process_outbox_row reads the next row of the batch, in the order of the
\* ids; a row that another worker has finished is passed over.
ReadRow(w, i) ==
    /\ worker[w].op = "draining"
    /\ i \in worker[w].batch
    /\ \A j \in worker[w].batch : i <= j
    /\ worker' = [worker EXCEPT ![w] =
           IF Pending(i)
           THEN [op |-> "read", batch |-> @.batch, row |-> i,
                 attempts |-> row[i].attempts]
           ELSE After(w, i)]
    /\ UNCHANGED <<row, claim, suppressed, delivered, unanswered, failures,
                   transient, crashes>>

\* _already_sent
AlreadySent(m) == \E i \in RowId : row[i].status = "sent" /\ row[i].mail = m

\* Fault: a claim is taken over without looking at its lease.
ClaimableInFlight(m) == claim[m] /= "sent"

\* Fault: a claim in state 'sent' may be taken over.
ClaimableSent(m) == claim[m] /= "in_flight"

\* Fault: only a fresh claim may be acquired.
ClaimableFresh(m) == claim[m] = "none"

\* _try_acquire_claim: a fresh claim, a failed one or one whose lease expired.
Claimable(m) == claim[m] \in {"none", "failed", "expired"}

\* What becomes of a row: it is skipped, its claim is acquired, or it is left
\* to the worker that holds the claim.
Verdict(m) ==
    IF AlreadySent(m) THEN "skipped_duplicate"
    ELSE IF m \in suppressed THEN "skipped_suppressed"
    ELSE IF Claimable(m) THEN "claim"
    ELSE IF claim[m] = "sent" THEN "skipped_duplicate"
    ELSE "leave"

ClaimRow(w) ==
    LET i == worker[w].row
        m == row[i].mail
        verdict == Verdict(m)
    IN  /\ worker[w].op = "read"
        /\ row' = IF verdict \in RowStatus
                  THEN [row EXCEPT ![i].status = verdict, ![i].due = TRUE]
                  ELSE row
        /\ claim' = IF verdict = "claim"
                    THEN [claim EXCEPT ![m] = "in_flight"] ELSE claim
        /\ worker' = [worker EXCEPT ![w] =
               IF verdict = "claim"
               THEN [op |-> "sending", batch |-> @.batch, row |-> i,
                     attempts |-> @.attempts]
               ELSE After(w, i)]
        /\ UNCHANGED <<suppressed, delivered, unanswered, failures, transient,
                       crashes>>

\* provider.send returns, or raises PermanentEmailError.
ProviderAnswers(w) ==
    LET m == row[worker[w].row].mail
    IN  /\ worker[w].op = "sending"
        /\ \/ /\ worker' = [worker EXCEPT ![w].op = "accepted"]
              /\ delivered' = [delivered EXCEPT ![m] = @ + 1]
           \/ /\ worker' = [worker EXCEPT ![w].op = "permanent"]
              /\ UNCHANGED delivered
        /\ UNCHANGED <<row, claim, suppressed, unanswered, failures, transient,
                       crashes>>

\* provider.send raises TransientEmailError; when the answer timed out, the
\* email may have been accepted all the same.
ProviderFails(w) ==
    LET m == row[worker[w].row].mail
    IN  /\ worker[w].op = "sending"
        /\ transient < MaxTransient
        /\ transient' = transient + 1
        /\ worker' = [worker EXCEPT ![w].op = "transient"]
        /\ \/ UNCHANGED <<delivered, unanswered>>
           \/ /\ delivered' = [delivered EXCEPT ![m] = @ + 1]
              /\ unanswered' = [unanswered EXCEPT ![m] = @ + 1]
        /\ UNCHANGED <<row, claim, suppressed, failures, crashes>>

\* The row after provider.send answered; "read" is the number of attempts the
\* worker has read before.  A failed row is not due until its backoff passed.
Outcome(r, answer, read) ==
    LET again == answer = "transient" /\ read + 1 < MaxAttempts
    IN  [status   |-> IF answer = "accepted" THEN "sent"
                      ELSE IF again THEN "failed" ELSE "failed_permanent",
         mail     |-> r.mail,
         attempts |-> read + 1,
         due      |-> ~again]

\* _release_claim
Released(answer) == IF answer = "accepted" THEN "sent" ELSE "failed"

\* The outcome is recorded and the claim released.  A second 'sent' row for
\* an email violates the partial unique index and is folded into a skip.
Record(w) ==
    LET i == worker[w].row
        m == row[i].mail
        answer == worker[w].op
    IN  /\ answer \in Answer
        /\ row' = [row EXCEPT ![i] =
               IF answer = "accepted" /\ \E j \in RowId \ {i} :
                      row[j].status = "sent" /\ row[j].mail = m
               THEN [@ EXCEPT !.status = "skipped_duplicate"]
               ELSE Outcome(@, answer, worker[w].attempts)]
        /\ claim' = [claim EXCEPT ![m] = Released(answer)]
        /\ failures' = [failures EXCEPT ![i] =
               IF answer = "transient" THEN @ + 1 ELSE @]
        /\ worker' = [worker EXCEPT ![w] = After(w, i)]
        /\ UNCHANGED <<suppressed, delivered, unanswered, transient, crashes>>

\* A worker dies and is restarted.
Crash(w) ==
    /\ worker[w] /= Asleep
    /\ crashes < MaxCrashes
    /\ crashes' = crashes + 1
    /\ worker' = [worker EXCEPT ![w] = Asleep]
    /\ unanswered' = IF worker[w].op = "accepted"
                     THEN [unanswered EXCEPT ![row[worker[w].row].mail] = @ + 1]
                     ELSE unanswered
    /\ UNCHANGED <<row, claim, suppressed, delivered, failures, transient>>

Sender(m, w) ==
    /\ worker[w].op \in {"sending"} \cup Answer
    /\ row[worker[w].row].mail = m

\* The lease of 300 seconds ends; a live worker has released its claim by
\* then, since the provider is given 10 seconds to answer.
LeaseExpires(m) ==
    /\ claim[m] = "in_flight"
    /\ \A w \in Worker : ~Sender(m, w)
    /\ claim' = [claim EXCEPT ![m] = "expired"]
    /\ UNCHANGED <<row, suppressed, worker, delivered, unanswered, failures,
                   transient, crashes>>

SweeperNext(w) ==
    \/ StartDrain(w)
    \/ \E i \in RowId : ReadRow(w, i)
    \/ ClaimRow(w)
    \/ ProviderAnswers(w)
    \/ ProviderFails(w)
    \/ Record(w)

ShopNext ==
    \/ \E i \in RowId : (\E m \in Mail : Queue(i, m)) \/ BackoffPasses(i)
    \/ \E m \in Mail : Suppress(m) \/ LeaseExpires(m)

Next ==
    \/ ShopNext
    \/ \E w \in Worker : SweeperNext(w) \/ Crash(w)

Spec == Init /\ [][Next]_vars

\* Every worker's email_outbox_loop goes on (its exceptions are caught), the
\* provider call returns within its timeout, and the clock advances.
Fairness ==
    /\ \A w \in Worker : WF_vars(SweeperNext(w))
    /\ \A i \in RowId : WF_vars(BackoffPasses(i))
    /\ \A m \in Mail : WF_vars(LeaseExpires(m))

FairSpec == Spec /\ Fairness

(***************************************************************************)
(* Properties.                                                             *)
(***************************************************************************)

\* The send claim: no two workers are in the send phase of the same email.
OneSender ==
    \A m \in Mail, v, w \in Worker :
        Sender(m, v) /\ Sender(m, w) => v = w

\* However often the rows of an email are queued, selected, retried and
\* raced for, the customer gets it twice only when an acceptance was lost in
\* a crash or a timeout.
NoNeedlessDuplicate ==
    \A m \in Mail : delivered[m] <= 1 + unanswered[m]

\* A row never claims an email that was not delivered: it is 'sent' or
\* 'skipped_duplicate' only after the provider has accepted the email.
NothingLost ==
    \A i \in RowId : row[i].status \in {"sent", "skipped_duplicate"} =>
        delivered[row[i].mail] > 0

\* The sweeper stops retrying a row after MAX_ATTEMPTS transient failures.
AttemptsBounded == \A i \in RowId : failures[i] <= MaxAttempts

\* What the log says of a sent email is final.
SentStaysSent ==
    [][\A i \in RowId : row[i].status = "sent" => row'[i].status = "sent"]_vars

\* Every queued row reaches a terminal state.
EventuallyTerminal ==
    \A i \in RowId : Pending(i) ~> row[i].status /= "absent" /\ ~Pending(i)

(***************************************************************************)
(* The outbox keeps the promise of a send claim.                           *)
(***************************************************************************)
Holder(m) ==
    CASE claim[m] = "sent"                  -> "closed"
      [] claim[m] \in {"none", "failed", "expired"} -> "nobody"
      [] claim[m] = "in_flight" ->
             IF \E w \in Worker : Sender(m, w)
             THEN CHOOSE w \in Worker : Sender(m, w)
             ELSE "abandoned"

Promise == INSTANCE SendClaim WITH holder <- [m \in Mail |-> Holder(m)]

\* Every step of the outbox is a step of a send claim, or changes none.
KeepsPromise == Promise!Spec
=============================================================================
