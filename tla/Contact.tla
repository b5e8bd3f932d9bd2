------------------------------ MODULE Contact ------------------------------
(***************************************************************************)
(* The owner's mail about a contact message (contact_service.py): the      *)
(* message's own row is the queue. A drain selects a batch of rows without *)
(* a lock, then claims, sends and marks one row after the other; the claim *)
(* is a lease of five minutes, taken under a row lock and committed before *)
(* the send. Two instances of the program may drain at once while one      *)
(* replaces the other. A template may be there and still not render, for   *)
(* the locale of some messages: that error is nobody's but the loop's,     *)
(* which logs it and goes on to the next row.                              *)
(***************************************************************************)
EXTENDS Integers, FiniteSets, FiniteSetsExt, SequencesExt

CONSTANTS
    Message,        \* ids of contact_messages
    Drainer,        \* instances of the program that drain
    Unrenderable,   \* messages whose rendering raises, other than for no template
    Response,       \* what rendering and the provider may answer
    MAX_CONTACT_EMAIL_ATTEMPTS,
    MaxFault        \* bound: crashes and failed updates

\* What the constants must satisfy; the MC module assumes it.
ContactAssumption ==
    /\ Message \subseteq Nat /\ Unrenderable \subseteq Message /\ MaxFault \in Nat
    /\ MAX_CONTACT_EMAIL_ATTEMPTS \in Nat \ {0}

VARIABLES
    mail,      \* contact_messages
    drainer,   \* drains under way
    delivered, \* how often the provider accepted each message (history)
    faults     \* crashes and failed updates so far

contactVars == <<mail, drainer, delivered, faults>>

Settled == {"sent", "failed_permanent", "skipped_suppressed", "deleted"}
MailRow == [status : {"unused", "queued", "in_flight", "failed"} \cup Settled,
            attempts : 0..MAX_CONTACT_EMAIL_ATTEMPTS,
            due : BOOLEAN,      \* email_next_attempt_at has come
            leased : BOOLEAN]   \* email_claimed_until has not
Resting == [stage |-> "resting", todo |-> <<>>]
DrainRow == {Resting} \cup
    [stage : {"sweeping", "claimed"}, todo : Seq(Message), attempts : Nat] \cup
    [stage : {"answered"}, todo : Seq(Message), attempts : Nat, outcome : Response]

ContactTypeOK ==
    /\ mail \in [Message -> MailRow]
    /\ drainer \in [Drainer -> DrainRow]
    /\ delivered \in [Message -> Nat]
    /\ faults \in 0..MaxFault

ContactInit ==
    /\ mail = [i \in Message |-> [status |-> "unused", attempts |-> 0, due |-> TRUE,
                                  leased |-> FALSE]]
    /\ drainer = [w \in Drainer |-> Resting]
    /\ delivered = [i \in Message |-> 0]
    /\ faults = 0

\* create_contact_message, a submission without the honeypot field filled in.
Submit(i) ==
    /\ mail[i].status = "unused"
    /\ mail' = [mail EXCEPT ![i].status = "queued"]
    /\ UNCHANGED <<drainer, delivered, faults>>

\* cleanup_old_contact_messages, whatever state the row is in.
DeleteOld(i) ==
    /\ mail[i].status \notin {"unused", "deleted"}
    /\ mail' = [mail EXCEPT ![i] = [status |-> "deleted", attempts |-> 0, due |-> TRUE,
                                     leased |-> FALSE]]
    /\ UNCHANGED <<drainer, delivered, faults>>

BackoffPasses(i) ==
    /\ mail[i].status = "failed" /\ ~mail[i].due
    /\ mail' = [mail EXCEPT ![i].due = TRUE]
    /\ UNCHANGED <<drainer, delivered, faults>>

At(w) == Head(drainer[w].todo)
Holds(w, i) == drainer[w].stage \in {"claimed", "answered"} /\ At(w) = i

\* Five minutes pass. One send takes less: only a row nobody works on any
\* more is still leased by then.
LeaseRunsOut(i) ==
    /\ mail[i].status = "in_flight" /\ mail[i].leased
    /\ \A w \in Drainer : ~Holds(w, i)
    /\ mail' = [mail EXCEPT ![i].leased = FALSE]
    /\ UNCHANGED <<drainer, delivered, faults>>

(***************************************************************************)
(* drain_contact_message_emails.                                           *)
(***************************************************************************)
Waiting(i) == \/ mail[i].status \in {"queued", "failed"} /\ mail[i].due
              \/ mail[i].status = "in_flight" /\ ~mail[i].leased

Selectable(i) == mail[i].attempts < MAX_CONTACT_EMAIL_ATTEMPTS /\ Waiting(i)

Claimable(i) == Waiting(i)

Sweeping(ids) == IF ids = <<>> THEN Resting
                 ELSE [stage |-> "sweeping", todo |-> ids, attempts |-> 0]

Select(w) ==
    /\ drainer[w] = Resting
    /\ {i \in Message : Selectable(i)} # {}
    /\ drainer' = [drainer EXCEPT ![w] =
           Sweeping(SetToSortSeq({i \in Message : Selectable(i)}, <))]
    /\ UNCHANGED <<mail, delivered, faults>>

Rest(w) == Sweeping(Tail(drainer[w].todo))

Claim(w) ==
    /\ drainer[w].stage = "sweeping"
    /\ IF Claimable(At(w))
       THEN /\ mail' = [mail EXCEPT ![At(w)].status = "in_flight", ![At(w)].leased = TRUE]
            /\ drainer' = [drainer EXCEPT ![w].stage = "claimed",
                                          ![w].attempts = mail[At(w)].attempts]
       ELSE /\ drainer' = [drainer EXCEPT ![w] = Rest(w)]
            /\ UNCHANGED mail
    /\ UNCHANGED <<delivered, faults>>

\* Rendering and the provider's answer, with no transaction open. Without a
\* recipient nothing is rendered.
Answer(w, o) ==
    /\ drainer[w].stage = "claimed"
    /\ At(w) \in Unrenderable => o = "no_recipient"
    /\ drainer' = [drainer EXCEPT ![w] =
           [stage |-> "answered", todo |-> @.todo, attempts |-> @.attempts, outcome |-> o]]
    /\ delivered' = IF o = "accepted" THEN [delivered EXCEPT ![At(w)] = @ + 1] ELSE delivered
    /\ UNCHANGED <<mail, faults>>

\* The error leaves _process_contact_row before anything is marked: the row is
\* in flight, with its attempts, until the lease is over.
RenderFails(w) ==
    /\ drainer[w].stage = "claimed" /\ At(w) \in Unrenderable
    /\ drainer' = [drainer EXCEPT ![w] = Rest(w)]
    /\ UNCHANGED <<mail, delivered, faults>>

\* Fault: a failure is not counted as an attempt.
AttemptsUncounted(o, n) == n

AttemptsAfter(o, n) == IF o = "no_recipient" THEN n ELSE n + 1

StatusAfter(o, attempts) ==
    CASE o = "accepted" -> "sent"
      [] o = "no_recipient" -> "skipped_suppressed"
      [] o = "permanent" -> "failed_permanent"    \* also a missing template
      [] o = "transient" ->                       \* also an unexpected error
            IF attempts >= MAX_CONTACT_EMAIL_ATTEMPTS THEN "failed_permanent" ELSE "failed"

\* _mark_contact_email: nothing to update when the row was deleted meanwhile.
Mark(w) ==
    LET i == At(w)
        n == AttemptsAfter(drainer[w].outcome, drainer[w].attempts)
        to == StatusAfter(drainer[w].outcome, n) IN
    /\ drainer[w].stage = "answered"
    /\ mail' = IF mail[i].status = "deleted" THEN mail
               ELSE [mail EXCEPT ![i] = [status |-> to, attempts |-> n,
                                         due |-> to # "failed", leased |-> FALSE]]
    /\ drainer' = [drainer EXCEPT ![w] = Rest(w)]
    /\ UNCHANGED <<delivered, faults>>

Fault == faults < MaxFault /\ faults' = faults + 1 /\ UNCHANGED <<mail, delivered>>

\* The update fails: the row stays in flight, the drain goes on.
MarkFails(w) ==
    /\ drainer[w].stage = "answered"
    /\ drainer' = [drainer EXCEPT ![w] = Rest(w)]
    /\ Fault

Crash(w) ==
    /\ drainer[w] # Resting
    /\ drainer' = [drainer EXCEPT ![w] = Resting]
    /\ Fault

\* Time passes.
Waits(i) == BackoffPasses(i) \/ LeaseRunsOut(i)

Drain(w) ==
    Select(w) \/ Claim(w) \/ (\E o \in Response : Answer(w, o)) \/ RenderFails(w) \/ Mark(w)

ContactNext ==
    \/ \E i \in Message : Submit(i) \/ DeleteOld(i) \/ Waits(i)
    \/ \E w \in Drainer : Drain(w) \/ MarkFails(w) \/ Crash(w)

\* The drain is a loop of the program, and time passes; nobody need delete.
ContactFairness ==
    /\ \A w \in Drainer : WF_contactVars(Drain(w))
    /\ \A i \in Message : WF_contactVars(Waits(i))

ContactSpec == ContactInit /\ [][ContactNext]_contactVars /\ ContactFairness

(***************************************************************************)
(* What the queue promises.                                                *)
(***************************************************************************)
Settles(i) == (mail[i].status = "queued") ~> (mail[i].status \in Settled)

\* Every message that can be rendered is eventually mailed, or given up,
\* whatever the provider answers and wherever an instance dies: a row left in
\* flight is taken up again when its lease is over, failures end at the last
\* attempt, and a message that cannot be rendered holds up nobody else's mail.
ContactSettles == \A i \in Message \ Unrenderable : Settles(i)

\* Not kept by the code (see the README): nor does one that cannot be rendered
\* stay for ever, tried again after every lease.
EveryMessageSettles == \A i \in Message : Settles(i)

\* The owner gets a message twice only when the program failed between the
\* provider's answer and the mark: two overlapping drains that selected the
\* same row do not both send it.
NoNeedlessMail == \A i \in Message : delivered[i] <= 1 + faults

=============================================================================
