--------------------------- MODULE Background_proofs ---------------------------
(***************************************************************************)
(* Proofs about the loops and scripts of MCBackground.  EmailOutbox: type  *)
(* correctness, the mutual exclusion of the senders of an email, that only *)
(* a lost answer makes it go out again, and the refinement of SendClaim.   *)
(* Analytics: what was accepted stays in the log.  SiteMedia: what a slot  *)
(* shows can be fetched.  All for any number of emails, workers, events,   *)
(* threads, sections, attempts and crashes.                                *)
(***************************************************************************)
EXTENDS MCBackground, TLAPS

Busy == {"read", "sending"} \cup Answer
Sending == {"sending"} \cup Answer

\* A worker that processes a row has a row to process.
RowsExist ==
    \A w \in Worker : worker[w].op \in Busy => row[worker[w].row] \in EmailRow

\* Whoever sends an email holds its claim, and nobody else sends it.
ClaimHeld ==
    \A m \in Mail, w \in Worker : Sender(m, w) => claim[m] = "in_flight"

Inv == TypeOK /\ RowsExist /\ ClaimHeld /\ OneSender

-----------------------------------------------------------------------------
(* Lemmas about the sweeper's records.                                     *)

LEMMA WorkerKinds ==
    ASSUME TypeOK, NEW w \in Worker
    PROVE  /\ worker[w].op \in Busy => worker[w] \in Reading
           /\ worker[w].op = "draining" => worker[w] \in Draining
           /\ worker[w].op \in Busy \cup {"draining", "asleep"}
  BY DEF TypeOK, Busy, Reading, Draining, Asleep, Answer

LEMMA RowKinds ==
    ASSUME TypeOK, NEW i \in RowId, row[i].status /= "absent"
    PROVE  row[i] \in EmailRow
  BY DEF TypeOK, NoRow

LEMMA AfterType ==
    ASSUME TypeOK, NEW w \in Worker, NEW i,
           worker[w].op \in Busy \cup {"draining"}
    PROVE  /\ After(w, i) \in Draining \cup {Asleep}
           /\ After(w, i).op \in {"draining", "asleep"}
<1>1. worker[w].batch \subseteq RowId
  BY WorkerKinds DEF Reading, Draining
<1>2. [op |-> "draining", batch |-> worker[w].batch \ {i}] \in Draining
  BY <1>1 DEF Draining
<1> QED
  BY <1>2 DEF After, Asleep

LEMMA OutcomeType ==
    ASSUME NEW r \in EmailRow, NEW answer \in Answer, NEW read \in Nat
    PROVE  /\ Outcome(r, answer, read) \in EmailRow
           /\ Outcome(r, answer, read).mail = r.mail
<1> DEFINE s == IF answer = "accepted" THEN "sent"
                ELSE IF answer = "transient" /\ read + 1 < MaxAttempts
                     THEN "failed" ELSE "failed_permanent"
           d == ~(answer = "transient" /\ read + 1 < MaxAttempts)
<1>1. s \in RowStatus /\ d \in BOOLEAN /\ read + 1 \in Nat
  BY DEF RowStatus
<1>2. Outcome(r, answer, read) =
          [status |-> s, mail |-> r.mail, attempts |-> read + 1, due |-> d]
  BY DEF Outcome
<1> HIDE DEF s, d
<1> QED
  BY <1>1, <1>2 DEF EmailRow

-----------------------------------------------------------------------------
(* Steps that leave every sender where it is.                              *)

LEMMA SendersKept ==
    ASSUME Inv, TypeOK',
           \A w \in Worker : worker'[w].op \in Busy =>
               /\ row'[worker'[w].row] \in EmailRow
               /\ worker'[w].op \in Sending =>
                      /\ worker[w].op \in Sending
                      /\ row'[worker'[w].row].mail = row[worker[w].row].mail,
           \A m \in Mail : claim[m] = "in_flight" =>
               \/ claim'[m] = "in_flight"
               \/ \A w \in Worker : ~Sender(m, w)
    PROVE  Inv'
<1>1. RowsExist'
  BY DEF RowsExist
<1>2. \A m \in Mail, w \in Worker : Sender(m, w)' => Sender(m, w)
  BY DEF Sender, Sending, Busy
<1>3. ClaimHeld'
  BY <1>2 DEF ClaimHeld, Inv
<1>4. OneSender'
  BY <1>2 DEF OneSender, Inv
<1> QED
  BY <1>1, <1>3, <1>4 DEF Inv

LEMMA QueueInv ==
    ASSUME OutboxAssumption, Inv, NEW i \in RowId, NEW m \in Mail, Queue(i, m)
    PROVE  Inv'
<1> DEFINE r == [status |-> "queued", mail |-> m, attempts |-> 0, due |-> TRUE]
<1>1. r \in EmailRow
  BY DEF EmailRow, RowStatus
<1>2. TypeOK'
  BY <1>1 DEF Queue, Inv, TypeOK
<1>3. \A w \in Worker : worker[w].op \in Busy =>
          worker[w].row \in RowId /\ worker[w].row /= i
  BY WorkerKinds DEF Queue, Inv, RowsExist, Reading, EmailRow, RowStatus
<1>4. \A w \in Worker : worker[w].op \in Busy =>
          row'[worker[w].row] = row[worker[w].row]
  BY <1>3 DEF Queue, Inv, TypeOK
<1> QED
  BY <1>2, <1>4, SendersKept DEF Queue, Inv, RowsExist, Busy, Sending

LEMMA BackoffInv ==
    ASSUME Inv, NEW i \in RowId, BackoffPasses(i)
    PROVE  Inv'
<1>1. row[i] \in EmailRow
  BY RowKinds DEF BackoffPasses, Inv
<1>2. row'[i] \in EmailRow /\ row'[i].mail = row[i].mail
  BY <1>1 DEF BackoffPasses, Inv, TypeOK, EmailRow
<1>3. \A j \in RowId \ {i} : row'[j] = row[j]
  BY DEF BackoffPasses, Inv, TypeOK
<1>4. TypeOK'
  BY <1>1, <1>2 DEF BackoffPasses, Inv, TypeOK, EmailRow
<1>5. \A w \in Worker : worker[w].op \in Busy =>
          /\ row'[worker[w].row] \in EmailRow
          /\ row'[worker[w].row].mail = row[worker[w].row].mail
  BY <1>2, <1>3, WorkerKinds DEF Inv, RowsExist, Reading
<1> QED
  BY <1>4, <1>5, SendersKept DEF BackoffPasses, Inv, Busy, Sending

LEMMA ShopInv ==
    ASSUME OutboxAssumption, Inv, ShopNext
    PROVE  Inv'
<1>1. ASSUME NEW m \in Mail, Suppress(m) PROVE Inv'
  <2>1. TypeOK'
    BY <1>1 DEF Suppress, Inv, TypeOK
  <2> QED
    BY <1>1, <2>1, SendersKept DEF Suppress, Inv, RowsExist, Busy, Sending
<1>2. ASSUME NEW m \in Mail, LeaseExpires(m) PROVE Inv'
  <2>1. TypeOK'
    BY <1>2 DEF LeaseExpires, Inv, TypeOK
  <2>2. \A n \in Mail : claim'[n] = claim[n] \/ n = m
    BY <1>2 DEF LeaseExpires, Inv, TypeOK
  <2> QED
    BY <1>2, <2>1, <2>2, SendersKept
       DEF LeaseExpires, Inv, RowsExist, Busy, Sending
<1> QED
  BY <1>1, <1>2, QueueInv, BackoffInv DEF ShopNext

-----------------------------------------------------------------------------
(* Steps of a sweeper.                                                     *)

LEMMA StartDrainInv ==
    ASSUME Inv, NEW w \in Worker, StartDrain(w)
    PROVE  Inv'
<1> DEFINE batch == {i \in RowId : Eligible(i)}
<1>1. [op |-> "draining", batch |-> batch] \in Draining
  BY DEF Draining
<1>2. worker' = [worker EXCEPT ![w] = [op |-> "draining", batch |-> batch]]
  BY DEF StartDrain
<1> HIDE DEF batch
<1>3. worker'[w].op = "draining"
      /\ \A v \in Worker \ {w} : worker'[v] = worker[v]
  BY <1>2 DEF Inv, TypeOK
<1>4. TypeOK'
  BY <1>1, <1>2 DEF StartDrain, Inv, TypeOK
<1> QED
  BY <1>3, <1>4, SendersKept
     DEF StartDrain, Inv, RowsExist, Busy, Sending, Answer

LEMMA ReadRowInv ==
    ASSUME Inv, NEW w \in Worker, NEW i \in RowId, ReadRow(w, i)
    PROVE  Inv'
<1> DEFINE q == [op |-> "read", batch |-> worker[w].batch, row |-> i,
                 attempts |-> row[i].attempts]
<1>1. worker[w] \in Draining
  BY WorkerKinds DEF ReadRow, Inv
<1>2. CASE Pending(i)
  <2>1. row[i] \in EmailRow
    BY <1>2, RowKinds DEF Pending, Inv
  <2>2. q \in Reading /\ q.op = "read" /\ q.row = i
    BY <1>1, <2>1 DEF Reading, Draining, EmailRow
  <2>3. worker' = [worker EXCEPT ![w] = q]
    BY <1>2 DEF ReadRow
  <2> HIDE DEF q
  <2>4. worker'[w] = q /\ \A v \in Worker \ {w} : worker'[v] = worker[v]
    BY <2>3 DEF Inv, TypeOK
  <2>5. TypeOK'
    BY <2>2, <2>3 DEF ReadRow, Inv, TypeOK
  <2> QED
    BY <2>1, <2>2, <2>4, <2>5, SendersKept
       DEF ReadRow, Inv, RowsExist, Busy, Sending, Answer
<1>3. CASE ~Pending(i)
  <2>1. After(w, i) \in Draining \cup {Asleep}
        /\ After(w, i).op \in {"draining", "asleep"}
    BY AfterType DEF ReadRow, Inv
  <2>2. worker' = [worker EXCEPT ![w] = After(w, i)]
    BY <1>3 DEF ReadRow
  <2>3. worker'[w] = After(w, i)
        /\ \A v \in Worker \ {w} : worker'[v] = worker[v]
    BY <2>2 DEF Inv, TypeOK
  <2>4. TypeOK'
    BY <2>1, <2>2 DEF ReadRow, Inv, TypeOK
  <2> QED
    BY <2>1, <2>3, <2>4, SendersKept
       DEF ReadRow, Inv, RowsExist, Busy, Sending, Answer
<1> QED
  BY <1>2, <1>3

\* An email is claimed only when its claim is free, so it has no sender.
LEMMA ClaimRowInv ==
    ASSUME Inv, NEW w \in Worker, ClaimRow(w)
    PROVE  Inv'
<1> DEFINE i == worker[w].row
           m == row[i].mail
           q == [op |-> "sending", batch |-> worker[w].batch, row |-> i,
                 attempts |-> worker[w].attempts]
<1>1. worker[w] \in Reading /\ i \in RowId /\ row[i] \in EmailRow
      /\ m \in Mail
  BY WorkerKinds DEF ClaimRow, Inv, RowsExist, Busy, Reading, EmailRow
<1>2. CASE Verdict(m) = "claim"
  <2>1. claim[m] /= "in_flight"
    BY <1>2 DEF Verdict, Claimable
  <2>2. /\ row' = row
        /\ claim' = [claim EXCEPT ![m] = "in_flight"]
        /\ worker' = [worker EXCEPT ![w] = q]
    BY <1>2 DEF ClaimRow, RowStatus
  <2>3. q \in Reading /\ q.op = "sending" /\ q.row = i
    BY <1>1 DEF Reading
  <2> HIDE DEF q
  <2>4. worker'[w] = q /\ \A v \in Worker \ {w} : worker'[v] = worker[v]
    BY <2>2 DEF Inv, TypeOK
  <2>5. TypeOK'
    BY <1>1, <2>2, <2>3 DEF ClaimRow, Inv, TypeOK
  <2>6. RowsExist'
    BY <1>1, <2>2, <2>3, <2>4 DEF Inv, RowsExist
  <2>7. \A n \in Mail, v \in Worker :
            Sender(n, v)' => Sender(n, v) \/ (v = w /\ n = m)
    BY <2>2, <2>3, <2>4 DEF Sender
  <2>8. \A v \in Worker : ~Sender(m, v)
    BY <1>1, <2>1 DEF Inv, ClaimHeld
  <2>9. ClaimHeld'
    BY <1>1, <2>2, <2>7 DEF Inv, ClaimHeld, TypeOK
  <2>10. OneSender'
    BY <2>7, <2>8 DEF Inv, OneSender
  <2> QED
    BY <2>5, <2>6, <2>9, <2>10 DEF Inv
<1>3. CASE Verdict(m) /= "claim"
  <2>1. /\ claim' = claim
        /\ worker' = [worker EXCEPT ![w] = After(w, i)]
    BY <1>3 DEF ClaimRow
  <2>2. After(w, i) \in Draining \cup {Asleep}
        /\ After(w, i).op \in {"draining", "asleep"}
    BY AfterType DEF ClaimRow, Inv, Busy
  <2>3. worker'[w] = After(w, i)
        /\ \A v \in Worker \ {w} : worker'[v] = worker[v]
    BY <2>1 DEF Inv, TypeOK
  <2>4. /\ row' \in [RowId -> EmailRow \cup {NoRow}]
        /\ \A j \in RowId : row[j] \in EmailRow =>
               row'[j] \in EmailRow /\ row'[j].mail = row[j].mail
    <3>1. CASE row' = row
      BY <3>1 DEF Inv, TypeOK
    <3>2. ASSUME NEW s \in RowStatus,
                 row' = [row EXCEPT ![i].status = s, ![i].due = TRUE]
          PROVE  <2>4
      <4>1. row'[i] \in EmailRow /\ row'[i].mail = row[i].mail
        BY <1>1, <3>2 DEF Inv, TypeOK, EmailRow
      <4>2. row' = [row EXCEPT ![i] = row'[i]]
        BY <3>2 DEF Inv, TypeOK
      <4> QED
        BY <1>1, <4>1, <4>2 DEF Inv, TypeOK
    <3> QED
      BY <1>3, <3>1, <3>2 DEF ClaimRow
  <2>5. TypeOK'
    BY <2>1, <2>2, <2>4 DEF ClaimRow, Inv, TypeOK
  <2>6. \A v \in Worker : worker'[v].op \in Busy =>
            /\ worker'[v] = worker[v]
            /\ row'[worker[v].row] \in EmailRow
            /\ row'[worker[v].row].mail = row[worker[v].row].mail
    BY <2>2, <2>3, <2>4, WorkerKinds
       DEF Inv, RowsExist, Busy, Reading, Answer
  <2> QED
    BY <2>1, <2>5, <2>6, SendersKept DEF Inv, Busy, Sending
<1> QED
  BY <1>2, <1>3

LEMMA ProviderInv ==
    ASSUME OutboxAssumption, Inv, NEW w \in Worker,
           ProviderAnswers(w) \/ ProviderFails(w)
    PROVE  Inv'
<1> DEFINE m == row[worker[w].row].mail
<1>1. worker[w].op = "sending" /\ worker[w] \in Reading /\ m \in Mail
  BY WorkerKinds
     DEF ProviderAnswers, ProviderFails, Inv, RowsExist, Busy, EmailRow
<1>2. PICK answer \in Answer : worker' = [worker EXCEPT ![w].op = answer]
  BY DEF ProviderAnswers, ProviderFails, Answer
<1>3. /\ worker'[w] \in Reading
      /\ worker'[w].row = worker[w].row
      /\ worker'[w].op = answer
      /\ \A v \in Worker \ {w} : worker'[v] = worker[v]
  BY <1>1, <1>2 DEF Inv, TypeOK, Reading
<1>4. worker' = [worker EXCEPT ![w] = worker'[w]]
  BY <1>2 DEF Inv, TypeOK
<1>5. TypeOK'
  BY <1>1, <1>3, <1>4
     DEF ProviderAnswers, ProviderFails, Inv, TypeOK, OutboxAssumption
<1> QED
  BY <1>1, <1>3, <1>5, SendersKept
     DEF ProviderAnswers, ProviderFails, Inv, RowsExist, Busy, Sending

LEMMA RecordInv ==
    ASSUME Inv, NEW w \in Worker, Record(w)
    PROVE  Inv'
<1> DEFINE i == worker[w].row
           m == row[i].mail
           answer == worker[w].op
<1>1. /\ answer \in Answer /\ i \in RowId /\ row[i] \in EmailRow /\ m \in Mail
      /\ worker[w].attempts \in Nat
  BY WorkerKinds DEF Record, Inv, RowsExist, Busy, Reading, EmailRow
<1>2. row'[i] \in EmailRow /\ row'[i].mail = m
      /\ \A j \in RowId \ {i} : row'[j] = row[j]
  <2>1. /\ Outcome(row[i], answer, worker[w].attempts) \in EmailRow
        /\ Outcome(row[i], answer, worker[w].attempts).mail = m
    BY <1>1, OutcomeType
  <2>2. /\ [row[i] EXCEPT !.status = "skipped_duplicate"] \in EmailRow
        /\ [row[i] EXCEPT !.status = "skipped_duplicate"].mail = m
    BY <1>1 DEF EmailRow, RowStatus
  <2> QED
    BY <1>1, <2>1, <2>2 DEF Record, Inv, TypeOK
<1>3. row' = [row EXCEPT ![i] = row'[i]]
  BY <1>1, <1>2 DEF Record, Inv, TypeOK
<1>4. After(w, i) \in Draining \cup {Asleep}
      /\ After(w, i).op \in {"draining", "asleep"}
  BY AfterType, <1>1 DEF Inv, Busy
<1>5. worker' = [worker EXCEPT ![w] = After(w, i)]
  BY DEF Record
<1>6. worker'[w] = After(w, i)
      /\ \A v \in Worker \ {w} : worker'[v] = worker[v]
  BY <1>5 DEF Inv, TypeOK
<1>7. Released(answer) \in {"sent", "failed"}
  BY DEF Released
<1>8. TypeOK'
  <2>1. row' \in [RowId -> EmailRow \cup {NoRow}]
    BY <1>1, <1>2, <1>3 DEF Inv, TypeOK
  <2>2. claim' \in [Mail -> {"none", "in_flight", "expired", "failed", "sent"}]
    BY <1>7 DEF Record, Inv, TypeOK
  <2>3. worker' \in [Worker -> Draining \cup Reading \cup {Asleep}]
    BY <1>4, <1>5 DEF Inv, TypeOK
  <2>4. failures' \in [RowId -> Nat]
    <3>1. failures[i] \in Nat /\ failures[i] + 1 \in Nat
      BY <1>1 DEF Inv, TypeOK
    <3> QED
      BY <1>1, <3>1 DEF Record, Inv, TypeOK
  <2> QED
    BY <2>1, <2>2, <2>3, <2>4 DEF Record, Inv, TypeOK
<1>9. \A v \in Worker : worker'[v].op \in Busy =>
          /\ v /= w
          /\ worker'[v] = worker[v]
          /\ row'[worker[v].row] \in EmailRow
          /\ row'[worker[v].row].mail = row[worker[v].row].mail
  BY <1>1, <1>2, <1>4, <1>6, WorkerKinds
     DEF Inv, RowsExist, Busy, Reading, Answer
<1>10. RowsExist'
  BY <1>9 DEF RowsExist
<1>11. \A n \in Mail, v \in Worker : Sender(n, v)' => v /= w /\ Sender(n, v)
  BY <1>9 DEF Sender, Busy
<1>12. Sender(m, w)
  BY <1>1 DEF Sender
<1>13. \A n \in Mail, v \in Worker : n = m => ~Sender(n, v)'
  BY <1>1, <1>11, <1>12 DEF Inv, OneSender
<1>14. \A n \in Mail : n /= m => claim'[n] = claim[n]
  BY DEF Record, Inv, TypeOK
<1>15. ClaimHeld'
  BY <1>11, <1>13, <1>14 DEF Inv, ClaimHeld
<1>16. OneSender'
  BY <1>11 DEF Inv, OneSender
<1> QED
  BY <1>8, <1>10, <1>15, <1>16 DEF Inv

LEMMA CrashInv ==
    ASSUME OutboxAssumption, Inv, NEW w \in Worker, Crash(w)
    PROVE  Inv'
<1>1. unanswered' \in [Mail -> Nat]
  <2>1. CASE worker[w].op = "accepted"
    <3> DEFINE m == row[worker[w].row].mail
    <3>1. m \in Mail
      BY <2>1 DEF Inv, RowsExist, Busy, Answer, EmailRow
    <3>2. unanswered' = [unanswered EXCEPT ![m] = @ + 1]
      BY <2>1 DEF Crash
    <3> HIDE DEF m
    <3>3. unanswered[m] + 1 \in Nat
      BY <3>1 DEF Inv, TypeOK
    <3> QED
      BY <3>1, <3>2, <3>3 DEF Inv, TypeOK
  <2>2. CASE worker[w].op /= "accepted"
    BY <2>2 DEF Crash, Inv, TypeOK
  <2> QED
    BY <2>1, <2>2
<1>2. TypeOK'
  BY <1>1 DEF Crash, Inv, TypeOK, OutboxAssumption
<1>3. worker'[w] = Asleep /\ \A v \in Worker \ {w} : worker'[v] = worker[v]
  BY DEF Crash, Inv, TypeOK
<1> QED
  BY <1>2, <1>3, SendersKept
     DEF Crash, Inv, RowsExist, Busy, Sending, Asleep, Answer

LEMMA NextInv ==
    ASSUME OutboxAssumption, Inv, [Next]_vars
    PROVE  Inv'
<1>1. CASE UNCHANGED vars
  BY <1>1 DEF vars, Inv, TypeOK, RowsExist, ClaimHeld, OneSender, Sender
<1>2. CASE Next
  BY <1>2, ShopInv, StartDrainInv, ReadRowInv, ClaimRowInv, ProviderInv,
     RecordInv, CrashInv DEF Next, SweeperNext
<1> QED
  BY <1>1, <1>2

LEMMA InitInv ==
    ASSUME OutboxAssumption, Init
    PROVE  Inv
<1>1. TypeOK
  BY DEF Init, TypeOK, OutboxAssumption, NoRow, Asleep
<1>2. \A w \in Worker : worker[w].op = "asleep"
  BY DEF Init, Asleep
<1> QED
  BY <1>1, <1>2
     DEF Inv, RowsExist, ClaimHeld, OneSender, Sender, Busy, Answer

THEOREM OutboxInvariant == Spec => []Inv
<1>1. Init => Inv
  BY InitInv, OutboxAssumption
<1>2. Inv /\ [Next]_vars => Inv'
  BY NextInv, OutboxAssumption
<1> QED
  BY <1>1, <1>2, PTL DEF Spec

\* Every variable of the outbox keeps its type.
THEOREM OutboxTypeCorrect == Spec => []TypeOK
<1>1. Inv => TypeOK
  BY DEF Inv
<1> QED
  BY <1>1, OutboxInvariant, PTL

\* However many workers drain the outbox, whatever they have read before and
\* whenever they crash, an email is never sent by two workers at a time.
THEOREM ClaimsExclude == Spec => []OneSender
<1>1. Inv => OneSender
  BY DEF Inv
<1> QED
  BY <1>1, OutboxInvariant, PTL

-----------------------------------------------------------------------------
(* The outbox implements SendClaim.                                        *)


\* The holder of an email is its sender; without one its claim decides.
HolderIsSender ==
    \A m \in Mail :
        /\ \A w \in Worker : Sender(m, w) => Holder(m) = w
        /\ (\A w \in Worker : ~Sender(m, w)) =>
               /\ claim[m] = "sent" => Holder(m) = "closed"
               /\ claim[m] = "in_flight" => Holder(m) = "abandoned"
               /\ claim[m] \notin {"sent", "in_flight"} => Holder(m) = "nobody"

LEMMA HolderNow == Inv => HolderIsSender
<1> SUFFICES ASSUME Inv, NEW m \in Mail
             PROVE  /\ \A w \in Worker : Sender(m, w) => Holder(m) = w
                    /\ (\A w \in Worker : ~Sender(m, w)) =>
                         /\ claim[m] = "sent" => Holder(m) = "closed"
                         /\ claim[m] = "in_flight" => Holder(m) = "abandoned"
                         /\ claim[m] \notin {"sent", "in_flight"} =>
                                Holder(m) = "nobody"
  BY DEF HolderIsSender
<1>1. ASSUME NEW w \in Worker, Sender(m, w) PROVE Holder(m) = w
  <2>1. claim[m] = "in_flight"
    BY <1>1 DEF Inv, ClaimHeld
  <2>2. \A v \in Worker : Sender(m, v) <=> v = w
    BY <1>1 DEF Inv, OneSender
  <2>3. (CHOOSE v \in Worker : Sender(m, v)) = w
    BY <1>1, <2>2
  <2> QED
    BY <1>1, <2>1, <2>3 DEF Holder
<1>2. claim[m] \in {"none", "in_flight", "expired", "failed", "sent"}
  BY DEF Inv, TypeOK
<1> QED
  BY <1>1, <1>2 DEF Holder

LEMMA HolderThen == Inv' => HolderIsSender'
  BY HolderNow, PTL

\* An email whose claim and sender stay keeps its holder.
LEMMA HolderKept ==
    ASSUME Inv, Inv', NEW m \in Mail, claim'[m] = claim[m],
           \A w \in Worker : Sender(m, w)' <=> Sender(m, w)
    PROVE  Holder(m)' = Holder(m)
<1>1. CASE \E w \in Worker : Sender(m, w)
  BY <1>1, HolderNow, HolderThen DEF HolderIsSender
<1>2. CASE \A w \in Worker : ~Sender(m, w)
  BY <1>2, HolderNow, HolderThen DEF HolderIsSender
<1> QED
  BY <1>1, <1>2

Held == [m \in Mail |-> Holder(m)]

LEMMA HeldKept ==
    ASSUME Inv, Inv', claim' = claim,
           \A m \in Mail, w \in Worker : Sender(m, w)' <=> Sender(m, w)
    PROVE  Held' = Held
  BY HolderKept DEF Held

\* A step that changes the holder of one email only.
LEMMA HeldChanged ==
    ASSUME Inv, Inv', NEW m \in Mail,
           \A n \in Mail \ {m} : claim'[n] = claim[n],
           \A n \in Mail \ {m}, w \in Worker : Sender(n, w)' <=> Sender(n, w)
    PROVE  Held' = [Held EXCEPT ![m] = Holder(m)']
  BY HolderKept DEF Held

LEMMA SendersSame ==
    ASSUME \A v \in Worker :
               /\ worker'[v].op \in Sending <=> worker[v].op \in Sending
               /\ worker[v].op \in Sending =>
                      row'[worker'[v].row].mail = row[worker[v].row].mail
    PROVE  \A m \in Mail, w \in Worker : Sender(m, w)' <=> Sender(m, w)
  BY DEF Sender, Sending

\* Queueing, bounces and backoff change no holder.
LEMMA QuietShop ==
    ASSUME Inv, Inv',
           \/ \E i \in RowId, m \in Mail : Queue(i, m)
           \/ \E m \in Mail : Suppress(m)
           \/ \E i \in RowId : BackoffPasses(i)
    PROVE  Held' = Held
<1>1. ASSUME NEW i \in RowId, NEW m \in Mail, Queue(i, m) PROVE Held' = Held
  <2>1. \A v \in Worker : worker[v].op \in Sending =>
            row'[worker[v].row] = row[worker[v].row]
    BY <1>1, WorkerKinds
       DEF Queue, Inv, TypeOK, RowsExist, Busy, Sending, Reading, EmailRow,
           RowStatus
  <2> QED
    BY <1>1, <2>1, HeldKept, SendersSame DEF Queue
<1>2. ASSUME NEW m \in Mail, Suppress(m) PROVE Held' = Held
  BY <1>2, HeldKept, SendersSame DEF Suppress
<1>3. ASSUME NEW i \in RowId, BackoffPasses(i) PROVE Held' = Held
  <2>1. row[i] \in EmailRow
    BY <1>3, RowKinds DEF BackoffPasses, Inv
  <2>2. \A j \in RowId : row'[j].mail = row[j].mail
    BY <1>3, <2>1 DEF BackoffPasses, Inv, TypeOK, EmailRow
  <2>3. \A v \in Worker : worker[v].op \in Sending => worker[v].row \in RowId
    BY WorkerKinds DEF Inv, Sending, Busy, Reading
  <2> QED
    BY <1>3, <2>2, <2>3, HeldKept, SendersSame DEF BackoffPasses
<1> QED
  BY <1>1, <1>2, <1>3

\* Nor do selecting and reading rows, and the answer of the provider.
LEMMA QuietSweeper ==
    ASSUME Inv, Inv', NEW w \in Worker,
           \/ StartDrain(w)
           \/ \E i \in RowId : ReadRow(w, i)
           \/ ProviderAnswers(w) \/ ProviderFails(w)
    PROVE  Held' = Held
<1>1. CASE StartDrain(w)
  <2>1. worker[w].op = "asleep" /\ worker'[w].op = "draining"
        /\ \A v \in Worker \ {w} : worker'[v] = worker[v]
    BY <1>1 DEF StartDrain, Inv, TypeOK, Asleep
  <2> QED
    BY <1>1, <2>1, HeldKept, SendersSame DEF StartDrain, Sending, Answer
<1>2. ASSUME NEW i \in RowId, ReadRow(w, i) PROVE Held' = Held
  <2>1. After(w, i).op \in {"draining", "asleep"}
    BY <1>2, AfterType DEF ReadRow, Inv
  <2>2. worker[w].op = "draining" /\ worker'[w].op \in {"read", "draining", "asleep"}
        /\ \A v \in Worker \ {w} : worker'[v] = worker[v]
    BY <1>2, <2>1 DEF ReadRow, Inv, TypeOK
  <2> QED
    BY <1>2, <2>2, HeldKept, SendersSame DEF ReadRow, Sending, Answer
<1>3. CASE ProviderAnswers(w) \/ ProviderFails(w)
  <2>1. worker[w] \in Reading
    BY <1>3, WorkerKinds DEF ProviderAnswers, ProviderFails, Inv, Busy
  <2>2. PICK answer \in Answer : worker' = [worker EXCEPT ![w].op = answer]
    BY <1>3 DEF ProviderAnswers, ProviderFails, Answer
  <2>3. worker'[w].op \in Answer /\ worker'[w].row = worker[w].row
        /\ \A v \in Worker \ {w} : worker'[v] = worker[v]
    BY <2>1, <2>2 DEF Inv, TypeOK, Reading
  <2> QED
    BY <1>3, <2>3, HeldKept, SendersSame
       DEF ProviderAnswers, ProviderFails, Sending
<1> QED
  BY <1>1, <1>2, <1>3

LEMMA ClaimStep ==
    ASSUME Inv, Inv', NEW w \in Worker, ClaimRow(w)
    PROVE  [Promise!Next]_Held
<1> DEFINE i == worker[w].row
           v == Verdict(row[i].mail)
<1>1. PICK m \in Mail : m = row[i].mail
  BY DEF ClaimRow, Inv, RowsExist, Busy, EmailRow
<1>2. worker[w].op = "read" /\ worker[w] \in Reading /\ i \in RowId
      /\ row[i] \in EmailRow
  BY WorkerKinds DEF ClaimRow, Inv, RowsExist, Busy, Reading
<1>3. \A u \in Worker \ {w} : worker'[u] = worker[u]
  BY DEF ClaimRow, Inv, TypeOK
<1>4. CASE Verdict(m) = "claim"
  <2>1. claim[m] \notin {"sent", "in_flight"}
    BY <1>4 DEF Verdict, Claimable
  <2>2. /\ row' = row /\ claim' = [claim EXCEPT ![m] = "in_flight"]
        /\ worker'[w].op = "sending" /\ worker'[w].row = i
    BY <1>1, <1>4 DEF ClaimRow, RowStatus, Inv, TypeOK
  <2>3. /\ Sender(m, w)'
        /\ \A u \in Worker : ~Sender(m, u)
        /\ \A n \in Mail \ {m}, u \in Worker : Sender(n, u)' <=> Sender(n, u)
    BY <1>1, <1>2, <1>3, <2>1, <2>2 DEF Sender, Inv, ClaimHeld, Answer
  <2>4. Holder(m) = "nobody" /\ Holder(m)' = w
    BY <2>1, <2>3, HolderNow, HolderThen DEF HolderIsSender
  <2>5. Held' = [Held EXCEPT ![m] = w]
    BY <2>2, <2>3, <2>4, HeldChanged DEF Inv, TypeOK
  <2> QED
    BY <2>4, <2>5 DEF Promise!Next, Promise!Acquire, Held
<1>5. CASE Verdict(m) /= "claim"
  <2>1. claim' = claim /\ worker'[w].op \in {"draining", "asleep"}
    BY <1>1, <1>5, <1>2, AfterType DEF ClaimRow, Inv, TypeOK, Busy
  <2>2. \A j \in RowId : row[j] \in EmailRow => row'[j].mail = row[j].mail
    BY <1>2 DEF ClaimRow, Inv, TypeOK, EmailRow
  <2>3. \A u \in Worker : worker[u].op \in Sending =>
            row'[worker[u].row].mail = row[worker[u].row].mail
    BY <2>2, WorkerKinds DEF Inv, RowsExist, Sending, Busy, Reading
  <2> QED
    BY <1>2, <1>3, <2>1, <2>3, HeldKept, SendersSame DEF Sending, Answer
<1> QED
  BY <1>4, <1>5

\* The worker that records an outcome gives the email up.
LEMMA RecordStep ==
    ASSUME Inv, Inv', NEW w \in Worker, Record(w)
    PROVE  Promise!Next
<1> DEFINE i == worker[w].row
<1>1. PICK m \in Mail : m = row[i].mail
  BY DEF Record, Inv, RowsExist, Busy, EmailRow
<1>2. /\ worker[w].op \in Answer /\ worker[w] \in Reading /\ i \in RowId
      /\ Sender(m, w)
  BY <1>1, WorkerKinds DEF Record, Inv, Busy, Reading, Sender
<1>3. /\ claim'[m] \in {"sent", "failed"}
      /\ \A n \in Mail \ {m} : claim'[n] = claim[n]
  BY <1>1 DEF Record, Released, Inv, TypeOK
<1>4. /\ worker'[w].op \in {"draining", "asleep"}
      /\ \A v \in Worker \ {w} : worker'[v] = worker[v]
  BY <1>2, AfterType DEF Record, Inv, TypeOK, Busy
<1>5. \A j \in RowId \ {i} : row'[j] = row[j]
  BY DEF Record, Inv, TypeOK
<1>6. \A v \in Worker : ~Sender(m, v)'
  BY <1>3 DEF Inv, ClaimHeld
<1>7. Holder(m) = w /\ Holder(m)' \in {"nobody", "closed"}
  BY <1>2, <1>3, <1>6, HolderNow, HolderThen DEF HolderIsSender
<1>8. \A n \in Mail \ {m}, v \in Worker : Sender(n, v)' <=> Sender(n, v)
  <2>1. row[i].mail = m /\ row'[i].mail = m
    <3>1. Outcome(row[i], worker[w].op, worker[w].attempts).mail = row[i].mail
      BY DEF Outcome
    <3>2. [row[i] EXCEPT !.status = "skipped_duplicate"].mail = row[i].mail
      BY <1>2, WorkerKinds DEF Inv, RowsExist, Busy, EmailRow
    <3> QED
      BY <1>1, <1>2, <3>1, <3>2 DEF Record, Inv, TypeOK
  <2>2. \A v \in Worker : worker[v].op \in Sending => worker[v].row \in RowId
    BY WorkerKinds DEF Inv, Sending, Busy, Reading
  <2>3. worker'[w].op \notin Sending
    BY <1>4 DEF Sending, Answer
  <2>4. \A j \in RowId : row'[j].mail = row[j].mail
    BY <1>5, <2>1, <1>1
  <2> QED
    BY <1>1, <1>4, <2>1, <2>2, <2>3, <2>4 DEF Sender, Sending
<1>9. Held' = [Held EXCEPT ![m] = Holder(m)']
  BY <1>3, <1>8, HeldChanged
<1> QED
  BY <1>7, <1>9 DEF Promise!Next, Promise!Release, Held

\* A crash abandons the email its worker was sending, if any.
LEMMA CrashStep ==
    ASSUME Inv, Inv', NEW w \in Worker, Crash(w)
    PROVE  [Promise!Next]_Held
<1>1. /\ worker'[w].op = "asleep" /\ row' = row /\ claim' = claim
      /\ \A v \in Worker \ {w} : worker'[v] = worker[v]
  BY DEF Crash, Inv, TypeOK, Asleep
<1>2. CASE worker[w].op \in Sending
  <2>1. PICK m \in Mail : m = row[worker[w].row].mail
    BY <1>2 DEF Inv, RowsExist, Busy, Sending, EmailRow
  <2>2. Sender(m, w) /\ claim[m] = "in_flight"
    BY <1>2, <2>1 DEF Sender, Sending, Inv, ClaimHeld
  <2>3. /\ \A v \in Worker : ~Sender(m, v)'
        /\ \A n \in Mail \ {m}, v \in Worker : Sender(n, v)' <=> Sender(n, v)
    BY <1>1, <2>1, <2>2 DEF Sender, Answer, Inv, OneSender
  <2>4. Holder(m) = w /\ Holder(m)' = "abandoned"
    BY <1>1, <2>2, <2>3, HolderNow, HolderThen DEF HolderIsSender
  <2>5. Held' = [Held EXCEPT ![m] = "abandoned"]
    BY <1>1, <2>3, <2>4, HeldChanged
  <2> QED
    BY <2>4, <2>5 DEF Promise!Next, Promise!Abandon, Held
<1>3. CASE worker[w].op \notin Sending
  BY <1>1, <1>3, HeldKept, SendersSame DEF Sending, Answer
<1> QED
  BY <1>2, <1>3

\* The end of a lease frees an email whose sender is dead.
LEMMA LeaseStep ==
    ASSUME Inv, Inv', NEW m \in Mail, LeaseExpires(m)
    PROVE  Promise!Next
<1>1. /\ claim[m] = "in_flight" /\ claim'[m] = "expired"
      /\ \A n \in Mail \ {m} : claim'[n] = claim[n]
  BY DEF LeaseExpires, Inv, TypeOK
<1>2. /\ \A w \in Worker : ~Sender(m, w)
      /\ \A n \in Mail, w \in Worker : Sender(n, w)' <=> Sender(n, w)
  BY DEF LeaseExpires, Sender
<1>3. Holder(m) = "abandoned" /\ Holder(m)' = "nobody"
  BY <1>1, <1>2, HolderNow, HolderThen DEF HolderIsSender
<1>4. Held' = [Held EXCEPT ![m] = "nobody"]
  BY <1>1, <1>2, <1>3, HeldChanged
<1> QED
  BY <1>3, <1>4 DEF Promise!Next, Promise!Recover, Held

LEMMA PromiseStep ==
    ASSUME Inv, Inv', [Next]_vars
    PROVE  [Promise!Next]_Held
<1>1. CASE UNCHANGED vars
  BY <1>1, HeldKept, SendersSame DEF vars, Sender
<1>2. ASSUME NEW m \in Mail, LeaseExpires(m) PROVE Promise!Next
  BY <1>2, LeaseStep
<1>3. ASSUME NEW w \in Worker, ClaimRow(w) PROVE [Promise!Next]_Held
  BY <1>3, ClaimStep
<1>4. ASSUME NEW w \in Worker, Record(w) PROVE Promise!Next
  BY <1>4, RecordStep
<1>5. ASSUME NEW w \in Worker, Crash(w) PROVE [Promise!Next]_Held
  BY <1>5, CrashStep
<1>6. CASE \/ \E i \in RowId, m \in Mail : Queue(i, m)
           \/ \E m \in Mail : Suppress(m)
           \/ \E i \in RowId : BackoffPasses(i)
  BY <1>6, QuietShop
<1>7. CASE ShopNext
  BY <1>7, <1>2, <1>6 DEF ShopNext
<1>8. CASE \E w \in Worker : SweeperNext(w) \/ Crash(w)
  <2>1. PICK w \in Worker : SweeperNext(w) \/ Crash(w)
    BY <1>8
  <2>2. CASE \/ StartDrain(w)
             \/ \E i \in RowId : ReadRow(w, i)
             \/ ProviderAnswers(w) \/ ProviderFails(w)
    BY <2>2, QuietSweeper
  <2>3. CASE ClaimRow(w)
    BY <2>3, <1>3
  <2>4. CASE Record(w)
    BY <2>4, <1>4
  <2>5. CASE Crash(w)
    BY <2>5, <1>5
  <2> QED
    BY <2>1, <2>2, <2>3, <2>4, <2>5 DEF SweeperNext
<1> QED
  BY <1>1, <1>7, <1>8 DEF Next

LEMMA PromiseInit ==
    ASSUME Init, Inv
    PROVE  Promise!Init
<1>1. \A m \in Mail : claim[m] = "none"
  BY DEF Init
<1> QED
  BY <1>1 DEF Promise!Init, Holder

\* The outbox implements the send claim: whatever its rows, leases, retries
\* and crashes do, every step takes, gives up, abandons or recovers an email
\* as SendClaim allows, or leaves all holders as they are.
THEOREM OutboxImplementsClaim == Spec => KeepsPromise
<1>1. Init /\ Inv => Promise!Init
  BY PromiseInit
<1>2. Inv /\ Inv' /\ [Next]_vars => [Promise!Next]_Held
  BY PromiseStep
<1>3. Promise!Spec <=> Promise!Init /\ [][Promise!Next]_Held
  BY DEF Promise!Spec, Held
<1> QED
  BY <1>1, <1>2, <1>3, OutboxInvariant, PTL DEF Spec, KeepsPromise

-----------------------------------------------------------------------------
(* Only lost acceptances are sent again.                                   *)

Accepted(m, w) == worker[w].op = "accepted" /\ row[worker[w].row].mail = m

\* Known to be delivered: recorded in the claim, or by a worker that is about
\* to record it.
Known(m) == claim[m] = "sent" \/ \E w \in Worker : Accepted(m, w)

\* What was delivered is lost, or it is known; and an email that is known to be
\* delivered is not sent.
Accounted ==
    \A m \in Mail : /\ delivered[m] <= unanswered[m] + 1
                    /\ ~Known(m) => delivered[m] <= unanswered[m]

LEMMA AccountedKept ==
    ASSUME Inv, Accounted, UNCHANGED <<delivered, unanswered>>,
           \A m \in Mail : claim[m] = "sent" => claim'[m] = "sent",
           \A m \in Mail, w \in Worker :
               Accepted(m, w) => Accepted(m, w)' \/ claim'[m] = "sent"
    PROVE  Accounted'
<1>1. \A m \in Mail : Known(m) => Known(m)'
  BY DEF Known
<1> QED
  BY <1>1 DEF Accounted

\* A worker that is not about to record an acceptance stops nothing by going on.
LEMMA OthersAccounted ==
    ASSUME Inv, Accounted, NEW w \in Worker, worker[w].op /= "accepted",
           UNCHANGED <<delivered, unanswered>>,
           \A v \in Worker \ {w} : worker'[v] = worker[v],
           \A v \in Worker : worker[v].op = "accepted" =>
               row'[worker[v].row].mail = row[worker[v].row].mail,
           \A m \in Mail : claim[m] = "sent" => claim'[m] = "sent"
    PROVE  Accounted'
<1>1. \A m \in Mail, v \in Worker : Accepted(m, v) => Accepted(m, v)'
  BY DEF Accepted
<1> QED
  BY <1>1, AccountedKept

LEMMA SendersAlone ==
    ASSUME Inv, NEW w \in Worker, NEW m \in Mail, Sender(m, w),
           worker[w].op /= "accepted"
    PROVE  ~Known(m)
BY DEF Inv, ClaimHeld, OneSender, Sender, Known, Accepted, Answer

LEMMA ShopAccounted ==
    ASSUME Inv, Accounted, ShopNext
    PROVE  Accounted'
<1>1. ASSUME NEW m \in Mail, Suppress(m) PROVE Accounted'
  BY <1>1, AccountedKept DEF Suppress, Accepted
<1>2. ASSUME NEW m \in Mail, LeaseExpires(m) PROVE Accounted'
  <2>1. \A n \in Mail : claim[n] = "sent" => claim'[n] = "sent"
    BY <1>2 DEF LeaseExpires, Inv, TypeOK
  <2> QED
    BY <1>2, <2>1, AccountedKept DEF LeaseExpires, Accepted
<1>3. ASSUME NEW i \in RowId,
             (\E m \in Mail : Queue(i, m)) \/ BackoffPasses(i)
      PROVE  Accounted'
  <2>1. \A v \in Worker : worker[v].op = "accepted" =>
            /\ worker[v].row \in RowId /\ row[worker[v].row] \in EmailRow
    BY WorkerKinds DEF Inv, RowsExist, Busy, Answer, Reading
  <2>2. \A j \in RowId : row[j] \in EmailRow => row'[j].mail = row[j].mail
    BY <1>3 DEF Queue, BackoffPasses, Inv, TypeOK, EmailRow, RowStatus
  <2>3. UNCHANGED <<worker, claim, delivered, unanswered>>
    BY <1>3 DEF Queue, BackoffPasses
  <2>4. \A m \in Mail, v \in Worker : Accepted(m, v) => Accepted(m, v)'
    BY <2>1, <2>2, <2>3 DEF Accepted
  <2> QED
    BY <2>3, <2>4, AccountedKept
<1> QED
  BY <1>1, <1>2, <1>3 DEF ShopNext

LEMMA SweeperAccounted ==
    ASSUME Inv, Accounted, NEW w \in Worker,
           StartDrain(w) \/ (\E i \in RowId : ReadRow(w, i)) \/ ClaimRow(w)
    PROVE  Accounted'
<1>1. worker[w].op \in {"asleep", "draining", "read"}
  BY DEF StartDrain, ReadRow, ClaimRow, Asleep
<1>2. \A v \in Worker \ {w} : worker'[v] = worker[v]
  BY DEF StartDrain, ReadRow, ClaimRow, Inv, TypeOK
<1>3. \A m \in Mail : claim[m] = "sent" => claim'[m] = "sent"
  <2>1. CASE ClaimRow(w)
    <3>1. PICK m \in Mail : m = row[worker[w].row].mail
      BY <2>1 DEF ClaimRow, Inv, RowsExist, Busy, EmailRow
    <3>2. claim[m] = "sent" => Verdict(m) /= "claim"
      BY DEF Verdict, Claimable
    <3> QED
      BY <2>1, <3>1, <3>2 DEF ClaimRow, Inv, TypeOK
  <2> QED
    BY <2>1 DEF StartDrain, ReadRow
<1>4. \A j \in RowId : row[j] \in EmailRow => row'[j].mail = row[j].mail
  <2>1. CASE ClaimRow(w)
    BY <2>1 DEF ClaimRow, Inv, TypeOK, EmailRow
  <2> QED
    BY <2>1 DEF StartDrain, ReadRow
<1>5. \A v \in Worker : worker[v].op = "accepted" =>
          /\ worker[v].row \in RowId /\ row[worker[v].row] \in EmailRow
  BY WorkerKinds DEF Inv, RowsExist, Busy, Answer, Reading
<1>6. UNCHANGED <<delivered, unanswered>>
  BY DEF StartDrain, ReadRow, ClaimRow
<1> QED
  BY <1>1, <1>2, <1>3, <1>4, <1>5, <1>6, OthersAccounted

LEMMA ProviderAccounted ==
    ASSUME Inv, Accounted, NEW w \in Worker,
           ProviderAnswers(w) \/ ProviderFails(w)
    PROVE  Accounted'
<1>1. PICK m \in Mail : m = row[worker[w].row].mail
  BY DEF ProviderAnswers, ProviderFails, Inv, RowsExist, Busy, EmailRow
<1>2. worker[w].op = "sending" /\ worker[w] \in Reading
  BY WorkerKinds DEF ProviderAnswers, ProviderFails, Inv, Busy
<1>3. ~Known(m)
  BY <1>1, <1>2, SendersAlone DEF Sender
<1>4. PICK answer \in Answer : worker' = [worker EXCEPT ![w].op = answer]
  BY DEF ProviderAnswers, ProviderFails, Answer
<1>5. /\ \A v \in Worker \ {w} : worker'[v] = worker[v]
      /\ worker'[w].row = worker[w].row /\ worker'[w].op = answer
  BY <1>2, <1>4 DEF Inv, TypeOK, Reading
<1>6. UNCHANGED <<row, claim>>
  BY DEF ProviderAnswers, ProviderFails
<1>7. \A n \in Mail : Known(n) => Known(n)'
  BY <1>2, <1>5, <1>6 DEF Known, Accepted
<1>8. /\ delivered \in [Mail -> Nat] /\ unanswered \in [Mail -> Nat]
      /\ delivered[m] <= unanswered[m]
  BY <1>3 DEF Accounted, Inv, TypeOK
<1>9. CASE UNCHANGED <<delivered, unanswered>>
  BY <1>7, <1>9 DEF Accounted
<1>10. CASE /\ delivered' = [delivered EXCEPT ![m] = @ + 1]
            /\ unanswered' = [unanswered EXCEPT ![m] = @ + 1]
  BY <1>7, <1>8, <1>10 DEF Accounted
<1>11. CASE /\ worker' = [worker EXCEPT ![w].op = "accepted"]
            /\ delivered' = [delivered EXCEPT ![m] = @ + 1]
            /\ UNCHANGED unanswered
  <2>1. worker'[w].op = "accepted"
    BY <1>2, <1>11 DEF Inv, TypeOK, Reading
  <2>2. Known(m)'
    BY <1>1, <1>5, <1>6, <2>1 DEF Known, Accepted
  <2> QED
    BY <1>7, <1>8, <1>11, <2>2 DEF Accounted
<1> QED
  BY <1>1, <1>9, <1>10, <1>11 DEF ProviderAnswers, ProviderFails

LEMMA RecordAccounted ==
    ASSUME Inv, Inv', Accounted, NEW w \in Worker, Record(w)
    PROVE  Accounted'
<1>1. PICK m \in Mail : m = row[worker[w].row].mail
  BY DEF Record, Inv, RowsExist, Busy, EmailRow
<1>2. worker[w].op \in Answer /\ worker[w] \in Reading /\ Sender(m, w)
  BY <1>1, WorkerKinds DEF Record, Inv, Busy, Sender
<1>3. /\ claim'[m] = Released(worker[w].op)
      /\ \A n \in Mail \ {m} : claim'[n] = claim[n]
  BY <1>1 DEF Record, Inv, TypeOK
<1>4. claim[m] = "in_flight"
  BY <1>2 DEF Inv, ClaimHeld
<1>5. \A n \in Mail : claim[n] = "sent" => claim'[n] = "sent"
  BY <1>3, <1>4
<1>6. \A v \in Worker \ {w} : worker'[v] = worker[v]
  BY DEF Record, Inv, TypeOK
<1>7. UNCHANGED <<delivered, unanswered>>
  BY DEF Record
<1>8. \A v \in Worker : worker[v].op = "accepted" =>
          row'[worker[v].row].mail = row[worker[v].row].mail
  <2>1. \A v \in Worker : worker[v].op = "accepted" =>
            /\ worker[v].row \in RowId /\ row[worker[v].row] \in EmailRow
    BY WorkerKinds DEF Inv, RowsExist, Busy, Answer, Reading
  <2>2. /\ worker[w].row \in RowId /\ row[worker[w].row] \in EmailRow
        /\ worker[w].attempts \in Nat
    BY <1>2 DEF Reading, Inv, RowsExist, Busy
  <2>3. row'[worker[w].row].mail = m
    <3>1. Outcome(row[worker[w].row], worker[w].op, worker[w].attempts).mail = m
      BY <1>1 DEF Outcome
    <3>2. [row[worker[w].row] EXCEPT !.status = "skipped_duplicate"].mail = m
      BY <1>1, <2>2 DEF EmailRow
    <3> QED
      BY <2>2, <3>1, <3>2 DEF Record, Inv, TypeOK
  <2>4. \A j \in RowId \ {worker[w].row} : row'[j] = row[j]
    BY DEF Record, Inv, TypeOK
  <2> QED
    BY <1>1, <2>1, <2>2, <2>3, <2>4
<1>9. CASE worker[w].op = "accepted"
  <2>1. claim'[m] = "sent"
    BY <1>3, <1>9 DEF Released
  <2>2. \A n \in Mail, v \in Worker :
            Accepted(n, v) => Accepted(n, v)' \/ claim'[n] = "sent"
    BY <1>1, <1>6, <1>8, <2>1 DEF Accepted
  <2> QED
    BY <1>5, <1>7, <2>2, AccountedKept
<1>10. CASE worker[w].op /= "accepted"
  BY <1>5, <1>6, <1>7, <1>8, <1>10, OthersAccounted
<1> QED
  BY <1>9, <1>10

LEMMA CrashAccounted ==
    ASSUME Inv, Accounted, NEW w \in Worker, Crash(w)
    PROVE  Accounted'
<1>1. /\ \A v \in Worker \ {w} : worker'[v] = worker[v]
      /\ UNCHANGED <<row, claim, delivered>>
  BY DEF Crash, Inv, TypeOK
<1>2. CASE worker[w].op = "accepted"
  <2>1. PICK m \in Mail : m = row[worker[w].row].mail
    BY <1>2 DEF Inv, RowsExist, Busy, Answer, EmailRow
  <2>2. /\ unanswered' = [unanswered EXCEPT ![m] = @ + 1]
        /\ delivered \in [Mail -> Nat] /\ unanswered \in [Mail -> Nat]
    BY <1>2, <2>1 DEF Crash, Inv, TypeOK
  <2>3. \A n \in Mail : Known(n) => Known(n)' \/ n = m
    BY <1>1, <2>1 DEF Known, Accepted
  <2> QED
    BY <1>1, <2>2, <2>3 DEF Accounted
<1>3. CASE worker[w].op /= "accepted"
  BY <1>1, <1>3, OthersAccounted DEF Crash
<1> QED
  BY <1>2, <1>3

LEMMA AccountedStep ==
    ASSUME Inv, Inv', Accounted, [Next]_vars
    PROVE  Accounted'
<1>1. CASE UNCHANGED vars
  BY <1>1, AccountedKept DEF vars, Accepted
<1>2. ASSUME NEW w \in Worker, SweeperNext(w) \/ Crash(w) PROVE Accounted'
  BY <1>2, SweeperAccounted, ProviderAccounted, RecordAccounted, CrashAccounted
     DEF SweeperNext
<1> QED
  BY <1>1, <1>2, ShopAccounted DEF Next

\* However often the rows of an email are queued, selected, retried and raced
\* for, the customer gets it again only when an acceptance was lost in a crash
\* or a timeout.
THEOREM OnlyLostIsRepeated == Spec => []NoNeedlessDuplicate
<1>1. ASSUME Init PROVE Accounted
  <2>1. ASSUME NEW m \in Mail
        PROVE  delivered[m] <= unanswered[m] + 1 /\ delivered[m] <= unanswered[m]
    <3>1. delivered[m] = 0 /\ unanswered[m] = 0
      BY <1>1 DEF Init
    <3> QED
      BY <3>1
  <2> QED
    BY <2>1 DEF Accounted
<1>2. Inv /\ Inv' /\ Accounted /\ [Next]_vars => Accounted'
  BY AccountedStep
<1>3. ASSUME Inv, Accounted PROVE NoNeedlessDuplicate
  <2>1. ASSUME NEW m \in Mail PROVE delivered[m] <= 1 + unanswered[m]
    <3>1. delivered[m] \in Nat /\ unanswered[m] \in Nat
      BY <1>3 DEF Inv, TypeOK
    <3> QED
      BY <1>3, <3>1 DEF Accounted
  <2> QED
    BY <2>1 DEF NoNeedlessDuplicate
<1> QED
  BY <1>1, <1>2, <1>3, OutboxInvariant, PTL DEF Spec

-----------------------------------------------------------------------------
(* The log of the analytics is the source of truth.                        *)

Safe(e) == e \in aged \/ e \in lost \/ N!Logged(e)

Rewriting == {"scan", "replace", "purge", "update", "unlink"}

\* A thread's work: what it has read from the log, or appended, is in the log,
\* past its retention, or lost to a rewrite.
Sound(t) ==
    t = N!AtRest \/
    (/\ t \in N!WorkerRow
     /\ t.stage \in Rewriting => t.job \in {"cleanup", "erase"}
     /\ t.stage \in {"update", "unlink"} => t.job = "erase"
     /\ t.stage \in {"consent", "decide", "append", "insert"} => t.job = "ingest"
     /\ t.job = "ingest" =>
            t.number \in 1..MaxIngest /\ \E e \in Happening : t.of = {e}
     /\ t.job = "cleanup" => t.of \subseteq aged
     /\ t.job = "erase" => t.number \in 0..MaxErasure
     /\ t.stage = "load" => \A l \in t.lines : Safe(l.of)
     /\ t.stage = "insert" => \A e \in t.of : Safe(e))

ThreadsSound == \A w \in Thread : Sound(thread[w])

LogInv == N!AnalyticsTypeOK /\ ThreadsSound /\ N!SourceOfTruth

LEMMA RowKind ==
    ASSUME NEW t, t = N!AtRest \/ t \in N!WorkerRow, t.stage # "rest"
    PROVE  t \in N!WorkerRow
  BY DEF N!AtRest

LEMMA Rest == N!AtRest \notin N!WorkerRow /\ N!AtRest.stage = "rest"
  BY DEF N!AtRest, N!WorkerRow, N!Step

LEMMA SoundKept ==
    ASSUME NEW t, Sound(t), aged \subseteq aged', \A e : Safe(e) => Safe(e)'
    PROVE  Sound(t)'
  BY DEF Sound

\* A thread takes a step, and nothing that is safe is lost.
LEMMA ThreadGoes ==
    ASSUME LogInv, NEW w \in Thread,
           NEW r \in N!WorkerRow \cup {N!AtRest},
           thread' = [thread EXCEPT ![w] = r], aged' = aged,
           \A e : Safe(e) => Safe(e)', Sound(r)'
    PROVE  ThreadsSound' /\ thread' \in [Thread -> N!WorkerRow \cup {N!AtRest}]
<1>1. thread'[w] = r /\ \A v \in Thread \ {w} : thread'[v] = thread[v]
  BY DEF LogInv, N!AnalyticsTypeOK
<1>2. ASSUME NEW v \in Thread \ {w} PROVE Sound(thread[v])'
  <2>1. PICK t : t = thread[v]
    OBVIOUS
  <2>2. Sound(t)'
    BY <2>1, SoundKept DEF LogInv, ThreadsSound
  <2> QED
    BY <1>1, <2>1, <2>2 DEF Sound
<1>3. ThreadsSound'
  BY <1>1, <1>2 DEF ThreadsSound, Sound
<1> QED
  BY <1>3 DEF LogInv, N!AnalyticsTypeOK

LEMMA TruthKept ==
    ASSUME LogInv, \A e : Safe(e) => Safe(e)',
           \A e \in accepted' : e \in accepted \/ Safe(e)',
           \A r \in duck' : r \in duck \/ Safe(r.of)'
    PROVE  N!SourceOfTruth'
<1> SUFFICES ASSUME NEW e \in Happening, e \notin aged' \cup lost',
                    e \in accepted' \/ \E r \in duck' : r.of = e
             PROVE  N!Logged(e)'
  BY DEF N!SourceOfTruth
<1>1. Safe(e) \/ Safe(e)'
  BY DEF LogInv, N!SourceOfTruth, Safe
<1>2. Safe(e)'
  BY <1>1
<1> QED
  BY <1>2 DEF Safe

LEMMA WorkKept ==
    ASSUME LogInv, NEW w \in Thread,
           NEW r \in N!WorkerRow \cup {N!AtRest},
           thread' = [thread EXCEPT ![w] = r],
           UNCHANGED <<turn, aged, torn, consent, stops>>,
           \A e : Safe(e) => Safe(e)',
           Sound(r)',
           \A e \in accepted' : e \in accepted \/ Safe(e)',
           \A q \in duck' : q \in duck \/ Safe(q.of)',
           log' \subseteq N!Line, duck' \subseteq N!Row, tables' \in BOOLEAN,
           accepted' \subseteq Happening, lost' \subseteq Happening, ingests' \in 0..MaxIngest,
           erasures' \in 0..MaxErasure
    PROVE  LogInv'
<1>1. /\ ThreadsSound'
      /\ thread' \in [Thread -> N!WorkerRow \cup {N!AtRest}]
  BY ThreadGoes
<1>2. N!SourceOfTruth'
  BY TruthKept
<1>3. N!AnalyticsTypeOK'
  BY <1>1 DEF LogInv, N!AnalyticsTypeOK
<1> QED
  BY <1>1, <1>2, <1>3 DEF LogInv

LEMMA AtWork ==
    ASSUME LogInv, NEW w \in Thread, thread[w].stage # "rest"
    PROVE  /\ thread[w] \in N!WorkerRow /\ thread[w] # N!AtRest
           /\ Sound(thread[w])
  BY Rest, RowKind DEF LogInv, ThreadsSound, N!AnalyticsTypeOK

\* A row with another stage, and perhaps another job or other lines.
EditOf(r, t, s, j, ls) ==
    \/ r = [t EXCEPT !.stage = s] /\ j = t.job /\ ls = t.lines
    \/ r = [t EXCEPT !.stage = s, !.job = j] /\ ls = t.lines
    \/ r = [t EXCEPT !.stage = s, !.lines = ls] /\ j = t.job

Edits(w, s, j, ls) ==
    \E r : EditOf(r, thread[w], s, j, ls) /\ thread' = [thread EXCEPT ![w] = r]

LEMMA Edited ==
    ASSUME NEW t \in N!WorkerRow, NEW s \in N!Step, NEW j \in N!Job,
           NEW ls \in SUBSET N!Line, NEW r, EditOf(r, t, s, j, ls)
    PROVE  /\ r \in N!WorkerRow
           /\ r.stage = s /\ r.job = j /\ r.of = t.of /\ r.number = t.number
           /\ r.lines = ls
<1>1. CASE r = [t EXCEPT !.stage = s] /\ j = t.job /\ ls = t.lines
  BY <1>1 DEF N!WorkerRow
<1>2. CASE r = [t EXCEPT !.stage = s, !.job = j] /\ ls = t.lines
  <2>1. r.stage = s /\ r.job = j /\ r.of = t.of /\ r.number = t.number
        /\ r.lines = t.lines
    BY <1>2 DEF N!WorkerRow
  <2>2. r \in N!WorkerRow
    BY <1>2 DEF N!WorkerRow
  <2> QED
    BY <1>2, <2>1, <2>2
<1>3. CASE r = [t EXCEPT !.stage = s, !.lines = ls] /\ j = t.job
  <2>1. r.stage = s /\ r.job = t.job /\ r.of = t.of /\ r.number = t.number
        /\ r.lines = ls
    BY <1>3 DEF N!WorkerRow
  <2>2. r \in N!WorkerRow
    BY <1>3 DEF N!WorkerRow
  <2> QED
    BY <1>3, <2>1, <2>2
<1> QED
  BY <1>1, <1>2, <1>3 DEF EditOf

LEMMA NewRow ==
    ASSUME NEW s \in N!Step, NEW j \in N!Job, NEW es \in SUBSET Happening,
           NEW n \in Nat, NEW ls \in SUBSET N!Line
    PROVE  [stage |-> s, job |-> j, of |-> es, number |-> n, lines |-> ls]
               \in N!WorkerRow
  BY DEF N!WorkerRow

LEMMA Fields ==
    ASSUME NEW t \in N!WorkerRow
    PROVE  /\ t.stage \in N!Step /\ t.job \in N!Job /\ t.of \subseteq Happening
           /\ t.number \in Nat /\ t.lines \subseteq N!Line
  BY DEF N!WorkerRow

\* How a thread begins.
Beginning(w, s, j, es, n) ==
    /\ N!Begun(w, j, s, es, n)
    /\ j \in turn /\ N!May(w, j)
    /\ s = "consent" => j = "ingest"
    /\ j = "ingest" => n \in 1..MaxIngest /\ \E e \in Happening : es = {e}
    /\ j = "cleanup" => es \subseteq aged
    /\ j = "erase" => n \in 0..MaxErasure

Begins(w) ==
    \E s \in {"open", "consent"}, j \in N!Job, es \in SUBSET Happening, n \in Nat :
        Beginning(w, s, j, es, n)

LEMMA EachBegins ==
    ASSUME BackgroundAssumption, LogInv, NEW w \in Thread,
           \/ \E e \in Happening : N!StartIngest(w, e)
           \/ N!StartReport(w) \/ N!StartCleanup(w) \/ N!StartErasure(w)
    PROVE  Begins(w)
<1>0. MaxIngest \in Nat /\ MaxErasure \in Nat /\ Subject \subseteq Happening
  BY DEF BackgroundAssumption, N!AnalyticsAssumption
<1>1. ASSUME NEW e \in Happening, N!StartIngest(w, e) PROVE Begins(w)
  <2>1. ingests + 1 \in 1..MaxIngest /\ ingests + 1 \in Nat
    BY <1>0, <1>1 DEF N!StartIngest, LogInv, N!AnalyticsTypeOK
  <2>2. {e} \in SUBSET Happening /\ "ingest" \in N!Job
    BY DEF N!Job
  <2>3. PICK s \in {"open", "consent"} :
            s = IF e \in Purchase THEN "open" ELSE "consent"
    OBVIOUS
  <2>4. Beginning(w, s, "ingest", {e}, ingests + 1)
    BY <1>1, <2>1, <2>3 DEF N!StartIngest, N!May, Beginning
  <2> QED
    BY <2>1, <2>2, <2>4 DEF Begins
<1>2. CASE N!StartReport(w)
  <2>1. Beginning(w, "open", "report", {}, 0)
    BY <1>2 DEF N!StartReport, N!May, Beginning
  <2> QED
    BY <2>1 DEF Begins, N!Job
<1>3. CASE N!StartCleanup(w)
  <2>1. aged \in SUBSET Happening /\ "cleanup" \in N!Job /\ 0 \in Nat
    BY DEF LogInv, N!AnalyticsTypeOK, N!Job
  <2>2. Beginning(w, "open", "cleanup", aged, 0)
    BY <1>3 DEF N!StartCleanup, N!May, Beginning
  <2> QED
    BY <2>1, <2>2 DEF Begins
<1>4. CASE N!StartErasure(w)
  <2>1. erasures + 1 \in 0..MaxErasure /\ erasures + 1 \in Nat
    BY <1>0, <1>4 DEF N!StartErasure, LogInv, N!AnalyticsTypeOK
  <2>2. Subject \in SUBSET Happening /\ "erase" \in N!Job
    BY <1>0 DEF N!Job
  <2>3. Beginning(w, "open", "erase", Subject, erasures + 1)
    BY <1>4, <2>1 DEF N!StartErasure, N!May, Beginning
  <2> QED
    BY <2>1, <2>2, <2>3 DEF Begins
<1> QED
  BY <1>1, <1>2, <1>3, <1>4

LEMMA BeginsSound ==
    ASSUME BackgroundAssumption, LogInv, NEW w \in Thread,
           \/ \E e \in Happening : N!StartIngest(w, e)
           \/ N!StartReport(w) \/ N!StartCleanup(w) \/ N!StartErasure(w)
    PROVE  LogInv'
<1>1. PICK s \in {"open", "consent"}, j \in N!Job, es \in SUBSET Happening, n \in Nat :
          Beginning(w, s, j, es, n)
  BY EachBegins DEF Begins
<1> DEFINE r0 == [stage |-> s, job |-> j, of |-> es, number |-> n, lines |-> {}]
<1>2. PICK r : r = r0
  OBVIOUS
<1>3. r \in N!WorkerRow
  BY <1>2, NewRow DEF N!Step
<1>4. thread' = [thread EXCEPT ![w] = r]
  BY <1>1, <1>2 DEF N!Begun, Beginning
<1>5. UNCHANGED <<turn, aged, torn, consent, stops, log, lost, duck, tables, accepted>>
  BY DEF N!StartIngest, N!StartReport, N!StartCleanup, N!StartErasure, N!Counters
<1>7. \A e : Safe(e) => Safe(e)'
  BY <1>5 DEF Safe, N!Logged
<1>8. /\ r.stage = s /\ r.job = j /\ r.of = es /\ r.number = n
  BY <1>2
<1>9. Sound(r)'
  BY <1>1, <1>3, <1>5, <1>8 DEF Sound, Rewriting, Beginning
<1>10. ingests' \in 0..MaxIngest /\ erasures' \in 0..MaxErasure
  <2>1. ingests \in 0..MaxIngest /\ erasures \in 0..MaxErasure
        /\ MaxIngest \in Nat /\ MaxErasure \in Nat
    BY DEF LogInv, N!AnalyticsTypeOK, BackgroundAssumption, N!AnalyticsAssumption
  <2>2. \/ ingests' = ingests \/ (ingests < MaxIngest /\ ingests' = ingests + 1)
    BY DEF N!StartIngest, N!StartReport, N!StartCleanup, N!StartErasure, N!Counters
  <2>3. \/ erasures' = erasures \/ (erasures < MaxErasure /\ erasures' = erasures + 1)
    BY DEF N!StartIngest, N!StartReport, N!StartCleanup, N!StartErasure, N!Counters
  <2> QED
    BY <2>1, <2>2, <2>3
<1>11. log' \subseteq N!Line /\ duck' \subseteq N!Row /\ tables' \in BOOLEAN
       /\ accepted' \subseteq Happening /\ lost' \subseteq Happening
  BY <1>5 DEF LogInv, N!AnalyticsTypeOK
<1> QED
  BY <1>3, <1>4, <1>5, <1>7, <1>9, <1>10, <1>11, WorkKept

\* A thread at work takes a step that leaves the log and the counters.
LEMMA StepKept ==
    ASSUME LogInv, NEW w \in Thread, thread[w].stage # "rest",
           NEW r \in N!WorkerRow \cup {N!AtRest},
           thread' = [thread EXCEPT ![w] = r],
           UNCHANGED <<turn, aged, torn, consent, stops, ingests, erasures, log, lost>>,
           Sound(r)',
           \A e \in accepted' : e \in accepted \/ Safe(e),
           \A q \in duck' : q \in duck \/ Safe(q.of),
           duck' \subseteq N!Row, tables' \in BOOLEAN, accepted' \subseteq Happening
    PROVE  LogInv'
<1>1. \A e : Safe(e) <=> Safe(e)'
  BY DEF Safe, N!Logged
<1>3. /\ log' \subseteq N!Line /\ lost' \subseteq Happening
      /\ ingests' \in 0..MaxIngest /\ erasures' \in 0..MaxErasure
  BY DEF LogInv, N!AnalyticsTypeOK
<1> QED
  BY <1>1, <1>3, WorkKept

\* A thread that ends.
LEMMA EndsSound ==
    ASSUME LogInv, NEW w \in Thread, thread[w].stage # "rest",
           N!Ends(w),
           UNCHANGED <<turn, aged, torn, consent, stops, ingests, erasures, log, lost>>,
           \A e \in accepted' : e \in accepted \/ Safe(e),
           \A q \in duck' : q \in duck \/ Safe(q.of),
           duck' \subseteq N!Row, tables' \in BOOLEAN, accepted' \subseteq Happening
    PROVE  LogInv'
<1>1. PICK r : r = N!AtRest
  OBVIOUS
<1>2. Sound(r)'
  BY <1>1 DEF Sound
<1>3. thread' = [thread EXCEPT ![w] = r]
  BY <1>1 DEF N!Ends
<1> QED
  BY <1>1, <1>2, <1>3, StepKept

\* A thread that goes on to another stage, perhaps with another job.
LEMMA GoesOn ==
    ASSUME LogInv, NEW w \in Thread, thread[w].stage # "rest",
           NEW s \in N!Step, NEW j \in N!Job, NEW ls \in SUBSET N!Line,
           Edits(w, s, j, ls),
           j = thread[w].job \/ j \in {"report", "rebuild"},
           s \in Rewriting => j \in {"cleanup", "erase"},
           s \in {"update", "unlink"} => j = "erase",
           s \in {"consent", "decide", "append", "insert"} => j = "ingest",
           s = "load" => \A l \in ls : Safe(l.of),
           s = "insert" => \A e \in thread[w].of : Safe(e),
           UNCHANGED <<turn, aged, torn, consent, stops, ingests, erasures, log, lost>>,
           \A e \in accepted' : e \in accepted \/ Safe(e),
           \A q \in duck' : q \in duck \/ Safe(q.of),
           duck' \subseteq N!Row, tables' \in BOOLEAN, accepted' \subseteq Happening
    PROVE  LogInv'
<1>1. PICK t : t = thread[w]
  OBVIOUS
<1>2. t \in N!WorkerRow /\ t # N!AtRest /\ Sound(t)
  BY <1>1, AtWork
<1>3. PICK r : EditOf(r, t, s, j, ls) /\ thread' = [thread EXCEPT ![w] = r]
  BY <1>1 DEF Edits
<1>4. /\ r \in N!WorkerRow
      /\ r.stage = s /\ r.job = j /\ r.of = t.of /\ r.number = t.number
      /\ r.lines = ls
  BY <1>2, <1>3, Edited
<1>5. Sound(r)
  BY <1>1, <1>2, <1>4 DEF Sound
<1>6. \A e : Safe(e) => Safe(e)'
  BY DEF Safe, N!Logged
<1>7. Sound(r)'
  BY <1>5, <1>6, SoundKept
<1> QED
  BY <1>3, <1>4, <1>7, StepKept

LEMMA GoesTo ==
    ASSUME LogInv, NEW w \in Thread, thread[w].stage # "rest",
           NEW s \in N!Step, N!To(w, s), s # "load",
           s \in Rewriting => thread[w].job \in {"cleanup", "erase"},
           s \in {"update", "unlink"} => thread[w].job = "erase",
           s \in {"consent", "decide", "append", "insert"} =>
               thread[w].job = "ingest",
           s = "insert" => \A e \in thread[w].of : Safe(e),
           UNCHANGED <<turn, aged, torn, consent, stops, ingests, erasures, log, lost>>,
           \A e \in accepted' : e \in accepted \/ Safe(e),
           \A q \in duck' : q \in duck \/ Safe(q.of),
           duck' \subseteq N!Row, tables' \in BOOLEAN, accepted' \subseteq Happening
    PROVE  LogInv'
<1>1. PICK j, ls : j = thread[w].job /\ ls = thread[w].lines
  OBVIOUS
<1>2. j \in N!Job /\ ls \in SUBSET N!Line
  BY <1>1, AtWork, Fields
<1>3. Edits(w, s, j, ls)
  BY <1>1 DEF N!To, Edits, EditOf
<1> QED
  BY <1>1, <1>2, <1>3, GoesOn

LEMMA SameTables ==
    ASSUME LogInv, UNCHANGED <<accepted, duck>>
    PROVE  /\ \A e \in accepted' : e \in accepted \/ Safe(e)
           /\ \A q \in duck' : q \in duck \/ Safe(q.of)
           /\ duck' \subseteq N!Row /\ accepted' \subseteq Happening
  BY DEF LogInv, N!AnalyticsTypeOK

LEMMA OpenSound ==
    ASSUME LogInv, NEW w \in Thread, N!Open(w)
    PROVE  LogInv'
<1>1. PICK ls \in SUBSET N!Line : ls = log
  BY DEF LogInv, N!AnalyticsTypeOK
<1>2. PICK j : j = thread[w].job
  OBVIOUS
<1>3. thread[w].stage = "open" /\ j \in N!Job
  BY <1>2, AtWork, Fields DEF N!Open
<1>4. Edits(w, "load", j, ls)
  <2>1. PICK r : r = [thread[w] EXCEPT !.stage = "load", !.lines = ls]
    OBVIOUS
  <2>2. thread' = [thread EXCEPT ![w] = r]
    BY <1>1, <2>1 DEF N!Open
  <2> QED
    BY <1>2, <2>1, <2>2 DEF Edits, EditOf
<1>5. \A l \in ls : Safe(l.of)
  BY <1>1 DEF Safe, N!Logged
<1>6. UNCHANGED <<turn, aged, torn, consent, stops, ingests, erasures, log, lost, accepted, duck>>
      /\ tables' \in BOOLEAN
  BY DEF N!Open, N!Counters
<1> QED
  BY <1>2, <1>3, <1>4, <1>5, <1>6, GoesOn, SameTables DEF N!Step, Rewriting

LEMMA LoadSound ==
    ASSUME LogInv, NEW w \in Thread, N!Load(w)
    PROVE  LogInv'
<1>1. PICK t : t = thread[w]
  OBVIOUS
<1>2. t \in N!WorkerRow /\ Sound(t) /\ t.stage = "load" /\ t # N!AtRest
  BY <1>1, AtWork DEF N!Load
<1>3. t.job \in N!Job /\ t.lines \subseteq N!Line
  BY <1>2, Fields
<1>4. \A l \in t.lines : Safe(l.of) /\ N!RowOf(l) \in N!Row /\ N!RowOf(l).of = l.of
  <2>1. \A l \in t.lines : Safe(l.of)
    BY <1>2 DEF Sound
  <2>2. \A l \in N!Line : N!RowOf(l) \in N!Row /\ N!RowOf(l).of = l.of
    BY DEF N!Line, N!Row, N!RowOf
  <2> QED
    BY <1>3, <2>1, <2>2
<1>5. \A q \in N!Loaded(w) : q \in N!Row /\ Safe(q.of)
  BY <1>1, <1>4 DEF N!Loaded
<1>6. /\ UNCHANGED <<turn, aged, torn, consent, stops, ingests, erasures, log, lost, accepted>>
      /\ tables' \in BOOLEAN /\ accepted' \subseteq Happening
      /\ \A e \in accepted' : e \in accepted \/ Safe(e)
  BY DEF N!Load, N!Counters, LogInv, N!AnalyticsTypeOK
<1>7. duck' \subseteq N!Row /\ \A q \in duck' : q \in duck \/ Safe(q.of)
  BY <1>5 DEF N!Load, LogInv, N!AnalyticsTypeOK
<1>8. CASE N!Ends(w)
  BY <1>1, <1>2, <1>6, <1>7, <1>8, EndsSound
<1>9. ASSUME NEW s \in {"decide", "scan"}, N!To(w, s),
             s = "decide" => t.job = "ingest",
             s = "scan" => t.job \in {"cleanup", "erase"}
      PROVE  LogInv'
  <2>1. s \in N!Step /\ s # "load" /\ s # "insert"
        /\ (s \in Rewriting => t.job \in {"cleanup", "erase"})
        /\ (s \in {"consent", "decide", "append", "insert"} => t.job = "ingest")
    BY <1>9 DEF N!Step, Rewriting
  <2> QED
    BY <1>1, <1>2, <1>6, <1>7, <1>9, <2>1, GoesTo
<1>10. N!Ends(w) \/ N!AfterLoad(w)
  BY DEF N!Load
<1>11. CASE N!AfterLoad(w)
  <2>1. CASE t.job = "ingest"
    BY <1>1, <1>9, <1>11, <2>1 DEF N!AfterLoad
  <2>2. CASE t.job \in {"report", "rebuild"}
    BY <1>1, <1>8, <1>11, <2>2 DEF N!AfterLoad
  <2>3. CASE t.job \in {"cleanup", "erase"}
    BY <1>1, <1>9, <1>11, <2>3 DEF N!AfterLoad
  <2> QED
    BY <1>3, <2>1, <2>2, <2>3 DEF N!Job
<1> QED
  BY <1>8, <1>10, <1>11

LEMMA ReportsOn ==
    ASSUME LogInv, NEW w \in Thread, thread[w].stage # "rest",
           N!Reports(w),
           UNCHANGED <<turn, aged, torn, consent, stops, ingests, erasures, log, lost>>,
           \A e \in accepted' : e \in accepted \/ Safe(e),
           \A q \in duck' : q \in duck \/ Safe(q.of),
           duck' \subseteq N!Row, tables' \in BOOLEAN, accepted' \subseteq Happening
    PROVE  LogInv'
<1>1. PICK ls : ls = thread[w].lines
  OBVIOUS
<1>2. ls \in SUBSET N!Line
  BY <1>1, AtWork, Fields
<1>3. Edits(w, "open", "report", ls)
  <2>1. PICK r : r = [thread[w] EXCEPT !.stage = "open", !.job = "report"]
    OBVIOUS
  <2>2. thread' = [thread EXCEPT ![w] = r]
    BY <2>1 DEF N!Reports
  <2> QED
    BY <1>1, <2>1, <2>2 DEF Edits, EditOf
<1> QED
  BY <1>2, <1>3, GoesOn DEF N!Step, N!Job, Rewriting

LEMMA ConsentSound ==
    ASSUME LogInv, NEW w \in Thread, N!ReadConsent(w)
    PROVE  LogInv'
<1>1. thread[w].stage = "consent"
      /\ UNCHANGED <<turn, aged, torn, consent, stops, ingests, erasures, log, lost, accepted, duck>>
      /\ tables' \in BOOLEAN
  BY DEF N!ReadConsent, N!Counters, LogInv, N!AnalyticsTypeOK
<1>2. N!To(w, "open") \/ N!Reports(w)
  BY DEF N!ReadConsent
<1> QED
  BY <1>1, <1>2, GoesTo, ReportsOn, SameTables DEF N!Step, Rewriting

\* The event an ingest is about.
LEMMA ReportedIs ==
    ASSUME LogInv, NEW w \in Thread,
           thread[w].stage \in {"decide", "append", "insert"}
    PROVE  /\ N!Reported(w) \in Happening /\ thread[w].of = {N!Reported(w)}
           /\ thread[w].job = "ingest" /\ thread[w].number \in 1..MaxIngest
<1>1. thread[w].job = "ingest" /\ thread[w].number \in 1..MaxIngest
      /\ \E e \in Happening : thread[w].of = {e}
  BY AtWork, Rest DEF Sound
<1> QED
  BY <1>1 DEF N!Reported

LEMMA DecideSound ==
    ASSUME LogInv, NEW w \in Thread, N!Decide(w)
    PROVE  LogInv'
<1>1. thread[w].stage = "decide"
      /\ UNCHANGED <<turn, aged, torn, consent, stops, ingests, erasures, log, lost, accepted, duck>>
      /\ tables' \in BOOLEAN
  BY DEF N!Decide, N!Counters, LogInv, N!AnalyticsTypeOK
<1>2. CASE N!Ends(w)
  BY <1>1, <1>2, EndsSound, SameTables
<1>3. CASE N!Reports(w)
  BY <1>1, <1>3, ReportsOn, SameTables
<1>4. CASE N!Goes(w)
  <2>1. N!After(thread[w].stage) = "append"
    BY <1>1 DEF N!After
  <2>2. PICK j, ls : j = thread[w].job /\ ls = thread[w].lines
    OBVIOUS
  <2>3. j \in N!Job /\ ls \in SUBSET N!Line /\ j = "ingest"
    BY <1>1, <2>2, AtWork, Fields, ReportedIs
  <2>4. Edits(w, "append", j, ls)
    <3>1. PICK r : r = [thread[w] EXCEPT !.stage = "append", !.job = j]
      OBVIOUS
    <3>2. thread' = [thread EXCEPT ![w] = r]
      BY <1>1, <1>4, <2>1, <2>2, <3>1 DEF N!Goes
    <3> QED
      BY <2>2, <3>1, <3>2 DEF Edits, EditOf
  <2> QED
    BY <1>1, <2>2, <2>3, <2>4, GoesOn, SameTables DEF N!Step, Rewriting
<1> QED
  BY <1>2, <1>3, <1>4 DEF N!Decide

\* The line is in the log before the row is inserted.
LEMMA AppendSound ==
    ASSUME LogInv, NEW w \in Thread, N!Append(w)
    PROVE  LogInv'
<1>1. PICK t : t = thread[w]
  OBVIOUS
<1>2. t \in N!WorkerRow /\ t.stage = "append" /\ Sound(t) /\ t # N!AtRest
  BY <1>1, AtWork DEF N!Append
<1>3. PICK e \in Happening : e = N!Reported(w)
  BY <1>1, <1>2, ReportedIs
<1>4. t.of = {e} /\ t.job = "ingest" /\ t.number \in 1..MaxIngest
      /\ t.lines \in SUBSET N!Line
  BY <1>1, <1>2, <1>3, ReportedIs, Fields
<1>5. PICK n \in 1..MaxIngest : n = t.number
  BY <1>4
<1>6. PICK l : l = [of |-> e, subject |-> 0, number |-> n]
  OBVIOUS
<1>7. l \in N!Line /\ l.of = e
  <2>1. MaxErasure \in Nat
    BY BackgroundAssumption DEF BackgroundAssumption, N!AnalyticsAssumption
  <2> QED
    BY <1>6, <2>1 DEF N!Line
<1>8. log' = log \cup {l}
  BY <1>1, <1>3, <1>5, <1>6 DEF N!Append
<1>9. UNCHANGED <<turn, aged, torn, consent, stops, ingests, erasures, accepted, lost, duck,
                 tables>>
  BY DEF N!Append, N!Counters
<1>10. \A x : Safe(x) => Safe(x)'
  BY <1>8, <1>9 DEF Safe, N!Logged
<1>11. Safe(e)'
  BY <1>7, <1>8 DEF Safe, N!Logged
<1>12. PICK r : r = [t EXCEPT !.stage = "insert", !.job = "ingest"]
  OBVIOUS
<1>13. thread' = [thread EXCEPT ![w] = r]
  BY <1>1, <1>2, <1>4, <1>12 DEF N!Append, N!Goes, N!After
<1>14. /\ r \in N!WorkerRow /\ r.stage = "insert" /\ r.job = "ingest"
       /\ r.of = {e} /\ r.number = n
  <2>1. EditOf(r, t, "insert", "ingest", t.lines)
    BY <1>12 DEF EditOf
  <2> QED
    BY <1>2, <1>4, <1>5, <2>1, Edited DEF N!Step, N!Job
<1>15. Sound(r)'
  BY <1>11, <1>14 DEF Sound, Rewriting
<1>16. /\ log' \subseteq N!Line /\ duck' \subseteq N!Row /\ tables' \in BOOLEAN
       /\ accepted' \subseteq Happening /\ ingests' \in 0..MaxIngest
       /\ erasures' \in 0..MaxErasure /\ lost' \subseteq Happening
  BY <1>7, <1>8, <1>9 DEF LogInv, N!AnalyticsTypeOK
<1> QED
  BY <1>1, <1>2, <1>9, <1>10, <1>13, <1>14, <1>15, <1>16, WorkKept

LEMMA InsertSound ==
    ASSUME LogInv, NEW w \in Thread, N!Insert(w)
    PROVE  LogInv'
<1>1. PICK t : t = thread[w]
  OBVIOUS
<1>2. t \in N!WorkerRow /\ t.stage = "insert" /\ Sound(t) /\ t # N!AtRest
  BY <1>1, AtWork DEF N!Insert
<1>3. PICK e \in Happening : e = N!Reported(w)
  BY <1>1, <1>2, ReportedIs
<1>4. t.of = {e} /\ t.lines \in SUBSET N!Line /\ t.job \in N!Job /\ Safe(e)
  BY <1>1, <1>2, <1>3, ReportedIs, Fields DEF Sound
<1>5. UNCHANGED <<turn, aged, torn, consent, stops, ingests, erasures, log, lost, tables>>
      /\ tables' \in BOOLEAN
  BY DEF N!Insert, N!Counters, LogInv, N!AnalyticsTypeOK
<1>6. N!Fresh(e) \in N!Row /\ N!Fresh(e).of = e
  <2>1. MaxErasure \in Nat
    BY BackgroundAssumption DEF BackgroundAssumption, N!AnalyticsAssumption
  <2> QED
    BY <2>1 DEF N!Fresh, N!Row
<1>7. CASE tables
  <2>1. duck' = duck \cup {N!Fresh(e)} /\ accepted' = accepted \cup {e} /\ N!Goes(w)
    BY <1>1, <1>3, <1>4, <1>7 DEF N!Insert
  <2>2. /\ \A x \in accepted' : x \in accepted \/ Safe(x)
        /\ \A q \in duck' : q \in duck \/ Safe(q.of)
        /\ duck' \subseteq N!Row /\ accepted' \subseteq Happening
    BY <1>4, <1>6, <2>1 DEF LogInv, N!AnalyticsTypeOK
  <2>3. N!Reports(w)
    BY <1>1, <1>2, <2>1 DEF N!Goes, N!Reports, N!After
  <2> QED
    BY <1>1, <1>2, <1>5, <2>2, <2>3, ReportsOn
<1>8. CASE ~tables
  <2>1. N!Ends(w) /\ UNCHANGED <<duck, accepted>>
    BY <1>8 DEF N!Insert
  <2> QED
    BY <1>1, <1>2, <1>5, <2>1, EndsSound, SameTables
<1> QED
  BY <1>7, <1>8 DEF LogInv, N!AnalyticsTypeOK

LEMMA ScanSound ==
    ASSUME LogInv, NEW w \in Thread, N!Scan(w)
    PROVE  LogInv'
<1>1. PICK ls \in SUBSET N!Line : ls = log
  BY DEF LogInv, N!AnalyticsTypeOK
<1>2. PICK j : j = thread[w].job
  OBVIOUS
<1>3. thread[w].stage = "scan" /\ j \in {"cleanup", "erase"}
  BY <1>2, AtWork, Rest DEF N!Scan, Sound, Rewriting
<1>4. Edits(w, "replace", j, ls)
  <2>1. PICK r : r = [thread[w] EXCEPT !.stage = "replace", !.lines = ls]
    OBVIOUS
  <2>2. thread' = [thread EXCEPT ![w] = r]
    BY <1>1, <2>1 DEF N!Scan
  <2> QED
    BY <1>2, <2>1, <2>2 DEF Edits, EditOf
<1>5. UNCHANGED <<turn, aged, torn, consent, stops, ingests, erasures, log, lost, accepted, duck>>
      /\ tables' \in BOOLEAN
  BY DEF N!Scan, N!Counters, LogInv, N!AnalyticsTypeOK
<1> QED
  BY <1>1, <1>2, <1>3, <1>4, <1>5, GoesOn, SameTables DEF N!Step, N!Job, Rewriting

\* A rewrite drops only what has passed its retention, of the lines it read.
LEMMA RewriteKeeps ==
    ASSUME LogInv, NEW w \in Thread, thread[w].stage = "replace"
    PROVE  /\ N!Rewritten(w) \subseteq N!Line
           /\ \A l \in thread[w].lines :
                  l.of \in aged \/ \E k \in N!Rewritten(w) : k.of = l.of
<1>1. PICK t : t = thread[w]
  OBVIOUS
<1>2. t \in N!WorkerRow /\ Sound(t) /\ t # N!AtRest
  BY <1>1, AtWork
<1>3. t.job \in {"cleanup", "erase"} /\ t.lines \subseteq N!Line
  BY <1>1, <1>2, Fields DEF Sound, Rewriting
<1>4. CASE t.job = "cleanup"
  <2>1. t.of \subseteq aged
    BY <1>2, <1>4 DEF Sound
  <2>2. N!Rewritten(w) = {l \in t.lines : l.of \notin t.of}
    BY <1>1, <1>4 DEF N!Rewritten
  <2> QED
    BY <1>1, <1>3, <2>1, <2>2
<1>5. CASE t.job = "erase"
  <2>1. t.number \in 0..MaxErasure
    BY <1>2, <1>5 DEF Sound
  <2>2. N!Rewritten(w) = {N!Pseudonym(w, l) : l \in t.lines}
    BY <1>1, <1>5 DEF N!Rewritten
  <2>3. ASSUME NEW l \in N!Line
        PROVE  N!Pseudonym(w, l) \in N!Line /\ N!Pseudonym(w, l).of = l.of
    BY <1>1, <2>1, <2>3 DEF N!Pseudonym, N!Line
  <2> QED
    BY <1>1, <1>3, <2>2, <2>3
<1> QED
  BY <1>3, <1>4, <1>5

\* What was in the file is still there, past its retention, or overtaken.
LEMMA ReplaceSound ==
    ASSUME LogInv, NEW w \in Thread, N!Replace(w)
    PROVE  LogInv'
<1>1. PICK t : t = thread[w]
  OBVIOUS
<1>2. t \in N!WorkerRow /\ t.stage = "replace" /\ Sound(t) /\ t # N!AtRest
  BY <1>1, AtWork DEF N!Replace
<1>3. UNCHANGED <<turn, aged, torn, consent, stops, ingests, erasures, accepted, duck, tables>>
  BY DEF N!Replace, N!Counters
<1>4. \/ UNCHANGED <<log, lost>>
      \/ log' = N!Rewritten(w) /\ lost' = lost \cup N!Overtaken(w)
  BY DEF N!Replace
<1>5. /\ log' \subseteq N!Line /\ lost' \subseteq Happening /\ lost \subseteq lost'
      /\ \A l \in log : \/ l.of \in aged \/ l.of \in lost'
                        \/ \E k \in log' : k.of = l.of
  <2>1. log \subseteq N!Line /\ lost \subseteq Happening /\ \A l \in N!Line : l.of \in Happening
    BY DEF LogInv, N!AnalyticsTypeOK, N!Line
  <2>2. CASE UNCHANGED <<log, lost>>
    BY <2>1, <2>2
  <2>3. CASE log' = N!Rewritten(w) /\ lost' = lost \cup N!Overtaken(w)
    <3>1. N!Overtaken(w) \subseteq Happening
      BY <2>1 DEF N!Overtaken
    <3>2. ASSUME NEW l \in log, l.of \notin N!Overtaken(w)
          PROVE  \E k \in t.lines : k.of = l.of
      BY <1>1, <3>2 DEF N!Overtaken
    <3>3. log' \subseteq N!Line /\ \A l \in t.lines : l.of \in aged \/ \E k \in log' : k.of = l.of
      BY <1>1, <1>2, <2>3, RewriteKeeps
    <3> QED
      BY <2>1, <2>3, <3>1, <3>2, <3>3
  <2> QED
    BY <1>4, <2>2, <2>3
<1>6. \A x : Safe(x) => Safe(x)'
  BY <1>3, <1>5 DEF Safe, N!Logged
<1>7. PICK s \in {"purge", "update"} :
          /\ thread' = [thread EXCEPT ![w].stage = s]
          /\ s = "update" => t.job # "cleanup"
  BY <1>1 DEF N!Replace, N!To
<1>8. PICK r : r = [t EXCEPT !.stage = s]
  OBVIOUS
<1>9. thread' = [thread EXCEPT ![w] = r]
  BY <1>1, <1>7, <1>8
<1>10. /\ r \in N!WorkerRow /\ r.stage = s /\ r.job = t.job /\ r.of = t.of
       /\ r.number = t.number /\ r.lines = t.lines
  <2>1. EditOf(r, t, s, t.job, t.lines)
    BY <1>8 DEF EditOf
  <2>2. t.job \in N!Job /\ t.lines \in SUBSET N!Line /\ s \in N!Step
    BY <1>2, Fields DEF N!Step
  <2> QED
    BY <1>2, <2>1, <2>2, Edited
<1>11. Sound(r)
  BY <1>2, <1>7, <1>10 DEF Sound, Rewriting
<1>12. Sound(r)'
  BY <1>3, <1>6, <1>10, <1>11, SoundKept
<1>13. /\ duck' \subseteq N!Row /\ tables' \in BOOLEAN
       /\ accepted' \subseteq Happening /\ ingests' \in 0..MaxIngest
       /\ erasures' \in 0..MaxErasure
  BY <1>3 DEF LogInv, N!AnalyticsTypeOK
<1> QED
  BY <1>1, <1>2, <1>3, <1>5, <1>6, <1>9, <1>10, <1>12, <1>13, WorkKept

LEMMA PurgeSound ==
    ASSUME LogInv, NEW w \in Thread, N!Purge(w)
    PROVE  LogInv'
<1>1. thread[w].stage = "purge" /\ N!Ends(w)
      /\ UNCHANGED <<turn, aged, torn, consent, stops, ingests, erasures, log, lost, accepted>>
      /\ tables' \in BOOLEAN /\ accepted' \subseteq Happening
  BY DEF N!Purge, N!Counters, LogInv, N!AnalyticsTypeOK
<1>2. duck' \subseteq duck /\ duck \subseteq N!Row
  BY DEF N!Purge, LogInv, N!AnalyticsTypeOK
<1> QED
  BY <1>1, <1>2, EndsSound

LEMMA UpdateSound ==
    ASSUME LogInv, NEW w \in Thread, N!Update(w)
    PROVE  LogInv'
<1>1. PICK t : t = thread[w]
  OBVIOUS
<1>2. t \in N!WorkerRow /\ t.stage = "update" /\ Sound(t) /\ t # N!AtRest
  BY <1>1, AtWork DEF N!Update
<1>3. /\ UNCHANGED <<turn, aged, torn, consent, stops, ingests, erasures, log, lost, accepted>>
      /\ tables' \in BOOLEAN /\ accepted' \subseteq Happening
      /\ \A e \in accepted' : e \in accepted \/ Safe(e)
  BY DEF N!Update, N!Counters, LogInv, N!AnalyticsTypeOK
<1>4. t.job = "erase" /\ t.number \in 0..MaxErasure
  BY <1>2 DEF Sound
<1>5. duck' \subseteq N!Row /\ \A q \in duck' : q \in duck \/ Safe(q.of)
  <2>1. duck \subseteq N!Row /\ \A q \in duck : Safe(q.of)
    <3>1. \A q \in N!Row : q.of \in Happening
      BY DEF N!Row
    <3> QED
      BY <3>1 DEF LogInv, N!AnalyticsTypeOK, N!SourceOfTruth, Safe
  <2>2. \A q \in N!Renamed(w) : q \in N!Row /\ Safe(q.of)
    <3>1. ASSUME NEW p \in N!Linked(w)
          PROVE  [p EXCEPT !.subject = t.number] \in N!Row
                 /\ Safe([p EXCEPT !.subject = t.number].of)
      <4>1. p \in N!Row /\ Safe(p.of)
        BY <2>1, <3>1 DEF N!Linked
      <4>2. [p EXCEPT !.subject = t.number].of = p.of
        BY <4>1 DEF N!Row
      <4>3. [p EXCEPT !.subject = t.number] \in N!Row
        BY <1>4, <4>1 DEF N!Row
      <4> QED
        BY <4>1, <4>2, <4>3
    <3> QED
      BY <1>1, <3>1 DEF N!Renamed
  <2> QED
    BY <2>1, <2>2 DEF N!Update
<1>6. N!Ends(w) \/ N!To(w, "unlink")
  BY DEF N!Update
<1> QED
  BY <1>1, <1>2, <1>3, <1>4, <1>5, <1>6, EndsSound, GoesTo DEF N!Step, Rewriting

LEMMA UnlinkSound ==
    ASSUME LogInv, NEW w \in Thread, N!Unlink(w)
    PROVE  LogInv'
<1>1. PICK ls : ls = thread[w].lines
  OBVIOUS
<1>2. thread[w].stage = "unlink" /\ ls \in SUBSET N!Line
  BY <1>1, AtWork, Fields DEF N!Unlink
<1>3. Edits(w, "open", "rebuild", ls)
  <2>1. PICK r : r = [thread[w] EXCEPT !.stage = "open", !.job = "rebuild"]
    OBVIOUS
  <2>2. thread' = [thread EXCEPT ![w] = r]
    BY <2>1 DEF N!Unlink
  <2> QED
    BY <1>1, <2>1, <2>2 DEF Edits, EditOf
<1>4. /\ UNCHANGED <<turn, aged, torn, consent, stops, ingests, erasures, log, lost, accepted>>
      /\ tables' \in BOOLEAN /\ accepted' \subseteq Happening
      /\ \A e \in accepted' : e \in accepted \/ Safe(e)
      /\ \A q \in duck' : q \in duck \/ Safe(q.of)
      /\ duck' \subseteq N!Row
  BY DEF N!Unlink, N!Counters, LogInv, N!AnalyticsTypeOK
<1> QED
  BY <1>2, <1>3, <1>4, GoesOn DEF N!Step, N!Job, Rewriting

\* The steps that are not a thread's.
LEMMA SettingSound ==
    ASSUME LogInv, N!SetConsent \/ \E e \in Happening : N!GrowOld(e)
    PROVE  LogInv'
<1>1. UNCHANGED <<log, torn, tables, duck, thread, accepted, lost, ingests, erasures, stops,
                 turn>>
  BY DEF N!SetConsent, N!GrowOld, N!Counters
<1>2. aged \subseteq aged' /\ aged' \subseteq Happening /\ consent' \in BOOLEAN
  BY DEF N!SetConsent, N!GrowOld, LogInv, N!AnalyticsTypeOK
<1>3. N!AnalyticsTypeOK'
  BY <1>1, <1>2 DEF LogInv, N!AnalyticsTypeOK
<1>4. \A e : Safe(e) => Safe(e)'
  BY <1>1, <1>2 DEF Safe, N!Logged
<1>5. ASSUME NEW w \in Thread PROVE Sound(thread[w])'
  <2>1. PICK t : t = thread[w]
    OBVIOUS
  <2>2. Sound(t)'
    BY <1>1, <1>2, <1>4, <2>1, SoundKept DEF LogInv, ThreadsSound
  <2> QED
    BY <1>1, <2>1, <2>2 DEF Sound
<1>6. ThreadsSound'
  BY <1>5 DEF ThreadsSound
<1>7. N!SourceOfTruth'
  BY <1>1, <1>4, TruthKept
<1> QED
  BY <1>3, <1>6, <1>7 DEF LogInv

LEMMA StopSound ==
    ASSUME LogInv, N!Stop \/ \E w \in Thread : N!StopWithin(w)
    PROVE  LogInv'
<1>1. /\ UNCHANGED <<log, tables, duck, consent, aged, accepted, lost, ingests, erasures,
                     turn>>
      /\ thread' = [w \in Thread |-> N!AtRest]
      /\ stops < MaxStop /\ stops' = stops + 1
      /\ torn' \in BOOLEAN
  BY DEF N!Stop, N!StopWithin, N!Stopped, LogInv, N!AnalyticsTypeOK
<1>2. stops' \in 0..MaxStop
  BY <1>1, BackgroundAssumption
     DEF BackgroundAssumption, N!AnalyticsAssumption, LogInv, N!AnalyticsTypeOK
<1>3. N!AnalyticsTypeOK'
  BY <1>1, <1>2 DEF LogInv, N!AnalyticsTypeOK
<1>4. \A w \in Thread : thread'[w] = N!AtRest
  BY <1>1
<1>5. ThreadsSound'
  BY <1>4 DEF ThreadsSound, Sound
<1>7. \A e : Safe(e) => Safe(e)'
  BY <1>1 DEF Safe, N!Logged
<1>8. N!SourceOfTruth'
  BY <1>1, <1>7, TruthKept
<1> QED
  BY <1>3, <1>5, <1>8 DEF LogInv

LEMMA LogInvStep ==
    ASSUME LogInv, [N!AnalyticsNext]_analytics
    PROVE  LogInv'
<1>1. CASE UNCHANGED analytics
  BY <1>1 DEF analytics, LogInv, N!AnalyticsTypeOK, ThreadsSound, Sound, Safe,
              N!SourceOfTruth, N!Logged
<1>2. ASSUME NEW w \in Thread, N!Advance(w) PROVE LogInv'
  BY <1>2, OpenSound, LoadSound, ConsentSound, DecideSound, AppendSound, InsertSound,
     ScanSound, ReplaceSound, PurgeSound, UpdateSound, UnlinkSound
     DEF N!Advance, N!Ingest, N!Rewrite
<1> QED
  BY <1>1, <1>2, BackgroundAssumption, SettingSound, BeginsSound, StopSound
     DEF N!AnalyticsNext

LEMMA LogInvInit ==
    ASSUME N!AnalyticsInit
    PROVE  LogInv
<1>1. \A w \in Thread : thread[w] = N!AtRest
  BY DEF N!AnalyticsInit
<1>2. 0 \in 0..MaxIngest /\ 0 \in 0..MaxErasure /\ 0 \in 0..MaxStop
  BY BackgroundAssumption DEF BackgroundAssumption, N!AnalyticsAssumption
<1>3. N!AnalyticsTypeOK
  BY <1>2 DEF N!AnalyticsInit, N!AnalyticsTypeOK
<1>4. N!SourceOfTruth
  BY DEF N!AnalyticsInit, N!SourceOfTruth
<1> QED
  BY <1>1, <1>3, <1>4 DEF LogInv, ThreadsSound, Sound

LEMMA AnalyticsInvariant == BackgroundSpec => []LogInv
<1>1. BackgroundInit => LogInv
  BY LogInvInit DEF BackgroundInit
<1>2. [BackgroundNext]_everything => [N!AnalyticsNext]_analytics
  BY DEF BackgroundNext, Outbox, Contact, Analytics, Site, everything, analytics
<1>3. LogInv /\ [BackgroundNext]_everything => LogInv'
  BY <1>2, LogInvStep
<1> QED
  BY <1>1, <1>3, PTL DEF BackgroundSpec

\* What was answered as accepted, or is reported on, stays in the log until
\* its retention is over, whichever threads report the same happening, rewrite
\* the log beside each other, and wherever the process stops: only a line that
\* was appended between the reading and the replacement of the file is lost.
THEOREM LogIsSource == BackgroundSpec => []SourceOfTruth
<1>1. LogInv => SourceOfTruth
  BY DEF LogInv, SourceOfTruth
<1> QED
  BY <1>1, AnalyticsInvariant, PTL

-----------------------------------------------------------------------------
(* The pictures of the site stay reachable.                                *)

\* One run of the script at a time.
OneOperator == \A o, p \in Operator : o = p

SiteTypes ==
    /\ url \in [Slot -> [Column -> S!Place]]
    /\ request \in [Admin -> S!Request]
    /\ run \in [Operator -> S!Run]
    /\ object \in [S!Key -> {"absent", "stored", "swept"}]
    /\ uploads \in S!Picture

\* A request that has read the slot, and one that will write an upload to it.
InUse(a) == request[a].stage \in {"read", "written"}
Due(a) == request[a].stage \in {"asked", "read"} /\ request[a].new.at = "bucket"

\* A picture has the number of its upload; the one on the disk has none.
Numbered(p, n) == p.picture <= n /\ (p.at = "disk" => p.picture = 0)

PicturesNumbered ==
    /\ \A s \in Slot, c \in Column : Numbered(url[s][c], uploads)
    /\ \A a \in Admin : request[a].stage # "idle" =>
           /\ request[a].new.at \in {"nothing", "bucket"}
           /\ Numbered(request[a].new, uploads)
           /\ request[a].new.at = "bucket" => request[a].new.picture > 0
           /\ \A c \in Column : Numbered(request[a].old[c], uploads)

\* An upload that no row shows yet is stored, and nobody else knows of it.
UploadsOwn ==
    \A a \in Admin : Due(a) => \A c \in Column :
        /\ object[<<request[a].slot, c, request[a].new.picture>>] # "absent"
        /\ url[request[a].slot][c] # request[a].new
        /\ \A b \in Admin :
               request[b].stage # "idle" /\ request[b].slot = request[a].slot =>
                   /\ request[b].old[c] # request[a].new
                   /\ b # a => request[b].new # request[a].new

\* No column comes back to the disk, nor to a picture that is being removed.
ReplacedGone ==
    \A a \in Admin : InUse(a) => \A c \in Column :
        /\ request[a].old[c].at # "disk" => url[request[a].slot][c].at # "disk"
        /\ request[a].stage = "written" =>
               /\ url[request[a].slot][c].at # "disk"
               /\ request[a].old[c].at = "bucket" =>
                      url[request[a].slot][c] # request[a].old[c]

\* What a run of the script has to do.
WithColumns == {"columns", "uploaded", "rewritten"}

RunSound(r) ==
    r.stage \in WithColumns =>
        /\ r.todo \subseteq S!Column1
        /\ \A t \in r.todo : t.shown.at = "disk" => t.shown.picture = 0
        /\ \A t, u \in r.todo : t.slot = u.slot /\ t.column = u.column => t = u
        /\ r.stage # "columns" =>
               /\ r.task \in S!Column1
               /\ r.task.shown = S!OnDisk
               /\ \A t \in r.todo : t.slot # r.task.slot \/ t.column # r.task.column

\* A column that a run is going to point to the bucket.
Waits(r, s, c) ==
    \/ /\ r.stage \in WithColumns
       /\ \E t \in r.todo : t.slot = s /\ t.column = c /\ t.shown.at = "disk"
    \/ r.stage = "uploaded" /\ r.task.slot = s /\ r.task.column = c

\* Nothing points to the object of the picture that was on the disk.
Unmoved(s, c) ==
    /\ url[s][c] # S!InBucket(0)
    /\ \A a \in Admin : InUse(a) /\ request[a].slot = s =>
           request[a].old[c] # S!InBucket(0)

RunsSound ==
    \A o \in Operator :
        /\ RunSound(run[o])
        /\ \A s \in Slot, c \in Column : Waits(run[o], s, c) => Unmoved(s, c)
        /\ run[o].stage = "uploaded" =>
               object[<<run[o].task.slot, run[o].task.column, 0>>] # "absent"

SiteInv ==
    /\ SiteTypes /\ PicturesNumbered /\ UploadsOwn /\ ReplacedGone /\ RunsSound
    /\ S!MediaReachable

LEMMA SiteNumbers ==
    MaxPicture \in Nat /\ S!Picture = 0..MaxPicture /\ 0 \in S!Picture
  BY BackgroundAssumption DEF BackgroundAssumption, S!SiteMediaAssumption, S!Picture

LEMMA KeyIn ==
    ASSUME NEW s \in Slot, NEW c \in Column, NEW p \in S!Picture
    PROVE  <<s, c, p>> \in S!Key
  BY DEF S!Key

LEMMA RequestFields ==
    ASSUME SiteInv, NEW a \in Admin, request[a].stage # "idle"
    PROVE  /\ request[a].slot \in Slot /\ request[a].new \in S!Place
           /\ request[a].old \in [Column -> S!Place]
           /\ request[a].stage \in {"asked", "read", "written"}
           /\ request[a] # S!NoRequest
           /\ request[a] = [stage |-> request[a].stage, slot |-> request[a].slot,
                            new |-> request[a].new, old |-> request[a].old]
  BY DEF SiteInv, SiteTypes, S!Request, S!NoRequest

LEMMA PlaceFields ==
    ASSUME NEW p \in S!Place
    PROVE  /\ p.at \in {"nothing", "external", "disk", "bucket"}
           /\ p.picture \in S!Picture
           /\ \A q \in S!Place : p.at = q.at /\ p.picture = q.picture <=> p = q
  BY DEF S!Place

\* The steps of the script and of the bucket that change no row.
LEMMA ScriptKept ==
    ASSUME SiteInv, UNCHANGED <<url, request, uploads, disk>>,
           \A k \in S!Key : object[k] # "absent" => object'[k] # "absent",
           object' \in [S!Key -> {"absent", "stored", "swept"}],
           run' \in [Operator -> S!Run], RunsSound'
    PROVE  SiteInv'
<1>1. SiteTypes' /\ PicturesNumbered' /\ ReplacedGone'
  BY DEF SiteInv, SiteTypes, PicturesNumbered, Numbered, ReplacedGone, InUse
<1>2. UploadsOwn'
  <2> SUFFICES ASSUME NEW a \in Admin, Due(a), NEW c \in Column
               PROVE  object'[<<request[a].slot, c, request[a].new.picture>>] # "absent"
    BY DEF SiteInv, UploadsOwn, Due
  <2>1. <<request[a].slot, c, request[a].new.picture>> \in S!Key
    BY RequestFields, PlaceFields, KeyIn DEF Due
  <2> QED
    BY <2>1 DEF SiteInv, UploadsOwn
<1>3. S!MediaReachable'
  <2> SUFFICES ASSUME NEW s \in Slot, NEW c \in Column, url[s][c].at = "bucket"
               PROVE  object'[<<s, c, url[s][c].picture>>] # "absent"
    BY DEF SiteInv, S!MediaReachable
  <2>1. <<s, c, url[s][c].picture>> \in S!Key
    BY PlaceFields, KeyIn DEF SiteInv, SiteTypes
  <2> QED
    BY <2>1 DEF SiteInv, S!MediaReachable
<1> QED
  BY <1>1, <1>2, <1>3 DEF SiteInv

\* A run goes on, with less to do.
LEMMA RunGoes ==
    ASSUME SiteInv, UNCHANGED <<url, request, uploads, disk>>,
           \A k \in S!Key : object[k] # "absent" => object'[k] # "absent",
           object' \in [S!Key -> {"absent", "stored", "swept"}],
           NEW o \in Operator, NEW r \in S!Run, run' = [run EXCEPT ![o] = r],
           RunSound(r),
           \A s \in Slot, c \in Column : Waits(r, s, c) => Unmoved(s, c),
           r.stage = "uploaded" =>
               object'[<<r.task.slot, r.task.column, 0>>] # "absent"
    PROVE  SiteInv'
<1>1. /\ run'[o] = r /\ run' \in [Operator -> S!Run]
      /\ \A p \in Operator \ {o} : run'[p] = run[p]
  BY DEF SiteInv, SiteTypes
<1>2. ASSUME NEW p \in Operator
      PROVE  /\ RunSound(run'[p])
             /\ \A s \in Slot, c \in Column : Waits(run'[p], s, c) => Unmoved(s, c)
             /\ run'[p].stage = "uploaded" =>
                    object'[<<run'[p].task.slot, run'[p].task.column, 0>>] # "absent"
  <2>1. CASE p = o
    BY <1>1, <2>1
  <2>2. CASE p # o
    <3>1. run[p].stage = "uploaded" =>
              <<run[p].task.slot, run[p].task.column, 0>> \in S!Key
      BY KeyIn, SiteNumbers
         DEF SiteInv, RunsSound, RunSound, WithColumns, S!Column1
    <3>2. run'[p] = run[p]
      BY <1>1, <2>2
    <3> QED
      BY <3>1, <3>2 DEF SiteInv, RunsSound
  <2> QED
    BY <2>1, <2>2
<1>3. \A s, c : Unmoved(s, c)' <=> Unmoved(s, c)
  BY DEF Unmoved, InUse
<1>4. RunsSound'
  BY <1>2, <1>3 DEF RunsSound, RunSound, Waits
<1> QED
  BY <1>1, <1>4, ScriptKept

LEMMA RunFields ==
    ASSUME SiteInv, NEW o \in Operator
    PROVE  /\ run[o] \in S!Run /\ RunSound(run[o])
           /\ \A s \in Slot, c \in Column : Waits(run[o], s, c) => Unmoved(s, c)
           /\ run[o].stage # "idle" => run[o] # S!NoRun
<1>1. run[o] \in S!Run
  BY DEF SiteInv, SiteTypes
<1>2. RunSound(run[o])
      /\ \A s \in Slot, c \in Column : Waits(run[o], s, c) => Unmoved(s, c)
  BY DEF SiteInv, RunsSound
<1>3. S!NoRun.stage = "idle"
  BY DEF S!NoRun
<1> QED
  BY <1>1, <1>2, <1>3

LEMMA RunEdited ==
    ASSUME NEW r \in S!Run, r # S!NoRun,
           NEW g \in WithColumns \cup {"sections"}, NEW ts \in SUBSET S!Task,
           NEW k \in S!Task \cup {NoTask}
    PROVE  /\ [stage |-> g, todo |-> ts, task |-> k, dry |-> r.dry, force |-> r.force]
                  \in S!Run
           /\ r.todo \in SUBSET S!Task /\ r.task \in S!Task \cup {NoTask}
           /\ r.dry \in BOOLEAN /\ r.force \in BOOLEAN
           /\ r.stage \in WithColumns \cup {"sections"}
  BY DEF S!Run, WithColumns

LEMMA StoredKeeps ==
    ASSUME SiteInv, NEW ks
    PROVE  /\ S!Stored(ks) \in [S!Key -> {"absent", "stored", "swept"}]
           /\ \A k \in S!Key : object[k] # "absent" => S!Stored(ks)[k] # "absent"
           /\ \A k \in S!Key \cap ks : S!Stored(ks)[k] = "stored"
  BY DEF S!Stored, SiteInv, SiteTypes

LEMMA IdleRun ==
    /\ S!NoRun \in S!Run /\ RunSound(S!NoRun) /\ S!NoRun.stage = "idle"
    /\ \A s, c : ~Waits(S!NoRun, s, c)
  BY DEF S!NoRun, S!Run, RunSound, Waits, WithColumns

LEMMA RunEnds ==
    ASSUME SiteInv, NEW o \in Operator, S!EndRun(o) \/ S!RunStops(o)
    PROVE  SiteInv'
<1>1. UNCHANGED <<url, request, uploads, disk, object>>
      /\ run' = [run EXCEPT ![o] = S!NoRun]
  BY DEF S!EndRun, S!RunStops
<1>2. PICK r \in S!Run : r = S!NoRun
  BY IdleRun
<1>3. object' \in [S!Key -> {"absent", "stored", "swept"}]
  BY <1>1 DEF SiteInv, SiteTypes
<1> QED
  BY <1>1, <1>2, <1>3, RunGoes, IdleRun

LEMMA PassedOverRun ==
    ASSUME SiteInv, NEW o \in Operator, NEW t, run[o].stage \in WithColumns \cup {"sections"},
           UNCHANGED <<url, request, uploads, disk>>,
           run' = S!PassedOver(o, t),
           \A k \in S!Key : object[k] # "absent" => object'[k] # "absent",
           object' \in [S!Key -> {"absent", "stored", "swept"}]
    PROVE  SiteInv'
<1>1. PICK q : q = run[o]
  OBVIOUS
<1>2. q \in S!Run /\ RunSound(q) /\ q # S!NoRun
      /\ \A s \in Slot, c \in Column : Waits(q, s, c) => Unmoved(s, c)
  BY <1>1, RunFields DEF WithColumns
<1>3. PICK r : r = [q EXCEPT !.todo = @ \ {t}]
  OBVIOUS
<1>4. r = [stage |-> q.stage, todo |-> q.todo \ {t}, task |-> q.task,
           dry |-> q.dry, force |-> q.force]
  BY <1>2, <1>3, RunEdited DEF S!Run, S!NoRun
<1>5. r \in S!Run
  BY <1>1, <1>2, <1>4, RunEdited
<1>6. RunSound(r)
  BY <1>2, <1>4 DEF RunSound
<1>7. \A s \in Slot, c \in Column : Waits(r, s, c) => Waits(q, s, c)
  BY <1>4 DEF Waits
<1>8. run' = [run EXCEPT ![o] = r]
  BY <1>1, <1>3 DEF S!PassedOver
<1>9. r.stage = "uploaded" => object'[<<r.task.slot, r.task.column, 0>>] # "absent"
  <2> SUFFICES ASSUME q.stage = "uploaded"
               PROVE  object'[<<q.task.slot, q.task.column, 0>>] # "absent"
    BY <1>4
  <2>1. <<q.task.slot, q.task.column, 0>> \in S!Key
    BY <1>2, KeyIn, SiteNumbers DEF RunSound, WithColumns, S!Column1
  <2> QED
    BY <1>1, <2>1 DEF SiteInv, RunsSound
<1> QED
  BY <1>2, <1>5, <1>6, <1>7, <1>8, <1>9, RunGoes

LEMMA PassingSteps ==
    ASSUME SiteInv, NEW o \in Operator, NEW t,
           S!SkipColumn(o, t) \/ S!UploadFails(o, t) \/ S!ProcessSection(o, t)
    PROVE  SiteInv'
<1>1. /\ run[o].stage \in WithColumns \cup {"sections"}
      /\ UNCHANGED <<url, request, uploads, disk>>
      /\ run' = S!PassedOver(o, t)
      /\ object' = object \/ \E ks : object' = S!Stored(ks)
  BY DEF S!SkipColumn, S!UploadFails, S!ProcessSection, WithColumns
<1>2. /\ \A k \in S!Key : object[k] # "absent" => object'[k] # "absent"
      /\ object' \in [S!Key -> {"absent", "stored", "swept"}]
  BY <1>1, StoredKeeps DEF SiteInv, SiteTypes
<1> QED
  BY <1>1, <1>2, PassedOverRun

LEMMA SectionsStep ==
    ASSUME SiteInv, NEW o \in Operator, S!StartSections(o)
    PROVE  SiteInv'
<1>1. PICK q : q = run[o]
  OBVIOUS
<1>2. q \in S!Run /\ q # S!NoRun /\ q.stage = "columns"
  BY <1>1, RunFields DEF S!StartSections
<1>3. PICK r : r = [q EXCEPT !.stage = "sections", !.todo = Section]
  OBVIOUS
<1>4. r.stage = "sections"
  BY <1>2, <1>3 DEF S!Run, S!NoRun
<1>5. r \in S!Run
  BY <1>2, <1>3 DEF S!Run, S!NoRun, S!Task
<1>6. RunSound(r) /\ \A s, c : ~Waits(r, s, c)
  BY <1>4 DEF RunSound, Waits, WithColumns
<1>7. run' = [run EXCEPT ![o] = r]
  BY <1>1, <1>3 DEF S!StartSections
<1>8. UNCHANGED <<url, request, uploads, disk, object>>
      /\ object' \in [S!Key -> {"absent", "stored", "swept"}]
  BY DEF S!StartSections, SiteInv, SiteTypes
<1> QED
  BY <1>4, <1>5, <1>6, <1>7, <1>8, RunGoes

LEMMA LogStep ==
    ASSUME SiteInv, NEW o \in Operator, S!LogRewrite(o)
    PROVE  SiteInv'
<1>1. PICK q : q = run[o]
  OBVIOUS
<1>2. q \in S!Run /\ q # S!NoRun /\ q.stage = "rewritten" /\ RunSound(q)
      /\ \A s \in Slot, c \in Column : Waits(q, s, c) => Unmoved(s, c)
  BY <1>1, RunFields DEF S!LogRewrite
<1>3. PICK r : r = [q EXCEPT !.stage = "columns", !.task = NoTask]
  OBVIOUS
<1>4. r.stage = "columns" /\ r.todo = q.todo /\ r \in S!Run
  BY <1>2, <1>3 DEF S!Run, S!NoRun
<1>5. RunSound(r) /\ \A s, c : Waits(r, s, c) => Waits(q, s, c)
  BY <1>2, <1>4 DEF RunSound, Waits, WithColumns
<1>6. run' = [run EXCEPT ![o] = r]
  BY <1>1, <1>3 DEF S!LogRewrite
<1>7. UNCHANGED <<url, request, uploads, disk, object>>
      /\ object' \in [S!Key -> {"absent", "stored", "swept"}]
  BY DEF S!LogRewrite, SiteInv, SiteTypes
<1> QED
  BY <1>2, <1>4, <1>5, <1>6, <1>7, RunGoes

LEMMA UploadStep ==
    ASSUME SiteInv, NEW o \in Operator, NEW t, S!UploadColumn(o, t)
    PROVE  SiteInv'
<1>1. PICK q : q = run[o]
  OBVIOUS
<1>2. q \in S!Run /\ q # S!NoRun /\ q.stage = "columns" /\ RunSound(q)
      /\ \A s \in Slot, c \in Column : Waits(q, s, c) => Unmoved(s, c)
  BY <1>1, RunFields DEF S!UploadColumn
<1>3. t \in q.todo /\ t \in S!Column1
      /\ (t.shown.at = "disk" => t.shown.picture = 0)
  BY <1>1, <1>2 DEF S!UploadColumn, RunSound, WithColumns
<1>4. t.slot \in Slot /\ t.column \in Column /\ t.shown \in S!Place
  BY <1>3 DEF S!Column1
<1>5. PICK g \in {"uploaded", "columns"} :
          g = IF t.shown.at = "disk" THEN "uploaded" ELSE "columns"
  OBVIOUS
<1>6. PICK r : r = IF g = "uploaded"
                   THEN [q EXCEPT !.todo = q.todo \ {t}, !.task = t, !.stage = "uploaded"]
                   ELSE [q EXCEPT !.todo = q.todo \ {t}]
  OBVIOUS
<1>7. r.stage = g /\ r.todo = q.todo \ {t} /\ (g = "uploaded" => r.task = t)
  BY <1>2, <1>5, <1>6 DEF S!Run, S!NoRun
<1>8. r \in S!Run
  BY <1>2, <1>3, <1>5, <1>6 DEF S!Run, S!NoRun, S!Task
<1>9. g = "uploaded" => t.shown = S!OnDisk
  <2>1. S!OnDisk \in S!Place /\ S!OnDisk.at = "disk" /\ S!OnDisk.picture = 0
    BY SiteNumbers DEF S!OnDisk, S!Place
  <2> QED
    BY <1>3, <1>4, <1>5, <2>1, PlaceFields
<1>10. RunSound(r)
  <2>1. \A u \in q.todo \ {t} : u.slot # t.slot \/ u.column # t.column
    BY <1>2, <1>3 DEF RunSound, WithColumns
  <2> QED
    BY <1>2, <1>3, <1>5, <1>7, <1>9, <2>1 DEF RunSound, WithColumns
<1>11. \A s \in Slot, c \in Column : Waits(r, s, c) => Waits(q, s, c)
  BY <1>2, <1>3, <1>5, <1>7 DEF Waits, WithColumns
<1>12. run' = [run EXCEPT ![o] = r]
  <2>1. CASE t.shown.at = "disk"
    <3>1. r = [q EXCEPT !.todo = q.todo \ {t}, !.task = t, !.stage = "uploaded"]
      BY <1>5, <1>6, <2>1
    <3> QED
      BY <1>1, <2>1, <3>1 DEF S!UploadColumn
  <2>2. CASE t.shown.at # "disk"
    <3>1. r = [q EXCEPT !.todo = q.todo \ {t}]
      BY <1>5, <1>6, <2>2
    <3> QED
      BY <1>1, <2>2, <3>1 DEF S!UploadColumn, S!PassedOver
  <2> QED
    BY <2>1, <2>2
<1>13. UNCHANGED <<url, request, uploads, disk>>
       /\ object' = S!Stored({S!KeyOf(t)})
  BY DEF S!UploadColumn
<1>14. r.stage = "uploaded" =>
           object'[<<r.task.slot, r.task.column, 0>>] # "absent"
  <2> SUFFICES ASSUME g = "uploaded" PROVE object'[<<t.slot, t.column, 0>>] # "absent"
    BY <1>7
  <2>1. S!KeyOf(t) = <<t.slot, t.column, 0>>
    BY <1>3, <1>5 DEF S!KeyOf
  <2>2. <<t.slot, t.column, 0>> \in S!Key
    BY <1>4, KeyIn, SiteNumbers
  <2> QED
    BY <1>13, <2>1, <2>2, StoredKeeps
<1>15. /\ \A k \in S!Key : object[k] # "absent" => object'[k] # "absent"
       /\ object' \in [S!Key -> {"absent", "stored", "swept"}]
  BY <1>13, StoredKeeps
<1> QED
  BY <1>2, <1>8, <1>10, <1>11, <1>12, <1>13, <1>14, <1>15, RunGoes

\* A column that is still on the disk was never pointed to the bucket, neither
\* in its row nor in what a request has read.
LEMMA OnDiskUnmoved ==
    ASSUME SiteInv, NEW s \in Slot, NEW c \in Column, url[s][c].at = "disk"
    PROVE  Unmoved(s, c) /\ url[s][c].picture = 0
<1>1. url[s][c] # S!InBucket(0)
  BY DEF S!InBucket
<1>2. ASSUME NEW a \in Admin, InUse(a), request[a].slot = s
      PROVE  request[a].old[c] # S!InBucket(0)
  BY <1>2 DEF SiteInv, ReplacedGone, S!InBucket
<1>3. url[s][c].picture = 0
  BY DEF SiteInv, PicturesNumbered, Numbered
<1> QED
  BY <1>1, <1>2, <1>3 DEF Unmoved

LEMMA StartRunStep ==
    ASSUME SiteInv, NEW o \in Operator, NEW dry \in BOOLEAN, NEW force \in BOOLEAN,
           S!StartRun(o, dry, force)
    PROVE  SiteInv'
<1> DEFINE all == {[slot |-> s, column |-> c, shown |-> url[s][c]] :
                       s \in Slot, c \in Column}
<1> HIDE DEF all
<1>1. PICK ts : ts = all
  OBVIOUS
<1>2. ts \subseteq S!Column1
  <2>1. \A s \in Slot, c \in Column : url[s][c] \in S!Place
    BY DEF SiteInv, SiteTypes
  <2> QED
    BY <1>1, <2>1 DEF S!Column1, all
<1>3. \A t \in ts : t.slot \in Slot /\ t.column \in Column
                    /\ t = [slot |-> t.slot, column |-> t.column,
                            shown |-> url[t.slot][t.column]]
  BY <1>1 DEF all
<1>4. PICK r : r = [stage |-> "columns", dry |-> dry, force |-> force,
                    task |-> NoTask, todo |-> ts]
  OBVIOUS
<1>5. r \in S!Run
  BY <1>2, <1>4 DEF S!Run, S!Task
<1>6. RunSound(r)
  <2>1. \A t \in ts : t.shown = url[t.slot][t.column]
    BY <1>3
  <2>2. \A t \in ts : t.shown.at = "disk" => t.shown.picture = 0
    BY <1>3, <2>1, OnDiskUnmoved
  <2>3. \A t, u \in ts : t.slot = u.slot /\ t.column = u.column => t = u
    BY <1>3
  <2> QED
    BY <1>2, <1>4, <2>2, <2>3 DEF RunSound
<1>7. \A s \in Slot, c \in Column : Waits(r, s, c) => Unmoved(s, c)
  BY <1>3, <1>4, OnDiskUnmoved DEF Waits
<1>8. UNCHANGED <<url, request, uploads, disk, object>>
      /\ object' \in [S!Key -> {"absent", "stored", "swept"}]
  BY DEF S!StartRun, SiteInv, SiteTypes
<1>9. run' = [run EXCEPT ![o] = r]
  BY <1>1, <1>4 DEF S!StartRun, all
<1>10. r.stage # "uploaded"
  BY <1>4
<1> QED
  BY <1>5, <1>6, <1>7, <1>8, <1>9, <1>10, RunGoes

LEMMA InBucketIs ==
    ASSUME NEW v
    PROVE  /\ S!InBucket(v).at = "bucket" /\ S!InBucket(v).picture = v
           /\ v \in S!Picture => S!InBucket(v) \in S!Place
  BY DEF S!InBucket, S!Place

\* Pointing a column to the bucket: the object is there, and no request
\* removes it.
LEMMA RewriteStep ==
    ASSUME OneOperator, SiteInv, NEW o \in Operator, S!RewriteColumn(o)
    PROVE  SiteInv'
<1>1. PICK q, t : q = run[o] /\ t = q.task
  OBVIOUS
<1>2. q \in S!Run /\ q # S!NoRun /\ q.stage = "uploaded" /\ RunSound(q)
      /\ \A s \in Slot, c \in Column : Waits(q, s, c) => Unmoved(s, c)
  BY <1>1, RunFields DEF S!RewriteColumn
<1>3. t \in S!Column1 /\ t.shown = S!OnDisk /\ t.slot \in Slot /\ t.column \in Column
  BY <1>1, <1>2 DEF RunSound, WithColumns, S!Column1
<1>4. PICK b : b = S!InBucket(0)
  OBVIOUS
<1>5. b.at = "bucket" /\ b.picture = 0 /\ b \in S!Place
  BY <1>4, InBucketIs, SiteNumbers
<1>6. url' = [url EXCEPT ![t.slot][t.column] = b]
  BY <1>1, <1>3, <1>4 DEF S!RewriteColumn, S!OnDisk
<1>7. /\ \A s \in Slot, c \in Column :
             url'[s][c] = IF s = t.slot /\ c = t.column THEN b ELSE url[s][c]
      /\ url' \in [Slot -> [Column -> S!Place]]
  BY <1>3, <1>5, <1>6 DEF SiteInv, SiteTypes
<1>8. UNCHANGED <<disk, object, request, uploads>>
  BY DEF S!RewriteColumn
<1>9. PICK r : r = [q EXCEPT !.stage = "rewritten"]
  OBVIOUS
<1>10. run' = [run EXCEPT ![o] = r]
  BY <1>1, <1>9 DEF S!RewriteColumn
<1>11. r \in S!Run /\ r.stage = "rewritten" /\ r.todo = q.todo /\ r.task = t
  BY <1>1, <1>2, <1>9 DEF S!Run, S!NoRun
<1>12. Unmoved(t.slot, t.column)
  BY <1>1, <1>2, <1>3 DEF Waits
<1>13. object[<<t.slot, t.column, 0>>] # "absent"
  BY <1>1, <1>2 DEF SiteInv, RunsSound
<1>14. SiteTypes'
  <2>1. run' \in [Operator -> S!Run]
    BY <1>10, <1>11 DEF SiteInv, SiteTypes
  <2> QED
    BY <1>7, <1>8, <2>1 DEF SiteInv, SiteTypes
<1>15. PicturesNumbered'
  <2>1. 0 <= uploads
    BY SiteNumbers DEF SiteInv, SiteTypes
  <2> QED
    BY <1>5, <1>7, <1>8, <2>1 DEF SiteInv, PicturesNumbered, Numbered
<1>16. UploadsOwn'
  <2> SUFFICES ASSUME NEW a \in Admin, Due(a), NEW c \in Column
               PROVE  url'[request[a].slot][c] # request[a].new
    BY <1>8 DEF SiteInv, UploadsOwn, Due
  <2>1. request[a].slot \in Slot /\ request[a].new.picture > 0
        /\ url[request[a].slot][c] # request[a].new
    BY RequestFields DEF SiteInv, UploadsOwn, Due, PicturesNumbered
  <2> QED
    BY <1>5, <1>7, <2>1
<1>17. ReplacedGone'
  <2> SUFFICES ASSUME NEW a \in Admin, InUse(a), NEW c \in Column
               PROVE  LET now == url'[request[a].slot][c] IN
                      /\ request[a].old[c].at # "disk" => now.at # "disk"
                      /\ request[a].stage = "written" =>
                             /\ now.at # "disk"
                             /\ request[a].old[c].at = "bucket" =>
                                    now # request[a].old[c]
    BY <1>8 DEF ReplacedGone, InUse
  <2>1. request[a].slot \in Slot
    BY RequestFields DEF InUse
  <2>2. CASE request[a].slot = t.slot /\ c = t.column
    BY <1>4, <1>5, <1>7, <1>12, <2>1, <2>2 DEF Unmoved
  <2>3. CASE ~(request[a].slot = t.slot /\ c = t.column)
    BY <1>7, <2>1, <2>3 DEF SiteInv, ReplacedGone
  <2> QED
    BY <2>2, <2>3
<1>18. RunsSound'
  <2>1. \A p \in Operator : run'[p] = r
    BY <1>10 DEF OneOperator, SiteInv, SiteTypes
  <2>2. RunSound(r)
    BY <1>1, <1>2, <1>11 DEF RunSound, WithColumns
  <2>3. ASSUME NEW s \in Slot, NEW c \in Column, Waits(r, s, c)
        PROVE  Unmoved(s, c)'
    <3>1. ~(s = t.slot /\ c = t.column)
      BY <1>1, <1>2, <1>11, <2>3 DEF Waits, RunSound, WithColumns
    <3>2. Unmoved(s, c)
      BY <1>2, <1>11, <2>3 DEF Waits, WithColumns
    <3> QED
      BY <1>7, <1>8, <3>1, <3>2 DEF Unmoved, InUse
  <2> QED
    BY <1>11, <2>1, <2>2, <2>3 DEF RunsSound, RunSound, Waits
<1>19. S!MediaReachable'
  <2> SUFFICES ASSUME NEW s \in Slot, NEW c \in Column
               PROVE  LET k == <<s, c, url'[s][c].picture>> IN
                      /\ url'[s][c].at = "bucket" => object[k] # "absent"
                      /\ url'[s][c].at = "disk" => k \in disk
    BY <1>8 DEF S!MediaReachable
  <2> QED
    BY <1>5, <1>7, <1>13 DEF SiteInv, S!MediaReachable
<1> QED
  BY <1>14, <1>15, <1>16, <1>17, <1>18, <1>19 DEF SiteInv

LEMMA EmptyStep ==
    ASSUME SiteInv, S!EmptyBucket
    PROVE  SiteInv'
<1>1. UNCHANGED <<url, request, uploads, disk, run>>
  BY DEF S!EmptyBucket
<1>2. /\ \A k \in S!Key : object[k] # "absent" => object'[k] # "absent"
      /\ object' \in [S!Key -> {"absent", "stored", "swept"}]
  BY DEF S!EmptyBucket, SiteInv, SiteTypes
<1>3. \A s, c : Unmoved(s, c)' <=> Unmoved(s, c)
  BY <1>1 DEF Unmoved, InUse
<1>4. \A o \in Operator : run[o].stage = "uploaded" =>
          <<run[o].task.slot, run[o].task.column, 0>> \in S!Key
  BY KeyIn, SiteNumbers DEF SiteInv, RunsSound, RunSound, WithColumns, S!Column1
<1>5. RunsSound'
  BY <1>1, <1>2, <1>3, <1>4 DEF SiteInv, RunsSound
<1>6. run' \in [Operator -> S!Run]
  BY <1>1 DEF SiteInv, SiteTypes
<1> QED
  BY <1>1, <1>2, <1>5, <1>6, ScriptKept

\* A request takes a step that leaves the rows, the disk and the runs.
LEMMA RequestKept ==
    ASSUME SiteInv, NEW a \in Admin, NEW q \in S!Request,
           request' = [request EXCEPT ![a] = q],
           UNCHANGED <<url, disk, run>>, uploads' \in S!Picture, uploads <= uploads',
           \A k \in S!Key : object[k] # "absent" => object'[k] # "absent",
           object' \in [S!Key -> {"absent", "stored", "swept"}],
           q.stage \in {"idle", "asked", "read"},
           q.stage # "idle" =>
               /\ q.new.at \in {"nothing", "bucket"}
               /\ Numbered(q.new, uploads')
               /\ q.new.at = "bucket" => q.new.picture > 0
               /\ \A c \in Column : Numbered(q.old[c], uploads'),
           q.stage = "read" => q.old = url[q.slot],
           UploadsOwn'
    PROVE  SiteInv'
<1>1. request'[a] = q /\ \A b \in Admin \ {a} : request'[b] = request[b]
  BY DEF SiteInv, SiteTypes
<1>2. SiteTypes'
  BY DEF SiteInv, SiteTypes
<1>3. PicturesNumbered'
  <2>1. ASSUME NEW p \in S!Place, Numbered(p, uploads) PROVE Numbered(p, uploads')
    <3>1. p.picture \in Nat /\ uploads \in Nat /\ uploads' \in Nat
      BY PlaceFields, SiteNumbers DEF SiteInv, SiteTypes
    <3> QED
      BY <2>1, <3>1 DEF Numbered
  <2>2. \A s \in Slot, c \in Column : Numbered(url'[s][c], uploads')
    BY <2>1 DEF SiteInv, SiteTypes, PicturesNumbered
  <2>3. ASSUME NEW b \in Admin, request'[b].stage # "idle"
        PROVE  /\ request'[b].new.at \in {"nothing", "bucket"}
               /\ Numbered(request'[b].new, uploads')
               /\ request'[b].new.at = "bucket" => request'[b].new.picture > 0
               /\ \A c \in Column : Numbered(request'[b].old[c], uploads')
    <3>1. CASE b = a
      BY <1>1, <2>3, <3>1
    <3>2. CASE b # a
      <4>1. request[b].new \in S!Place /\ \A c \in Column : request[b].old[c] \in S!Place
        BY <1>1, <2>3, <3>2, RequestFields
      <4> QED
        BY <1>1, <2>1, <2>3, <3>2, <4>1 DEF SiteInv, PicturesNumbered
    <3> QED
      BY <3>1, <3>2
  <2> QED
    BY <2>2, <2>3 DEF PicturesNumbered
<1>4. ReplacedGone'
  <2> SUFFICES ASSUME NEW b \in Admin, InUse(b)', NEW c \in Column
               PROVE  /\ request'[b].old[c].at # "disk" =>
                             url[request'[b].slot][c].at # "disk"
                      /\ request'[b].stage = "written" =>
                             /\ url[request'[b].slot][c].at # "disk"
                             /\ request'[b].old[c].at = "bucket" =>
                                    url[request'[b].slot][c] # request'[b].old[c]
    BY DEF ReplacedGone
  <2>1. CASE b = a
    BY <1>1, <2>1 DEF InUse
  <2>2. CASE b # a
    BY <1>1, <2>2 DEF InUse, SiteInv, ReplacedGone
  <2> QED
    BY <2>1, <2>2
<1>5. RunsSound'
  <2>1. ASSUME NEW s \in Slot, NEW c \in Column, Unmoved(s, c)
        PROVE  Unmoved(s, c)'
    <3>1. ASSUME NEW b \in Admin, InUse(b)', request'[b].slot = s
          PROVE  request'[b].old[c] # S!InBucket(0)
      <4>1. CASE b = a
        BY <1>1, <2>1, <3>1, <4>1 DEF InUse, Unmoved
      <4>2. CASE b # a
        BY <1>1, <2>1, <3>1, <4>2 DEF InUse, Unmoved
      <4> QED
        BY <4>1, <4>2
    <3> QED
      BY <2>1, <3>1 DEF Unmoved
  <2>2. \A o \in Operator : run[o].stage = "uploaded" =>
            <<run[o].task.slot, run[o].task.column, 0>> \in S!Key
    BY KeyIn, SiteNumbers DEF SiteInv, RunsSound, RunSound, WithColumns, S!Column1
  <2> QED
    BY <2>1, <2>2 DEF SiteInv, RunsSound
<1>6. S!MediaReachable'
  <2> SUFFICES ASSUME NEW s \in Slot, NEW c \in Column, url[s][c].at = "bucket"
               PROVE  object'[<<s, c, url[s][c].picture>>] # "absent"
    BY DEF SiteInv, S!MediaReachable
  <2>1. <<s, c, url[s][c].picture>> \in S!Key
    BY PlaceFields, KeyIn DEF SiteInv, SiteTypes
  <2> QED
    BY <2>1 DEF SiteInv, S!MediaReachable
<1> QED
  BY <1>2, <1>3, <1>4, <1>5, <1>6 DEF SiteInv

LEMMA ObjectsSame ==
    ASSUME SiteInv, UNCHANGED object
    PROVE  /\ \A k \in S!Key : object[k] # "absent" => object'[k] # "absent"
           /\ object' \in [S!Key -> {"absent", "stored", "swept"}]
  BY DEF SiteInv, SiteTypes

LEMMA NowhereIs == S!Nowhere \in S!Place /\ S!Nowhere.at = "nothing" /\ S!Nowhere.picture = 0
  BY SiteNumbers DEF S!Nowhere, S!Place

LEMMA OwnUpload ==
    ASSUME SiteInv, NEW d \in Admin, Due(d), NEW c \in Column,
           NEW b \in Admin, request[b].stage # "idle",
           request[b].slot = request[d].slot
    PROVE  /\ request[b].old[c] # request[d].new
           /\ b # d => request[b].new # request[d].new
  BY DEF SiteInv, UploadsOwn

\* A new upload has a number that nothing else has.
LEMMA SetStep ==
    ASSUME SiteInv, NEW a \in Admin, NEW s \in Slot, S!SetPicture(a, s)
    PROVE  SiteInv'
<1>1. PICK v, new : v = uploads + 1 /\ new = S!InBucket(v)
  OBVIOUS
<1>2. uploads' = v /\ v \in S!Picture /\ uploads < v /\ v > 0 /\ uploads \in Nat
      /\ v \in Nat /\ uploads <= uploads'
  BY <1>1, SiteNumbers DEF S!SetPicture, SiteInv, SiteTypes
<1>3. new \in S!Place /\ new.at = "bucket" /\ new.picture = v
  BY <1>1, <1>2, InBucketIs
<1>4. PICK old \in [Column -> S!Place] : old = url[s]
  BY DEF SiteInv, SiteTypes
<1>5. PICK q : q = [stage |-> "asked", slot |-> s, new |-> new, old |-> old]
  OBVIOUS
<1>6. q \in S!Request /\ q.stage = "asked" /\ q.slot = s /\ q.new = new /\ q.old = old
  BY <1>3, <1>5 DEF S!Request
<1>7. request' = [request EXCEPT ![a] = q]
  BY <1>1, <1>2, <1>4, <1>5 DEF S!SetPicture
<1>8. UNCHANGED <<url, disk, run>> /\ \E ks : object' = S!Stored(ks)
  BY DEF S!SetPicture
<1>9. /\ \A k \in S!Key : object[k] # "absent" => object'[k] # "absent"
      /\ object' \in [S!Key -> {"absent", "stored", "swept"}]
  BY <1>8, StoredKeeps
<1>10. \A c \in Column : object'[<<s, c, v>>] # "absent"
  <2>1. object' = S!Stored({<<s, c, v>> : c \in Column})
    BY <1>2 DEF S!SetPicture
  <2>2. \A c \in Column : <<s, c, v>> \in S!Key \cap {<<s, d, v>> : d \in Column}
    BY <1>2, KeyIn
  <2> QED
    BY <2>1, <2>2, StoredKeeps
<1>11. /\ q.new.at \in {"nothing", "bucket"} /\ Numbered(q.new, uploads')
       /\ q.new.at = "bucket" => q.new.picture > 0
       /\ \A c \in Column : Numbered(q.old[c], uploads')
  <2>1. \A c \in Column : Numbered(old[c], uploads) /\ old[c].picture \in Nat
    BY <1>4, PlaceFields, SiteNumbers DEF SiteInv, PicturesNumbered
  <2>2. ASSUME NEW c \in Column PROVE Numbered(old[c], uploads')
    <3>1. PICK n : n = old[c].picture
      OBVIOUS
    <3>2. n \in Nat /\ n <= uploads
      BY <2>1, <3>1 DEF Numbered
    <3>3. n <= uploads'
      BY <1>2, <3>2
    <3> QED
      BY <2>1, <3>1, <3>3 DEF Numbered
  <2>3. Numbered(new, uploads')
    BY <1>2, <1>3 DEF Numbered
  <2> QED
    BY <1>2, <1>3, <1>6, <2>2, <2>3
<1>12. /\ request'[a] = q
       /\ \A b \in Admin \ {a} : request'[b] = request[b]
  BY <1>7 DEF SiteInv, SiteTypes
<1>13. \A p \in S!Place : Numbered(p, uploads) => p # new
  BY <1>2, <1>3, PlaceFields, SiteNumbers DEF Numbered
<1>14. \A b \in Admin : request[b].stage # "idle" =>
           /\ request[b].new # new
           /\ \A c \in Column : request[b].old[c] # new
  <2> SUFFICES ASSUME NEW b \in Admin, request[b].stage # "idle"
               PROVE  /\ request[b].new # new
                      /\ \A c \in Column : request[b].old[c] # new
    OBVIOUS
  <2>1. request[b].new \in S!Place /\ \A c \in Column : request[b].old[c] \in S!Place
    BY RequestFields
  <2> QED
    BY <1>13, <2>1 DEF SiteInv, PicturesNumbered
<1>15. \A c \in Column : url[s][c] # new
  BY <1>13 DEF SiteInv, SiteTypes, PicturesNumbered
<1>16. UploadsOwn'
  <2> SUFFICES ASSUME NEW d \in Admin, Due(d)', NEW c \in Column
               PROVE  /\ object'[<<request'[d].slot, c, request'[d].new.picture>>] # "absent"
                      /\ url[request'[d].slot][c] # request'[d].new
                      /\ \A b \in Admin :
                           request'[b].stage # "idle" /\ request'[b].slot = request'[d].slot =>
                               /\ request'[b].old[c] # request'[d].new
                               /\ b # d => request'[b].new # request'[d].new
    BY <1>8 DEF UploadsOwn
  <2>1. CASE d = a
    <3>1. object'[<<request'[d].slot, c, request'[d].new.picture>>] # "absent"
      BY <1>3, <1>6, <1>10, <1>12, <2>1
    <3>2. url[request'[d].slot][c] # request'[d].new
      BY <1>6, <1>12, <1>15, <2>1
    <3>3. ASSUME NEW b \in Admin, request'[b].stage # "idle"
          PROVE  /\ request'[b].old[c] # request'[d].new
                 /\ b # d => request'[b].new # request'[d].new
      <4>1. CASE b = a
        BY <1>4, <1>6, <1>12, <1>15, <2>1, <4>1
      <4>2. CASE b # a
        BY <1>6, <1>12, <1>14, <2>1, <3>3, <4>2
      <4> QED
        BY <4>1, <4>2
    <3> QED
      BY <3>1, <3>2, <3>3
  <2>2. CASE d # a
    <3>0. request'[d] = request[d] /\ Due(d) /\ request[d].stage # "idle"
      BY <1>12, <2>2 DEF Due
    <3>1. object'[<<request[d].slot, c, request[d].new.picture>>] # "absent"
      <4>1. <<request[d].slot, c, request[d].new.picture>> \in S!Key
        BY <3>0, RequestFields, PlaceFields, KeyIn
      <4> QED
        BY <1>9, <3>0, <4>1 DEF SiteInv, UploadsOwn
    <3>2. url[request[d].slot][c] # request[d].new
      BY <3>0 DEF SiteInv, UploadsOwn
    <3>3. ASSUME NEW b \in Admin, request'[b].stage # "idle",
                 request'[b].slot = request[d].slot
          PROVE  /\ request'[b].old[c] # request[d].new
                 /\ b # d => request'[b].new # request[d].new
      <4>1. CASE b = a
        BY <1>4, <1>6, <1>12, <1>14, <3>0, <3>2, <3>3, <4>1
      <4>2. CASE b # a
        <5>1. request'[b] = request[b]
          BY <1>12, <4>2
        <5> QED
          BY <3>0, <3>3, <5>1, OwnUpload
      <4> QED
        BY <4>1, <4>2
    <3> QED
      BY <3>0, <3>1, <3>2, <3>3
  <2> QED
    BY <2>1, <2>2
<1> QED
  BY <1>2, <1>6, <1>7, <1>8, <1>9, <1>11, <1>16, RequestKept

\* A request that announces no upload of its own, and reads what the row shows.
LEMMA QuietRequest ==
    ASSUME SiteInv, NEW a \in Admin, NEW q \in S!Request,
           request' = [request EXCEPT ![a] = q],
           UNCHANGED <<url, disk, run, uploads, object>>,
           q.stage \in {"idle", "asked", "read"},
           q.stage # "idle" => /\ q.old = url[q.slot]
                               /\ q.new.at \in {"nothing", "bucket"}
                               /\ \/ q.new = S!Nowhere
                                  \/ /\ Due(a) \/ q.new.at # "bucket"
                                     /\ request[a].stage # "idle"
                                     /\ q.new = request[a].new
                                     /\ q.slot = request[a].slot
    PROVE  SiteInv'
<1>1. /\ request'[a] = q
      /\ \A b \in Admin \ {a} : request'[b] = request[b]
  BY DEF SiteInv, SiteTypes
<1>2. q.stage # "idle" => q.slot \in Slot
  BY DEF S!Request, S!NoRequest
<1>3. q.stage # "idle" =>
          /\ Numbered(q.new, uploads')
          /\ q.new.at = "bucket" => q.new.picture > 0
          /\ \A c \in Column : Numbered(q.old[c], uploads')
  <2>1. 0 <= uploads
    BY SiteNumbers DEF SiteInv, SiteTypes
  <2>2. Numbered(S!Nowhere, uploads)
    BY <2>1, NowhereIs DEF Numbered
  <2> QED
    BY <1>2, <2>2, NowhereIs DEF SiteInv, PicturesNumbered
<1>4. UploadsOwn'
  <2> SUFFICES ASSUME NEW d \in Admin, Due(d)', NEW c \in Column
               PROVE  /\ object[<<request'[d].slot, c, request'[d].new.picture>>] # "absent"
                      /\ url[request'[d].slot][c] # request'[d].new
                      /\ \A b \in Admin :
                           request'[b].stage # "idle" /\ request'[b].slot = request'[d].slot =>
                               /\ request'[b].old[c] # request'[d].new
                               /\ b # d => request'[b].new # request'[d].new
    BY DEF UploadsOwn
  <2>1. Due(d) /\ request'[d].new = request[d].new /\ request'[d].slot = request[d].slot
        /\ request[d].new.at = "bucket"
    <3>1. CASE d = a
      BY <1>1, <3>1, NowhereIs DEF Due
    <3>2. CASE d # a
      BY <1>1, <3>2 DEF Due
    <3> QED
      BY <3>1, <3>2
  <2>2. /\ object[<<request[d].slot, c, request[d].new.picture>>] # "absent"
        /\ url[request[d].slot][c] # request[d].new
    BY <2>1 DEF SiteInv, UploadsOwn
  <2>3. ASSUME NEW b \in Admin, request'[b].stage # "idle",
               request'[b].slot = request[d].slot
        PROVE  /\ request'[b].old[c] # request[d].new
               /\ b # d => request'[b].new # request[d].new
    <3>1. CASE b = a
      <4>1. request'[b].old[c] # request[d].new
        BY <1>1, <2>2, <2>3, <3>1
      <4>2. b # d => request'[b].new # request[d].new
        <5>1. request'[b] = q /\ q.stage # "idle" /\ q.slot = request[d].slot
          BY <1>1, <2>3, <3>1
        <5>2. CASE q.new = S!Nowhere
          BY <2>1, <5>1, <5>2, NowhereIs
        <5>3. CASE /\ request[a].stage # "idle"
                   /\ q.new = request[a].new /\ q.slot = request[a].slot
          BY <2>1, <3>1, <5>1, <5>3, OwnUpload
        <5> QED
          BY <5>1, <5>2, <5>3
      <4> QED
        BY <4>1, <4>2
    <3>2. CASE b # a
      <4>1. request'[b] = request[b]
        BY <1>1, <3>2
      <4> QED
        BY <2>1, <2>3, <4>1, OwnUpload
    <3> QED
      BY <3>1, <3>2
  <2> QED
    BY <2>1, <2>2, <2>3
<1>5. uploads' \in S!Picture /\ uploads <= uploads'
  BY SiteNumbers DEF SiteInv, SiteTypes
<1> QED
  BY <1>3, <1>4, <1>5, ObjectsSame, RequestKept

LEMMA ClearStep ==
    ASSUME SiteInv, NEW a \in Admin, NEW s \in Slot, S!ClearPicture(a, s)
    PROVE  SiteInv'
<1>1. PICK old \in [Column -> S!Place] : old = url[s]
  BY DEF SiteInv, SiteTypes
<1>2. PICK q : q = [stage |-> "asked", slot |-> s, new |-> S!Nowhere, old |-> old]
  OBVIOUS
<1>3. q \in S!Request /\ q.stage = "asked" /\ q.slot = s /\ q.new = S!Nowhere
      /\ q.old = old
  BY <1>2, NowhereIs DEF S!Request
<1>4. request' = [request EXCEPT ![a] = q]
  BY <1>1, <1>2 DEF S!ClearPicture
<1>5. UNCHANGED <<url, disk, run, uploads, object>>
  BY DEF S!ClearPicture
<1> QED
  BY <1>1, <1>3, <1>4, <1>5, QuietRequest, NowhereIs

LEMMA ReadStep ==
    ASSUME SiteInv, NEW a \in Admin, S!ReadSlot(a)
    PROVE  SiteInv'
<1>1. PICK p : p = request[a]
  OBVIOUS
<1>2. p \in S!Request /\ p.stage = "asked" /\ p # S!NoRequest /\ p.slot \in Slot
  BY <1>1, RequestFields DEF S!ReadSlot, SiteInv, SiteTypes
<1>3. PICK old \in [Column -> S!Place] : old = url[p.slot]
  BY <1>2 DEF SiteInv, SiteTypes
<1>4. PICK q : q = [p EXCEPT !.stage = "read", !.old = old]
  OBVIOUS
<1>5. q.stage = "read" /\ q.slot = p.slot /\ q.new = p.new /\ q.old = old
  BY <1>2, <1>4 DEF S!Request, S!NoRequest
<1>6. q \in S!Request
  BY <1>2, <1>4 DEF S!Request, S!NoRequest
<1>7. request' = [request EXCEPT ![a] = q]
  BY <1>1, <1>3, <1>4 DEF S!ReadSlot
<1>8. UNCHANGED <<url, disk, run, uploads, object>>
  BY DEF S!ReadSlot
<1>9. q.new.at \in {"nothing", "bucket"} /\ (Due(a) \/ q.new.at # "bucket")
  BY <1>1, <1>2, <1>5 DEF SiteInv, PicturesNumbered, Due
<1> QED
  BY <1>1, <1>2, <1>3, <1>5, <1>6, <1>7, <1>8, <1>9, QuietRequest

LEMMA StopsStep ==
    ASSUME SiteInv, NEW a \in Admin, S!RequestStops(a)
    PROVE  SiteInv'
<1>1. PICK q \in S!Request : q = S!NoRequest
  BY DEF S!Request
<1>2. q.stage = "idle"
  BY <1>1 DEF S!NoRequest
<1>3. request' = [request EXCEPT ![a] = q]
      /\ UNCHANGED <<url, disk, run, uploads, object>>
  BY <1>1 DEF S!RequestStops
<1> QED
  BY <1>2, <1>3, QuietRequest

LEMMA WriteStep ==
    ASSUME SiteInv, NEW a \in Admin, S!WriteSlot(a)
    PROVE  SiteInv'
<1>1. PICK p, s, new : p = request[a] /\ s = p.slot /\ new = p.new
  OBVIOUS
<1>2. /\ p \in S!Request /\ p # S!NoRequest /\ p.stage = "read" /\ s \in Slot
      /\ new \in S!Place /\ new.at \in {"nothing", "bucket"}
      /\ new.at = "bucket" => new.picture > 0 /\ Due(a)
      /\ Numbered(new, uploads)
  BY <1>1, RequestFields
     DEF S!WriteSlot, SiteInv, SiteTypes, PicturesNumbered, Due
<1>3. url' = [url EXCEPT ![s] = [c \in Column |-> new]]
  BY <1>1 DEF S!WriteSlot
<1>4. /\ \A c \in Column : url'[s][c] = new
      /\ \A x \in Slot \ {s} : url'[x] = url[x]
      /\ url' \in [Slot -> [Column -> S!Place]]
  BY <1>2, <1>3 DEF SiteInv, SiteTypes
<1>5. PICK q : q = [p EXCEPT !.stage = "written"]
  OBVIOUS
<1>6. /\ q \in S!Request /\ q.stage = "written" /\ q.slot = s /\ q.new = new
      /\ q.old = p.old
  BY <1>1, <1>2, <1>5 DEF S!Request, S!NoRequest
<1>7. request' = [request EXCEPT ![a] = q]
  BY <1>1, <1>5 DEF S!WriteSlot
<1>8. UNCHANGED <<disk, object, run, uploads>>
  BY DEF S!WriteSlot
<1>9. /\ request'[a] = q
      /\ \A b \in Admin \ {a} : request'[b] = request[b]
  BY <1>7 DEF SiteInv, SiteTypes
<1>10. \A b \in Admin : /\ request'[b].slot = request[b].slot
                        /\ request'[b].old = request[b].old
                        /\ request'[b].new = request[b].new
                        /\ request'[b].stage # "idle" => request[b].stage # "idle"
                        /\ b # a => request'[b].stage = request[b].stage
                        /\ InUse(b)' => InUse(b)
                        /\ Due(b)' => Due(b) /\ b # a
  BY <1>1, <1>2, <1>6, <1>9 DEF InUse, Due
<1>11. SiteTypes'
  BY <1>4, <1>6, <1>7, <1>8 DEF SiteInv, SiteTypes
<1>12. PicturesNumbered'
  <2>1. \A x \in Slot, c \in Column : Numbered(url'[x][c], uploads)
    BY <1>2, <1>4 DEF SiteInv, PicturesNumbered
  <2>2. ASSUME NEW b \in Admin, request'[b].stage # "idle"
        PROVE  /\ request'[b].new.at \in {"nothing", "bucket"}
               /\ Numbered(request'[b].new, uploads)
               /\ request'[b].new.at = "bucket" => request'[b].new.picture > 0
               /\ \A c \in Column : Numbered(request'[b].old[c], uploads)
    BY <1>10, <2>2 DEF SiteInv, PicturesNumbered
  <2> QED
    BY <1>8, <2>1, <2>2 DEF PicturesNumbered
<1>13. UploadsOwn'
  <2> SUFFICES ASSUME NEW d \in Admin, Due(d), d # a, NEW c \in Column
               PROVE  /\ object[<<request[d].slot, c, request[d].new.picture>>] # "absent"
                      /\ url'[request[d].slot][c] # request[d].new
                      /\ \A b \in Admin :
                           request[b].stage # "idle" /\ request[b].slot = request[d].slot =>
                               /\ request[b].old[c] # request[d].new
                               /\ b # d => request[b].new # request[d].new
    BY <1>8, <1>10 DEF UploadsOwn
  <2>1. url'[request[d].slot][c] # request[d].new
    <3>1. CASE request[d].slot = s
      BY <1>1, <1>2, <1>4, <3>1, OwnUpload
    <3>2. CASE request[d].slot # s
      <4>1. request[d].slot \in Slot
        BY RequestFields DEF Due
      <4> QED
        BY <1>4, <3>2, <4>1 DEF SiteInv, UploadsOwn
    <3> QED
      BY <3>1, <3>2
  <2>2. object[<<request[d].slot, c, request[d].new.picture>>] # "absent"
    BY DEF SiteInv, UploadsOwn
  <2> QED
    BY <2>1, <2>2, OwnUpload
<1>14. ReplacedGone'
  <2> SUFFICES ASSUME NEW b \in Admin, InUse(b), InUse(b)', NEW c \in Column
               PROVE  LET now == url'[request[b].slot][c] IN
                      /\ request[b].old[c].at # "disk" => now.at # "disk"
                      /\ request'[b].stage = "written" =>
                             /\ now.at # "disk"
                             /\ request[b].old[c].at = "bucket" =>
                                    now # request[b].old[c]
    BY <1>10 DEF ReplacedGone
  <2>1. CASE request[b].slot = s
    <3>1. new.at = "bucket" => request[b].old[c] # new
      BY <1>1, <1>2, <2>1, OwnUpload DEF InUse
    <3> QED
      BY <1>2, <1>4, <2>1, <3>1
  <2>2. CASE request[b].slot # s
    <3>1. b # a /\ request[b].slot \in Slot
      BY <1>1, <2>2, RequestFields DEF InUse
    <3> QED
      BY <1>4, <1>10, <2>2, <3>1 DEF SiteInv, ReplacedGone
  <2> QED
    BY <2>1, <2>2
<1>15. RunsSound'
  <2>1. ASSUME NEW x \in Slot, NEW c \in Column, Unmoved(x, c)
        PROVE  Unmoved(x, c)'
    <3>1. url'[x][c] # S!InBucket(0)
      BY <1>2, <1>4, <2>1, InBucketIs DEF Unmoved
    <3> QED
      BY <1>10, <2>1, <3>1 DEF Unmoved
  <2> QED
    BY <1>8, <2>1 DEF SiteInv, RunsSound
<1>16. S!MediaReachable'
  <2> SUFFICES ASSUME NEW x \in Slot, NEW c \in Column
               PROVE  LET k == <<x, c, url'[x][c].picture>> IN
                      /\ url'[x][c].at = "bucket" => object[k] # "absent"
                      /\ url'[x][c].at = "disk" => k \in disk
    BY <1>8 DEF S!MediaReachable
  <2>1. CASE x = s
    BY <1>1, <1>2, <1>4, <2>1 DEF SiteInv, UploadsOwn
  <2>2. CASE x # s
    BY <1>4, <2>2 DEF SiteInv, S!MediaReachable
  <2> QED
    BY <2>1, <2>2
<1> QED
  BY <1>11, <1>12, <1>13, <1>14, <1>15, <1>16 DEF SiteInv

\* What a request removes is what it has replaced.
LEMMA UnlinkStep ==
    ASSUME SiteInv, NEW a \in Admin, S!UnlinkOld(a)
    PROVE  SiteInv'
<1>1. /\ request[a].stage = "written" /\ InUse(a) /\ request[a].slot \in Slot
      /\ request[a].old \in [Column -> S!Place]
  BY RequestFields DEF S!UnlinkOld, InUse
<1>2. PICK q \in S!Request : q = S!NoRequest
  BY DEF S!Request
<1>3. request' = [request EXCEPT ![a] = q] /\ q.stage = "idle"
  BY <1>2 DEF S!UnlinkOld, S!NoRequest
<1>4. /\ request'[a] = q
      /\ \A b \in Admin \ {a} : request'[b] = request[b]
  BY <1>3 DEF SiteInv, SiteTypes
<1>5. UNCHANGED <<url, run, uploads>>
  BY DEF S!UnlinkOld
<1>6. /\ object' \in [S!Key -> {"absent", "stored", "swept"}]
      /\ \A k \in S!Key : k \notin S!Files(a, "bucket") => object'[k] = object[k]
  BY DEF S!UnlinkOld, S!Removed, SiteInv, SiteTypes
<1>7. disk' = disk \ S!Files(a, "disk")
  BY DEF S!UnlinkOld
<1>8. ASSUME NEW at, NEW s, NEW c, NEW v, <<s, c, v>> \in S!Files(a, at)
      PROVE  /\ s = request[a].slot /\ c \in Column
             /\ request[a].old[c].at = at /\ request[a].old[c].picture = v
  BY <1>8 DEF S!Files
<1>9. \A b \in Admin : /\ request'[b].stage # "idle" => b # a /\ request'[b] = request[b]
                       /\ InUse(b)' => InUse(b) /\ b # a
                       /\ Due(b)' => Due(b) /\ b # a
  BY <1>3, <1>4 DEF InUse, Due
<1>10. SiteTypes'
  BY <1>3, <1>5, <1>6 DEF SiteInv, SiteTypes
<1>11. PicturesNumbered'
  BY <1>5, <1>9 DEF SiteInv, PicturesNumbered
<1>12. UploadsOwn'
  <2> SUFFICES ASSUME NEW d \in Admin, Due(d), d # a, request'[d] = request[d], NEW c \in Column
               PROVE  /\ object'[<<request[d].slot, c, request[d].new.picture>>] # "absent"
                      /\ url[request[d].slot][c] # request[d].new
                      /\ \A b \in Admin :
                           request'[b].stage # "idle" /\ request'[b].slot = request[d].slot =>
                               /\ request'[b].old[c] # request[d].new
                               /\ b # d => request'[b].new # request[d].new
    BY <1>4, <1>5, <1>9 DEF UploadsOwn
  <2>1. /\ request[d].stage # "idle" /\ request[d].new \in S!Place
        /\ request[d].slot \in Slot
    BY RequestFields DEF Due
  <2>2. <<request[d].slot, c, request[d].new.picture>> \notin S!Files(a, "bucket")
    <3> SUFFICES ASSUME <<request[d].slot, c, request[d].new.picture>> \in S!Files(a, "bucket")
                 PROVE  FALSE
      OBVIOUS
    <3>1. /\ request[a].slot = request[d].slot
          /\ request[a].old[c].at = "bucket"
          /\ request[a].old[c].picture = request[d].new.picture
      BY <1>8
    <3>2. request[a].old[c] = request[d].new
      BY <1>1, <2>1, <3>1, PlaceFields DEF Due
    <3> QED
      BY <1>1, <3>1, <3>2, OwnUpload
  <2>3. <<request[d].slot, c, request[d].new.picture>> \in S!Key
    BY <2>1, KeyIn, PlaceFields
  <2>4. object'[<<request[d].slot, c, request[d].new.picture>>] # "absent"
    BY <1>6, <2>2, <2>3 DEF SiteInv, UploadsOwn
  <2>5. url[request[d].slot][c] # request[d].new
    BY DEF SiteInv, UploadsOwn
  <2>6. ASSUME NEW b \in Admin, request'[b].stage # "idle",
               request'[b].slot = request[d].slot
        PROVE  /\ request'[b].old[c] # request[d].new
               /\ b # d => request'[b].new # request[d].new
    <3>1. request'[b] = request[b]
      BY <1>9, <2>6
    <3> QED
      BY <2>6, <3>1, OwnUpload
  <2> QED
    BY <2>4, <2>5, <2>6
<1>13. ReplacedGone'
  BY <1>4, <1>5, <1>9 DEF SiteInv, ReplacedGone
<1>14. RunsSound'
  <2>1. ASSUME NEW s \in Slot, NEW c \in Column, Unmoved(s, c)
        PROVE  Unmoved(s, c)'
    BY <1>4, <1>5, <1>9, <2>1 DEF Unmoved
  <2>2. ASSUME NEW o \in Operator, run[o].stage = "uploaded"
        PROVE  object'[<<run[o].task.slot, run[o].task.column, 0>>] # "absent"
    <3>1. PICK s \in Slot, c \in Column : s = run[o].task.slot /\ c = run[o].task.column
      BY <2>2 DEF SiteInv, RunsSound, RunSound, WithColumns, S!Column1
    <3>2. Unmoved(s, c)
      BY <2>2, <3>1 DEF SiteInv, RunsSound, Waits
    <3>3. <<s, c, 0>> \notin S!Files(a, "bucket")
      <4> SUFFICES ASSUME <<s, c, 0>> \in S!Files(a, "bucket") PROVE FALSE
        OBVIOUS
      <4>1. /\ s = request[a].slot /\ request[a].old[c].at = "bucket"
            /\ request[a].old[c].picture = 0
        BY <1>8
      <4>2. request[a].old[c] = S!InBucket(0)
        BY <1>1, <4>1, PlaceFields, InBucketIs, SiteNumbers
      <4> QED
        BY <1>1, <3>2, <4>1, <4>2 DEF Unmoved
    <3>4. <<s, c, 0>> \in S!Key
      BY KeyIn, SiteNumbers
    <3> QED
      BY <1>6, <2>2, <3>1, <3>3, <3>4 DEF SiteInv, RunsSound
  <2> QED
    BY <1>5, <2>1, <2>2 DEF SiteInv, RunsSound
<1>15. S!MediaReachable'
  <2> SUFFICES ASSUME NEW s \in Slot, NEW c \in Column
               PROVE  LET k == <<s, c, url[s][c].picture>> IN
                      /\ url[s][c].at = "bucket" => object'[k] # "absent"
                      /\ url[s][c].at = "disk" => k \in disk'
    BY <1>5 DEF S!MediaReachable
  <2>1. url[s][c] \in S!Place /\ <<s, c, url[s][c].picture>> \in S!Key
    BY PlaceFields, KeyIn DEF SiteInv, SiteTypes
  <2>2. CASE url[s][c].at = "bucket"
    <3>1. <<s, c, url[s][c].picture>> \notin S!Files(a, "bucket")
      <4> SUFFICES ASSUME <<s, c, url[s][c].picture>> \in S!Files(a, "bucket")
                   PROVE  FALSE
        OBVIOUS
      <4>1. /\ s = request[a].slot /\ request[a].old[c].at = "bucket"
            /\ request[a].old[c].picture = url[s][c].picture
        BY <1>8
      <4>2. request[a].old[c] = url[s][c]
        BY <1>1, <2>1, <2>2, <4>1, PlaceFields
      <4> QED
        BY <1>1, <4>1, <4>2 DEF SiteInv, ReplacedGone
    <3> QED
      BY <1>6, <2>1, <2>2, <3>1 DEF SiteInv, S!MediaReachable
  <2>3. CASE url[s][c].at = "disk"
    <3>1. <<s, c, url[s][c].picture>> \notin S!Files(a, "disk")
      BY <1>1, <1>8, <2>3 DEF SiteInv, ReplacedGone
    <3> QED
      BY <1>7, <2>3, <3>1 DEF SiteInv, S!MediaReachable
  <2> QED
    BY <2>2, <2>3
<1> QED
  BY <1>10, <1>11, <1>12, <1>13, <1>14, <1>15 DEF SiteInv

LEMMA SiteStep ==
    ASSUME OneOperator, SiteInv, [S!SiteMediaNext]_site
    PROVE  SiteInv'
<1>1. CASE UNCHANGED site
  BY <1>1 DEF site, SiteInv, SiteTypes, PicturesNumbered, UploadsOwn, ReplacedGone,
              RunsSound, Unmoved, InUse, Due, S!MediaReachable
<1>2. ASSUME NEW a \in Admin, S!RequestNext(a) PROVE SiteInv'
  BY <1>2, SetStep, ClearStep, ReadStep, WriteStep, UnlinkStep, StopsStep
     DEF S!RequestNext
<1>3. ASSUME NEW o \in Operator, S!Process(o) PROVE SiteInv'
  BY <1>3, SectionsStep, RunEnds, RewriteStep, LogStep, PassingSteps, UploadStep
     DEF S!Process
<1> QED
  BY <1>1, <1>2, <1>3, RunEnds, StartRunStep, EmptyStep DEF S!SiteMediaNext

LEMMA SiteInit ==
    ASSUME S!SiteMediaInit
    PROVE  SiteInv
<1>1. PICK first \in [Slot -> AtFirst] : \A s \in Slot :
          /\ url[s] = [c \in Column |-> [at |-> first[s], picture |-> 0]]
          /\ \A c \in Column : first[s] = "disk" => <<s, c, 0>> \in disk
  BY DEF S!SiteMediaInit
<1>2. AtFirst \subseteq {"nothing", "external", "disk"}
  BY BackgroundAssumption DEF BackgroundAssumption, S!SiteMediaAssumption
<1>3. \A s \in Slot : [at |-> first[s], picture |-> 0] \in S!Place
  BY <1>2, SiteNumbers DEF S!Place
<1>4. /\ \A s \in Slot, c \in Column :
             url[s][c].at = first[s] /\ url[s][c].picture = 0
      /\ url \in [Slot -> [Column -> S!Place]]
  <2>1. \A s \in Slot : url[s] \in [Column -> S!Place]
    BY <1>1, <1>3
  <2>2. url = [s \in Slot |-> url[s]]
    BY DEF S!SiteMediaInit
  <2>3. ASSUME NEW s \in Slot, NEW c \in Column
        PROVE  url[s][c].at = first[s] /\ url[s][c].picture = 0
    <3>1. PICK p : p = [at |-> first[s], picture |-> 0]
      OBVIOUS
    <3>2. url[s] = [d \in Column |-> p]
      BY <1>1, <3>1
    <3>3. url[s][c] = p
      BY <3>2
    <3> QED
      BY <3>1, <3>3
  <2> QED
    BY <2>1, <2>2, <2>3
<1>5. /\ \A a \in Admin : request[a] = S!NoRequest
      /\ \A o \in Operator : run[o] = S!NoRun
      /\ uploads = 0
      /\ request \in [Admin -> S!Request] /\ run \in [Operator -> S!Run]
      /\ object \in [S!Key -> {"absent", "stored", "swept"}]
  BY DEF S!SiteMediaInit, S!Request, S!Run
<1>6. S!NoRequest.stage = "idle"
  BY DEF S!NoRequest
<1>7. SiteTypes
  BY <1>4, <1>5, SiteNumbers DEF SiteTypes
<1>8. PicturesNumbered
  <2>2. \A s \in Slot, c \in Column : Numbered(url[s][c], uploads)
    BY <1>4, <1>5 DEF Numbered
  <2> QED
    BY <1>5, <1>6, <2>2 DEF PicturesNumbered
<1>9. UploadsOwn /\ ReplacedGone
  BY <1>5, <1>6 DEF UploadsOwn, ReplacedGone, Due, InUse
<1>10. RunsSound
  BY <1>5, IdleRun DEF RunsSound
<1>11. S!MediaReachable
  BY <1>1, <1>2, <1>4 DEF S!MediaReachable
<1> QED
  BY <1>7, <1>8, <1>9, <1>10, <1>11 DEF SiteInv

\* No column of the site points to a file or an object that was removed,
\* however many admins replace and clear the pictures while one run of the
\* script uploads, rewrites and stops, and the bucket is emptied.
THEOREM PicturesReachable == OneOperator /\ BackgroundSpec => []MediaReachable
<1> SUFFICES ASSUME OneOperator
             PROVE  BackgroundSpec => []MediaReachable
  OBVIOUS
<1>1. BackgroundInit => SiteInv
  BY SiteInit DEF BackgroundInit
<1>2. [BackgroundNext]_everything => [S!SiteMediaNext]_site
  BY DEF BackgroundNext, Outbox, Contact, Analytics, Site, everything, site
<1>3. SiteInv /\ [BackgroundNext]_everything => SiteInv'
  BY <1>2, SiteStep
<1>4. SiteInv => MediaReachable
  BY DEF SiteInv, MediaReachable
<1> QED
  BY <1>1, <1>3, <1>4, PTL DEF BackgroundSpec
=============================================================================
