------------------------------- MODULE SendClaim -------------------------------
(***************************************************************************)
(* What a send claim promises, without tables or leases: an email has at   *)
(* most one sender at a time; a sender that is done with it for good shuts *)
(* it; one that fails or dies leaves it to the next.  The promise is that  *)
(* of openspec/specs/email-service, "Duplicate emails are suppressed via a *)
(* DB-level idempotency guard"; module EmailOutbox implements it.          *)
(***************************************************************************)
CONSTANTS Mail,    \* what there is to send
          Worker   \* who may send it

VARIABLE holder    \* who is sending it: a worker, nobody, a dead worker,
                   \* or nobody ever again

Init == holder = [m \in Mail |-> "nobody"]

\* A worker takes an email nobody is sending.
Acquire(m, w) ==
    /\ holder[m] = "nobody"
    /\ holder' = [holder EXCEPT ![m] = w]

\* Its sender gives it up, or has sent it.
Release(m) ==
    /\ holder[m] \in Worker
    /\ \E state \in {"nobody", "closed"} : holder' = [holder EXCEPT ![m] = state]

\* Its sender dies.
Abandon(m) ==
    /\ holder[m] \in Worker
    /\ holder' = [holder EXCEPT ![m] = "abandoned"]

\* The lease of the dead sender ends.
Recover(m) ==
    /\ holder[m] = "abandoned"
    /\ holder' = [holder EXCEPT ![m] = "nobody"]

Next == \E m \in Mail : \/ \E w \in Worker : Acquire(m, w)
                        \/ Release(m)
                        \/ Abandon(m)
                        \/ Recover(m)

Spec == Init /\ [][Next]_holder
=============================================================================
