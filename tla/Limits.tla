------------------------------- MODULE Limits -------------------------------
(***************************************************************************)
(* How often a visitor may act: comments (comment_service.py), reactions   *)
(* (reaction_service.py), contact messages (contact_service.py), orders,   *)
(* payments and payment polls (payment_rate_limit_service.py).             *)
(*                                                                         *)
(* Every limit counts the rows of its own kind in a rolling window and     *)
(* then adds one. Most are counted, added to and committed by one handler  *)
(* on the event loop without an await. A payment retry is not: it counts   *)
(* on the loop, and its transaction stays open until Stripe has answered.  *)
(* Contact messages and payment polls are handled in threads: the first    *)
(* take an advisory lock of their address, the second do not. The look at  *)
(* the Stripe window that precedes a card order records nothing and is     *)
(* left out.                                                               *)
(***************************************************************************)
EXTENDS Integers, FiniteSets, FiniteSetsExt

CONSTANTS
    Visitor,   \* session ids
    Address,   \* IP addresses
    Product, Order,
    Thread,
    None,
    MaxTime,   \* bound: how far the clock goes
    Surface,   \* bound: sets of actions a behaviour consists of
    MaxEvent,  \* bound: events ever accepted
    Retention, \* of payment_rate_limit_events (2 days) and reaction_toggle_log (1 hour)
    Limit      \* [limit, window, closed] of each bucket; window 0: for ever

\* A bucket of each action: what it counts by.
Action == {"comment", "react", "contact", "checkout", "cod", "stripe", "poll"}
Scope == {"product", "session", "ip", "order"}
Bucket == {<<"comment", "product">>, <<"comment", "session">>, <<"react", "session">>,
           <<"contact", "ip">>,
           <<"checkout", "session">>, <<"checkout", "ip">>, <<"cod", "session">>,
           <<"cod", "ip">>, <<"stripe", "order">>, <<"stripe", "session">>,
           <<"poll", "session">>, <<"poll", "ip">>}
Payment == {"checkout", "cod", "stripe", "poll"}

\* What the constants must satisfy; the MC module assumes it.
LimitsAssumption ==
    /\ MaxTime \in Nat /\ MaxEvent \in Nat /\ Retention \in Nat
    /\ Limit \in [Bucket -> [limit : Nat \ {0}, window : Nat, closed : BOOLEAN]]
    \* Nothing is forgotten that a window still reaches.
    /\ \A b \in Bucket : b[1] \in Payment \cup {"react"} => Limit[b].window <= Retention
    /\ None \notin Thread

VARIABLES
    now,
    event,     \* rows that count: comments, reaction_toggle_log, contact_messages
               \* and payment_rate_limit_events
    events,    \* events accepted so far
    accepted,  \* every event ever accepted, deleted comments aside (history)
    reaction,  \* reactions: who reacted to what
    lock,      \* advisory locks of addresses
    thread,    \* contact messages, polls and payment retries under way
    hung,      \* the event loop waits for a row lock of one of its own requests
    surface    \* the actions of this behaviour, one of Surface

vars == <<now, event, events, accepted, reaction, lock, thread, hung, surface>>

\* A payment event is a row per bucket; they are made and counted together.
EventRow == [id : 1..MaxEvent, action : Action, at : 0..MaxTime, session : Visitor,
             ip : Address, product : Product \cup {None}, order : Order \cup {None}]
Idle == [stage |-> "idle"]

LimitsTypeOK ==
    /\ now \in 0..MaxTime
    /\ event \subseteq EventRow /\ accepted \subseteq EventRow
    /\ events \in 0..MaxEvent
    /\ reaction \subseteq Visitor \X Product
    /\ lock \in [Address -> Thread \cup {None}]
    /\ thread \in [Thread -> {Idle} \cup [stage : {"begun", "counted"}, at : 0..MaxTime,
                                          action : {"contact", "poll", "stripe"},
                                          session : Visitor, ip : Address,
                                          order : Order \cup {None}]]
    /\ hung \in BOOLEAN
    /\ surface \in Surface

Init ==
    /\ now = 0
    /\ event = {} /\ accepted = {} /\ events = 0
    /\ reaction = {}
    /\ lock = [i \in Address |-> None]
    /\ thread = [h \in Thread |-> Idle]
    /\ hung = FALSE
    /\ surface \in Surface

(***************************************************************************)
(* Counting and recording.                                                 *)
(***************************************************************************)
SameKey(scope, e, f) ==
    CASE scope = "product" -> e.session = f.session /\ e.product = f.product
      [] scope = "session" -> e.session = f.session
      [] scope = "ip" -> e.ip = f.ip
      [] scope = "order" -> e.order = f.order

\* closed: the window's oldest moment counts (>=), or it does not (>).
Within(b, at, t) ==
    \/ Limit[b].window = 0
    \/ IF Limit[b].closed THEN at >= t - Limit[b].window ELSE at > t - Limit[b].window

Counted(b, e, t) ==
    {f \in event : f.action = b[1] /\ SameKey(b[2], e, f) /\ Within(b, f.at, t)}

Exceeds(b, e) == Cardinality(Counted(b, e, e.at)) >= Limit[b].limit

Allowed(e) == \A b \in Bucket : b[1] = e.action => ~Exceeds(b, e)

Event(a, s, i, p, o) == [id |-> events + 1, action |-> a, at |-> now, session |-> s,
                         ip |-> i, product |-> p, order |-> o]

\* _consume_rate_limit forgets the payment events of two days ago first, and
\* a reaction those of its session older than an hour.
Forgotten(e) ==
    {f \in event : \/ e.action \in Payment /\ f.action \in Payment /\ f.at < e.at - Retention
                   \/ e.action = "react" /\ f.action = "react" /\ f.session = e.session
                      /\ f.at < e.at - Retention}

Record(e) ==
    /\ events < MaxEvent
    /\ events' = events + 1
    /\ event' = (event \ Forgotten(e)) \cup {e}
    /\ accepted' = accepted \cup {e}

Refused == UNCHANGED <<event, events, accepted>>
Attempt(e) == IF Allowed(e) THEN Record(e) ELSE Refused

\* The rows that the open transaction of a thread has deleted, and so locks.
DeletedBy(h) ==
    {f \in event : /\ thread[h].stage = "counted" /\ thread[h].action \in Payment
                   /\ f.action \in Payment /\ f.at < thread[h].at - Retention}

RowsFree(e) == \A h \in Thread : Forgotten(e) \cap DeletedBy(h) = {}

Tick ==
    /\ now < MaxTime
    /\ now' = now + 1
    /\ UNCHANGED <<event, events, accepted, reaction, lock, thread, hung, surface>>

(***************************************************************************)
(* Handlers of the event loop. One that waits for a row lock stops them    *)
(* all, the request that holds the lock included.                          *)
(***************************************************************************)
CreateComment(s, i, p) ==
    /\ "comment" \in surface /\ ~hung
    /\ Attempt(Event("comment", s, i, p, None))
    /\ UNCHANGED <<now, reaction, lock, thread, hung, surface>>

\* An operator's deletion gives the place back, in both of its limits.
DeleteComment(e) ==
    /\ e.action = "comment" /\ ~hung
    /\ event' = event \ {e}
    /\ accepted' = accepted \ {e}
    /\ UNCHANGED <<now, events, reaction, lock, thread, hung, surface>>

ToggleReaction(s, i, p) ==
    LET e == Event("react", s, i, p, None) IN
    /\ "react" \in surface /\ ~hung
    /\ Attempt(e)
    /\ reaction' = IF ~Allowed(e) THEN reaction
                   ELSE IF <<s, p>> \in reaction THEN reaction \ {<<s, p>>}
                   ELSE reaction \cup {<<s, p>>}
    /\ UNCHANGED <<now, lock, thread, hung, surface>>

\* The DELETE of _consume_rate_limit comes first, and waits for locked rows.
Consume(e) ==
    /\ ~hung
    /\ IF RowsFree(e) THEN Attempt(e) /\ UNCHANGED hung ELSE Refused /\ hung' = TRUE
    /\ UNCHANGED <<now, reaction, lock, thread, surface>>

\* create_order: the limits of all orders, then those of its payment method.
\* An attempt that the second one refuses stays counted by the first.
CreateOrder(s, i) ==
    /\ "checkout" \in surface
    /\ Consume(Event("checkout", s, i, None, None))

PayOnDelivery(s, i) ==
    /\ "cod" \in surface
    /\ \E f \in event : f.action = "checkout" /\ f.at = now /\ f.session = s /\ f.ip = i
    /\ Consume(Event("cod", s, i, None, None))

\* A card order; it exists before it is counted.
OpenStripeSession(s, i, o) ==
    /\ "stripe" \in surface
    /\ Consume(Event("stripe", s, i, None, o))

\* create_stripe_retry_session up to its await: the transaction that counted
\* and inserted stays open until Finish, or until Abort rolls it back.
RetryStripeSession(h, s, i, o) ==
    LET e == Event("stripe", s, i, None, o) IN
    /\ "stripe" \in surface /\ ~hung
    /\ thread[h] = Idle
    /\ RowsFree(e) => Allowed(e)
    /\ IF RowsFree(e)
       THEN /\ thread' = [thread EXCEPT ![h] =
                   [stage |-> "counted", at |-> now, action |-> "stripe",
                    session |-> s, ip |-> i, order |-> o]]
            /\ UNCHANGED hung
       ELSE hung' = TRUE /\ UNCHANGED thread
    /\ UNCHANGED <<now, event, events, accepted, reaction, lock, surface>>

(***************************************************************************)
(* Handlers in threads, and the end of a retry.                            *)
(***************************************************************************)
EventOf(h) == [Event(thread[h].action, thread[h].session, thread[h].ip, None, thread[h].order)
               EXCEPT !.at = thread[h].at]

\* CURRENT_TIMESTAMP is the moment the transaction began, before any wait.
Begin(h, a, s, i) ==
    /\ thread[h] = Idle /\ a \in surface
    /\ thread' = [thread EXCEPT ![h] = [stage |-> "begun", at |-> now, action |-> a,
                                       session |-> s, ip |-> i, order |-> None]]
    /\ UNCHANGED <<now, event, events, accepted, reaction, lock, hung, surface>>

\* Fault: the lock is not waited for.
LockIgnored(i) == TRUE

LockFree(i) == lock[i] = None

\* pg_advisory_xact_lock is held until the transaction ends.
Count(h) ==
    LET i == thread[h].ip IN
    /\ thread[h].stage = "begun"
    /\ IF thread[h].action = "contact" THEN LockFree(i) ELSE RowsFree(EventOf(h))
    /\ IF Allowed(EventOf(h))
       THEN /\ thread' = [thread EXCEPT ![h].stage = "counted"]
            /\ lock' = IF thread[h].action = "contact" THEN [lock EXCEPT ![i] = h] ELSE lock
       ELSE thread' = [thread EXCEPT ![h] = Idle] /\ UNCHANGED lock
    /\ UNCHANGED <<now, event, events, accepted, reaction, hung, surface>>

EndsNow(h) ==
    /\ thread[h].action = "stripe" => ~hung
    /\ thread' = [thread EXCEPT ![h] = Idle]
    /\ lock' = [i \in Address |-> IF lock[i] = h THEN None ELSE lock[i]]
    /\ UNCHANGED <<now, reaction, hung, surface>>

\* Also when Stripe refused the session: the row stays counted.
Finish(h) ==
    /\ thread[h].stage = "counted"
    /\ Record(EventOf(h))
    /\ EndsNow(h)

\* The transaction is rolled back before its commit.
Abort(h) ==
    /\ thread[h].stage # "idle"
    /\ EndsNow(h) /\ Refused

LimitsNext ==
    \/ Tick
    \/ \E s \in Visitor, i \in Address, p \in Product :
          CreateComment(s, i, p) \/ ToggleReaction(s, i, p)
    \/ \E e \in event : DeleteComment(e)
    \/ \E s \in Visitor, i \in Address : CreateOrder(s, i) \/ PayOnDelivery(s, i)
    \/ \E s \in Visitor, i \in Address, o \in Order : OpenStripeSession(s, i, o)
    \/ \E h \in Thread, s \in Visitor, i \in Address :
          Begin(h, "contact", s, i) \/ Begin(h, "poll", s, i)
    \/ \E h \in Thread, s \in Visitor, i \in Address, o \in Order : RetryStripeSession(h, s, i, o)
    \/ \E h \in Thread : Count(h) \/ Finish(h) \/ Abort(h)

Spec == Init /\ [][LimitsNext]_vars

(***************************************************************************)
(* What the limits promise.                                                *)
(***************************************************************************)
WindowKept(b) ==
    \A e \in {x \in accepted : x.action = b[1]} :
        Cardinality({f \in accepted : f.action = b[1] /\ SameKey(b[2], e, f)
                                      /\ f.at <= e.at /\ Within(b, f.at, e.at)})
            <= Limit[b].limit

\* However requests and threads interleave, no window of a limit, at whatever
\* moment it ends, holds more accepted events than the limit allows: rows that
\* were cleaned up in between must not have mattered, nor a count that another
\* thread's insert made stale (comments, reactions, contact messages, orders).
WindowsKept ==
    \A b \in Bucket : b[1] \notin {"poll", "stripe"} /\ Limit[b].window # 0 => WindowKept(b)

\* Not so for polls, two threads of which count before either inserts,
PollWindowsKept == \A b \in Bucket : b[1] = "poll" => WindowKept(b)

\* nor for Stripe sessions: a retry's row is not seen until Stripe answered
StripeWindowsKept == WindowKept(<<"stripe", "session">>)

\* (and those of one order are forgotten after two days).
StripePerOrder == WindowKept(<<"stripe", "order">>)

\* The event loop does not wait for itself. It does: a retry that deletes rows
\* of two days ago locks them over its await, and the next handler of the loop
\* that wants to delete them waits for a retry that the loop must resume.
LoopRuns == ~hung

=============================================================================
