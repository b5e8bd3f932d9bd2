---------------------------- MODULE CardPayments ----------------------------
(***************************************************************************)
(* Card payments: app/services/payment_service.py, the Stripe webhook of   *)
(* app/routes/webhooks.py and the reservation sweeper of app/main.py, on   *)
(* top of the order service they change (module Orders).                   *)
(*                                                                         *)
(* A handler keeps its order in Python variables across the call to Stripe *)
(* and writes it back with an unconditional UPDATE, so each handler is a   *)
(* reading action and a writing action.  A sweep runs in every uvicorn     *)
(* worker.  It treats orders independently, so it is modelled one order at *)
(* a time.  Stripe delivers an event at least once and in any order; a     *)
(* delivery of an event that is already in stripe_events changes nothing.  *)
(* payment_intent.payment_failed and charge.refunded are audit rows only.  *)
(***************************************************************************)
EXTENDS Orders, FiniteSets

CONSTANTS
    Session,     \* Stripe Checkout Sessions that may be created (at most
                 \* STRIPE_SESSION_ORDER_LIMIT for one order)
    NoSession,
    Handler,     \* requests and webhook deliveries served at the same time
    Sweeper,     \* uvicorn workers, each with its own reservation sweeper
    MaxCrashes   \* bound: handlers and sweeps cut short by a crash

ASSUME CardAssumption ==
    /\ IsFiniteSet(Session)
    /\ NoSession \notin Session
    /\ MaxCrashes \in Nat

VARIABLES
    session,     \* orders.stripe_checkout_session_id, and the stored URL
    stripe,      \* the sessions as Stripe has them
    seen,        \* completed sessions whose event is in stripe_events
    expiredSeen, \* expired sessions whose event is in stripe_events
    thanks,      \* 'placed' emails queued by the webhook
    alerts,      \* orders with a payment_requires_review admin alert
    aged,        \* orders created more than 24 hours ago
    job,         \* the handlers in flight, with what they have read
    sweep,       \* the sweeps in flight, with the order they have read
    crashes

sessionVars == <<session, stripe>>
webhookVars == <<seen, expiredSeen, thanks, alerts>>
cardVars == <<session, stripe, seen, expiredSeen, thanks, alerts, aged, job,
              sweep, crashes>>
allVars == <<vars, cardVars>>

Unused == [state |-> "unused"]
StripeSession == [state : {"created", "open", "paid", "expired"},
                  order : Order]
Outcome == {"paid", "review", "ignored"}
SessionJob == [op : {"create"}, order : Order, payment : Payment]
PersistJob == [op : {"persist"}, order : Order, payment : Payment,
               session : Session]
WebhookJob == [op : {"completed"}, session : Session, outcome : Outcome]
ClosingSweep == [op : {"close", "closing"}, order : Order]
ReviewSweep == [op : {"review", "marking"}, order : Order,
                session : Session \cup {NoSession}]

CardTypeOK ==
    /\ TypeOK
    /\ session \in [Order -> Session \cup {NoSession}]
    /\ stripe \in [Session -> {Unused} \cup StripeSession]
    /\ seen \in SUBSET Session
    /\ expiredSeen \in SUBSET Session
    /\ thanks \in [Order -> Nat]
    /\ alerts \in SUBSET Order
    /\ aged \in SUBSET Order
    /\ job \in [Handler -> SessionJob \cup PersistJob \cup WebhookJob
                                      \cup {Idle}]
    /\ sweep \in [Sweeper -> ClosingSweep \cup ReviewSweep \cup {Idle}]
    /\ crashes \in 0..MaxCrashes

CardInit ==
    /\ Init
    /\ session = [o \in Order |-> NoSession]
    /\ stripe = [s \in Session |-> Unused]
    /\ seen = {}
    /\ expiredSeen = {}
    /\ thanks = [o \in Order |-> 0]
    /\ alerts = {}
    /\ aged = {}
    /\ job = [h \in Handler |-> Idle]
    /\ sweep = [w \in Sweeper |-> Idle]
    /\ crashes = 0

(***************************************************************************)
(* Checkout Sessions.                                                      *)
(***************************************************************************)

\* POST /orders with payment_method = 'card': the checkout commits, and then
\* the route asks Stripe for a session.
PlaceCardOrder(h, o, basket) ==
    /\ job[h] = Idle
    /\ Checkout(o, "card", basket)
    /\ job' = [job EXCEPT ![h] =
           [op |-> "create", order |-> o, payment |-> "pending"]]
    /\ UNCHANGED <<sessionVars, webhookVars, aged, sweep, crashes>>

\* prepare_retry_session, when it does not answer with a stored URL.
MayRetry(o) ==
    /\ order[o].method = "card"
    /\ order[o].payment \in {"pending", "failed"}
    /\ order[o].status \notin {"absent", "cancelled"}
    /\ order[o].reservation = "held"
    /\ order[o].payment = "pending" => session[o] = NoSession

\* POST /orders/{id}/stripe-session reads the order.
StartRetry(h, o) ==
    /\ job[h] = Idle
    /\ MayRetry(o)
    /\ job' = [job EXCEPT ![h] =
           [op |-> "create", order |-> o, payment |-> order[o].payment]]
    /\ UNCHANGED <<vars, sessionVars, webhookVars, aged, sweep, crashes>>

\* Stripe creates the session; the customer does not have its URL yet.
CreateSession(h, s) ==
    /\ job[h].op = "create"
    /\ stripe[s].state = "unused"
    /\ stripe' = [stripe EXCEPT ![s] =
           [state |-> "created", order |-> job[h].order]]
    /\ job' = [job EXCEPT ![h] =
           [op |-> "persist", order |-> job[h].order,
            payment |-> job[h].payment, session |-> s]]
    /\ UNCHANGED <<vars, session, webhookVars, aged, sweep, crashes>>

\* The order after a session was stored: a retry that read 'failed' writes
\* 'pending', whatever the order is now.
Retried(row, read) ==
    IF read = "failed" THEN [row EXCEPT !.payment = "pending"] ELSE row

\* _persist_checkout_session, and the answer that carries the URL.
PersistSession(h) ==
    LET q == job[h]
    IN  /\ q.op = "persist"
        /\ session' = [session EXCEPT ![q.order] = q.session]
        /\ stripe' = [stripe EXCEPT ![q.session] =
               [state |-> "open", order |-> q.order]]
        /\ order' = [order EXCEPT ![q.order] = Retried(@, q.payment)]
        /\ job' = [job EXCEPT ![h] = Idle]
        /\ UNCHANGED <<stockVars, item, issued, emails, request, webhookVars,
                       aged, sweep, crashes>>

\* Stripe refuses to create a session (StripeSessionError); the order stays
\* as it is and the customer may retry.
SessionRefused(h) ==
    /\ job[h].op = "create"
    /\ job' = [job EXCEPT ![h] = Idle]
    /\ UNCHANGED <<vars, sessionVars, webhookVars, aged, sweep, crashes>>

(***************************************************************************)
(* Stripe and the clock.                                                   *)
(***************************************************************************)

\* The customer pays on Stripe's page: the money is captured.
CustomerPays(s) ==
    /\ stripe[s].state = "open"
    /\ stripe' = [stripe EXCEPT ![s].state = "paid"]
    /\ UNCHANGED <<vars, session, webhookVars, aged, job, sweep, crashes>>

\* Stripe expires a session 24 hours after it was created.
SessionExpires(s) ==
    /\ stripe[s].state = "open"
    /\ stripe[s].order \in aged
    /\ stripe' = [stripe EXCEPT ![s].state = "expired"]
    /\ UNCHANGED <<vars, session, webhookVars, aged, job, sweep, crashes>>

\* 24 hours pass since the order was created; its 15 minutes are over.
DayPasses(o) ==
    /\ order[o].reservation = "lapsed"
    /\ o \notin aged
    /\ aged' = aged \cup {o}
    /\ UNCHANGED <<vars, sessionVars, webhookVars, job, sweep, crashes>>

(***************************************************************************)
(* Webhook.                                                                *)
(***************************************************************************)

\* handle_payment_succeeded: what to do with session s for its order.
OutcomeFor(o, s) ==
    LET awaited == /\ order[o].method = "card"
                   /\ order[o].payment \in {"pending", "failed"}
                   /\ session[o] \in {NoSession, s}
        active == order[o].reservation = "held"
    IN  CASE awaited /\ ~active                                    -> "review"
          [] awaited /\ active /\ order[o].status /= "cancelled" -> "paid"
          [] OTHER                                               -> "ignored"

\* Fault: the event id is recorded without looking for it first.
ReadCompletedAgain(h, s) ==
    /\ job[h] = Idle
    /\ stripe[s].state = "paid"
    /\ job' = [job EXCEPT ![h] =
           [op |-> "completed", session |-> s,
            outcome |-> OutcomeFor(stripe[s].order, s)]]
    /\ UNCHANGED <<vars, sessionVars, webhookVars, aged, sweep, crashes>>

\* checkout.session.completed: the INSERT into stripe_events is the first of
\* its event id (a concurrent delivery waits for it), and the order is read.
ReadCompleted(h, s) ==
    /\ job[h] = Idle
    /\ stripe[s].state = "paid"
    /\ s \notin seen
    /\ \A g \in Handler : job[g].op = "completed" => job[g].session /= s
    /\ job' = [job EXCEPT ![h] =
           [op |-> "completed", session |-> s,
            outcome |-> OutcomeFor(stripe[s].order, s)]]
    /\ UNCHANGED <<vars, sessionVars, webhookVars, aged, sweep, crashes>>

\* The orders handle_payment_succeeded raises an admin alert for.
Alerted(outcome, o) == IF outcome = "review" THEN {o} ELSE {}

\* The order as handle_payment_succeeded writes it.
Completed(row, outcome) ==
    CASE outcome = "paid"   -> [row EXCEPT !.payment = "paid"]
      [] outcome = "review" ->
             IF row.payment \in {"pending", "failed", "review_required"}
             THEN [row EXCEPT !.payment = "review_required"] ELSE row
      [] outcome = "ignored" -> row

WriteCompleted(h) ==
    LET s == job[h].session
        o == stripe[s].order
        outcome == job[h].outcome
    IN  /\ job[h].op = "completed"
        /\ order' = [order EXCEPT ![o] = Completed(@, outcome)]
        /\ thanks' = [thanks EXCEPT ![o] = IF outcome = "paid" THEN @ + 1
                                           ELSE @]
        /\ emails' = [emails EXCEPT ![o] = IF outcome = "paid"
                                           THEN @ \cup {"placed"} ELSE @]
        /\ alerts' = alerts \cup Alerted(outcome, o)
        /\ seen' = seen \cup {s}
        /\ job' = [job EXCEPT ![h] = Idle]
        /\ UNCHANGED <<stockVars, item, issued, request, sessionVars,
                       expiredSeen, aged, sweep, crashes>>

\* handle_session_expired updates the order only for its current session.
ExpiryMatters(o, s) == order[o].payment = "pending" /\ session[o] = s

\* checkout.session.expired: one conditional UPDATE.
DeliverExpired(s) ==
    LET o == stripe[s].order
    IN  /\ stripe[s].state = "expired"
        /\ s \notin expiredSeen
        /\ expiredSeen' = expiredSeen \cup {s}
        /\ order' = IF ExpiryMatters(o, s)
                    THEN [order EXCEPT ![o].payment = "review_required"]
                    ELSE order
        /\ UNCHANGED <<stockVars, item, issued, emails, request, sessionVars,
                       seen, thanks, alerts, aged, job, sweep, crashes>>

(***************************************************************************)
(* The reservation sweeper: _cancel_abandoned_card_orders.                 *)
(***************************************************************************)

\* Fault: only reservations in their first window are swept.
ClosableNever(o) == FALSE

\* close_rows: the admin's review window is over.
Closable(o) ==
    /\ order[o].method = "card"
    /\ order[o].payment = "review_required"
    /\ order[o].reservation = "lapsed"
    /\ order[o].status \in {"pending", "confirmed"}

\* rows: the customer did not pay in time.
Abandoned(o) ==
    /\ order[o].method = "card"
    /\ order[o].payment \in {"pending", "failed"}
    /\ order[o].reservation = "lapsed" \/ o \in aged
    /\ order[o].status \in {"pending", "confirmed"}

StartSweep(w, o) ==
    /\ sweep[w] = Idle
    /\ \/ /\ Closable(o)
          /\ sweep' = [sweep EXCEPT ![w] = [op |-> "close", order |-> o]]
       \/ /\ Abandoned(o)
          /\ sweep' = [sweep EXCEPT ![w] =
                 [op |-> "review", order |-> o, session |-> session[o]]]
    /\ UNCHANGED <<vars, sessionVars, webhookVars, aged, job, crashes>>

\* update_status reads the order again; when it may no longer be cancelled
\* the sweep is rolled back and tried again at the next tick.
RereadForClose(w) ==
    /\ sweep[w].op = "close"
    /\ sweep' = [sweep EXCEPT ![w] =
           IF StatusAllowed(order[@.order], "cancelled")
           THEN [op |-> "closing", order |-> @.order] ELSE Idle]
    /\ UNCHANGED <<vars, sessionVars, webhookVars, aged, job, crashes>>

\* The order a closing sweep leaves behind.
Closed(row) == [row EXCEPT !.status = "cancelled", !.fulfillment = "ready",
                           !.payment = "failed", !.reservation = "none"]

\* The order is cancelled, its stock released and its payment failed.
CloseOrder(w) ==
    LET o == sweep[w].order
    IN  /\ sweep[w].op = "closing"
        /\ order' = [order EXCEPT ![o] = Closed(@)]
        /\ ReleaseStock(o)
        /\ sweep' = [sweep EXCEPT ![w] = Idle]
        /\ UNCHANGED <<managed, produced, item, issued, emails, request,
                       sessionVars, webhookVars, aged, job, crashes>>

\* expire_checkout_session asks Stripe to expire the session that was read; a
\* refusal is logged and ignored.
ExpireAtStripe(w) ==
    LET s == sweep[w].session
    IN  /\ sweep[w].op = "review"
        /\ \/ /\ s \in Session
              /\ stripe[s].state = "open"
              /\ stripe' = [stripe EXCEPT ![s].state = "expired"]
           \/ UNCHANGED stripe
        /\ sweep' = [sweep EXCEPT ![w] =
               [op |-> "marking", order |-> @.order, session |-> s]]
        /\ UNCHANGED <<vars, session, webhookVars, aged, job, crashes>>

\* The order is put in review, and an admin gets a new window to call the
\* customer.
MarkForReview(w) ==
    LET o == sweep[w].order
    IN  /\ sweep[w].op = "marking"
        /\ order' = [order EXCEPT ![o].payment = "review_required",
                                  ![o].reservation = "held"]
        /\ sweep' = [sweep EXCEPT ![w] = Idle]
        /\ UNCHANGED <<stockVars, item, issued, emails, request, sessionVars,
                       webhookVars, aged, job, crashes>>

\* A worker dies: its transactions roll back and what Stripe did remains.
HandlerCrash(h) ==
    /\ job[h] /= Idle
    /\ crashes < MaxCrashes
    /\ crashes' = crashes + 1
    /\ job' = [job EXCEPT ![h] = Idle]
    /\ UNCHANGED <<vars, sessionVars, webhookVars, aged, sweep>>

SweeperCrash(w) ==
    /\ sweep[w] /= Idle
    /\ crashes < MaxCrashes
    /\ crashes' = crashes + 1
    /\ sweep' = [sweep EXCEPT ![w] = Idle]
    /\ UNCHANGED <<vars, sessionVars, webhookVars, aged, job>>

HandlerNext ==
    \E h \in Handler :
        \/ \E o \in Order :
               \/ \E basket \in [Product -> 0..MaxQuantity] :
                      PlaceCardOrder(h, o, basket)
               \/ StartRetry(h, o)
        \/ \E s \in Session : CreateSession(h, s) \/ ReadCompleted(h, s)
        \/ PersistSession(h)
        \/ SessionRefused(h)
        \/ WriteCompleted(h)
        \/ HandlerCrash(h)

StripeNext ==
    \/ \E s \in Session : CustomerPays(s) \/ SessionExpires(s)
                              \/ DeliverExpired(s)
    \/ \E o \in Order : DayPasses(o)

SweeperNext ==
    \E w \in Sweeper : \/ \E o \in Order : StartSweep(w, o)
                       \/ RereadForClose(w)
                       \/ CloseOrder(w)
                       \/ ExpireAtStripe(w)
                       \/ MarkForReview(w)
                       \/ SweeperCrash(w)

ShopNext == Next /\ UNCHANGED cardVars

CardNext == ShopNext \/ HandlerNext \/ StripeNext \/ SweeperNext

CardSpec == CardInit /\ [][CardNext]_allVars

(***************************************************************************)
(* Fairness: the clock advances, every worker's sweeper loop goes on (its  *)
(* exceptions are caught and it sleeps 60 seconds between passes).         *)
(***************************************************************************)
Fairness ==
    /\ \A o \in Order : WF_allVars(ReservationLapses(o) /\ UNCHANGED cardVars)
    /\ \A w \in Sweeper :
           /\ \A o \in Order : WF_allVars(StartSweep(w, o))
           /\ WF_allVars(RereadForClose(w))
           /\ WF_allVars(CloseOrder(w))
           /\ WF_allVars(ExpireAtStripe(w))
           /\ WF_allVars(MarkForReview(w))

FairCardSpec == CardSpec /\ Fairness

(***************************************************************************)
(* Properties.                                                             *)
(***************************************************************************)
Captured(o) ==
    {s \in Session : stripe[s].state = "paid" /\ stripe[s].order = o}

\* Stripe delivers an event as often as it likes, to several workers at a
\* time: one captured payment queues at most one thank-you email.
ThankedOncePerCapture ==
    \A o \in Order : thanks[o] <= Cardinality(Captured(o))

\* While one request is served at a time, a customer is never offered a
\* second payable session, and so never charged twice for one order: a retry
\* hands out the stored URL as long as it is pending.
ChargedOnce == \A o \in Order : Cardinality(Captured(o)) <= 1

\* Money that reached Stripe for an order and was reported to the webhook is
\* visible to the shop: the order is paid, or an admin was alerted.  A sweeper
\* that marks the order first breaks it: the capture is then ignored.
CaptureNoticed ==
    \A s \in seen : \/ order[stripe[s].order].payment = "paid"
                    \/ stripe[s].order \in alerts

\* The sweeper reviews and closes unpaid orders only.
SweeperSparesPaid ==
    [][\A o \in Order : order[o].payment = "paid" =>
           order'[o].payment \notin {"review_required", "failed"}]_allVars

\* A retry makes failed orders pending again, never a paid one.
RetryReopensOnlyFailed ==
    [][\A o \in Order : order[o].payment = "paid" =>
           order'[o].payment /= "pending"]_allVars

\* An order in payment review is not handed to the courier.
ReviewNeverShips ==
    [][\A o \in Order :
           order'[o].status = "shipped" /\ order[o].status /= "shipped" =>
               order[o].payment /= "review_required"]_allVars

\* Every card order is eventually paid for or gives its stock back.
EventuallySettled ==
    \A o \in Order : order[o].status /= "absent" /\ order[o].method = "card" ~>
        order[o].payment = "paid" \/ order[o].status = "cancelled"
=============================================================================
