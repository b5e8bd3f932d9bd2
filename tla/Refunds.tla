------------------------------- MODULE Refunds -------------------------------
(***************************************************************************)
(* Stripe refunds and disputes: create_stripe_refund_async,                *)
(* handle_refund_updated and handle_dispute_event of                       *)
(* app/services/payment_service.py over the table payment_refunds, on top  *)
(* of the card payments they undo (module CardPayments).                   *)
(*                                                                         *)
(* A refund request is four steps: it reads the order and sums the refunds *)
(* that exist, without a lock; it commits a pending row; it calls Stripe   *)
(* with no transaction open; it stores the id Stripe gave, or fails the    *)
(* row.  Stripe reports the outcome by webhook, when it likes and as often *)
(* as it likes.  The handler sums what is committed before it writes, so   *)
(* it is a reading and a writing step; the row lock its first UPDATE takes *)
(* keeps two events of one refund apart, not those of two refunds of one   *)
(* order.                                                                  *)
(*                                                                         *)
(* A row is identified by its idempotency key, which is unique in the      *)
(* table and at Stripe.  An event is recorded in stripe_events in the      *)
(* transaction that handles it; a delivery of a recorded one changes       *)
(* nothing.  Reports of a refund that is still pending are recorded only.  *)
(***************************************************************************)
EXTENDS CardPayments

CONSTANTS
    Key,            \* idempotency keys, and so rows of payment_refunds
    Admin,          \* refund requests being served at the same time
    Delivery,       \* refund events being handled at the same time
    Price,          \* total_cents of an order, in units of a partial refund
    Disputable,     \* orders whose card holder may open a dispute
    MayBounce,      \* whether a refund that succeeded may still fail
    MaxLostAnswers  \* bound: answers of Stripe that never arrive

ASSUME RefundAssumption ==
    /\ IsFiniteSet(Key)
    /\ Price \in Nat \ {0}
    /\ Disputable \subseteq Order
    /\ MayBounce \in BOOLEAN
    /\ MaxLostAnswers \in Nat

VARIABLES
    refund,     \* rows of payment_refunds
    provider,   \* the refunds as Stripe has them
    emitted,    \* events Stripe has emitted
    received,   \* those of them that are in stripe_events
    refundJob,  \* the refund requests in flight, with what they have read
    delivery,   \* the refund events in flight, with what they have read
    lost        \* lost answers so far

refundVars == <<refund, provider, emitted, received, refundJob, delivery, lost>>
everyVar == <<allVars, refundVars>>

RefundRow == [status : {"pending", "succeeded", "failed"}, order : Order,
              amount : 1..Price, matched : BOOLEAN]
NoRefund == [status |-> "absent"]
DisputeStatus == {"dispute_open", "dispute_won", "dispute_lost"}
RefundEvent == [key : Key, outcome : {"succeeded", "failed"}]
DisputeEvent == [order : Order, outcome : DisputeStatus]
InsertJob == [op : {"insert"}, key : Key, order : Order, amount : 1..Price,
              counted : Nat]
CallJob == [op : {"call", "store", "fail"}, key : Key]
ApplyJob == [op : {"apply"}, event : RefundEvent, payment : Payment]

RefundTypeOK ==
    /\ CardTypeOK
    /\ refund \in [Key -> RefundRow \cup {NoRefund}]
    /\ provider \in [Key -> {"none", "pending", "succeeded", "failed"}]
    /\ emitted \in SUBSET (RefundEvent \cup DisputeEvent)
    /\ received \in SUBSET (RefundEvent \cup DisputeEvent)
    /\ refundJob \in [Admin -> InsertJob \cup CallJob \cup {Idle}]
    /\ delivery \in [Delivery -> ApplyJob \cup {Idle}]
    /\ lost \in 0..MaxLostAnswers

RefundInit ==
    /\ CardInit
    /\ refund = [k \in Key |-> NoRefund]
    /\ provider = [k \in Key |-> "none"]
    /\ emitted = {}
    /\ received = {}
    /\ refundJob = [a \in Admin |-> Idle]
    /\ delivery = [d \in Delivery |-> Idle]
    /\ lost = 0

(***************************************************************************)
(* The refunds of an order.                                                *)
(***************************************************************************)
RefundsOf(o, status) ==
    {k \in Key : refund[k].status \in status /\ refund[k].order = o}

Amount(keys) == Total([k \in keys |-> refund[k].amount], keys)

\* Fault: refunds Stripe has not confirmed yet are not counted.
CommittedConfirmed(o) == Amount(RefundsOf(o, {"succeeded"}))

\* _refunded_or_pending_total
Committed(o) == Amount(RefundsOf(o, {"pending", "succeeded"}))

\* A webhook has stored the order's PaymentIntent.
IntentKnown(o) == thanks[o] > 0 \/ o \in alerts

\* The guards of create_stripe_refund_async.
Refundable(o) ==
    /\ order[o].method = "card"
    /\ order[o].payment \in {"paid", "partially_refunded", "refund_pending"}
    /\ IntentKnown(o)

(***************************************************************************)
(* POST /admin/orders/{id}/refunds: create_stripe_refund_async.            *)
(***************************************************************************)

\* The request is validated; one whose key has a row is answered with it.
\* counted is already_refunding, the sum the amount was compared with.
RequestRefund(a, k, o, amount) ==
    /\ refundJob[a] = Idle
    /\ refund[k] = NoRefund
    /\ Refundable(o)
    /\ amount <= Price - Committed(o)
    /\ refundJob' = [refundJob EXCEPT ![a] =
           [op |-> "insert", key |-> k, order |-> o, amount |-> amount,
            counted |-> Committed(o)]]
    /\ UNCHANGED <<allVars, refund, provider, emitted, received, delivery, lost>>

\* The pending row and the new state of the payment are committed.
InsertRefund(a) ==
    LET q == refundJob[a]
    IN  /\ q.op = "insert"
        /\ refund[q.key] = NoRefund
        /\ refund' = [refund EXCEPT ![q.key] =
               [status |-> "pending", order |-> q.order, amount |-> q.amount,
                matched |-> FALSE]]
        /\ order' = [order EXCEPT ![q.order].payment = "refund_pending"]
        /\ refundJob' = [refundJob EXCEPT ![a] = [op |-> "call", key |-> q.key]]
        /\ UNCHANGED <<stockVars, item, issued, emails, request, cardVars,
                       provider, emitted, received, delivery, lost>>

\* A concurrent request with the same key was first: the unique index refuses
\* the row and the request is rolled back.
InsertCollides(a) ==
    /\ refundJob[a].op = "insert"
    /\ refund[refundJob[a].key] /= NoRefund
    /\ refundJob' = [refundJob EXCEPT ![a] = Idle]
    /\ UNCHANGED <<allVars, refund, provider, emitted, received, delivery, lost>>

\* Stripe refunds no more than was captured.
StripeCovers(k) ==
    Amount({j \in Key : /\ provider[j] \in {"pending", "succeeded"}
                        /\ refund[j].order = refund[k].order})
        + refund[k].amount <= Price

\* stripe.Refund.create returns, or raises because Stripe refused.
StripeAnswers(a) ==
    LET k == refundJob[a].key
    IN  /\ refundJob[a].op = "call"
        /\ \/ /\ StripeCovers(k)
              /\ provider' = [provider EXCEPT ![k] = "pending"]
              /\ refundJob' = [refundJob EXCEPT ![a].op = "store"]
           \/ /\ refundJob' = [refundJob EXCEPT ![a].op = "fail"]
              /\ UNCHANGED provider
        /\ UNCHANGED <<allVars, refund, emitted, received, delivery, lost>>

\* stripe.Refund.create raises although Stripe made the refund: its answer
\* was lost.
StripeAnswerLost(a) ==
    LET k == refundJob[a].key
    IN  /\ refundJob[a].op = "call"
        /\ lost < MaxLostAnswers
        /\ StripeCovers(k)
        /\ lost' = lost + 1
        /\ provider' = [provider EXCEPT ![k] = "pending"]
        /\ refundJob' = [refundJob EXCEPT ![a].op = "fail"]
        /\ UNCHANGED <<allVars, refund, emitted, received, delivery>>

\* provider_refund_id is stored: events of the refund are matched from now on.
StoreProviderId(a) ==
    /\ refundJob[a].op = "store"
    /\ refund' = [refund EXCEPT ![refundJob[a].key].matched = TRUE]
    /\ refundJob' = [refundJob EXCEPT ![a] = Idle]
    /\ UNCHANGED <<allVars, provider, emitted, received, delivery, lost>>

\* Fault: the payment is left in refund_pending.
PaymentAfterRefusal(payment) == payment

\* What the payment of an order becomes when Stripe does not make its refund.
PaymentAfterFailure(payment) == "review_required"

\* Any exception of the call fails the row.
RecordFailure(a) ==
    LET k == refundJob[a].key
        o == refund[k].order
    IN  /\ refundJob[a].op = "fail"
        /\ refund' = [refund EXCEPT ![k].status = "failed"]
        /\ order' = [order EXCEPT ![o].payment = PaymentAfterFailure(@)]
        /\ refundJob' = [refundJob EXCEPT ![a] = Idle]
        /\ UNCHANGED <<stockVars, item, issued, emails, request, cardVars,
                       provider, emitted, received, delivery, lost>>

(***************************************************************************)
(* Stripe.                                                                 *)
(***************************************************************************)

\* A refund is paid out, or fails; one that was paid out may come back.
RefundSettles(k, outcome) ==
    /\ \/ provider[k] = "pending"
       \/ MayBounce /\ provider[k] = "succeeded" /\ outcome = "failed"
    /\ provider' = [provider EXCEPT ![k] = outcome]
    /\ emitted' = emitted \cup {[key |-> k, outcome |-> outcome]}
    /\ UNCHANGED <<allVars, refund, received, refundJob, delivery, lost>>

\* The card holder disputes a captured payment.
DisputeOpens(o) ==
    LET opened == [order |-> o, outcome |-> "dispute_open"]
    IN  /\ o \in Disputable
        /\ Captured(o) /= {}
        /\ opened \notin emitted
        /\ emitted' = emitted \cup {opened}
        /\ UNCHANGED <<allVars, refund, provider, received, refundJob, delivery,
                       lost>>

\* The bank decides the dispute.
DisputeCloses(o, outcome) ==
    /\ [order |-> o, outcome |-> "dispute_open"] \in emitted
    /\ \A e \in emitted \cap DisputeEvent :
           e.order = o => e.outcome = "dispute_open"
    /\ emitted' = emitted \cup {[order |-> o, outcome |-> outcome]}
    /\ UNCHANGED <<allVars, refund, provider, received, refundJob, delivery,
                   lost>>

(***************************************************************************)
(* Webhook.                                                                *)
(***************************************************************************)

\* Events Stripe still delivers.
Undelivered == emitted \ received

\* handle_refund_updated knows no row for the refund: the event is recorded
\* as unmatched.
IgnoreUnmatched(e) ==
    /\ e \in Undelivered \cap RefundEvent
    /\ ~refund[e.key].matched
    /\ received' = received \cup {e}
    /\ UNCHANGED <<allVars, refund, provider, emitted, refundJob, delivery, lost>>

PaymentOf(e) == order[refund[e.key].order].payment

\* Fault: only the refund that was just confirmed is compared with the price.
PaymentAfterAlone(e) ==
    IF e.outcome = "failed" THEN PaymentAfterFailure(PaymentOf(e))
    ELSE IF refund[e.key].amount >= Price THEN "refunded"
    ELSE "partially_refunded"

\* Fault: refunds that are still pending are counted as confirmed.
PaymentAfterAll(e) ==
    IF e.outcome = "failed" THEN PaymentAfterFailure(PaymentOf(e))
    ELSE IF Committed(refund[e.key].order) >= Price THEN "refunded"
    ELSE "partially_refunded"

\* The state of the payment after event e of a refund.
PaymentAfter(e) ==
    LET confirmed == RefundsOf(refund[e.key].order, {"succeeded"}) \cup {e.key}
    IN  IF e.outcome = "failed" THEN PaymentAfterFailure(PaymentOf(e))
        ELSE IF Amount(confirmed) >= Price THEN "refunded"
        ELSE "partially_refunded"

\* handle_refund_updated updates the row, which locks it, and sums what the
\* order was refunded.
ReadRefundEvent(d, e) ==
    /\ delivery[d] = Idle
    /\ e \in Undelivered \cap RefundEvent
    /\ refund[e.key].matched
    /\ \A c \in Delivery : delivery[c] /= Idle => delivery[c].event.key /= e.key
    /\ delivery' = [delivery EXCEPT ![d] =
           [op |-> "apply", event |-> e, payment |-> PaymentAfter(e)]]
    /\ UNCHANGED <<allVars, refund, provider, emitted, received, refundJob, lost>>

\* The handler writes the order and commits.
WriteRefundEvent(d) ==
    LET e == delivery[d].event
        o == refund[e.key].order
    IN  /\ delivery[d] /= Idle
        /\ refund' = [refund EXCEPT ![e.key].status = e.outcome]
        /\ order' = [order EXCEPT ![o].payment = delivery[d].payment]
        /\ received' = received \cup {e}
        /\ delivery' = [delivery EXCEPT ![d] = Idle]
        /\ UNCHANGED <<stockVars, item, issued, emails, request, cardVars,
                       provider, emitted, refundJob, lost>>

\* handle_dispute_event: the payment takes the state of the dispute, whatever
\* it was before.
ReceiveDispute(e) ==
    /\ e \in Undelivered \cap DisputeEvent
    /\ received' = received \cup {e}
    /\ order' = [order EXCEPT ![e.order].payment = e.outcome]
    /\ UNCHANGED <<stockVars, item, issued, emails, request, cardVars, refund,
                   provider, emitted, refundJob, delivery, lost>>

\* A worker dies while it serves a refund request or a refund event.
RefundCrash ==
    /\ crashes < MaxCrashes
    /\ crashes' = crashes + 1
    /\ \/ \E a \in Admin : /\ refundJob[a] /= Idle
                           /\ refundJob' = [refundJob EXCEPT ![a] = Idle]
                           /\ UNCHANGED delivery
       \/ \E d \in Delivery : /\ delivery[d] /= Idle
                              /\ delivery' = [delivery EXCEPT ![d] = Idle]
                              /\ UNCHANGED refundJob
    /\ UNCHANGED <<vars, sessionVars, webhookVars, aged, job, sweep, refund,
                   provider, emitted, received, lost>>

RefundRequestNext ==
    \E a \in Admin :
        \/ \E k \in Key, o \in Order, amount \in 1..Price :
               RequestRefund(a, k, o, amount)
        \/ InsertRefund(a)
        \/ InsertCollides(a)
        \/ StripeAnswers(a)
        \/ StripeAnswerLost(a)
        \/ StoreProviderId(a)
        \/ RecordFailure(a)

RefundStripeNext ==
    \/ \E k \in Key, outcome \in {"succeeded", "failed"} :
           RefundSettles(k, outcome)
    \/ \E o \in Order :
           \/ DisputeOpens(o)
           \/ \E outcome \in {"dispute_won", "dispute_lost"} :
                  DisputeCloses(o, outcome)

RefundWebhookNext ==
    \/ \E e \in Undelivered : IgnoreUnmatched(e) \/ ReceiveDispute(e)
    \/ \E d \in Delivery : \/ \E e \in Undelivered : ReadRefundEvent(d, e)
                           \/ WriteRefundEvent(d)

PaymentsNext == CardNext /\ UNCHANGED refundVars

RefundNext ==
    \/ PaymentsNext
    \/ RefundRequestNext
    \/ RefundStripeNext
    \/ RefundWebhookNext
    \/ RefundCrash

RefundSpec == RefundInit /\ [][RefundNext]_everyVar

(***************************************************************************)
(* Properties.                                                             *)
(***************************************************************************)

WithinPrice(o) == Amount(RefundsOf(o, {"pending", "succeeded"})) <= Price

\* "Total succeeded and pending refund amounts for an order MUST NOT exceed
\* the amount paid": true while one refund request is served at a time, in
\* spite of partial refunds, refusals and lost answers.
RefundsBounded == \A o \in Order : WithinPrice(o)

\* a inserts a refund of o that it compared with a sum that has changed.
InsertsOnStaleSum(a, o) ==
    /\ refundJob[a].op = "insert" /\ refundJob[a].order = o
    /\ refundJob'[a].op = "call"
    /\ refundJob[a].counted /= Committed(o)

\* d confirms a refund of o that has failed in the meantime.
RevivesFailed(d, o) ==
    /\ delivery[d] /= Idle /\ delivery'[d] = Idle
    /\ delivery[d].event.outcome = "succeeded"
    /\ refund[delivery[d].event.key].status = "failed"
    /\ refund[delivery[d].event.key].order = o

\* The two ways in which the refunds of an order come to exceed its price,
\* whatever requests and events overlap, is lost, bounces or crashes: another
\* refund is inserted between the unlocked sum of a request and its own row,
\* or a late confirmation revives a refund that was given up.
ExceedsByRace ==
    \A o \in Order : WithinPrice(o) => \/ WithinPrice(o)'
                                       \/ \E a \in Admin : InsertsOnStaleSum(a, o)
                                       \/ \E d \in Delivery : RevivesFailed(d, o)
OverRefundedOnlyByRace == [][ExceedsByRace]_everyVar

\* When the confirmed refunds of an order add up to what was paid, its
\* payment is 'refunded': true while one event is handled at a time.
FullyRefundedIsRefunded ==
    \A o \in Order : Amount(RefundsOf(o, {"succeeded"})) >= Price =>
        order[o].payment = "refunded"

\* Local status does not claim that money was refunded before Stripe
\* confirmed it: a 'refunded' order has confirmations of its full price, even
\* while two of them are handled at the same time.
RefundedIsConfirmed ==
    \A o \in Order : order[o].payment = "refunded" =>
        Amount({k \in Key : /\ [key |-> k, outcome |-> "succeeded"] \in emitted
                            /\ refund[k].order = o}) >= Price

\* No order hangs in 'refund_pending' with nothing pending, whatever fails,
\* crashes, bounces, is disputed or handled at the same time: the transaction
\* that ends the last pending refund also moves the payment on.
PendingHasRefund ==
    \A o \in Order : order[o].payment = "refund_pending" =>
        RefundsOf(o, {"pending"}) /= {}

\* A confirmation that Stripe delivered is recorded on its row.
ConfirmationsRecorded ==
    \A e \in received \cap RefundEvent :
        e.outcome = "succeeded" => refund[e.key].status = "succeeded"

\* A row is 'failed' only when Stripe has not made the refund.
FailedMeansNotRefunded ==
    \A k \in Key : refund[k].status = "failed" =>
        provider[k] \in {"none", "failed"}

\* A refund that failed is not treated as refunded.
FailureIsFinal ==
    \A e \in received \cap RefundEvent :
        e.outcome = "failed" => refund[e.key].status /= "succeeded"

\* After a failed refund the order stays in a state an admin can review.
FailedRefundStaysReviewable ==
    \A k \in Key : refund[k].status = "failed" =>
        order[refund[k].order].payment /= "failed"

\* The outcome of a dispute stays recorded.
DisputeOutcomeKept ==
    \A e \in received \cap DisputeEvent :
        e.outcome /= "dispute_open" => order[e.order].payment /= "dispute_open"
=============================================================================
