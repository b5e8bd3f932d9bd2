--------------------------- MODULE MCStorefront ----------------------------
(***************************************************************************)
(* What visitors see and do, in one run: the catalogue (Shop), sessions,   *)
(* carts and accounts (Visitors), and rate limits (Limits). In the models  *)
(* they share no state, so a behaviour is of one of them: the run explores *)
(* the sum of their states.                                                *)
(***************************************************************************)
EXTENDS Shop, TLC

CONSTANTS
    Browser, Account, Good, Visit, None, MaxSession, MaxOrder, MaxSent, MaxLoss,
    MaxQuantity, MaxItems, Errand, Price, Body,
    Visitor, Address, Item, Order, Thread, MaxTime, Surface, MaxEvent, Retention, Limit

VARIABLES
    session, cart, active, account, saved, order, browser, visiting, retired, signedOut,
    sent, losses, errand,
    now, event, events, accepted, reaction, lock, thread, hung, surface,
    part

\* Visitors with its theorems, which then hold of these visitors.
V == INSTANCE Visitors_proofs WITH Product <- Good, Request <- Visit, request <- visiting
L == INSTANCE Limits WITH Product <- Item

ASSUME StorefrontLimits == L!LimitsAssumption
ASSUME StorefrontVisitors == V!VisitorsAssumption

visitors == <<session, cart, active, account, saved, order, browser, visiting, retired,
              signedOut, sent, losses, errand>>
limits == <<now, event, events, accepted, reaction, lock, thread, hung, surface>>
everything == <<vars, visitors, limits, part>>

StorefrontInit ==
    /\ Init /\ V!Init /\ L!Init
    /\ part \in {"shop", "visitors", "limits"}
    /\ part # "visitors" => errand = CHOOSE e \in Errand : TRUE
    /\ part # "limits" => surface = CHOOSE s \in Surface : TRUE

Selling == part = "shop" /\ Next /\ UNCHANGED <<visitors, limits, part>>
Visiting == part = "visitors" /\ V!VisitorsNext /\ UNCHANGED <<vars, limits, part>>
Limiting == part = "limits" /\ L!LimitsNext /\ UNCHANGED <<vars, visitors, part>>

StorefrontSpec == StorefrontInit /\ [][Selling \/ Visiting \/ Limiting]_everything

\* A session that a sign-in replaced keeps nothing (Visitors.NothingLeftBehind).
NothingLeftBehind == V!NothingLeftBehind

\* No request of a browser that signed out acts for the account again
\* (Visitors.SignOutIsFinal).
SignOutIsFinal == V!SignOutIsFinal

\* No window of a limit ever holds more than the limit (Limits.WindowsKept);
\* the code does not promise it for Stripe sessions, nor that the loop runs on.
WindowsKept == L!WindowsKept
StripeWindowsKept == L!StripeWindowsKept
LoopRuns == L!LoopRuns

VisitorsTypeOK == V!VisitorsTypeOK
LimitsTypeOK == L!LimitsTypeOK

\* An effective price is at least a cent and at most the price, does not rise
\* with the discount, and is within half a cent of the exact one if above one.
ASSUME PriceBounds ==
    \A price \in 1..120, percent \in 1..99 :
        LET charged == EffectivePrice(price, percent, TRUE)
        IN  /\ charged \in 1..price
            /\ charged >= EffectivePrice(price, percent + 1, TRUE)
            /\ charged > 1 => 100 * charged - price * (100 - percent) \in -49..50
            /\ EffectivePrice(price, percent, FALSE) = price

\* The buckets of Limits: by product, session, address and order.
Buckets == {"checkout", "cod", "poll"} \X {"session", "ip"}
             \cup {<<"comment", "product">>, <<"comment", "session">>, <<"react", "session">>,
                   <<"contact", "ip">>, <<"stripe", "order">>, <<"stripe", "session">>}
Small == [b \in Buckets |->
    [limit |-> IF b[2] = "ip" THEN 2 ELSE 1,
     window |-> IF b \in {<<"comment", "product">>, <<"stripe", "order">>} THEN 0 ELSE 1,
     closed |-> b[1] \notin {"comment", "react"}]]
Surfaces == {{"comment"}, {"react"}, {"contact"}, {"checkout", "cod"}, {"stripe"}, {"poll"}}

Form1 == [payment |-> "card", offered |-> TRUE, email |-> TRUE, method |-> "door",
          courier |-> "econt", office |-> None, catalogue |-> None, cents |-> 400,
          source |-> "live", quoted |-> TRUE, enabled |-> {<<"econt", "door">>},
          limit |-> 5000]
SmallPrice == [g \in Good |-> 2600]
Errands == {{"add", "order", "login", "callback", "logout"},
            {"add", "order", "login", "callback", "expire"},
            {"add", "set", "remove", "order", "recall", "loss"},
            {"save", "unsave", "login", "callback", "recall"}}
SmallBody == {Form1}
\* The configuration gives the sets that are symmetric the same two pairs of
\* model values (products, visits and visitors; types and accounts), which
\* the parts never compare: four permutations then serve all five.
Alike == Permutations(Product) \cup Permutations(Type)
=============================================================================
