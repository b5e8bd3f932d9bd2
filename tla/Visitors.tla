------------------------------ MODULE Visitors ------------------------------
(***************************************************************************)
(* Visitors: sessions and their cookie (middleware/session.py), signing in *)
(* and out with a Google account (routes/auth.py, auth_service.py), carts  *)
(* (cart_service.py), the order a cart becomes (order_service.checkout)    *)
(* and saved products (saved_products_service.py).                         *)
(*                                                                         *)
(* A browser has several requests under way. Each passes the middleware,   *)
(* which reads the session of its cookie, then its handler, then brings    *)
(* its answer, whose Set-Cookie replaces the browser's cookie; the event   *)
(* loop runs other requests in between. A handler without an await is one  *)
(* step; the OAuth callback waits for Google between its two. A thread     *)
(* deletes expired sessions meanwhile.                                     *)
(***************************************************************************)
EXTENDS Integers, Sequences, FiniteSets, FiniteSetsExt

CONSTANTS
    Browser, Account, Product, Request,
    None,
    MaxSession,    \* bound: sessions ever created
    MaxOrder,      \* bound: orders ever placed
    Errand,        \* bound: what happens in one behaviour, sets of these
    MaxSent,       \* bound: requests ever sent
    MaxLoss,       \* bound: requests or answers the network loses
    MaxQuantity,   \* cart_max_quantity_per_item
    MaxItems,      \* cart_max_distinct_items
    Price,         \* cents of each product, discounts included
    Body           \* checkout forms the visitors send

Session == 1..MaxSession

\* What the constants must satisfy; the MC module assumes it.
VisitorsAssumption == None \notin Account \cup Session

VARIABLES
    session,   \* sessions
    cart,      \* cart_items
    active,    \* products.is_active
    account,   \* users
    saved,     \* user_saved_products
    order,     \* orders, with the browser that placed each
    browser,   \* what each browser keeps: two cookies and an OAuth state
    request,   \* requests under way
    retired,   \* sessions that a sign-in replaced (history)
    signedOut, \* sessions that a sign-out left (history)
    sent, losses,
    errand     \* the kinds of event of this behaviour, one of Errand

shop == <<cart, active, order>>
people == <<account, saved>>
history == <<retired, signedOut, errand>>
network == <<sent, losses>>
vars == <<session, shop, people, browser, request, history, network>>

SessionRow == [status : {"unused", "live", "deleted"}, expired : BOOLEAN,
               user : Account \cup {None}]
Unused == [status |-> "unused", expired |-> FALSE, user |-> None]
NewSession(u) == [status |-> "live", expired |-> FALSE, user |-> u]

Live(s) == s # None /\ session[s].status = "live"
UserOf(s) == IF Live(s) THEN session[s].user ELSE None

\* Session ids are random: the next one is only ever new.
Next1 == {n \in Session : session[n].status = "unused"
                          /\ \A m \in Session : m < n => session[m].status # "unused"}

Token == [session : Session, user : Account] \cup {None}

\* dependencies/auth.py: whom a request with token t in session s acts for.
CurrentUser(t, s) ==
    IF t # None /\ t.session = s /\ UserOf(s) = t.user THEN t.user ELSE None

\* Beside the requests: "recall", "expire" and "loss".
Kind == {"add", "set", "remove", "order", "save", "unsave", "login", "callback", "logout"}
Idle == [stage |-> "idle"]
Stage == {"sent", "handled", "exchanging"}

Reply(s) == [cookie |-> s, token |-> "keep", user |-> None, state |-> None]
RequestRow ==
    [stage : Stage, browser : Browser, kind : Kind, product : Product,
     quantity : 0..MaxQuantity, body : Body, token : Token,
     session : Session \cup {None}, new : BOOLEAN, state : Session \cup {None}]
Answer ==
    [stage : {"answered"}, browser : Browser,
     reply : [cookie : Session \cup {None}, token : {"keep", "set", "clear"},
              user : Account \cup {None}, state : Session \cup {None}]]

BrowserRow == [cookie : Session \cup {None}, token : Token, state : Session \cup {None}]

VisitorsTypeOK ==
    /\ session \in [Session -> SessionRow]
    /\ cart \in [Session -> [Product -> 0..MaxQuantity]]
    /\ active \subseteq Product
    /\ account \in [Account -> {"unknown", "customer", "admin"}]
    /\ saved \in SUBSET (Account \X Product)
    /\ order \in Seq([session : Session, user : Account \cup {None},
                      browser : Browser, total : Nat])
    /\ browser \in [Browser -> BrowserRow]
    /\ request \in [Request -> RequestRow \cup Answer \cup {Idle}]
    /\ retired \subseteq Session /\ signedOut \subseteq Session
    /\ sent \in 0..MaxSent /\ losses \in 0..MaxLoss
    /\ errand \in Errand

EmptyCart == [p \in Product |-> 0]
In(c) == {p \in Product : c[p] > 0}

Init ==
    /\ session = [s \in Session |-> Unused]
    /\ cart = [s \in Session |-> EmptyCart]
    /\ active = Product
    /\ account = [a \in Account |-> "unknown"]
    /\ saved = {}
    /\ order = <<>>
    /\ browser = [b \in Browser |-> [cookie |-> None, token |-> None, state |-> None]]
    /\ request = [r \in Request |-> Idle]
    /\ retired = {} /\ signedOut = {}
    /\ sent = 0 /\ losses = 0
    /\ errand \in Errand

(***************************************************************************)
(* What a checkout charges and refuses, in cents.                          *)
(***************************************************************************)
FREE_SHIPPING_THRESHOLD_CENTS == 5000
INTERNAL_DELIVERY_CENTS == 350
SHIPPING_CENTS_MAX == 3000
PriceSource == {"live", "flat", "fallback"}

ItemsTotal(c) == MapThenSumSet(LAMBDA p : Price[p] * c[p], In(c))

\* The form's office is one of the catalogue, of the type the catalogue says.
OfficeAccepted(body) ==
    /\ body.office # None
    /\ body.office.type = body.catalogue.type
    /\ body.courier = "econt" => body.catalogue.code # None

DeliveryAccepted(body, enabled) ==
    CASE body.method = "office" -> /\ <<body.courier, "office">> \in enabled
                                   /\ OfficeAccepted(body)
      [] body.method = "door" -> <<body.courier, "door">> \in enabled
      [] OTHER -> enabled = {}

\* A form's shipping price counts only below the threshold and for couriers.
Shipping(body, items) ==
    IF items >= FREE_SHIPPING_THRESHOLD_CENTS
    THEN [cents |-> 0, source |-> "live", fallback |-> FALSE, quoted |-> FALSE]
    ELSE IF body.method = "internal"
    THEN [cents |-> INTERNAL_DELIVERY_CENTS, source |-> "live", fallback |-> FALSE,
          quoted |-> FALSE]
    ELSE [cents |-> body.cents, source |-> body.source,
          fallback |-> body.source # "live", quoted |-> body.quoted]

ShippingAccepted(body, items) ==
    \/ items >= FREE_SHIPPING_THRESHOLD_CENTS
    \/ body.method = "internal"
    \/ body.cents \in 0..SHIPPING_CENTS_MAX /\ body.source \in PriceSource

\* limit: payment settings' pay_on_delivery_max_cents.
LimitAccepted(body, total, limit) == body.payment = "cod" => total <= limit

OrderTotal(body, items) == items + Shipping(body, items).cents

(***************************************************************************)
(* The network: a browser sends, answers arrive in any order, some never.  *)
(***************************************************************************)
Kinds(b) == IF browser[b].state = None THEN errand \ {"callback"} ELSE errand

Form(k, p, q, body) ==
    /\ k \in {"add", "set", "remove", "save", "unsave"} \/ p = CHOOSE x \in Product : TRUE
    /\ IF k = "set" THEN TRUE ELSE IF k = "add" THEN q = 1 ELSE q = 0
    /\ k = "order" \/ body = CHOOSE x \in Body : TRUE

\* The token cookie goes with every request, and matters to those two. A
\* browser follows Google's redirect, with the state of its login, once.
Send(b, r, k, p, q, body) ==
    /\ request[r] = Idle /\ sent < MaxSent
    /\ sent' = sent + 1
    /\ k \in Kind \cap Kinds(b) /\ Form(k, p, q, body)
    /\ request' = [request EXCEPT ![r] =
           [stage |-> "sent", browser |-> b, kind |-> k, product |-> p, quantity |-> q,
            body |-> body, session |-> browser[b].cookie, new |-> FALSE,
            token |-> IF k \in {"save", "unsave"} THEN browser[b].token ELSE None,
            state |-> IF k = "callback" THEN browser[b].state ELSE None]]
    /\ browser' = IF k = "callback" THEN [browser EXCEPT ![b].state = None] ELSE browser
    /\ UNCHANGED <<session, shop, people, history, losses>>

Answered(r, reply) ==
    [request EXCEPT ![r] = [stage |-> "answered", browser |-> @.browser, reply |-> reply]]

\* Every answer but a failed one sets the session cookie again, however late.
Deliver(r) ==
    LET q == request[r]
        b == q.browser IN
    /\ q.stage = "answered"
    /\ request' = [request EXCEPT ![r] = Idle]
    /\ browser' = [browser EXCEPT
           ![b].cookie = IF q.reply.cookie = None THEN @ ELSE q.reply.cookie,
           ![b].token = CASE q.reply.token = "set" ->
                                 [session |-> q.reply.cookie, user |-> q.reply.user]
                          [] q.reply.token = "clear" -> None
                          [] OTHER -> @,
           ![b].state = IF q.reply.state # None THEN q.reply.state ELSE @]
    /\ UNCHANGED <<session, shop, people, history, network>>

Lose(r) ==
    /\ "loss" \in errand /\ losses < MaxLoss
    /\ request[r].stage \in {"sent", "answered"}
    /\ losses' = losses + 1
    /\ request' = [request EXCEPT ![r] = Idle]
    /\ UNCHANGED <<session, shop, people, browser, history, sent>>

(***************************************************************************)
(* SessionMiddleware.dispatch, and what time does to a session: its row    *)
(* expires 30 days after its last use or 180 days after its creation.      *)
(***************************************************************************)
Known(s) == Live(s) /\ ~session[s].expired

Dispatch(r) ==
    /\ request[r].stage = "sent"
    /\ \/ /\ Known(request[r].session)
          /\ request' = [request EXCEPT ![r].stage = "handled"]
          /\ UNCHANGED session
       \/ /\ ~Known(request[r].session)
          /\ \E n \in Next1 :
                /\ session' = [session EXCEPT ![n] = NewSession(None)]
                /\ request' = [request EXCEPT ![r].stage = "handled",
                                              ![r].session = n, ![r].new = TRUE]
    /\ UNCHANGED <<shop, people, browser, history, network>>

Expire(s) ==
    /\ "expire" \in errand
    /\ Known(s)
    /\ session' = [session EXCEPT ![s].expired = TRUE]
    /\ UNCHANGED <<shop, people, browser, request, history, network>>

\* Deleting a session deletes its cart_items with it (ON DELETE CASCADE).
Deletes(gone) ==
    [s \in Session |-> IF s \in gone THEN [session[s] EXCEPT !.status = "deleted"]
                       ELSE session[s]]

CleanUp ==
    LET gone == {s \in Session : Live(s) /\ session[s].expired} IN
    /\ gone # {}
    /\ session' = Deletes(gone)
    /\ cart' = [s \in Session |-> IF s \in gone THEN EmptyCart ELSE cart[s]]
    /\ UNCHANGED <<active, order, people, browser, request, history, network>>

(***************************************************************************)
(* The handlers of carts, orders and saved products.                       *)
(***************************************************************************)
Handling(r, k) == request[r].stage = "handled" /\ request[r].kind = k
AnswerOnly(r) == request' = Answered(r, Reply(request[r].session))

Addable(s, p, q) ==
    /\ p \in active
    /\ cart[s][p] + q <= MaxQuantity
    /\ cart[s][p] = 0 => Cardinality(In(cart[s])) < MaxItems

\* cart_items refers to the session's row: without it the insert fails.
Fails(r) == /\ request[r].kind = "add" /\ ~Live(request[r].session)
            /\ Addable(request[r].session, request[r].product, request[r].quantity)

Settable(s, p, q) == cart[s][p] > 0 /\ (q > 0 => p \in active /\ q <= MaxQuantity)

CartAfter(r) ==
    LET q == request[r]
        s == q.session
        p == q.product IN
    CASE q.kind = "add" /\ Addable(s, p, q.quantity) /\ ~Fails(r) ->
            [cart EXCEPT ![s][p] = @ + q.quantity]
      [] q.kind = "set" /\ Settable(s, p, q.quantity) -> [cart EXCEPT ![s][p] = q.quantity]
      [] q.kind = "remove" -> [cart EXCEPT ![s][p] = 0]
      [] OTHER -> cart

ChangeCart(r) ==
    /\ \E k \in {"add", "set", "remove"} : Handling(r, k)
    /\ cart' = CartAfter(r)
    /\ request' = Answered(r, Reply(IF Fails(r) THEN None ELSE request[r].session))
    /\ UNCHANGED <<session, active, order, people, browser, history, network>>

\* The switches and limits an operator sets are those the forms were made for.
Orderable(s, body) ==
    /\ body.offered
    /\ DeliveryAccepted(body, body.enabled)
    /\ In(cart[s]) # {} /\ In(cart[s]) \subseteq active
    /\ ShippingAccepted(body, ItemsTotal(cart[s]))
    /\ LimitAccepted(body, OrderTotal(body, ItemsTotal(cart[s])), body.limit)
    /\ body.email \/ UserOf(s) # None

OrderFrom(r) ==
    LET s == request[r].session IN
    [session |-> s, user |-> UserOf(s), browser |-> request[r].browser,
     total |-> OrderTotal(request[r].body, ItemsTotal(cart[s]))]

PlaceOrder(r) ==
    LET s == request[r].session IN
    /\ Handling(r, "order")
    /\ \/ /\ Orderable(s, request[r].body) /\ Len(order) < MaxOrder
          /\ order' = Append(order, OrderFrom(r))
          /\ cart' = [cart EXCEPT ![s] = EmptyCart]
       \/ ~Orderable(s, request[r].body) /\ UNCHANGED <<order, cart>>
    /\ AnswerOnly(r)
    /\ UNCHANGED <<session, active, people, browser, history, network>>

\* Both need an account; saving also needs the product to be on sale.
SaveProduct(r) ==
    LET u == CurrentUser(request[r].token, request[r].session)
        p == request[r].product IN
    /\ Handling(r, "save")
    /\ saved' = IF u # None /\ p \in active THEN saved \cup {<<u, p>>} ELSE saved
    /\ AnswerOnly(r)
    /\ UNCHANGED <<session, shop, account, browser, history, network>>

UnsaveProduct(r) ==
    LET u == CurrentUser(request[r].token, request[r].session) IN
    /\ Handling(r, "unsave")
    /\ saved' = saved \ {<<u, request[r].product>>}
    /\ AnswerOnly(r)
    /\ UNCHANGED <<session, shop, account, browser, history, network>>

\* An operator takes a product off sale, or puts it back.
ToggleProduct(p) ==
    /\ "recall" \in errand
    /\ active' = IF p \in active THEN active \ {p} ELSE active \cup {p}
    /\ UNCHANGED <<session, cart, order, people, browser, request, history, network>>

(***************************************************************************)
(* Signing in: the login's state is bound to a session; its callback       *)
(* checks that, waits for Google, and then moves what the session has into *)
(* a new one of the account.                                               *)
(***************************************************************************)
Login(r) ==
    /\ Handling(r, "login")
    /\ request' = Answered(r, [Reply(request[r].session) EXCEPT !.state = request[r].session])
    /\ UNCHANGED <<session, shop, people, browser, history, network>>

StateAccepted(r) == request[r].state = request[r].session

StartCallback(r) ==
    /\ Handling(r, "callback")
    /\ \/ StateAccepted(r) /\ request' = [request EXCEPT ![r].stage = "exchanging"]
       \/ ~StateAccepted(r) /\ AnswerOnly(r)
    /\ UNCHANGED <<session, shop, people, browser, history, network>>

\* No code, no verified address, an expired key or an open circuit.
GoogleRefuses(r) ==
    /\ request[r].stage = "exchanging"
    /\ AnswerOnly(r)
    /\ UNCHANGED <<session, shop, people, browser, history, network>>

FirstUser == \A a \in Account : account[a] = "unknown"

\* upsert_user: the first account of all becomes the operator's.
Upserted(a) ==
    IF account[a] # "unknown" THEN account
    ELSE [account EXCEPT ![a] = IF FirstUser THEN "admin" ELSE "customer"]

\* Fault: the session that is replaced stays.
RotatedKept(s, n, a) == [session EXCEPT ![n] = NewSession(a)]

\* Fault: the session is also linked to the account where it is.
RotatedInPlace(s, n, a) ==
    [x \in Session |->
        IF x = n THEN NewSession(a)
        ELSE IF x = s /\ Live(s) THEN [session[s] EXCEPT !.user = a] ELSE session[x]]

\* rotate_session_in_transaction: s gives way to n.
Rotated(s, n, a) ==
    [x \in Session |->
        IF x = n THEN NewSession(a)
        ELSE IF x = s /\ Live(s) THEN [session[s] EXCEPT !.status = "deleted"]
        ELSE session[x]]

MovedCart(s, n) == [cart EXCEPT ![n] = cart[s], ![s] = EmptyCart]

Backfilled(s, a) ==
    [i \in DOMAIN order |->
        IF order[i].session = s /\ order[i].user = None
        THEN [order[i] EXCEPT !.user = a] ELSE order[i]]

FinishCallback(r, a) ==
    LET s == request[r].session IN
    /\ request[r].stage = "exchanging"
    /\ account' = Upserted(a)
    /\ \E n \in Next1 :
          /\ session' = Rotated(s, n, a)
          /\ cart' = MovedCart(s, n)
          /\ request' = Answered(r, [cookie |-> n, token |-> "set", user |-> a, state |-> None])
    /\ order' = Backfilled(s, a)
    /\ retired' = retired \cup {s}
    /\ UNCHANGED <<active, saved, browser, signedOut, network, errand>>

\* A session the middleware has just made, or one deleted since, is left alone.
Logout(r) ==
    LET s == request[r].session IN
    /\ Handling(r, "logout")
    /\ \/ /\ ~request[r].new /\ Live(s)
          /\ \E n \in Next1 :
                /\ session' = [session EXCEPT ![s].user = None, ![n] = NewSession(None)]
                /\ request' = Answered(r, [Reply(n) EXCEPT !.token = "clear"])
          /\ signedOut' = signedOut \cup {s}
       \/ /\ request[r].new \/ ~Live(s)
          /\ request' = Answered(r, [Reply(s) EXCEPT !.token = "clear"])
          /\ UNCHANGED <<session, signedOut>>
    /\ UNCHANGED <<shop, people, browser, retired, network, errand>>

Handle(r) ==
    \/ ChangeCart(r) \/ PlaceOrder(r) \/ SaveProduct(r) \/ UnsaveProduct(r)
    \/ Login(r) \/ StartCallback(r) \/ GoogleRefuses(r)
    \/ \E a \in Account : FinishCallback(r, a)
    \/ Logout(r)

VisitorsNext ==
    \/ \E b \in Browser, r \in Request, k \in Kind, p \in Product, q \in 0..MaxQuantity,
          body \in Body : Send(b, r, k, p, q, body)
    \/ \E r \in Request : Dispatch(r) \/ Handle(r) \/ Deliver(r) \/ Lose(r)
    \/ \E s \in Session : Expire(s)
    \/ CleanUp
    \/ \E p \in Product : ToggleProduct(p)

Spec == Init /\ [][VisitorsNext]_vars

(***************************************************************************)
(* What visitors may rely on.                                              *)
(***************************************************************************)
\* Signing in leaves nothing behind: once a session gave way to an account's,
\* no request still under way in it puts items into its cart or places an
\* order the account does not have (rotate_session_in_transaction and the
\* backfill after it, against requests whose session was read before).
NothingLeftBehind ==
    \A s \in retired :
        /\ cart[s] = EmptyCart
        /\ \A i \in DOMAIN order : order[i].session = s => order[i].user # None

\* A session that was signed out is nobody's again, whatever callback was
\* under way in it: a token issued for it is never accepted any more
\* (get_current_user's promise that logout invalidates at once).
SignOutIsFinal == \A s \in signedOut : UserOf(s) = None

\* Not so when answers overtake each other: a browser whose cookie is that of
\* a session it signed out of lists the orders placed in it.
Listed(s) == {i \in DOMAIN order :
                 IF UserOf(s) # None THEN order[i].user = UserOf(s)
                 ELSE order[i].session = s}
SignedOutListsNothing ==
    \A b \in Browser : browser[b].cookie \in signedOut =>
        \A i \in Listed(browser[b].cookie) : order[i].user = None

\* Nor this: a browser holding the token of a session holds its cookie.
TokenMatchesCookie ==
    \A b \in Browser : browser[b].token # None =>
        browser[b].token.session = browser[b].cookie

=============================================================================
