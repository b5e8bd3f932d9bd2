-------------------------- MODULE Visitors_proofs --------------------------
(***************************************************************************)
(* Theorems about visitors: what a sign-in and a sign-out leave, for any   *)
(* browsers, requests under way, accounts and products.                    *)
(***************************************************************************)
EXTENDS Visitors, TLAPS

OrderRow(T) ==
    [session : Session, user : Account \cup {None}, browser : Browser, total : T]
Row == RequestRow \cup Answer \cup {Idle}

Typed ==
    /\ session \in [Session -> SessionRow]
    /\ cart \in [Session -> [Product -> Int]]
    /\ \E T : order \in Seq(OrderRow(T))
    /\ browser \in [Browser -> BrowserRow]
    /\ request \in [Request -> Row]

\* A request past the middleware has a session that was created, and the token
\* that an answer brings names one.
RowOK(q) ==
    /\ q.stage \in {"handled", "exchanging"} =>
           q.session \in Session /\ session[q.session].status # "unused"
    /\ q.stage = "answered" /\ q.reply.token = "set" =>
           q.reply.cookie \in Session /\ q.reply.user \in Account

RowsOK == \A r \in Request : RowOK(request[r])

\* A session that was replaced is deleted, for good, and has nothing.
RetiredEmpty ==
    \A s \in retired :
        /\ s \in Session
        /\ session[s].status = "deleted"
        /\ cart[s] = EmptyCart
        /\ \A i \in DOMAIN order : order[i].session = s => order[i].user # None

\* A session that was signed out stays nobody's: only an unused one is given.
SignedOutNobody ==
    \A s \in signedOut :
        s \in Session /\ session[s].status # "unused" /\ session[s].user = None

VisitorsInv == Typed /\ RowsOK /\ RetiredEmpty /\ SignedOutNobody

\* What no step does to a session: use it again, revive it, give it a user.
Onward ==
    \A s \in Session : session[s].status # "unused" =>
        /\ session'[s].status # "unused"
        /\ session[s].status = "deleted" => session'[s].status = "deleted"
        /\ session[s].user = None => session'[s].user = None

LEMMA InitInv == ASSUME Init PROVE VisitorsInv
<1>1. Typed
  <2>1. order \in Seq(OrderRow({}))
    BY DEF Init
  <2> QED
    BY <2>1 DEF Init, Typed, SessionRow, Unused, EmptyCart, BrowserRow, Token, Row
<1>2. RowsOK
  BY DEF Init, RowsOK, RowOK, Idle
<1> QED
  BY <1>1, <1>2 DEF Init, VisitorsInv, RetiredEmpty, SignedOutNobody

-----------------------------------------------------------------------------
(* Rows of requests.                                                       *)

LEMMA RowOfStage ==
    ASSUME NEW q \in Row
    PROVE  /\ q.stage \in Stage => q \in RequestRow
           /\ q.stage = "answered" => q \in Answer
  BY DEF Row, RequestRow, Answer, Idle, Stage

LEMMA RowReplaced ==
    ASSUME VisitorsInv, NEW r \in Request, NEW q \in Row,
           request' = [request EXCEPT ![r] = q],
           Onward, RowOK(q)'
    PROVE  request' \in [Request -> Row] /\ RowsOK'
<1>1. /\ request' \in [Request -> Row] /\ request'[r] = q
      /\ \A x \in Request : x # r => request'[x] = request[x]
  BY DEF VisitorsInv, Typed
<1>2. ASSUME NEW x \in Request, x # r PROVE RowOK(request[x])'
  <2>1. RowOK(request[x]) /\ request'[x] = request[x]
    BY <1>1, <1>2 DEF VisitorsInv, RowsOK
  <2> QED
    BY <2>1 DEF RowOK, Onward
<1>3. RowOK(request[r])'
  BY <1>1 DEF RowOK
<1> QED
  BY <1>1, <1>2, <1>3 DEF RowsOK

LEMMA ReplyRow ==
    ASSUME VisitorsInv, NEW r \in Request, request[r].stage \in Stage,
           NEW reply \in [cookie : Session \cup {None}, token : {"keep", "set", "clear"},
                          user : Account \cup {None}, state : Session \cup {None}]
    PROVE  \E q \in Row : /\ Answered(r, reply) = [request EXCEPT ![r] = q]
                          /\ q.stage = "answered" /\ q.reply = reply
<1>1. request[r] \in RequestRow
  BY RowOfStage DEF VisitorsInv, Typed
<1>2. request[r].browser \in Browser
  BY <1>1 DEF RequestRow
<1> DEFINE q == [stage |-> "answered", browser |-> request[r].browser, reply |-> reply]
<1>3. q \in Row /\ q.stage = "answered" /\ q.reply = reply
  BY <1>2 DEF Row, Answer
<1>4. Answered(r, reply) = [request EXCEPT ![r] = q]
  BY DEF Answered
<1> QED
  BY <1>3, <1>4

\* An answer without a token.
LEMMA Answers ==
    ASSUME VisitorsInv, Onward, NEW r \in Request, request[r].stage \in Stage,
           NEW reply \in [cookie : Session \cup {None}, token : {"keep", "clear"},
                          user : Account \cup {None}, state : Session \cup {None}],
           request' = Answered(r, reply)
    PROVE  request' \in [Request -> Row] /\ RowsOK'
<1>1. PICK q \in Row : /\ request' = [request EXCEPT ![r] = q]
                       /\ q.stage = "answered" /\ q.reply = reply
  BY ReplyRow
<1>2. RowOK(q)'
  BY <1>1 DEF RowOK
<1> QED
  BY <1>1, <1>2, RowReplaced

-----------------------------------------------------------------------------
(* Steps that leave sessions, carts and orders.                            *)

LEMMA OnwardSame == ASSUME UNCHANGED session PROVE Onward
  BY DEF Onward

LEMMA ShopAlone ==
    ASSUME VisitorsInv, UNCHANGED <<session, cart, order, retired, signedOut>>,
           browser' \in [Browser -> BrowserRow],
           request' \in [Request -> Row], RowsOK'
    PROVE  VisitorsInv'
<1>1. Typed'
  BY DEF VisitorsInv, Typed
<1>2. RetiredEmpty'
  BY DEF VisitorsInv, RetiredEmpty
<1>3. SignedOutNobody'
  BY DEF VisitorsInv, SignedOutNobody
<1> QED
  BY <1>1, <1>2, <1>3 DEF VisitorsInv

\* A handler that only answers.
LEMMA AnswersAlone ==
    ASSUME VisitorsInv, NEW r \in Request, request[r].stage \in Stage,
           NEW reply \in [cookie : Session \cup {None}, token : {"keep", "clear"},
                          user : Account \cup {None}, state : Session \cup {None}],
           request' = Answered(r, reply),
           UNCHANGED <<session, cart, order, retired, signedOut, browser>>
    PROVE  VisitorsInv'
<1>1. request' \in [Request -> Row] /\ RowsOK'
  BY Answers, OnwardSame
<1>2. browser' \in [Browser -> BrowserRow]
  BY DEF VisitorsInv, Typed
<1> QED
  BY <1>1, <1>2, ShopAlone

LEMMA ReplyTyped ==
    ASSUME NEW s \in Session \cup {None}
    PROVE  /\ Reply(s) \in [cookie : Session \cup {None}, token : {"keep", "clear"},
                             user : Account \cup {None}, state : Session \cup {None}]
           /\ [Reply(s) EXCEPT !.token = "clear"]
                 \in [cookie : Session \cup {None}, token : {"keep", "clear"},
                      user : Account \cup {None}, state : Session \cup {None}]
           /\ [Reply(s) EXCEPT !.state = s]
                 \in [cookie : Session \cup {None}, token : {"keep", "clear"},
                      user : Account \cup {None}, state : Session \cup {None}]
  BY DEF Reply

\* A request past the middleware.
LEMMA HandledSession ==
    ASSUME VisitorsInv, NEW r \in Request, request[r].stage \in {"handled", "exchanging"}
    PROVE  /\ request[r].stage \in Stage /\ request[r] \in RequestRow
           /\ request[r].session \in Session
           /\ session[request[r].session].status # "unused"
           /\ request[r].browser \in Browser
<1>1. request[r].stage \in Stage
  BY DEF Stage
<1>2. request[r] \in RequestRow
  BY <1>1, RowOfStage DEF VisitorsInv, Typed
<1>3. RowOK(request[r])
  BY DEF VisitorsInv, RowsOK
<1> QED
  BY <1>1, <1>2, <1>3 DEF RowOK, RequestRow

LEMMA SendKeeps ==
    ASSUME VisitorsInv, NEW b \in Browser, NEW r \in Request, NEW k \in Kind,
           NEW p \in Product, NEW q \in 0..MaxQuantity, NEW body \in Body,
           Send(b, r, k, p, q, body)
    PROVE  VisitorsInv'
<1> DEFINE token == IF k \in {"save", "unsave"} THEN browser[b].token ELSE None
           state == IF k = "callback" THEN browser[b].state ELSE None
           row == [stage |-> "sent", browser |-> b, kind |-> k, product |-> p,
                   quantity |-> q, body |-> body, session |-> browser[b].cookie,
                   new |-> FALSE, token |-> token, state |-> state]
<1>1. browser \in [Browser -> BrowserRow]
  BY DEF VisitorsInv, Typed
<1>2. /\ browser[b].cookie \in Session \cup {None}
      /\ token \in Token /\ state \in Session \cup {None}
  BY <1>1 DEF BrowserRow, Token
<1>3. request' = [request EXCEPT ![r] = row]
  BY DEF Send
<1>4. browser' \in [Browser -> BrowserRow]
  BY <1>1 DEF Send, BrowserRow
<1>5. UNCHANGED <<session, cart, order, retired, signedOut>>
  BY DEF Send, shop, history
<1> HIDE DEF token, state
<1>6. row \in Row /\ row.stage = "sent"
  BY <1>2 DEF Row, RequestRow, Stage
<1> HIDE DEF row
<1> PICK w \in Row : w.stage = "sent" /\ request' = [request EXCEPT ![r] = w]
  BY <1>3, <1>6
<1>7. RowOK(w)'
  BY DEF RowOK
<1>8. request' \in [Request -> Row] /\ RowsOK'
  BY <1>5, <1>7, RowReplaced, OnwardSame
<1> QED
  BY <1>4, <1>5, <1>8, ShopAlone

LEMMA IdleKeeps ==
    ASSUME VisitorsInv, NEW r \in Request, request' = [request EXCEPT ![r] = Idle],
           UNCHANGED session
    PROVE  request' \in [Request -> Row] /\ RowsOK'
<1>1. Idle \in Row /\ RowOK(Idle)'
  BY DEF Row, Idle, RowOK
<1> QED
  BY <1>1, RowReplaced, OnwardSame

LEMMA DeliverKeeps ==
    ASSUME VisitorsInv, NEW r \in Request, Deliver(r) PROVE VisitorsInv'
<1> DEFINE q == request[r]
           b == q.browser
           cookie == IF q.reply.cookie = None THEN browser[b].cookie ELSE q.reply.cookie
           token == CASE q.reply.token = "set" ->
                            [session |-> q.reply.cookie, user |-> q.reply.user]
                      [] q.reply.token = "clear" -> None
                      [] OTHER -> browser[b].token
           state == IF q.reply.state # None THEN q.reply.state ELSE browser[b].state
<1>1. /\ q.stage = "answered" /\ request' = [request EXCEPT ![r] = Idle]
      /\ UNCHANGED <<session, cart, order, retired, signedOut>>
  BY DEF Deliver, shop, history
<1>2. q \in Answer /\ RowOK(q)
  BY <1>1, RowOfStage DEF VisitorsInv, Typed, RowsOK
<1>3. /\ b \in Browser /\ q.reply.cookie \in Session \cup {None}
      /\ q.reply.token \in {"keep", "set", "clear"}
      /\ q.reply.state \in Session \cup {None}
  BY <1>2 DEF Answer
<1>4. browser \in [Browser -> BrowserRow]
  BY DEF VisitorsInv, Typed
<1>5. /\ cookie \in Session \cup {None} /\ state \in Session \cup {None}
      /\ token \in Token
  <2>1. browser[b] \in BrowserRow
    BY <1>3, <1>4
  <2>2. q.reply.token = "set" => [session |-> q.reply.cookie, user |-> q.reply.user] \in Token
    BY <1>1, <1>2 DEF RowOK, Token
  <2> QED
    BY <1>3, <2>1, <2>2 DEF BrowserRow, Token
<1>6. browser' = [browser EXCEPT ![b] =
          [browser[b] EXCEPT !.cookie = cookie, !.token = token, !.state = state]]
  BY DEF Deliver
<1>7. [browser[b] EXCEPT !.cookie = cookie, !.token = token, !.state = state] \in BrowserRow
  <2>1. browser[b] \in BrowserRow
    BY <1>3, <1>4
  <2> HIDE DEF cookie, token, state, b, q
  <2> QED
    BY <2>1, <1>5 DEF BrowserRow
<1>8. browser' \in [Browser -> BrowserRow]
  <2> HIDE DEF cookie, token, state, b, q
  <2> QED
    BY <1>4, <1>6, <1>7
<1>9. request' \in [Request -> Row] /\ RowsOK'
  BY <1>1, IdleKeeps
<1> QED
  BY <1>1, <1>8, <1>9, ShopAlone

LEMMA LoseKeeps ==
    ASSUME VisitorsInv, NEW r \in Request, Lose(r) PROVE VisitorsInv'
<1>1. /\ request' = [request EXCEPT ![r] = Idle]
      /\ UNCHANGED <<session, cart, order, retired, signedOut, browser>>
  BY DEF Lose, shop, history
<1>2. request' \in [Request -> Row] /\ RowsOK'
  BY <1>1, IdleKeeps
<1> QED
  BY <1>1, <1>2, ShopAlone DEF VisitorsInv, Typed

-----------------------------------------------------------------------------
(* Sessions: the middleware, and what time does to them.                   *)

\* Sessions change, the cart of a replaced one not, and no order.
LEMMA SessionsMove ==
    ASSUME VisitorsInv, Onward, session' \in [Session -> SessionRow],
           cart' \in [Session -> [Product -> Int]],
           \A s \in retired : cart'[s] = cart[s],
           UNCHANGED <<order, retired, signedOut, browser>>,
           request' \in [Request -> Row], RowsOK'
    PROVE  VisitorsInv'
<1>1. Typed'
  BY DEF VisitorsInv, Typed
<1>2. RetiredEmpty'
  BY DEF VisitorsInv, RetiredEmpty, Onward
<1>3. SignedOutNobody'
  BY DEF VisitorsInv, SignedOutNobody, Onward
<1> QED
  BY <1>1, <1>2, <1>3 DEF VisitorsInv

LEMMA RowsOnward ==
    ASSUME VisitorsInv, Onward, UNCHANGED request
    PROVE  request' \in [Request -> Row] /\ RowsOK'
<1>1. ASSUME NEW r \in Request PROVE RowOK(request[r])'
  BY <1>1 DEF VisitorsInv, RowsOK, RowOK, Onward
<1> QED
  BY <1>1 DEF VisitorsInv, Typed, RowsOK

LEMMA DispatchKeeps ==
    ASSUME VisitorsInv, NEW r \in Request, Dispatch(r) PROVE VisitorsInv'
<1>0. /\ request[r].stage = "sent" /\ request[r] \in RequestRow
      /\ session \in [Session -> SessionRow]
      /\ cart \in [Session -> [Product -> Int]]
      /\ browser \in [Browser -> BrowserRow]
      /\ UNCHANGED <<cart, order, browser, retired, signedOut>>
  BY RowOfStage DEF VisitorsInv, Typed, Dispatch, Stage, shop, history
<1>1. CASE Known(request[r].session) /\ UNCHANGED session
           /\ request' = [request EXCEPT ![r].stage = "handled"]
  <2>1. /\ request[r].session \in Session
        /\ session[request[r].session].status # "unused"
    BY <1>0, <1>1 DEF Known, Live, RequestRow
  <2> DEFINE q == [request[r] EXCEPT !.stage = "handled"]
  <2>2. /\ q \in Row /\ q.stage = "handled" /\ q.session = request[r].session
        /\ request' = [request EXCEPT ![r] = q]
    BY <1>0, <1>1 DEF Row, RequestRow, Stage
  <2> HIDE DEF q
  <2> PICK w \in Row : /\ w.stage = "handled" /\ w.session = request[r].session
                       /\ request' = [request EXCEPT ![r] = w]
    BY <2>2
  <2>3. RowOK(w)'
    BY <2>1, <1>1 DEF RowOK
  <2>4. request' \in [Request -> Row] /\ RowsOK'
    BY <2>3, <1>1, RowReplaced, OnwardSame
  <2> QED
    BY <1>0, <1>1, <2>4, ShopAlone
<1>2. ASSUME NEW n \in Next1, session' = [session EXCEPT ![n] = NewSession(None)],
             request' = [request EXCEPT ![r].stage = "handled", ![r].session = n,
                                        ![r].new = TRUE]
      PROVE  VisitorsInv'
  <2>1. n \in Session /\ session[n].status = "unused"
    BY DEF Next1
  <2>2. session' \in [Session -> SessionRow] /\ Onward /\ session'[n].status = "live"
    BY <1>0, <1>2, <2>1 DEF NewSession, SessionRow, Onward
  <2> DEFINE q == [request[r] EXCEPT !.stage = "handled", !.session = n, !.new = TRUE]
  <2>3. q \in Row /\ q.stage = "handled" /\ q.session = n
    BY <1>0, <2>1 DEF Row, RequestRow, Stage
  <2>4. request' = [request EXCEPT ![r] = q]
    BY <1>0, <1>2 DEF VisitorsInv, Typed
  <2> HIDE DEF q
  <2> PICK w \in Row : /\ w.stage = "handled" /\ w.session = n
                       /\ request' = [request EXCEPT ![r] = w]
    BY <2>3, <2>4
  <2>5. RowOK(w)'
    BY <2>1, <2>2 DEF RowOK
  <2>6. request' \in [Request -> Row] /\ RowsOK'
    BY <2>2, <2>5, RowReplaced
  <2> QED
    BY <1>0, <2>2, <2>6, SessionsMove
<1> QED
  BY <1>0, <1>1, <1>2 DEF Dispatch

LEMMA ExpireKeeps ==
    ASSUME VisitorsInv, NEW s \in Session, Expire(s) PROVE VisitorsInv'
<1>1. /\ session \in [Session -> SessionRow] /\ cart \in [Session -> [Product -> Int]]
      /\ session' = [session EXCEPT ![s].expired = TRUE]
      /\ UNCHANGED <<cart, order, browser, request, retired, signedOut>>
  BY DEF VisitorsInv, Typed, Expire, shop, history
<1>2. session' \in [Session -> SessionRow] /\ Onward
  BY <1>1 DEF SessionRow, Onward
<1> QED
  BY <1>1, <1>2, RowsOnward, SessionsMove

LEMMA CleanUpKeeps == ASSUME VisitorsInv, CleanUp PROVE VisitorsInv'
<1> DEFINE gone == {s \in Session : Live(s) /\ session[s].expired}
<1>1. /\ session \in [Session -> SessionRow] /\ cart \in [Session -> [Product -> Int]]
      /\ session' = Deletes(gone)
      /\ cart' = [s \in Session |-> IF s \in gone THEN EmptyCart ELSE cart[s]]
      /\ UNCHANGED <<order, browser, request, retired, signedOut>>
  BY DEF VisitorsInv, Typed, CleanUp, history
<1>2. \A s \in Session : s \in gone => session[s].status = "live"
  BY DEF Live
<1> HIDE DEF gone
<1>3. session' \in [Session -> SessionRow] /\ Onward
  BY <1>1, <1>2 DEF Deletes, SessionRow, Onward
<1>4. cart' \in [Session -> [Product -> Int]]
  BY <1>1 DEF EmptyCart
<1>5. \A s \in retired : cart'[s] = cart[s]
  BY <1>1, <1>2 DEF VisitorsInv, RetiredEmpty
<1> QED
  BY <1>1, <1>3, <1>4, <1>5, RowsOnward, SessionsMove

-----------------------------------------------------------------------------
(* The handlers.                                                           *)

LEMMA AnswerOnlyKeeps ==
    ASSUME VisitorsInv, NEW r \in Request, request[r].stage \in {"handled", "exchanging"},
           AnswerOnly(r),
           UNCHANGED <<session, cart, order, retired, signedOut, browser>>
    PROVE  VisitorsInv'
<1>1. request[r].stage \in Stage /\ request[r].session \in Session
  BY HandledSession
<1>2. Reply(request[r].session)
        \in [cookie : Session \cup {None}, token : {"keep", "clear"},
             user : Account \cup {None}, state : Session \cup {None}]
  BY <1>1, ReplyTyped
<1> QED
  BY <1>1, <1>2, AnswersAlone DEF AnswerOnly

\* The cart of a replaced session takes nothing: it has no row to refer to.
LEMMA CartOfRetired ==
    ASSUME VisitorsInv, NEW r \in Request, request[r].stage = "handled",
           request[r].kind \in {"add", "set", "remove"}
    PROVE  /\ CartAfter(r) \in [Session -> [Product -> Int]]
           /\ \A s \in retired : CartAfter(r)[s] = cart[s]
<1> DEFINE s == request[r].session
           p == request[r].product
           q == request[r].quantity
<1>1. s \in Session /\ request[r] \in RequestRow
  BY HandledSession
<1>2. p \in Product /\ q \in Int
  BY <1>1 DEF RequestRow
<1>3. cart \in [Session -> [Product -> Int]]
  BY DEF VisitorsInv, Typed
<1>4. ASSUME NEW c, c = [cart EXCEPT ![s][p] = cart[s][p] + q] \/ c = [cart EXCEPT ![s][p] = q]
                    \/ c = [cart EXCEPT ![s][p] = 0] \/ c = cart
      PROVE  /\ c \in [Session -> [Product -> Int]]
             /\ \A x \in Session : x # s => c[x] = cart[x]
  <2> HIDE DEF s, p, q
  <2> QED
    BY <1>1, <1>2, <1>3, <1>4
<1>5. \/ CartAfter(r) = [cart EXCEPT ![s][p] = cart[s][p] + q]
      \/ CartAfter(r) = [cart EXCEPT ![s][p] = q]
      \/ CartAfter(r) = [cart EXCEPT ![s][p] = 0]
      \/ CartAfter(r) = cart
  BY DEF CartAfter
<1>6. ASSUME s \in retired PROVE CartAfter(r)[s] = cart[s]
  <2>1. session[s].status = "deleted" /\ cart[s] = EmptyCart
    BY <1>6 DEF VisitorsInv, RetiredEmpty
  <2>2. cart[s][p] = 0
    BY <1>2, <2>1 DEF EmptyCart
  <2>3. ~Live(s)
    BY <2>1 DEF Live
  <2>4. CartAfter(r) \in {cart, [cart EXCEPT ![s][p] = 0]}
    BY <2>2, <2>3 DEF CartAfter, Fails, Settable
  <2>5. [cart EXCEPT ![s][p] = 0][s] = cart[s]
    <3> HIDE DEF s, p
    <3> QED
      BY <1>1, <1>2, <1>3, <2>2
  <2> QED
    BY <2>4, <2>5
<1>7. \A x \in retired : x \in Session
  BY DEF VisitorsInv, RetiredEmpty
<1> HIDE DEF s, p, q
<1> QED
  BY <1>4, <1>5, <1>6, <1>7

LEMMA ChangeCartKeeps ==
    ASSUME VisitorsInv, NEW r \in Request, ChangeCart(r) PROVE VisitorsInv'
<1> DEFINE cookie == IF Fails(r) THEN None ELSE request[r].session
<1>1. /\ request[r].stage = "handled" /\ request[r].kind \in {"add", "set", "remove"}
      /\ cart' = CartAfter(r)
      /\ request' = Answered(r, Reply(cookie))
      /\ UNCHANGED <<session, order, browser, retired, signedOut>>
  BY DEF ChangeCart, Handling, history
<1>2. request[r].stage \in Stage /\ cookie \in Session \cup {None}
  BY <1>1, HandledSession
<1> HIDE DEF cookie
<1>3. Reply(cookie) \in [cookie : Session \cup {None}, token : {"keep", "clear"},
                         user : Account \cup {None}, state : Session \cup {None}]
  BY <1>2, ReplyTyped
<1>4. request' \in [Request -> Row] /\ RowsOK'
  BY <1>1, <1>2, <1>3, Answers, OnwardSame
<1>5. session' \in [Session -> SessionRow]
  BY <1>1 DEF VisitorsInv, Typed
<1> QED
  BY <1>1, <1>4, <1>5, CartOfRetired, OnwardSame, SessionsMove

LEMMA WiderSeq ==
    ASSUME NEW A, NEW B, A \subseteq B, NEW o \in Seq(A) PROVE o \in Seq(B)
  OBVIOUS

\* Nothing is ordered from an empty cart.
LEMMA PlaceOrderKeeps ==
    ASSUME VisitorsInv, NEW r \in Request, PlaceOrder(r) PROVE VisitorsInv'
<1> DEFINE s == request[r].session
<1>1. /\ request[r].stage = "handled" /\ AnswerOnly(r)
      /\ UNCHANGED <<session, browser, retired, signedOut>>
  BY DEF PlaceOrder, Handling, history
<1>2. CASE UNCHANGED <<order, cart>>
  BY <1>1, <1>2, AnswerOnlyKeeps
<1>3. CASE /\ Orderable(s, request[r].body)
           /\ order' = Append(order, OrderFrom(r))
           /\ cart' = [cart EXCEPT ![s] = EmptyCart]
  <2>1. /\ request[r].stage \in Stage /\ s \in Session /\ request[r].browser \in Browser
    BY <1>1, HandledSession
  <2>2. /\ session \in [Session -> SessionRow] /\ cart \in [Session -> [Product -> Int]]
        /\ browser \in [Browser -> BrowserRow]
    BY DEF VisitorsInv, Typed
  <2>3. s \notin retired
    <3>1. ASSUME cart[s] = EmptyCart PROVE FALSE
      BY <1>3, <3>1 DEF Orderable, In, EmptyCart
    <3> QED
      BY <3>1 DEF VisitorsInv, RetiredEmpty
  <2>4. UserOf(s) \in Account \cup {None}
    BY <2>1, <2>2 DEF UserOf, SessionRow
  <2> DEFINE total == OrderTotal(request[r].body, ItemsTotal(cart[s]))
             e == [session |-> s, user |-> UserOf(s), browser |-> request[r].browser,
                   total |-> total]
  <2> PICK T : order \in Seq(OrderRow(T))
    BY DEF VisitorsInv, Typed
  <2>5. order' = Append(order, e)
    BY <1>3 DEF OrderFrom
  <2> HIDE DEF total
  <2>6. e \in OrderRow(T \cup {total}) /\ e.session = s
    BY <2>1, <2>4 DEF OrderRow
  <2>7. OrderRow(T) \subseteq OrderRow(T \cup {total})
    BY DEF OrderRow
  <2> HIDE DEF e
  <2>8. order \in Seq(OrderRow(T \cup {total}))
    BY <2>7, WiderSeq
  <2>9. /\ order' \in Seq(OrderRow(T \cup {total}))
        /\ \A i \in DOMAIN order' : \/ i \in DOMAIN order /\ order'[i] = order[i]
                                    \/ order'[i] = e
    BY <2>5, <2>6, <2>8
  <2>10. cart' \in [Session -> [Product -> Int]]
         /\ \A x \in retired : cart'[x] = cart[x]
    <3>1. EmptyCart \in [Product -> Int]
      BY DEF EmptyCart
    <3>2. \A x \in retired : x \in Session
      BY DEF VisitorsInv, RetiredEmpty
    <3> HIDE DEF s
    <3> QED
      BY <3>1, <3>2, <1>3, <2>2, <2>3
  <2>11. Reply(s) \in [cookie : Session \cup {None}, token : {"keep", "clear"},
                       user : Account \cup {None}, state : Session \cup {None}]
    BY <2>1, ReplyTyped
  <2>12. request' \in [Request -> Row] /\ RowsOK'
    BY <1>1, <2>1, <2>11, Answers, OnwardSame DEF AnswerOnly
  <2>13. Typed'
    BY <1>1, <2>2, <2>9, <2>10, <2>12 DEF Typed
  <2>14. RetiredEmpty'
    <3> SUFFICES ASSUME NEW x \in retired
                 PROVE  /\ x \in Session /\ session'[x].status = "deleted"
                        /\ cart'[x] = EmptyCart
                        /\ \A i \in DOMAIN order' :
                               order'[i].session = x => order'[i].user # None
      BY <1>1 DEF RetiredEmpty
    <3>1. /\ x \in Session /\ session[x].status = "deleted" /\ cart[x] = EmptyCart
          /\ \A i \in DOMAIN order : order[i].session = x => order[i].user # None
      BY DEF VisitorsInv, RetiredEmpty
    <3>2. x # s
      BY <2>3
    <3> QED
      BY <3>1, <3>2, <1>1, <2>6, <2>9, <2>10
  <2>15. SignedOutNobody'
    BY <1>1 DEF VisitorsInv, SignedOutNobody
  <2> QED
    BY <2>12, <2>13, <2>14, <2>15 DEF VisitorsInv
<1> QED
  BY <1>2, <1>3 DEF PlaceOrder

LEMMA SavedKeeps ==
    ASSUME VisitorsInv, NEW r \in Request, SaveProduct(r) \/ UnsaveProduct(r)
    PROVE  VisitorsInv'
<1>1. /\ request[r].stage = "handled" /\ AnswerOnly(r)
      /\ UNCHANGED <<session, cart, order, retired, signedOut, browser>>
  BY DEF SaveProduct, UnsaveProduct, Handling, shop, history
<1> QED
  BY <1>1, AnswerOnlyKeeps

LEMMA LoginKeeps ==
    ASSUME VisitorsInv, NEW r \in Request, Login(r) PROVE VisitorsInv'
<1> DEFINE reply == [Reply(request[r].session) EXCEPT !.state = request[r].session]
<1>1. /\ request[r].stage = "handled" /\ request' = Answered(r, reply)
      /\ UNCHANGED <<session, cart, order, retired, signedOut, browser>>
  BY DEF Login, Handling, shop, history
<1>2. request[r].stage \in Stage /\ request[r].session \in Session
  BY <1>1, HandledSession
<1>3. reply \in [cookie : Session \cup {None}, token : {"keep", "clear"},
                 user : Account \cup {None}, state : Session \cup {None}]
  BY <1>2, ReplyTyped
<1> HIDE DEF reply
<1> QED
  BY <1>1, <1>2, <1>3, AnswersAlone

LEMMA StartCallbackKeeps ==
    ASSUME VisitorsInv, NEW r \in Request, StartCallback(r) PROVE VisitorsInv'
<1>1. /\ request[r].stage = "handled"
      /\ UNCHANGED <<session, cart, order, retired, signedOut, browser>>
  BY DEF StartCallback, Handling, shop, history
<1>2. CASE AnswerOnly(r)
  BY <1>1, <1>2, AnswerOnlyKeeps
<1>3. CASE request' = [request EXCEPT ![r].stage = "exchanging"]
  <2>1. /\ request[r] \in RequestRow /\ request[r].session \in Session
        /\ session[request[r].session].status # "unused"
    BY <1>1, HandledSession
  <2> DEFINE q == [request[r] EXCEPT !.stage = "exchanging"]
  <2>2. /\ q \in Row /\ q.stage = "exchanging" /\ q.session = request[r].session
        /\ request' = [request EXCEPT ![r] = q]
    BY <1>3, <2>1 DEF Row, RequestRow, Stage
  <2> HIDE DEF q
  <2> PICK w \in Row : /\ w.stage = "exchanging" /\ w.session = request[r].session
                       /\ request' = [request EXCEPT ![r] = w]
    BY <2>2
  <2>3. RowOK(w)'
    BY <2>1, <1>1 DEF RowOK
  <2>4. request' \in [Request -> Row] /\ RowsOK'
    BY <2>3, <1>1, RowReplaced, OnwardSame
  <2>5. browser' \in [Browser -> BrowserRow]
    BY <1>1 DEF VisitorsInv, Typed
  <2> QED
    BY <1>1, <2>4, <2>5, ShopAlone
<1> QED
  BY <1>2, <1>3 DEF StartCallback

LEMMA RefusedKeeps ==
    ASSUME VisitorsInv, NEW r \in Request, GoogleRefuses(r) PROVE VisitorsInv'
<1>1. /\ request[r].stage = "exchanging" /\ AnswerOnly(r)
      /\ UNCHANGED <<session, cart, order, retired, signedOut, browser>>
  BY DEF GoogleRefuses, shop, history
<1> QED
  BY <1>1, AnswerOnlyKeeps

\* The callback deletes the session, empties its cart and takes its orders.
LEMMA CallbackKeeps ==
    ASSUME VisitorsInv, VisitorsAssumption, NEW r \in Request, NEW a \in Account,
           FinishCallback(r, a)
    PROVE  VisitorsInv'
<1> DEFINE s == request[r].session
<1> PICK n \in Next1 :
        /\ session' = Rotated(s, n, a)
        /\ cart' = MovedCart(s, n)
        /\ request' = Answered(r, [cookie |-> n, token |-> "set", user |-> a, state |-> None])
  BY DEF FinishCallback
<1>1. /\ request[r].stage = "exchanging"
      /\ order' = Backfilled(s, a)
      /\ retired' = retired \cup {s}
      /\ UNCHANGED <<browser, signedOut>>
  BY DEF FinishCallback
<1>2. /\ request[r].stage \in Stage /\ s \in Session /\ session[s].status # "unused"
  BY <1>1, HandledSession
<1>3. n \in Session /\ session[n].status = "unused" /\ n # s
  BY <1>2 DEF Next1
<1>4. /\ session \in [Session -> SessionRow] /\ cart \in [Session -> [Product -> Int]]
      /\ browser \in [Browser -> BrowserRow]
      /\ None \notin Account /\ None \notin Session
  BY DEF VisitorsInv, Typed, VisitorsAssumption
<1> HIDE DEF s
<1>5. Live(s) \/ session[s].status = "deleted"
  BY <1>2, <1>4 DEF Live, SessionRow
<1>6. /\ session' \in [Session -> SessionRow] /\ Onward
      /\ session'[n].status = "live" /\ session'[s].status = "deleted"
  BY <1>2, <1>3, <1>4, <1>5 DEF Rotated, NewSession, SessionRow, Onward
<1>7. /\ cart' \in [Session -> [Product -> Int]]
      /\ cart'[s] = EmptyCart
      /\ \A x \in Session : x # s /\ x # n => cart'[x] = cart[x]
  BY <1>2, <1>3, <1>4 DEF MovedCart, EmptyCart
<1>8. request' \in [Request -> Row] /\ RowsOK'
  <2> DEFINE reply == [cookie |-> n, token |-> "set", user |-> a, state |-> None]
  <2>1. reply \in [cookie : Session \cup {None}, token : {"keep", "set", "clear"},
                   user : Account \cup {None}, state : Session \cup {None}]
    BY <1>3
  <2>2. reply.cookie \in Session /\ reply.user \in Account
    BY <1>3
  <2> HIDE DEF reply
  <2> PICK q \in Row : /\ request' = [request EXCEPT ![r] = q]
                       /\ q.stage = "answered" /\ q.reply = reply
    BY <1>2, <2>1, ReplyRow DEF reply
  <2>3. RowOK(q)'
    BY <2>2 DEF RowOK
  <2> QED
    BY <1>6, <2>3, RowReplaced
<1>9. PICK T : order \in Seq(OrderRow(T))
  BY DEF VisitorsInv, Typed
<1>10. /\ order' \in Seq(OrderRow(T)) /\ DOMAIN order' = DOMAIN order
       /\ \A i \in DOMAIN order :
              /\ order'[i].session = order[i].session
              /\ order[i].user # None => order'[i].user # None
              /\ order[i].session = s => order'[i].user # None
  <2>1. \A i \in DOMAIN order :
           order[i] \in OrderRow(T) /\ [order[i] EXCEPT !.user = a] \in OrderRow(T)
    <3>1. ASSUME NEW o \in OrderRow(T) PROVE [o EXCEPT !.user = a] \in OrderRow(T)
      BY <3>1 DEF OrderRow
    <3>2. \A i \in DOMAIN order : order[i] \in OrderRow(T)
      BY <1>9
    <3> QED
      BY <3>1, <3>2
  <2>2. order' = [i \in 1..Len(order) |->
                     IF order[i].session = s /\ order[i].user = None
                     THEN [order[i] EXCEPT !.user = a] ELSE order[i]]
    BY <1>1, <1>9 DEF Backfilled, s
  <2>3. order' \in [1..Len(order) -> OrderRow(T)] /\ Len(order) \in Nat
        /\ DOMAIN order = 1..Len(order)
    BY <1>9, <2>1, <2>2
  <2>4. order' \in Seq(OrderRow(T)) /\ DOMAIN order' = DOMAIN order
    BY <2>3
  <2>5. ASSUME NEW i \in DOMAIN order
        PROVE  /\ order'[i].session = order[i].session
               /\ order[i].user # None => order'[i].user # None
               /\ order[i].session = s => order'[i].user # None
    <3>1. order'[i] = IF order[i].session = s /\ order[i].user = None
                      THEN [order[i] EXCEPT !.user = a] ELSE order[i]
      BY <2>2, <2>3
    <3>2. /\ [order[i] EXCEPT !.user = a].session = order[i].session
          /\ [order[i] EXCEPT !.user = a].user = a
      BY <2>1 DEF OrderRow
    <3> QED
      BY <3>1, <3>2, <1>4
  <2> QED
    BY <2>4, <2>5
<1>11. Typed'
  BY <1>1, <1>4, <1>6, <1>7, <1>8, <1>10 DEF Typed
<1>12. RetiredEmpty'
  <2> SUFFICES ASSUME NEW x \in retired \cup {s}
               PROVE  /\ x \in Session /\ session'[x].status = "deleted"
                      /\ cart'[x] = EmptyCart
                      /\ \A i \in DOMAIN order' :
                             order'[i].session = x => order'[i].user # None
    BY <1>1 DEF RetiredEmpty, s
  <2>1. CASE x = s
    BY <2>1, <1>2, <1>6, <1>7, <1>10
  <2>2. CASE x \in retired /\ x # s
    <3>1. /\ x \in Session /\ session[x].status = "deleted" /\ cart[x] = EmptyCart
          /\ \A i \in DOMAIN order : order[i].session = x => order[i].user # None
      BY <2>2 DEF VisitorsInv, RetiredEmpty
    <3>2. x # n
      BY <3>1, <1>3
    <3> QED
      BY <2>2, <3>1, <3>2, <1>6, <1>7, <1>10 DEF Onward
  <2> QED
    BY <2>1, <2>2
<1>13. SignedOutNobody'
  BY <1>1, <1>6 DEF VisitorsInv, SignedOutNobody, Onward
<1> QED
  BY <1>8, <1>11, <1>12, <1>13 DEF VisitorsInv

LEMMA LogoutKeeps ==
    ASSUME VisitorsInv, VisitorsAssumption, NEW r \in Request, Logout(r)
    PROVE  VisitorsInv'
<1> DEFINE s == request[r].session
<1>1. request[r].stage = "handled" /\ UNCHANGED <<cart, order, browser, retired>>
  BY DEF Logout, Handling, shop
<1>2. /\ request[r].stage \in Stage /\ s \in Session /\ session[s].status # "unused"
  BY <1>1, HandledSession
<1>3. /\ session \in [Session -> SessionRow] /\ cart \in [Session -> [Product -> Int]]
      /\ browser \in [Browser -> BrowserRow]
  BY DEF VisitorsInv, Typed
<1>4. CASE /\ request' = Answered(r, [Reply(s) EXCEPT !.token = "clear"])
           /\ UNCHANGED <<session, signedOut>>
  <2>1. [Reply(s) EXCEPT !.token = "clear"]
           \in [cookie : Session \cup {None}, token : {"keep", "clear"},
                user : Account \cup {None}, state : Session \cup {None}]
    BY <1>2, ReplyTyped
  <2> QED
    BY <1>1, <1>2, <1>4, <2>1, AnswersAlone
<1>5. ASSUME NEW n \in Next1,
             session' = [session EXCEPT ![s].user = None, ![n] = NewSession(None)],
             request' = Answered(r, [Reply(n) EXCEPT !.token = "clear"]),
             signedOut' = signedOut \cup {s}
      PROVE  VisitorsInv'
  <2>1. n \in Session /\ session[n].status = "unused" /\ n # s
    BY <1>2 DEF Next1
  <2>2. [Reply(n) EXCEPT !.token = "clear"]
           \in [cookie : Session \cup {None}, token : {"keep", "clear"},
                user : Account \cup {None}, state : Session \cup {None}]
    BY <2>1, ReplyTyped
  <2> HIDE DEF s
  <2>3. /\ session' \in [Session -> SessionRow]
        /\ session'[s].user = None /\ session'[s].status = session[s].status
        /\ session'[n] = NewSession(None)
        /\ \A x \in Session : x # s /\ x # n => session'[x] = session[x]
    BY <1>2, <1>3, <1>5, <2>1 DEF NewSession, SessionRow
  <2>4. Onward
    BY <1>2, <2>1, <2>3 DEF Onward
  <2>5. request' \in [Request -> Row] /\ RowsOK'
    BY <1>2, <1>5, <2>2, <2>4, Answers
  <2>6. Typed'
    BY <1>1, <1>3, <2>3, <2>5 DEF VisitorsInv, Typed
  <2>7. RetiredEmpty'
    BY <1>1, <2>4 DEF VisitorsInv, RetiredEmpty, Onward
  <2>8. SignedOutNobody'
    BY <1>2, <1>5, <2>3, <2>4 DEF VisitorsInv, SignedOutNobody, Onward
  <2> QED
    BY <2>5, <2>6, <2>7, <2>8 DEF VisitorsInv
<1> QED
  BY <1>4, <1>5 DEF Logout

-----------------------------------------------------------------------------
LEMMA NextInv ==
    ASSUME VisitorsInv, VisitorsAssumption, [VisitorsNext]_vars PROVE VisitorsInv'
<1>1. ASSUME NEW b \in Browser, NEW r \in Request, NEW k \in Kind, NEW p \in Product,
             NEW q \in 0..MaxQuantity, NEW body \in Body, Send(b, r, k, p, q, body)
      PROVE  VisitorsInv'
  BY <1>1, SendKeeps
<1>2. ASSUME NEW r \in Request, Dispatch(r) \/ Deliver(r) \/ Lose(r) PROVE VisitorsInv'
  BY <1>2, DispatchKeeps, DeliverKeeps, LoseKeeps
<1>3. ASSUME NEW r \in Request, Handle(r) PROVE VisitorsInv'
  BY <1>3, ChangeCartKeeps, PlaceOrderKeeps, SavedKeeps, LoginKeeps, StartCallbackKeeps,
     RefusedKeeps, CallbackKeeps, LogoutKeeps DEF Handle
<1>4. ASSUME NEW s \in Session, Expire(s) PROVE VisitorsInv'
  BY <1>4, ExpireKeeps
<1>5. CASE CleanUp
  BY <1>5, CleanUpKeeps
<1>6. ASSUME NEW p \in Product, ToggleProduct(p) PROVE VisitorsInv'
  <2>1. UNCHANGED <<session, cart, order, retired, signedOut, browser, request>>
    BY <1>6 DEF ToggleProduct, history
  <2> QED
    BY <2>1, OnwardSame, RowsOnward, ShopAlone DEF VisitorsInv, Typed
<1>7. CASE UNCHANGED vars
  <2>1. UNCHANGED <<session, cart, order, retired, signedOut, browser, request>>
    BY <1>7 DEF vars, shop, history
  <2> QED
    BY <2>1, OnwardSame, RowsOnward, ShopAlone DEF VisitorsInv, Typed
<1> QED
  BY <1>1, <1>2, <1>3, <1>4, <1>5, <1>6, <1>7 DEF VisitorsNext

\* Whatever is under way in a session that a sign-in replaced
\* (rotate_session_in_transaction), nothing is put into its cart and no order
\* is placed in it that the account does not have.
THEOREM NothingIsLeft ==
    ASSUME VisitorsAssumption PROVE Spec => []NothingLeftBehind
<1>1. Init => VisitorsInv
  BY InitInv
<1>2. VisitorsInv /\ [VisitorsNext]_vars => VisitorsInv'
  BY NextInv
<1>3. VisitorsInv => NothingLeftBehind
  BY DEF VisitorsInv, RetiredEmpty, NothingLeftBehind
<1> QED
  BY <1>1, <1>2, <1>3, PTL DEF Spec

\* A session that was signed out is nobody's for ever, whatever callback, late
\* answer or clean-up is under way: no token of it is accepted again
\* (get_current_user).
THEOREM SignOutFinal ==
    ASSUME VisitorsAssumption PROVE Spec => []SignOutIsFinal
<1>1. Init => VisitorsInv
  BY InitInv
<1>2. VisitorsInv /\ [VisitorsNext]_vars => VisitorsInv'
  BY NextInv
<1>3. VisitorsInv => SignOutIsFinal
  BY DEF VisitorsInv, SignedOutNobody, SignOutIsFinal, UserOf
<1> QED
  BY <1>1, <1>2, <1>3, PTL DEF Spec
=============================================================================
