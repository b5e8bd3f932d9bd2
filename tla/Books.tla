------------------------------- MODULE Books -------------------------------
(***************************************************************************)
(* What the accountant's periods are computed from: the accounting         *)
(* settings, the orders with their payment evidence, settlements, refunds  *)
(* and documents, Stripe's balance transactions, expenses, product costs   *)
(* and the state of the inventory (app/services/accounting_config_service, *)
(* accounting_document_service, stripe_reconciliation_service,             *)
(* expense_product_cost_service, the settlement part of return_service and *)
(* the inventory settings).  Finance extends it with the periods.          *)
(*                                                                         *)
(* Every operation is one short transaction over its own rows and one      *)
(* action.  An order has one item and at most one refund, of its whole     *)
(* price; amounts agree or they do not.  Text, addresses, tax rates and    *)
(* the audit rows every operation adds are left out.                       *)
(***************************************************************************)
EXTENDS Integers, Sequences, FiniteSetsExt

CONSTANTS
    Order,      \* orders
    Txn,        \* balance transactions of Stripe, one per captured payment
    TxnOrder,   \* whose payment it is
    Expense,    \* rows of expense_evidence
    Day,        \* calendar days
    MaxEvents   \* bound: changes to the books

ASSUME BooksAssumption ==
    /\ Day \subseteq Nat /\ Day /= {}
    /\ TxnOrder \in [Txn -> Order]
    /\ MaxEvents \in Nat

VARIABLES
    config,     \* the latest version of each table of settings
    orders,     \* orders, as far as accounting reads them
    evidence,   \* orders with a row in payments
    settled,    \* cod_settlements
    refunded,   \* the day a succeeded refund was confirmed
    documents,  \* accounting_documents that are neither void nor missing
    txns,       \* stripe_balance_transactions
    expenses,   \* expense_evidence
    costs,      \* effective dates of product_cost_versions not archived
    inventory,  \* inventory_settings, open inventory_exceptions, cogs_ledger
    events      \* bound: how many changes there were

bookVars == <<config, orders, evidence, settled, refunded, documents, txns,
              expenses, costs, inventory, events>>

Absent == "absent"
NotPlaced == [status |-> Absent]
NoDay == -1
NoTxn == [status |-> Absent]
NoPeriod == "no period"

Method == {"card", "bank_transfer", "cod"}
Match == {"matched", "unmatched", "mismatch", "duplicate", "ignored"}

\* seller_legal_profile_versions and vat_fiscal_settings_versions, reduced to
\* the version that is latest by date and to whether one was ever reviewed.
Version == [latest : {Absent, "unreviewed", "reviewed"}, ever : BOOLEAN]
ExpenseRow == [day : Day, documented : BOOLEAN]
TxnRow == [status : Match, day : Day, agrees : BOOLEAN, manual : BOOLEAN]
DocumentRow == [order : Order, kind : {"order", "refund"}]

BooksTypeOK ==
    /\ config.seller \in Version /\ config.vat \in Version
    /\ config.documented \subseteq Method
    /\ config.expense \in {"off", "warn", "block"}
    /\ config.cost \in {"off", "warning", "blocking"}
    /\ \A o \in Order :
          \/ orders[o] = NotPlaced
          \/ /\ orders[o].day \in Day /\ orders[o].method \in Method
             /\ orders[o].status \in {"placed", "delivered", "cancelled"}
             /\ {orders[o].paid, orders[o].ready} \subseteq BOOLEAN
    /\ evidence \subseteq Order
    /\ settled \in [Order -> {Absent, "agrees", "mismatch"}]
    /\ refunded \in [Order -> Day \cup {NoDay}]
    /\ documents \subseteq DocumentRow
    /\ \A t \in Txn : txns[t] = NoTxn \/ txns[t] \in TxnRow
    /\ \A e \in Expense : expenses[e] = NoTxn \/ expenses[e] \in ExpenseRow
    /\ costs \subseteq Day
    /\ {inventory.valued, inventory.reviewed} \subseteq BOOLEAN
    /\ inventory.issues \subseteq Order /\ inventory.cogs \subseteq Order

Placed(d, method, ready) ==
    [day |-> d, method |-> method, status |-> "placed", paid |-> FALSE,
     ready |-> ready, period |-> NoPeriod]

\* Before or after the accountant has set the shop up, when some orders may
\* have come in already.
BooksInit ==
    /\ \E v \in {[latest |-> Absent, ever |-> FALSE], [latest |-> "reviewed", ever |-> TRUE]} :
          /\ config = [seller |-> v, vat |-> v, documented |-> {}, expense |-> "off",
                       cost |-> "off"]
          /\ \E early \in {{}, Order}, method \in Method :
                orders = [o \in Order |-> IF o \in early THEN Placed(Min(Day), method, v.ever)
                                          ELSE NotPlaced]
    /\ evidence = {}
    /\ settled = [o \in Order |-> Absent]
    /\ refunded = [o \in Order |-> NoDay]
    /\ documents = {}
    /\ txns = [t \in Txn |-> NoTxn]
    /\ expenses = [e \in Expense |-> NoTxn]
    /\ costs = {}
    /\ inventory = [valued |-> FALSE, reviewed |-> FALSE, issues |-> {}, cogs |-> {}]
    /\ events = 0

Event == events < MaxEvents /\ events' = events + 1

(***************************************************************************)
(* Settings.                                                               *)
(***************************************************************************)

\* A version that is dated before the latest one only counts for 'ever'.
Versioned(v, reviewed, newest) ==
    [latest |-> IF ~newest THEN v.latest ELSE IF reviewed THEN "reviewed" ELSE "unreviewed",
     ever |-> v.ever \/ reviewed]

configOnly == UNCHANGED <<orders, evidence, settled, refunded, documents, txns,
                          expenses, costs, inventory>>

CreateSellerProfile(reviewed, newest) ==
    /\ Event
    /\ newest \/ config.seller.latest /= Absent
    /\ config' = [config EXCEPT !.seller = Versioned(@, reviewed, newest)]
    /\ configOnly

CreateVatSettings(reviewed, newest, documented) ==
    /\ Event
    /\ newest \/ config.vat.latest /= Absent
    /\ config' = [config EXCEPT !.vat = Versioned(@, reviewed, newest),
                                !.documented = IF newest THEN documented ELSE @]
    /\ configOnly

UpdateExpenseSettings(behavior) ==
    /\ Event
    /\ config' = [config EXCEPT !.expense = behavior]
    /\ configOnly

UpdateCostSettings(policy) ==
    /\ Event
    /\ config' = [config EXCEPT !.cost = policy]
    /\ configOnly

UpdateInventorySettings(valued, reviewed) ==
    /\ Event
    /\ inventory' = [inventory EXCEPT !.valued = valued, !.reviewed = reviewed]
    /\ UNCHANGED <<config, orders, evidence, settled, refunded, documents, txns,
                   expenses, costs>>

(***************************************************************************)
(* Orders, as the other services leave them.                               *)
(***************************************************************************)

ordersOnly == UNCHANGED <<config, settled, documents, txns, expenses, costs, inventory>>

\* checkout: an order is ready for the books when both settings had been
\* reviewed before, and nothing sets it ready later.
ReadyAtCheckout == config.seller.ever /\ config.vat.ever

PlaceOrder(o, d, method) ==
    /\ Event
    /\ orders[o] = NotPlaced
    /\ orders' = [orders EXCEPT ![o] = Placed(d, method, ReadyAtCheckout)]
    /\ UNCHANGED <<evidence, refunded>> /\ ordersOnly

\* A card payment leaves a row in payments, a payment marked by hand does not.
PayOrder(o) ==
    /\ Event
    /\ orders[o] /= NotPlaced
    /\ orders[o].status = "placed"
    /\ orders[o].method /= "cod" /\ ~orders[o].paid
    /\ orders' = [orders EXCEPT ![o].paid = TRUE]
    /\ evidence' = IF orders[o].method = "card" THEN evidence \cup {o} ELSE evidence
    /\ UNCHANGED refunded /\ ordersOnly

CloseOrder(o, status) ==
    /\ Event
    /\ orders[o] /= NotPlaced
    /\ orders[o].status = "placed"
    /\ orders' = [orders EXCEPT ![o].status = status,
                                ![o].paid = @ \/ (status = "delivered" /\ orders[o].method = "cod")]
    /\ UNCHANGED <<evidence, refunded>> /\ ordersOnly

RefundOrder(o, d) ==
    /\ Event
    /\ orders[o] /= NotPlaced
    /\ orders[o].paid /\ refunded[o] = NoDay /\ d >= orders[o].day
    /\ refunded' = [refunded EXCEPT ![o] = d]
    /\ UNCHANGED <<orders, evidence>> /\ ordersOnly

\* record_cod_settlement records or replaces.
SettleCod(o, agrees) ==
    /\ Event
    /\ orders[o] /= NotPlaced
    /\ orders[o].method = "cod" /\ orders[o].status = "delivered"
    /\ settled' = [settled EXCEPT ![o] = IF agrees THEN "agrees" ELSE "mismatch"]
    /\ UNCHANGED <<config, orders, evidence, refunded, documents, txns, expenses,
                   costs, inventory>>

(***************************************************************************)
(* Documents.                                                              *)
(***************************************************************************)

documentsOnly == UNCHANGED <<config, orders, evidence, settled, refunded, txns,
                             expenses, costs, inventory>>

CreateDocument(o, kind) ==
    /\ Event
    /\ orders[o] /= NotPlaced
    /\ kind = "refund" => refunded[o] /= NoDay
    /\ documents' = documents \cup {[order |-> o, kind |-> kind]}
    /\ documentsOnly

\* update_document to status void or missing.
VoidDocument(o, kind) ==
    /\ Event
    /\ [order |-> o, kind |-> kind] \in documents
    /\ documents' = documents \ {[order |-> o, kind |-> kind]}
    /\ documentsOnly

(***************************************************************************)
(* Stripe's balance transactions.                                          *)
(***************************************************************************)

\* _reconcile_row: duplicates and ignored rows are left alone, every other
\* row is matched again, one that an admin has matched by hand included.
Reconciled(row, hasLocal) ==
    IF row.status \in {"duplicate", "ignored"} THEN row
    ELSE [row EXCEPT !.status = IF ~hasLocal THEN "unmatched"
                                ELSE IF row.agrees THEN "matched" ELSE "mismatch",
                     !.manual = FALSE]

txnsOnly == UNCHANGED <<config, orders, evidence, settled, refunded, documents,
                        expenses, costs, inventory>>

\* import_balance_rows (also of a CSV and of a sync): one row, maybe twice in
\* one import, known from before or not.
ImportTxn(t, d, agrees, twice) ==
    LET old == IF txns[t] = NoTxn THEN "unmatched" ELSE txns[t].status
        row == [status |-> IF twice THEN "duplicate" ELSE old, day |-> d,
                agrees |-> agrees,
                manual |-> txns[t] /= NoTxn /\ ~twice /\ txns[t].manual]
    IN  /\ Event
        /\ txns[t] /= NoTxn => txns[t].day = d
        /\ txns' = [txns EXCEPT ![t] = Reconciled(row, TxnOrder[t] \in evidence)]
        /\ txnsOnly

ReviewMatch(t, status) ==
    /\ Event
    /\ txns[t] /= NoTxn
    /\ txns' = [txns EXCEPT ![t].status = status, ![t].manual = TRUE]
    /\ txnsOnly

(***************************************************************************)
(* Expenses, product costs and the inventory.                              *)
(***************************************************************************)

CreateExpense(e, d, documented) ==
    /\ Event
    /\ expenses[e] = NoTxn
    /\ expenses' = [expenses EXCEPT ![e] = [day |-> d, documented |-> documented]]
    /\ UNCHANGED <<config, orders, evidence, settled, refunded, documents, txns,
                   costs, inventory>>

UpdateExpense(e, documented) ==
    /\ Event
    /\ expenses[e] /= NoTxn
    /\ expenses' = [expenses EXCEPT ![e].documented = documented]
    /\ UNCHANGED <<config, orders, evidence, settled, refunded, documents, txns,
                   costs, inventory>>

CreateProductCost(d) ==
    /\ Event
    /\ costs' = costs \cup {d}
    /\ UNCHANGED <<config, orders, evidence, settled, refunded, documents, txns,
                   expenses, inventory>>

\* update_product_cost that archives a version.
UpdateProductCost(d) ==
    /\ Event
    /\ d \in costs
    /\ costs' = costs \ {d}
    /\ UNCHANGED <<config, orders, evidence, settled, refunded, documents, txns,
                   expenses, inventory>>

\* generate_cogs_rows for an order: a row, or an exception, which no code
\* ever resolves.
BookCogs(o, valued) ==
    /\ Event
    /\ orders[o] /= NotPlaced
    /\ o \notin inventory.cogs
    /\ inventory' = IF valued THEN [inventory EXCEPT !.cogs = @ \cup {o}]
                    ELSE [inventory EXCEPT !.issues = @ \cup {o}]
    /\ UNCHANGED <<config, orders, evidence, settled, refunded, documents, txns,
                   expenses, costs>>

SettingsNext ==
    \/ \E r, n \in BOOLEAN :
          \/ CreateSellerProfile(r, n)
          \/ \E ms \in {{}, {"cod"}} : CreateVatSettings(r, n, ms)
          \/ UpdateInventorySettings(n, r)
    \/ \E b \in {"off", "warn", "block"} : UpdateExpenseSettings(b)
    \/ \E p \in {"off", "warning", "blocking"} : UpdateCostSettings(p)

SalesNext ==
    \E o \in Order :
        \/ \E d \in Day :
              \/ \E method \in Method : PlaceOrder(o, d, method)
              \/ RefundOrder(o, d)
        \/ PayOrder(o)
        \/ \E s \in {"delivered", "cancelled"} : CloseOrder(o, s)
        \/ \E agrees \in BOOLEAN : SettleCod(o, agrees) \/ BookCogs(o, agrees)
        \/ \E k \in {"order", "refund"} : CreateDocument(o, k) \/ VoidDocument(o, k)

RecordsNext ==
    \/ \E t \in Txn :
          \/ \E d \in Day, a, twice \in BOOLEAN : ImportTxn(t, d, a, twice)
          \/ \E s \in Match : ReviewMatch(t, s)
    \/ \E e \in Expense, b \in BOOLEAN :
          (\E d \in Day : CreateExpense(e, d, b)) \/ UpdateExpense(e, b)
    \/ \E d \in Day : CreateProductCost(d) \/ UpdateProductCost(d)

BooksNext == SettingsNext \/ SalesNext \/ RecordsNext

(***************************************************************************)
(* _collect_exception_specs: what stands in the way of a period's books.   *)
(***************************************************************************)

Spec1(type, severity, targets) ==
    {[type |-> type, severity |-> severity, target |-> x] : x \in targets}

\* _period_order_clause
InPeriod(o, days) == /\ orders[o] /= NotPlaced
                     /\ orders[o].day \in days
                     /\ orders[o].status /= "cancelled"
OrdersIn(days) == {o \in Order : InPeriod(o, days)}

VersionSpecs(table, v) ==
    CASE v.latest = Absent -> Spec1("missing", "blocking", {table})
      [] v.latest = "unreviewed" -> Spec1("unreviewed", "blocking", {table})
      [] OTHER -> {}

SettingsSpecs == VersionSpecs("seller", config.seller) \cup VersionSpecs("vat", config.vat)

ReadinessSpecs(os) ==
    Spec1("order_accounting_review_required", "blocking", {o \in os : ~orders[o].ready})

DocumentSpecs(os) ==
    Spec1("missing_document_reference", "blocking",
          {o \in os : /\ orders[o].method \in config.documented
                      /\ \A d \in documents : d.order /= o})

PaymentSpecs(os) ==
    Spec1("payment_evidence_missing", "blocking",
          {o \in os : /\ orders[o].method \in {"card", "bank_transfer"}
                      /\ orders[o].paid /\ o \notin evidence})

CodSpecs(os) ==
    LET cod == {o \in os : orders[o].method = "cod"}
    IN  Spec1("cod_settlement_missing", "blocking",
              {o \in cod : orders[o].status = "delivered" /\ settled[o] = Absent})
        \cup Spec1("cod_settlement_mismatch", "blocking", {o \in cod : settled[o] = "mismatch"})

StripeSpecs(days) ==
    LET rows(status) == {t \in Txn : txns[t].status = status /\ txns[t].day \in days}
    IN  Spec1("stripe_payout_unmatched", "warning", rows("unmatched"))
        \cup Spec1("stripe_payout_mismatch", "blocking", rows("mismatch"))
        \cup Spec1("stripe_payout_duplicate", "blocking", rows("duplicate"))

RefundSpecs(os) ==
    Spec1("refund_document_missing", "blocking",
          {o \in os : refunded[o] /= NoDay /\ [order |-> o, kind |-> "refund"] \notin documents})

ExpenseSpecs(days) ==
    IF config.expense = "off" THEN {}
    ELSE Spec1("expense_document_missing",
               IF config.expense = "block" THEN "blocking" ELSE "warning",
               {e \in Expense : expenses[e] /= NoTxn /\ expenses[e].day \in days
                                /\ ~expenses[e].documented})

CostSpecs(os) ==
    IF config.cost = "off" THEN {}
    ELSE Spec1("missing_product_cost", config.cost,
               {o \in os : \A d \in costs : d > orders[o].day})

InventorySpecs(os) ==
    IF ~inventory.valued THEN {}
    ELSE Spec1("inventory_exception", "blocking", os \cap inventory.issues)
         \cup (IF inventory.reviewed
               THEN Spec1("inventory_cogs_missing", "blocking", os \ inventory.cogs)
               ELSE Spec1("inventory_settings_unreviewed", "blocking", {"inventory"}))

CollectSpecs(days) ==
    LET os == OrdersIn(days)
    IN  UNION {SettingsSpecs, ReadinessSpecs(os), DocumentSpecs(os), PaymentSpecs(os),
               CodSpecs(os), StripeSpecs(days), RefundSpecs(os), ExpenseSpecs(days),
               CostSpecs(os), InventorySpecs(os)}

(***************************************************************************)
(* Properties.                                                             *)
(***************************************************************************)

\* What an admin decided on a Stripe row by hand survives a later import of
\* the row (an import that names it twice makes it a duplicate).  The code
\* keeps this of ignored rows and duplicates only.
ReviewSticks ==
    [][\A t \in Txn : txns[t] /= NoTxn /\ txns[t].manual /\ ~txns'[t].manual
                      => txns'[t].status = "duplicate"]_bookVars
=============================================================================
