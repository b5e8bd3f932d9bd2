-------------------------------- MODULE Shop --------------------------------
(***************************************************************************)
(* The catalogue: products and their taxonomy (product_service.py,         *)
(* taxonomy_service.py), discounts (pricing.py) and promotion campaigns    *)
(* (promotion_service.py).                                                 *)
(*                                                                         *)
(* Every request is one transaction without a lock: what it reads and      *)
(* checks (Start...) and what it writes (Finish...) are two steps. One     *)
(* process serves admin requests one at a time on its event loop, with     *)
(* checkouts in threads beside it (one Request); several processes would   *)
(* interleave them (several).                                              *)
(*                                                                         *)
(* Texts, weights and the media are left out (Media has the latter), and   *)
(* an update changes one of its independent parts: a term, the labels, the *)
(* discount, the stock or the visibility. An import may give all of these  *)
(* but the discount; it is modelled with the terms, as it writes stock and *)
(* visibility under the conditions of an update.                           *)
(***************************************************************************)
EXTENDS Integers, FiniteSets

CONSTANTS
    Product, Type, Category, Label,  \* ids and slugs that may exist
    Campaign,    \* ids of promotion_campaigns
    Request,     \* admin requests being served at the same time
    Percent,     \* discounts in percent
    Starts, Ends, \* dates a discount may start or end at
    Ledger,      \* products whose stock the inventory ledger manages
    MaxStock,    \* bound: units of a product
    MaxChanges   \* bound: requests that are served

NoDate == 0
NoPercent == 0
Nobody == "nobody"

ASSUME ShopAssumption ==
    /\ Percent \subseteq 1..99
    /\ Starts \subseteq Nat \ {NoDate} /\ Ends \subseteq Nat \ {NoDate}
    /\ Ledger \subseteq Product
    /\ Nobody \notin Campaign
    /\ MaxStock \in Nat /\ MaxChanges \in Nat

VARIABLES
    term,      \* product_types, product_categories and product_labels
    product,   \* products, with product_label_assignments
    campaign,  \* promotion_campaigns, with promotion_campaign_products
    request,   \* requests between their reads and their writes
    changes    \* requests served

vars == <<term, product, campaign, request, changes>>

Term == Type \cup Category \cup Label
Nothing == [there |-> FALSE]
Idle == [op |-> "idle"]

Discount == [percent : {NoPercent} \cup Percent,
             starts : {NoDate} \cup Starts, ends : {NoDate} \cup Ends]
NoDiscount == [percent |-> NoPercent, starts |-> NoDate, ends |-> NoDate]

\* by: the campaign that last wrote the discount (a history variable).
ProductRow == [there : {TRUE}, type : Type, category : SUBSET Category,
               labels : SUBSET Label, active : BOOLEAN, stock : 0..MaxStock,
               discount : Discount, by : Campaign \cup {Nobody}]

\* A campaign names its products, or filters for the active ones (no ids).
\* filtered: it once wrote what a filter gave (a history variable).
CampaignRow == [there : {TRUE}, discount : Discount, ids : SUBSET Product, applied : BOOLEAN,
                removed : BOOLEAN, filtered : BOOLEAN,
                written : [Product -> Discount \cup {Nothing}]]

ShopTypeOK ==
    /\ term \in [Term -> {"none", "active", "inactive"}]
    /\ product \in [Product -> ProductRow \cup {Nothing}]
    /\ campaign \in [Campaign -> CampaignRow \cup {Nothing}]
    /\ changes \in 0..MaxChanges

\* A shop that has been set up: every term is in use or could be.
Init ==
    /\ term = [t \in Term |-> "active"]
    /\ \E t \in Type :
           product = [p \in Product |->
               [there |-> TRUE, type |-> t, category |-> {}, labels |-> {}, active |-> TRUE,
                stock |-> MaxStock, discount |-> NoDiscount, by |-> Nobody]]
    /\ campaign = [c \in Campaign |-> Nothing]
    /\ request = [r \in Request |-> Idle]
    /\ changes = 0

Free(r) == request[r] = Idle /\ changes < MaxChanges
Ask(r, what) ==
    /\ Free(r)
    /\ request' = [request EXCEPT ![r] = what]
    /\ changes' = changes + 1
    /\ UNCHANGED <<term, product, campaign>>
Done(r) == request' = [request EXCEPT ![r] = Idle]
There(p) == product[p] /= Nothing

(***************************************************************************)
(* Pricing.                                                                *)
(***************************************************************************)
DiscountIsActive(d, t) ==
    /\ d.percent /= NoPercent
    /\ d.starts /= NoDate => t >= d.starts
    /\ d.ends /= NoDate => t <= d.ends

EffectivePrice(price, percent, active) ==
    IF active
    THEN LET rounded == (price * (100 - percent) + 50) \div 100
         IN  IF rounded < 1 THEN 1 ELSE rounded
    ELSE price

\* _validate_merged_discount
WellFormed(d) ==
    /\ d.percent = NoPercent => d = NoDiscount
    /\ d.starts /= NoDate /\ d.ends /= NoDate => d.starts < d.ends

\* What CampaignCreate and BulkDiscountRequest let through.
Offer == {d \in Discount : d.percent /= NoPercent /\ WellFormed(d)}

\* What a request may leave out is a set of at most one value.
Optional(S) == {{}} \cup {{x} : x \in S}
Given(option, otherwise) == IF option = {} THEN otherwise ELSE CHOOSE x \in option : TRUE

Patch == [percent : Optional({NoPercent} \cup Percent),
          starts : Optional({NoDate} \cup Starts), ends : Optional({NoDate} \cup Ends)]
Unpatched == [percent |-> {}, starts |-> {}, ends |-> {}]

\* merge_discount_update
Merged(d, patch) ==
    IF patch.percent = {NoPercent}
    THEN NoDiscount
    ELSE [percent |-> Given(patch.percent, d.percent),
          starts |-> Given(patch.starts, d.starts), ends |-> Given(patch.ends, d.ends)]

\* Fault: the dates of the patch are compared, not those of the result.
AcceptedAlone(d, patch) == WellFormed(Merged(NoDiscount, patch))

Accepted(d, patch) == WellFormed(Merged(d, patch))

(***************************************************************************)
(* Taxonomy.                                                               *)
(***************************************************************************)
\* validate_product_type, validate_category and validate_labels: a product
\* may keep a term that was retired.
Assignable(t, current) == term[t] = "active" \/ (t \in current /\ term[t] /= "none")

RefersTo(p, t) == There(p) /\ t \in {product[p].type} \cup product[p].category \cup product[p].labels
Referenced(t) == \E p \in Product : RefersTo(p, t)

\* Fault: only products that are on sale count.
UsersOnSale(t) == {p \in Product : RefersTo(p, t) /\ product[p].active}

\* _count_one, archived products included.
Users(t) == {p \in Product : RefersTo(p, t)}

\* create_term derives a slug nobody has.
CreateTerm(r, t) ==
    /\ Free(r)
    /\ term[t] = "none"
    /\ term' = [term EXCEPT ![t] = "active"]
    /\ changes' = changes + 1
    /\ UNCHANGED <<product, campaign, request>>

\* update_term: the last active product type is not retired.
StartRetire(r, t) ==
    /\ term[t] = "active"
    /\ t \in Type => \E u \in Type \ {t} : term[u] = "active"
    /\ Ask(r, [op |-> "retire", term |-> t])

StartRevive(r, t) ==
    /\ term[t] = "inactive"
    /\ Ask(r, [op |-> "revive", term |-> t])

FinishUpdateTerm(r) ==
    LET t == request[r].term
    IN  /\ request[r].op \in {"retire", "revive"}
        /\ term' = [term EXCEPT ![t] =
               IF @ = "none" THEN @
               ELSE IF request[r].op = "retire" THEN "inactive" ELSE "active"]
        /\ Done(r)
        /\ UNCHANGED <<product, campaign, changes>>

StartDeleteTerm(r, t) ==
    /\ term[t] /= "none"
    /\ Users(t) = {}
    /\ Ask(r, [op |-> "drop", term |-> t])

\* Labels have a foreign key that restricts the deletion; types and
\* categories have none.
FinishDeleteTerm(r) ==
    LET t == request[r].term
    IN  /\ request[r].op = "drop"
        /\ term' = IF t \in Label /\ Referenced(t) THEN term
                   ELSE [term EXCEPT ![t] = "none"]
        /\ Done(r)
        /\ UNCHANGED <<product, campaign, changes>>

(***************************************************************************)
(* Products.                                                               *)
(***************************************************************************)
NewRow(type, category, labels, discount) ==
    [there |-> TRUE, type |-> type, category |-> category, labels |-> labels,
     active |-> TRUE, stock |-> 0, discount |-> discount, by |-> Nobody]

\* create_product, with the type it is given or the default one, some active
\* type, and with a discount or without.
StartCreate(r, p, type, category, labels, discount) ==
    /\ \A t \in {type} \cup category \cup labels : Assignable(t, {})
    /\ Ask(r, [op |-> "create", product |-> p, type |-> type, category |-> category,
               labels |-> labels, discount |-> discount])

\* replace_product_labels meets the foreign key of labels that went away.
LabelsExist(labels) == \A l \in labels : term[l] /= "none"

FinishCreate(r) ==
    LET q == request[r]
    IN  /\ q.op = "create"
        /\ product' = IF There(q.product) \/ ~LabelsExist(q.labels) THEN product
                      ELSE [product EXCEPT ![q.product] =
                                NewRow(q.type, q.category, q.labels, q.discount)]
        /\ Done(r)
        /\ UNCHANGED <<term, campaign, changes>>

\* upsert_product, one row of a CSV import: a product that is new gets a
\* type; terms that are given have to be active even if the product has them.
StartImport(r, p, type, category, labels) ==
    /\ \A t \in type \cup category \cup UNION labels : Assignable(t, {})
    /\ There(p) \/ type /= {}
    /\ Ask(r, [op |-> "import", product |-> p, type |-> type, category |-> category,
               labels |-> labels])

\* admin_import_products: each row that can be read is imported on its own.
ImportRow(r, p) ==
    \E type \in Optional(Type), category \in Optional(Category), labels \in Optional(SUBSET Label) :
        StartImport(r, p, type, category, labels)

FinishImport(r) ==
    LET q == request[r]
        row == product[q.product]
        labels == UNION q.labels
        category == IF q.category = {} THEN row.category ELSE q.category
    IN  /\ q.op = "import"
        /\ product' =
               IF ~LabelsExist(labels) THEN product
               ELSE [product EXCEPT ![q.product] =
                   IF There(q.product)
                   THEN [row EXCEPT !.type = Given(q.type, row.type), !.category = category,
                                    !.labels = Given(q.labels, row.labels)]
                   ELSE NewRow(Given(q.type, CHOOSE t \in Type : TRUE), q.category, labels, NoDiscount)]
        /\ Done(r)
        /\ UNCHANGED <<term, campaign, changes>>

\* update_product, of its type, category, labels, discount, stock or
\* visibility.
StartRetype(r, p, type) ==
    /\ There(p) /\ Assignable(type, {product[p].type})
    /\ Ask(r, [op |-> "retype", product |-> p, type |-> type])

StartRecategorize(r, p, category) ==
    /\ There(p) /\ \A t \in category : Assignable(t, product[p].category)
    /\ Ask(r, [op |-> "recategorize", product |-> p, category |-> category])

StartRelabel(r, p, labels) ==
    /\ There(p) /\ \A t \in labels : Assignable(t, product[p].labels)
    /\ Ask(r, [op |-> "relabel", product |-> p, labels |-> labels])

StartDiscount(r, p, patch) ==
    /\ There(p)
    /\ Accepted(product[p].discount, patch)
    /\ Ask(r, [op |-> "discount", product |-> p,
               discount |-> Merged(product[p].discount, patch)])

\* The stock the ledger manages may only be sent as it is.
StartRestock(r, p, stock) ==
    /\ There(p) /\ (p \in Ledger => stock = product[p].stock)
    /\ Ask(r, [op |-> "restock", product |-> p, stock |-> stock])

StartShow(r, p, active) ==
    /\ There(p)
    /\ Ask(r, [op |-> "show", product |-> p, active |-> active])

Updated(q) ==
    LET row == product[q.product]
    IN  CASE q.op = "retype" -> [row EXCEPT !.type = q.type]
          [] q.op = "recategorize" -> [row EXCEPT !.category = q.category]
          [] q.op = "relabel" -> [row EXCEPT !.labels = q.labels]
          [] q.op = "discount" -> [row EXCEPT !.discount = q.discount, !.by = Nobody]
          [] q.op = "restock" -> [row EXCEPT !.stock = q.stock]
          [] q.op = "show" -> [row EXCEPT !.active = q.active]

FinishUpdate(r) ==
    LET q == request[r]
    IN  /\ q.op \in {"retype", "recategorize", "relabel", "discount", "restock", "show"}
        /\ product' = IF There(q.product)
                         /\ (q.op = "relabel" => LabelsExist(q.labels))
                      THEN [product EXCEPT ![q.product] = Updated(q)] ELSE product
        /\ Done(r)
        /\ UNCHANGED <<term, campaign, changes>>

\* delete_product, of one that no order, recipe or batch holds on to.
DeleteProduct(r, p) ==
    /\ Free(r) /\ There(p)
    /\ product' = [product EXCEPT ![p] = Nothing]
    /\ changes' = changes + 1
    /\ UNCHANGED <<term, campaign, request>>

\* bulk_update_discount, from POST /products/bulk-discount: apply replaces
\* all three fields, remove clears them.
BulkDiscount(r, P, discount) ==
    /\ Free(r)
    /\ product' = [p \in Product |->
           IF p \in P /\ There(p) THEN [product[p] EXCEPT !.discount = discount, !.by = Nobody]
           ELSE product[p]]
    /\ changes' = changes + 1
    /\ UNCHANGED <<term, campaign, request>>

\* A checkout or a cancellation of Orders moves the stock in the meantime.
MoveStock(p, stock) ==
    /\ There(p) /\ changes < MaxChanges
    /\ stock \in {product[p].stock - 1, product[p].stock + 1} \cap 0..MaxStock
    /\ product' = [product EXCEPT ![p].stock = stock]
    /\ changes' = changes + 1
    /\ UNCHANGED <<term, campaign, request>>

(***************************************************************************)
(* Promotion campaigns.                                                    *)
(***************************************************************************)
Exists(c) == campaign[c] /= Nothing
Dynamic(c) == campaign[c].ids = {}
Live(c) == campaign[c].applied /\ ~campaign[c].removed

CreateCampaign(r, c, discount, ids) ==
    /\ Free(r) /\ ~Exists(c)
    /\ campaign' = [campaign EXCEPT ![c] =
          [there |-> TRUE, discount |-> discount, ids |-> ids, applied |-> FALSE,
           removed |-> FALSE, filtered |-> FALSE, written |-> [p \in Product |-> Nothing]]]
    /\ changes' = changes + 1
    /\ UNCHANGED <<term, product, request>>

\* Fault: a campaign that is live is edited.
EditableAlways(c) == Exists(c)

\* update_campaign: neither the discount nor the targets of a live campaign.
Editable(c) == Exists(c) /\ ~Live(c)

StartEdit(r, c, patch, targets) ==
    /\ Editable(c)
    /\ patch.percent /= {NoPercent} /\ Accepted(campaign[c].discount, patch)
    /\ Ask(r, [op |-> "edit", campaign |-> c, patch |-> patch, targets |-> targets])

\* Only the fields of the request are written.
FinishEdit(r) ==
    LET q == request[r]
    IN  /\ q.op = "edit"
        /\ campaign' = IF Exists(q.campaign)
                       THEN [campaign EXCEPT ![q.campaign].discount = Merged(@, q.patch),
                                             ![q.campaign].ids = Given(q.targets, @)]
                       ELSE campaign
        /\ Done(r)
        /\ UNCHANGED <<term, product, changes>>

\* _resolve_targets, at the time of the application.
Targets(c) ==
    IF Dynamic(c) THEN {p \in Product : There(p) /\ product[p].active}
    ELSE campaign[c].ids

StartApply(r, c) ==
    /\ Exists(c)
    /\ Ask(r, [op |-> "apply", campaign |-> c, discount |-> campaign[c].discount,
               targets |-> Targets(c), filter |-> Dynamic(c)])

\* The records are replaced when at least one product was written.
Written(c, done, discount) ==
    IF done = {} THEN campaign[c].written
    ELSE [p \in Product |-> IF p \in done THEN discount ELSE Nothing]

FinishApply(r) ==
    LET q == request[r]
        c == q.campaign
        done == {p \in q.targets : There(p) /\ WellFormed(q.discount)}
    IN  /\ q.op = "apply"
        /\ IF Exists(c)
           THEN /\ product' = [p \in Product |->
                      IF p \in done THEN [product[p] EXCEPT !.discount = q.discount, !.by = c]
                      ELSE product[p]]
                /\ campaign' = [campaign EXCEPT
                      ![c].written = Written(c, done, q.discount),
                      ![c].applied = @ \/ done /= {},
                      ![c].removed = @ /\ done = {},
                      ![c].filtered = @ \/ (q.filter /\ done /= {})]
           ELSE UNCHANGED <<product, campaign>>
        /\ Done(r)
        /\ UNCHANGED <<term, changes>>

\* remove_campaign with conservative_clear_discount: a product is cleared when
\* it still has what was written; the campaign is removed when none is gone.
RemoveCampaign(r, c) ==
    /\ Free(r) /\ Exists(c)
    /\ LET recorded == {p \in Product : campaign[c].written[p] /= Nothing}
           same == {p \in recorded : There(p) /\ product[p].discount = campaign[c].written[p]}
       IN  /\ product' = [p \in Product |->
                 IF p \in same THEN [product[p] EXCEPT !.discount = NoDiscount, !.by = Nobody]
                 ELSE product[p]]
           /\ campaign' = [campaign EXCEPT
                 ![c].removed = @ \/ (recorded /= {} /\ \A p \in recorded : There(p))]
    /\ changes' = changes + 1
    /\ UNCHANGED <<term, request>>

\* What it wrote on the products stays.
DeleteCampaign(r, c) ==
    /\ Free(r) /\ Exists(c)
    /\ campaign' = [campaign EXCEPT ![c] = Nothing]
    /\ product' = [p \in Product |->
          IF There(p) /\ product[p].by = c THEN [product[p] EXCEPT !.by = Nobody]
          ELSE product[p]]
    /\ changes' = changes + 1
    /\ UNCHANGED <<term, request>>

TermNext ==
    \E r \in Request :
        \/ \E t \in Term : \/ CreateTerm(r, t) \/ StartRetire(r, t)
                           \/ StartRevive(r, t) \/ StartDeleteTerm(r, t)
        \/ FinishUpdateTerm(r) \/ FinishDeleteTerm(r)

ProductNext ==
    \/ \E r \in Request, p \in Product :
        \/ \E type \in Type, category \in Optional(Category), labels \in SUBSET Label,
              discount \in Offer \cup {NoDiscount} :
               StartCreate(r, p, type, category, labels, discount)
        \/ ImportRow(r, p)
        \/ \E type \in Type : StartRetype(r, p, type)
        \/ \E category \in Optional(Category) : StartRecategorize(r, p, category)
        \/ \E labels \in SUBSET Label : StartRelabel(r, p, labels)
        \/ \E patch \in Patch : StartDiscount(r, p, patch)
        \/ \E stock \in 0..MaxStock : StartRestock(r, p, stock)
        \/ \E active \in BOOLEAN : StartShow(r, p, active)
        \/ DeleteProduct(r, p)
    \/ \E r \in Request : FinishCreate(r) \/ FinishImport(r) \/ FinishUpdate(r)
    \/ \E r \in Request, P \in SUBSET Product, discount \in Offer \cup {NoDiscount} :
           BulkDiscount(r, P, discount)

CampaignNext ==
    \E r \in Request :
        \/ \E c \in Campaign :
            \/ \E discount \in Offer, ids \in SUBSET Product :
                   CreateCampaign(r, c, discount, ids)
            \/ \E patch \in Patch : StartEdit(r, c, patch, {})
            \/ \E ids \in SUBSET Product : StartEdit(r, c, Unpatched, {ids})
            \/ StartApply(r, c) \/ RemoveCampaign(r, c) \/ DeleteCampaign(r, c)
        \/ FinishEdit(r) \/ FinishApply(r)

Next ==
    \/ TermNext \/ ProductNext \/ CampaignNext
    \/ \E p \in Product, stock \in 0..MaxStock : MoveStock(p, stock)

Spec == Init /\ [][Next]_vars

(***************************************************************************)
(* Properties.                                                             *)
(***************************************************************************)

\* Whatever is patched, cleared, imported or applied by campaigns in whatever
\* order, a product never has a window without a discount, or one that ends
\* before it starts.
DiscountsWellFormed == \A p \in Product : There(p) => WellFormed(product[p].discount)

\* Every term a product refers to exists, so that it can be shown and filtered.
TermsKnown == \A t \in Term : Referenced(t) => term[t] /= "none"

\* A discount that a campaign wrote last can be taken back through it, also
\* after further applications, removals, edits and deletions: it is on record
\* as it was written; and what a live campaign shows is what it wrote. The
\* campaign has to have named its products in every application: what one
\* filter gave and the next does not is no longer on record, and naming
\* products after that does not bring it back.
Traceable ==
    \A c \in Campaign : Exists(c) /\ ~campaign[c].filtered =>
        \A p \in Product :
            There(p) /\ product[p].by = c
            => /\ campaign[c].written[p] = product[p].discount
               /\ Live(c) => campaign[c].discount = product[p].discount

\* Not kept by the code (see the README):
\* products can always be created, for some product type is active;
AlwaysAssignable == \E t \in Type : term[t] = "active"

\* also what a campaign with a filter wrote is on record;
TraceableFiltered ==
    \A c \in Campaign : Exists(c) =>
        \A p \in Product :
            There(p) /\ product[p].by = c => campaign[c].written[p] = product[p].discount

\* removing a campaign clears no discount that an admin set after it;
NeverClobbers ==
    [][\A r \in Request, c \in Campaign : RemoveCampaign(r, c) =>
          \A p \in Product :
              There(p) /\ product[p].by /= c => product'[p] = product[p]]_vars

\* a request about a product does not move the stock the ledger manages.
LedgerStockKept ==
    [][\A r \in Request : FinishUpdate(r) =>
          \A p \in Ledger : There(p) => product'[p].stock = product[p].stock]_vars
=============================================================================
