------------------------- MODULE Storefront_proofs -------------------------
(***************************************************************************)
(* Theorems about what visitors see and do: the catalogue, its taxonomy    *)
(* and its campaigns (Shop), sessions and carts (Visitors, proved there),  *)
(* and limits (Limits), for any products, terms, campaigns, visitors,      *)
(* threads and limits.                                                     *)
(***************************************************************************)
EXTENDS MCStorefront, FiniteSetTheorems, TLAPS

-----------------------------------------------------------------------------
(* The catalogue: rows and requests.                                       *)

\* What a request may hold between its reads and its writes.
Asked(q) ==
    /\ q.op \in {"retire", "revive", "drop"} => q.term \in Term
    /\ q.op \in {"create", "import", "retype", "recategorize", "relabel",
                 "discount", "restock", "show"} => q.product \in Product
    /\ q.op = "create" =>
           /\ q.type \in Type /\ q.category \subseteq Category /\ q.labels \subseteq Label
           /\ q.discount \in Discount /\ WellFormed(q.discount)
    /\ q.op = "import" =>
           /\ q.type \in Optional(Type) /\ q.category \subseteq Category
           /\ q.labels \in Optional(SUBSET Label)
    /\ q.op = "retype" => q.type \in Type
    /\ q.op = "recategorize" => q.category \subseteq Category
    /\ q.op = "relabel" => q.labels \subseteq Label
    /\ q.op = "discount" => q.discount \in Discount /\ WellFormed(q.discount)
    /\ q.op = "restock" => q.stock \in 0..MaxStock
    /\ q.op = "show" => q.active \in BOOLEAN
    /\ q.op = "edit" =>
           q.campaign \in Campaign /\ q.patch \in Patch /\ q.targets \in Optional(SUBSET Product)
    /\ q.op = "apply" =>
           q.campaign \in Campaign /\ q.discount \in Discount /\ q.filter \in BOOLEAN

RequestsAsked ==
    /\ request = [r \in Request |-> request[r]]
    /\ \A r \in Request : Asked(request[r])

\* A product there is has a row whose discount is well formed.
Sellable(row) == row = Nothing \/ (row \in ProductRow /\ WellFormed(row.discount))

Sold == product \in [Product -> ProductRow \cup {Nothing}] /\ \A p \in Product : Sellable(product[p])

ShopInv == Type /= {} /\ ShopTypeOK /\ Sold /\ RequestsAsked

LEMMA NothingIsNoRow == Nothing \notin ProductRow /\ Nothing \notin CampaignRow
  BY DEF Nothing, ProductRow, CampaignRow

LEMMA GivenOne ==
    ASSUME NEW S, NEW option \in Optional(S), NEW otherwise
    PROVE  /\ option = {} => Given(option, otherwise) = otherwise
           /\ option /= {} => Given(option, otherwise) \in S /\ option = {Given(option, otherwise)}
           /\ option \subseteq S
<1>1. CASE option = {}
  BY <1>1 DEF Given
<1>2. CASE \E x \in S : option = {x}
  <2> PICK x \in S : option = {x}
    BY <1>2
  <2> QED
    BY DEF Given
<1> QED
  BY <1>1, <1>2 DEF Optional

LEMMA MergedTyped ==
    ASSUME NEW d \in Discount, NEW patch \in Patch
    PROVE  Merged(d, patch) \in Discount
<1>1. /\ patch.percent \in Optional({NoPercent} \cup Percent)
      /\ patch.starts \in Optional({NoDate} \cup Starts)
      /\ patch.ends \in Optional({NoDate} \cup Ends)
      /\ d.percent \in {NoPercent} \cup Percent
      /\ d.starts \in {NoDate} \cup Starts
      /\ d.ends \in {NoDate} \cup Ends
  BY DEF Patch, Discount
<1>2. /\ Given(patch.percent, d.percent) \in {NoPercent} \cup Percent
      /\ Given(patch.starts, d.starts) \in {NoDate} \cup Starts
      /\ Given(patch.ends, d.ends) \in {NoDate} \cup Ends
  BY <1>1, GivenOne
<1> QED
  BY <1>2 DEF Merged, Discount, NoDiscount

LEMMA NoDiscountFine == NoDiscount \in Discount /\ WellFormed(NoDiscount)
  BY DEF NoDiscount, Discount, WellFormed

\* Rows, as they are created and changed.
LEMMA NewRowSellable ==
    ASSUME NEW type \in Type, NEW category \in SUBSET Category, NEW labels \in SUBSET Label,
           NEW discount \in Discount, WellFormed(discount), ShopAssumption
    PROVE  NewRow(type, category, labels, discount) \in ProductRow
           /\ Sellable(NewRow(type, category, labels, discount))
  BY DEF NewRow, ProductRow, Sellable, ShopAssumption

LEMMA Rediscounted ==
    ASSUME NEW row \in ProductRow, NEW d \in Discount, WellFormed(d),
           NEW b \in Campaign \cup {Nobody}
    PROVE  /\ [row EXCEPT !.discount = d, !.by = b] \in ProductRow
           /\ Sellable([row EXCEPT !.discount = d, !.by = b])
  BY DEF ProductRow, Sellable

\* A change of one product, or of all.
LEMMA SoldOne ==
    ASSUME Sold, NEW p \in Product, NEW row, row \in ProductRow, Sellable(row),
           product' = [product EXCEPT ![p] = row]
    PROVE  Sold'
  BY DEF Sold, Sellable

LEMMA SoldAll ==
    ASSUME NEW f, product' = [p \in Product |-> f[p]],
           \A p \in Product : f[p] \in ProductRow \cup {Nothing} /\ Sellable(f[p])
    PROVE  Sold'
  BY DEF Sold, Sellable

\* A request that is asked, and one that is done.
LEMMA AskKept ==
    ASSUME ShopInv, NEW r \in Request, NEW q, Asked(q), Ask(r, q), ShopAssumption
    PROVE  ShopInv'
<1>1. RequestsAsked'
  BY DEF ShopInv, RequestsAsked, Ask
<1>2. changes' \in 0..MaxChanges
  BY DEF ShopInv, ShopTypeOK, Ask, Free, ShopAssumption
<1> QED
  BY <1>1, <1>2 DEF ShopInv, ShopTypeOK, Sold, Sellable, Ask

LEMMA DoneKept ==
    ASSUME ShopInv, NEW r \in Request, Done(r)
    PROVE  RequestsAsked'
<1>1. Asked(Idle)
  BY DEF Asked, Idle
<1> QED
  BY <1>1 DEF ShopInv, RequestsAsked, Done

\* What the others keep.
LEMMA Counted ==
    ASSUME ShopInv, changes < MaxChanges, changes' = changes + 1, ShopAssumption
    PROVE  changes' \in 0..MaxChanges
  BY DEF ShopInv, ShopTypeOK, ShopAssumption

LEMMA WithProducts ==
    ASSUME ShopInv, Sold', RequestsAsked', changes' \in 0..MaxChanges, UNCHANGED <<term, campaign>>
    PROVE  ShopInv'
  BY DEF ShopInv, ShopTypeOK, Sold

LEMMA WithTerms ==
    ASSUME ShopInv, term' \in [Term -> {"none", "active", "inactive"}], RequestsAsked',
           changes' \in 0..MaxChanges, UNCHANGED <<product, campaign>>
    PROVE  ShopInv'
  BY DEF ShopInv, ShopTypeOK, Sold, Sellable

LEMMA WithCampaigns ==
    ASSUME ShopInv, campaign' \in [Campaign -> CampaignRow \cup {Nothing}], RequestsAsked',
           changes' \in 0..MaxChanges, UNCHANGED <<term, product>>
    PROVE  ShopInv'
  BY DEF ShopInv, ShopTypeOK, Sold, Sellable

LEMMA RequestsStay ==
    ASSUME ShopInv, UNCHANGED request
    PROVE  RequestsAsked'
  BY DEF ShopInv, RequestsAsked

LEMMA TermStepInv ==
    ASSUME ShopInv, TermNext, ShopAssumption
    PROVE  ShopInv'
<1> PICK r \in Request :
        \/ \E t \in Term : \/ CreateTerm(r, t) \/ StartRetire(r, t)
                           \/ StartRevive(r, t) \/ StartDeleteTerm(r, t)
        \/ FinishUpdateTerm(r) \/ FinishDeleteTerm(r)
  BY DEF TermNext
<1>1. ASSUME NEW t \in Term, CreateTerm(r, t) PROVE ShopInv'
  <2>1. term' \in [Term -> {"none", "active", "inactive"}]
    BY <1>1 DEF CreateTerm, ShopInv, ShopTypeOK
  <2> QED
    BY <1>1, <2>1, WithTerms, RequestsStay, Counted DEF CreateTerm, Free
<1>2. ASSUME NEW t \in Term, StartRetire(r, t) PROVE ShopInv'
  <2>1. Asked([op |-> "retire", term |-> t])
    BY DEF Asked
  <2> QED
    BY <1>2, <2>1, AskKept DEF StartRetire
<1>3. ASSUME NEW t \in Term, StartRevive(r, t) PROVE ShopInv'
  <2>1. Asked([op |-> "revive", term |-> t])
    BY DEF Asked
  <2> QED
    BY <1>3, <2>1, AskKept DEF StartRevive
<1>4. ASSUME NEW t \in Term, StartDeleteTerm(r, t) PROVE ShopInv'
  <2>1. Asked([op |-> "drop", term |-> t])
    BY DEF Asked
  <2> QED
    BY <1>4, <2>1, AskKept DEF StartDeleteTerm
<1>5. CASE FinishUpdateTerm(r)
  <2>1. term' \in [Term -> {"none", "active", "inactive"}]
    BY <1>5 DEF FinishUpdateTerm, ShopInv, ShopTypeOK
  <2> QED
    BY <1>5, <2>1, WithTerms, DoneKept DEF FinishUpdateTerm, ShopInv, ShopTypeOK
<1>6. CASE FinishDeleteTerm(r)
  <2>1. term' \in [Term -> {"none", "active", "inactive"}]
    BY <1>6 DEF FinishDeleteTerm, ShopInv, ShopTypeOK
  <2> QED
    BY <1>6, <2>1, WithTerms, DoneKept DEF FinishDeleteTerm, ShopInv, ShopTypeOK
<1> QED
  BY <1>1, <1>2, <1>3, <1>4, <1>5, <1>6

\* What the requests about products hold.
LEMMA AskedProduct ==
    ASSUME NEW p \in Product
    PROVE  /\ \A type \in Type, category \in Optional(Category), labels \in SUBSET Label,
                 d \in Discount :
                  WellFormed(d) =>
                  Asked([op |-> "create", product |-> p, type |-> type, category |-> category,
                         labels |-> labels, discount |-> d])
           /\ \A type \in Optional(Type), category \in Optional(Category),
                 labels \in Optional(SUBSET Label) :
                  Asked([op |-> "import", product |-> p, type |-> type, category |-> category,
                         labels |-> labels])
           /\ \A type \in Type : Asked([op |-> "retype", product |-> p, type |-> type])
           /\ \A category \in Optional(Category) :
                  Asked([op |-> "recategorize", product |-> p, category |-> category])
           /\ \A labels \in SUBSET Label :
                  Asked([op |-> "relabel", product |-> p, labels |-> labels])
           /\ \A d \in Discount :
                  WellFormed(d) => Asked([op |-> "discount", product |-> p, discount |-> d])
           /\ \A stock \in 0..MaxStock :
                  Asked([op |-> "restock", product |-> p, stock |-> stock])
           /\ \A visible \in BOOLEAN : Asked([op |-> "show", product |-> p, active |-> visible])
<1>1. \A category \in Optional(Category) : category \subseteq Category
  BY GivenOne
<1> QED
  BY <1>1 DEF Asked

LEMMA StartProductInv ==
    ASSUME ShopInv, ShopAssumption, NEW r \in Request, NEW p \in Product,
           \/ \E type \in Type, category \in Optional(Category), labels \in SUBSET Label,
                 discount \in Offer \cup {NoDiscount} :
                  StartCreate(r, p, type, category, labels, discount)
           \/ ImportRow(r, p)
           \/ \E type \in Type : StartRetype(r, p, type)
           \/ \E category \in Optional(Category) : StartRecategorize(r, p, category)
           \/ \E labels \in SUBSET Label : StartRelabel(r, p, labels)
           \/ \E patch \in Patch : StartDiscount(r, p, patch)
           \/ \E stock \in 0..MaxStock : StartRestock(r, p, stock)
           \/ \E visible \in BOOLEAN : StartShow(r, p, visible)
    PROVE  ShopInv'
<1>1. CASE \E type \in Type, category \in Optional(Category), labels \in SUBSET Label,
               discount \in Offer \cup {NoDiscount} :
               StartCreate(r, p, type, category, labels, discount)
  <2>1. \A d \in Offer \cup {NoDiscount} : d \in Discount /\ WellFormed(d)
    BY DEF Offer, Discount, NoDiscount, WellFormed
  <2> QED
    BY <1>1, <2>1, AskedProduct, AskKept DEF StartCreate
<1>2. CASE ImportRow(r, p)
  BY <1>2, AskedProduct, AskKept DEF ImportRow, StartImport
<1>3. CASE \E type \in Type : StartRetype(r, p, type)
  BY <1>3, AskedProduct, AskKept DEF StartRetype
<1>4. CASE \E category \in Optional(Category) : StartRecategorize(r, p, category)
  BY <1>4, AskedProduct, AskKept DEF StartRecategorize
<1>5. CASE \E labels \in SUBSET Label : StartRelabel(r, p, labels)
  BY <1>5, AskedProduct, AskKept DEF StartRelabel
<1>6. CASE \E patch \in Patch : StartDiscount(r, p, patch)
  <2> PICK patch \in Patch : StartDiscount(r, p, patch)
    BY <1>6
  <2>1. product[p].discount \in Discount
    BY DEF StartDiscount, There, ShopInv, Sold, ProductRow
  <2>2. Merged(product[p].discount, patch) \in Discount
    BY <2>1, MergedTyped
  <2> QED
    BY <2>2, AskedProduct, AskKept DEF StartDiscount, Accepted
<1>7. CASE \E stock \in 0..MaxStock : StartRestock(r, p, stock)
  BY <1>7, AskedProduct, AskKept DEF StartRestock
<1>8. CASE \E visible \in BOOLEAN : StartShow(r, p, visible)
  BY <1>8, AskedProduct, AskKept DEF StartShow
<1> QED
  BY <1>1, <1>2, <1>3, <1>4, <1>5, <1>6, <1>7, <1>8

LEMMA CreateImportInv ==
    ASSUME ShopInv, ShopAssumption, NEW r \in Request, FinishCreate(r) \/ FinishImport(r)
    PROVE  ShopInv'
<1> DEFINE q == request[r]
<1>1. Asked(q) /\ RequestsAsked' /\ changes' \in 0..MaxChanges /\ UNCHANGED <<term, campaign>>
  BY DoneKept DEF FinishCreate, FinishImport, ShopInv, ShopTypeOK, RequestsAsked
<1>2. CASE FinishCreate(r)
  <2>1. q.product \in Product /\ q.type \in Type /\ q.category \in SUBSET Category
        /\ q.labels \in SUBSET Label
        /\ q.discount \in Discount /\ WellFormed(q.discount)
    BY <1>1, <1>2 DEF Asked, FinishCreate
  <2>2. Sold'
    <3> DEFINE row == NewRow(q.type, q.category, q.labels, q.discount)
    <3>1. row \in ProductRow /\ Sellable(row)
      BY <2>1, NewRowSellable
    <3> HIDE DEF row
    <3>2. product' = product \/ product' = [product EXCEPT ![q.product] = row]
      BY <1>2 DEF FinishCreate, row
    <3> HIDE DEF q
    <3>3. CASE product' = product
      BY <3>3 DEF ShopInv, Sold
    <3>4. CASE product' = [product EXCEPT ![q.product] = row]
      BY <3>1, <3>4, <2>1, SoldOne DEF ShopInv
    <3> QED
      BY <3>2, <3>3, <3>4
  <2> QED
    BY <1>1, <2>2, WithProducts
<1>3. CASE FinishImport(r)
  <2>1. q.product \in Product /\ q.type \in Optional(Type) /\ q.category \in SUBSET Category
        /\ q.labels \in Optional(SUBSET Label)
    BY <1>1, <1>3 DEF Asked, FinishImport
  <2>2. Sold'
    <3> DEFINE p == q.product
               labels == UNION q.labels
               category == IF q.category = {} THEN product[p].category ELSE q.category
               old == [product[p] EXCEPT !.type = Given(q.type, product[p].type),
                                         !.category = category,
                                         !.labels = Given(q.labels, product[p].labels)]
               new == NewRow(Given(q.type, CHOOSE t \in Type : TRUE), q.category, labels, NoDiscount)
    <3>1. labels \in SUBSET Label
      BY <2>1 DEF Optional
    <3>2. Given(q.type, CHOOSE t \in Type : TRUE) \in Type
      BY <2>1, GivenOne DEF ShopInv
    <3>3. new \in ProductRow /\ Sellable(new)
      BY <2>1, <3>1, <3>2, NoDiscountFine, NewRowSellable
    <3>4. ASSUME There(p) PROVE old \in ProductRow /\ Sellable(old)
      <4>1. product[p] \in ProductRow /\ WellFormed(product[p].discount)
        BY <3>4, <2>1 DEF ShopInv, Sold, Sellable, There
      <4>2. product[p].type \in Type /\ product[p].labels \in SUBSET Label
            /\ category \in SUBSET Category
        BY <4>1, <2>1 DEF ProductRow
      <4>3. Given(q.type, product[p].type) \in Type
            /\ Given(q.labels, product[p].labels) \in SUBSET Label
        BY <4>2, <2>1, GivenOne
      <4> HIDE DEF q, p, labels, new, category
      <4>4. /\ old \in ProductRow
            /\ old.discount = product[p].discount
        BY <4>1, <4>2, <4>3 DEF ProductRow
      <4> QED
        BY <4>1, <4>4 DEF Sellable
    <3>5. \/ product' = product
          \/ There(p) /\ product' = [product EXCEPT ![p] = old]
          \/ product' = [product EXCEPT ![p] = new]
      BY <1>3 DEF FinishImport
    <3> HIDE DEF q, p, old, new, labels, category
    <3>6. CASE product' = product
      BY <3>6 DEF ShopInv, Sold
    <3> QED
      BY <3>3, <3>4, <3>5, <3>6, <2>1, SoldOne DEF ShopInv, p
  <2> QED
    BY <1>1, <2>2, WithProducts
<1> QED
  BY <1>2, <1>3

LEMMA UpdatedRow ==
    ASSUME ShopInv, NEW q, Asked(q), There(q.product),
           q.op \in {"retype", "recategorize", "relabel", "discount", "restock", "show"}
    PROVE  /\ q.product \in Product
           /\ Updated(q) \in ProductRow
           /\ Sellable(Updated(q))
<1>1. q.product \in Product
  BY DEF Asked
<1> DEFINE row == product[q.product]
<1>2. row \in ProductRow /\ WellFormed(row.discount)
  BY <1>1 DEF ShopInv, Sold, Sellable, There
<1>3. CASE q.op = "retype"
  BY <1>2, <1>3 DEF Updated, Asked, ProductRow, Sellable
<1>4. CASE q.op = "recategorize"
  BY <1>2, <1>4 DEF Updated, Asked, ProductRow, Sellable
<1>5. CASE q.op = "relabel"
  BY <1>2, <1>5 DEF Updated, Asked, ProductRow, Sellable
<1>6. CASE q.op = "discount"
  <2>1. Updated(q) = [row EXCEPT !.discount = q.discount, !.by = Nobody]
    BY <1>6 DEF Updated
  <2>2. q.discount \in Discount /\ WellFormed(q.discount)
    BY <1>6 DEF Asked
  <2> HIDE DEF row
  <2>3. [row EXCEPT !.discount = q.discount, !.by = Nobody] \in ProductRow
        /\ Sellable([row EXCEPT !.discount = q.discount, !.by = Nobody])
    BY <1>2, <2>2, Rediscounted
  <2> QED
    BY <1>1, <2>1, <2>3
<1>7. CASE q.op = "restock"
  BY <1>2, <1>7 DEF Updated, Asked, ProductRow, Sellable
<1>8. CASE q.op = "show"
  BY <1>2, <1>8 DEF Updated, Asked, ProductRow, Sellable
<1> QED
  BY <1>1, <1>3, <1>4, <1>5, <1>6, <1>7, <1>8

LEMMA UpdateInv ==
    ASSUME ShopInv, NEW r \in Request, FinishUpdate(r)
    PROVE  ShopInv'
<1> DEFINE q == request[r]
           row == Updated(q)
<1>1. /\ Asked(q) /\ RequestsAsked' /\ changes' \in 0..MaxChanges /\ UNCHANGED <<term, campaign>>
      /\ q.op \in {"retype", "recategorize", "relabel", "discount", "restock", "show"}
  BY DoneKept DEF FinishUpdate, ShopInv, ShopTypeOK, RequestsAsked
<1>2. product' = product \/ (There(q.product) /\ product' = [product EXCEPT ![q.product] = row])
  BY DEF FinishUpdate
<1>3. Sold'
  <2>1. CASE product' = product
    BY <2>1 DEF ShopInv, Sold
  <2>2. CASE There(q.product) /\ product' = [product EXCEPT ![q.product] = row]
    <3>1. q.product \in Product /\ row \in ProductRow /\ Sellable(row)
      BY <1>1, <2>2, UpdatedRow
    <3> HIDE DEF q, row
    <3> QED
      BY <2>2, <3>1, SoldOne DEF ShopInv
  <2> QED
    BY <1>2, <2>1, <2>2
<1> QED
  BY <1>1, <1>3, WithProducts

LEMMA DirectProductInv ==
    ASSUME ShopInv, ShopAssumption,
           \/ \E r \in Request, p \in Product : DeleteProduct(r, p)
           \/ \E r \in Request, P \in SUBSET Product, d \in Offer \cup {NoDiscount} :
                  BulkDiscount(r, P, d)
           \/ \E p \in Product, stock \in 0..MaxStock : MoveStock(p, stock)
    PROVE  ShopInv'
<1>1. /\ changes < MaxChanges /\ changes' = changes + 1
      /\ UNCHANGED <<term, campaign, request>>
  BY DEF DeleteProduct, BulkDiscount, MoveStock, Free
<1>2. Sold'
  <2>1. ASSUME NEW r \in Request, NEW p \in Product, DeleteProduct(r, p) PROVE Sold'
    BY <2>1 DEF DeleteProduct, ShopInv, Sold, Sellable
  <2>2. ASSUME NEW r \in Request, NEW P \in SUBSET Product,
               NEW d \in Offer \cup {NoDiscount}, BulkDiscount(r, P, d)
        PROVE  Sold'
    <3> DEFINE row(p) == [product[p] EXCEPT !.discount = d, !.by = Nobody]
    <3>1. d \in Discount /\ WellFormed(d)
      BY NoDiscountFine DEF Offer
    <3>2. ASSUME NEW p \in Product, There(p) PROVE row(p) \in ProductRow /\ Sellable(row(p))
      <4>1. product[p] \in ProductRow
        BY <3>2 DEF ShopInv, Sold, Sellable, There
      <4> QED
        BY <3>1, <4>1, Rediscounted
    <3> DEFINE f == [p \in Product |-> IF p \in P /\ There(p) THEN row(p) ELSE product[p]]
    <3>3. product' = f
      BY <2>2 DEF BulkDiscount
    <3>4. \A p \in Product : product[p] \in ProductRow \cup {Nothing} /\ Sellable(product[p])
      BY DEF ShopInv, Sold
    <3>5. \A p \in Product : f[p] \in ProductRow \cup {Nothing} /\ Sellable(f[p])
      <4> HIDE DEF row
      <4> QED
        BY <3>2, <3>4
    <3>6. product' = [p \in Product |-> f[p]]
      BY <3>3
    <3> HIDE DEF f
    <3> QED
      BY <3>5, <3>6, SoldAll
  <2>3. ASSUME NEW p \in Product, NEW stock \in 0..MaxStock, MoveStock(p, stock) PROVE Sold'
    <3> DEFINE row == [product[p] EXCEPT !.stock = stock]
    <3>1. product[p] \in ProductRow /\ WellFormed(product[p].discount)
      BY <2>3 DEF MoveStock, ShopInv, Sold, Sellable, There
    <3>2. row \in ProductRow /\ Sellable(row)
      BY <3>1 DEF ProductRow, Sellable
    <3>3. product' = [product EXCEPT ![p] = row]
      BY <2>3 DEF MoveStock
    <3> HIDE DEF row
    <3> QED
      BY <3>2, <3>3, SoldOne DEF ShopInv
  <2> QED
    BY <2>1, <2>2, <2>3
<1> QED
  BY <1>1, <1>2, RequestsStay, Counted, WithProducts

LEMMA StartCampaignInv ==
    ASSUME ShopInv, ShopAssumption, NEW r \in Request, NEW c \in Campaign,
           \/ \E patch \in Patch : StartEdit(r, c, patch, {})
           \/ \E ids \in SUBSET Product : StartEdit(r, c, Unpatched, {ids})
           \/ StartApply(r, c)
    PROVE  ShopInv'
<1>1. ASSUME NEW patch \in Patch, NEW targets \in Optional(SUBSET Product),
             StartEdit(r, c, patch, targets)
      PROVE  ShopInv'
  <2>1. Asked([op |-> "edit", campaign |-> c, patch |-> patch, targets |-> targets])
    BY DEF Asked
  <2> QED
    BY <1>1, <2>1, AskKept DEF StartEdit
<1>2. Unpatched \in Patch
  BY DEF Unpatched, Patch, Optional
<1>3. {} \in Optional(SUBSET Product) /\ \A ids \in SUBSET Product : {ids} \in Optional(SUBSET Product)
  BY DEF Optional
<1>4. CASE StartApply(r, c)
  <2>1. campaign[c].discount \in Discount
    BY <1>4 DEF StartApply, Exists, ShopInv, ShopTypeOK, CampaignRow
  <2>2. Asked([op |-> "apply", campaign |-> c, discount |-> campaign[c].discount,
               targets |-> Targets(c), filter |-> Dynamic(c)])
    BY <2>1 DEF Asked, Dynamic
  <2> QED
    BY <1>4, <2>2, AskKept DEF StartApply
<1> QED
  BY <1>1, <1>2, <1>3, <1>4

LEMMA EditInv ==
    ASSUME ShopInv, NEW r \in Request, FinishEdit(r)
    PROVE  ShopInv'
<1> DEFINE q == request[r]
           c == q.campaign
           discount == Merged(campaign[c].discount, q.patch)
           ids == Given(q.targets, campaign[c].ids)
<1>1. Asked(q) /\ RequestsAsked' /\ changes' \in 0..MaxChanges /\ UNCHANGED <<term, product>>
  BY DoneKept DEF FinishEdit, ShopInv, ShopTypeOK, RequestsAsked
<1>2. c \in Campaign /\ q.patch \in Patch /\ q.targets \in Optional(SUBSET Product)
  BY <1>1 DEF Asked, FinishEdit
<1>3. ASSUME Exists(c)
      PROVE  discount \in Discount /\ ids \in SUBSET Product /\ campaign[c] \in CampaignRow
  <2>1. campaign[c] \in CampaignRow
    BY <1>2, <1>3 DEF Exists, ShopInv, ShopTypeOK
  <2>2. campaign[c].discount \in Discount /\ campaign[c].ids \in SUBSET Product
    BY <2>1 DEF CampaignRow
  <2> QED
    BY <1>2, <2>1, <2>2, MergedTyped, GivenOne
<1>4. \/ campaign' = campaign
      \/ /\ Exists(c)
         /\ campaign' = [campaign EXCEPT ![c].discount = discount, ![c].ids = ids]
  BY DEF FinishEdit
<1>5. campaign' \in [Campaign -> CampaignRow \cup {Nothing}]
  <2> HIDE DEF q, c, discount, ids
  <2>1. campaign \in [Campaign -> CampaignRow \cup {Nothing}]
    BY DEF ShopInv, ShopTypeOK
  <2>2. ASSUME Exists(c)
        PROVE  [campaign[c] EXCEPT !.discount = discount, !.ids = ids] \in CampaignRow
    BY <1>3, <2>2 DEF CampaignRow
  <2>3. ASSUME Exists(c), campaign' = [campaign EXCEPT ![c].discount = discount, ![c].ids = ids]
        PROVE  campaign' = [campaign EXCEPT ![c] =
                               [campaign[c] EXCEPT !.discount = discount, !.ids = ids]]
    BY <1>2, <1>3, <2>1, <2>3 DEF CampaignRow
  <2> DEFINE row == [campaign[c] EXCEPT !.discount = discount, !.ids = ids]
  <2> HIDE DEF row
  <2> QED
    BY <1>2, <1>4, <2>1, <2>2, <2>3 DEF row
<1> QED
  BY <1>1, <1>5, WithCampaigns

\* What an application of a campaign writes: products and the campaign's row.
Chosen(q) == {p \in q.targets : There(p) /\ WellFormed(q.discount)}

Wrote(q) == [p \in Product |->
    IF p \in Chosen(q) THEN [product[p] EXCEPT !.discount = q.discount, !.by = q.campaign]
    ELSE product[p]]

Recorded(c, q, row) ==
    /\ row \in CampaignRow
    /\ row.discount = campaign[c].discount /\ row.ids = campaign[c].ids
    /\ row.written = Written(c, Chosen(q), q.discount)
    /\ row.applied <=> campaign[c].applied \/ Chosen(q) /= {}
    /\ row.removed <=> campaign[c].removed /\ Chosen(q) = {}
    /\ row.filtered <=> campaign[c].filtered \/ (q.filter /\ Chosen(q) /= {})

LEMMA ApplyWrites ==
    ASSUME ShopInv, NEW r \in Request, FinishApply(r), Exists(request[r].campaign)
    PROVE  LET q == request[r]
               c == q.campaign
           IN  /\ c \in Campaign /\ q.discount \in Discount
               /\ product' = Wrote(q)
               /\ \E row : Recorded(c, q, row) /\ campaign' = [campaign EXCEPT ![c] = row]
<1> DEFINE q == request[r]
           c == q.campaign
           written == Written(c, Chosen(q), q.discount)
           applied == campaign[c].applied \/ Chosen(q) /= {}
           removed == campaign[c].removed /\ Chosen(q) = {}
           filtered == campaign[c].filtered \/ (q.filter /\ Chosen(q) /= {})
           row == [campaign[c] EXCEPT !.written = written, !.applied = applied,
                                      !.removed = removed, !.filtered = filtered]
<1>1. c \in Campaign /\ q.discount \in Discount /\ q.filter \in BOOLEAN
  BY DEF ShopInv, RequestsAsked, Asked, FinishApply
<1>2. campaign[c] \in CampaignRow
  BY <1>1 DEF Exists, ShopInv, ShopTypeOK
<1>3. product' = Wrote(q)
  BY DEF FinishApply, Wrote, Chosen
<1>4. campaign' = [campaign EXCEPT ![c].written = written, ![c].applied = applied,
                                   ![c].removed = removed, ![c].filtered = filtered]
  BY DEF FinishApply, Chosen
<1>5. written \in [Product -> Discount \cup {Nothing}]
  BY <1>1, <1>2 DEF Written, CampaignRow
<1>6. applied \in BOOLEAN /\ removed \in BOOLEAN /\ filtered \in BOOLEAN
  OBVIOUS
<1>7. campaign \in [Campaign -> CampaignRow \cup {Nothing}]
  BY DEF ShopInv, ShopTypeOK
<1> HIDE DEF q, c, written, applied, removed, filtered
<1>8. campaign' = [campaign EXCEPT ![c] = row]
  BY <1>1, <1>2, <1>4, <1>7 DEF CampaignRow
<1>9. /\ row \in CampaignRow
      /\ row.discount = campaign[c].discount /\ row.ids = campaign[c].ids
      /\ row.written = written /\ row.applied = applied /\ row.removed = removed
      /\ row.filtered = filtered
  BY <1>2, <1>5, <1>6 DEF CampaignRow
<1> HIDE DEF row
<1>10. Recorded(c, q, row)
  BY <1>9 DEF Recorded, written, applied, removed, filtered
<1> QED
  BY <1>1, <1>3, <1>8, <1>10 DEF q, c

LEMMA ApplyInv ==
    ASSUME ShopInv, NEW r \in Request, FinishApply(r)
    PROVE  ShopInv'
<1> DEFINE q == request[r]
           c == q.campaign
<1>1. RequestsAsked' /\ changes' \in 0..MaxChanges /\ UNCHANGED <<term, changes>>
  BY DoneKept DEF FinishApply, ShopInv, ShopTypeOK
<1>2. CASE Exists(c)
  <2>1. c \in Campaign /\ q.discount \in Discount /\ product' = Wrote(q)
    BY <1>2, ApplyWrites
  <2>2. PICK row : Recorded(c, q, row) /\ campaign' = [campaign EXCEPT ![c] = row]
    BY <1>2, ApplyWrites
  <2>3. campaign' \in [Campaign -> CampaignRow \cup {Nothing}]
    <3> HIDE DEF c, q
    <3> QED
      BY <2>1, <2>2 DEF Recorded, ShopInv, ShopTypeOK
  <2>4. Sold'
    <3> DEFINE new(p) == [product[p] EXCEPT !.discount = q.discount, !.by = c]
    <3>1. ASSUME NEW p \in Product, There(p), WellFormed(q.discount)
          PROVE  new(p) \in ProductRow /\ Sellable(new(p))
      <4>1. product[p] \in ProductRow
        BY <3>1 DEF ShopInv, Sold, There
      <4> HIDE DEF q, c
      <4> QED
        BY <2>1, <3>1, <4>1, Rediscounted
    <3> DEFINE f == Wrote(q)
    <3>2. \A p \in Product : f[p] = IF p \in Chosen(q) THEN new(p) ELSE product[p]
      BY DEF Wrote
    <3>3. f = [p \in Product |-> f[p]]
      BY DEF Wrote
    <3>4. \A p \in Chosen(q) : There(p) /\ WellFormed(q.discount)
      BY DEF Chosen
    <3> HIDE DEF new, f, q
    <3>5. \A p \in Product : f[p] \in ProductRow \cup {Nothing} /\ Sellable(f[p])
      BY <3>1, <3>2, <3>4 DEF ShopInv, Sold
    <3> QED
      BY <2>1, <3>3, <3>5, SoldAll DEF f
  <2> QED
    BY <1>1, <2>3, <2>4 DEF ShopInv, ShopTypeOK, Sold
<1>3. CASE ~Exists(c)
  <2>1. UNCHANGED <<product, campaign>>
    BY <1>3 DEF FinishApply
  <2> QED
    BY <1>1, <2>1 DEF ShopInv, ShopTypeOK, Sold, Sellable
<1> QED
  BY <1>2, <1>3

LEMMA DirectCampaignInv ==
    ASSUME ShopInv, ShopAssumption, NEW r \in Request, NEW c \in Campaign,
           \/ \E d \in Offer, ids \in SUBSET Product : CreateCampaign(r, c, d, ids)
           \/ RemoveCampaign(r, c) \/ DeleteCampaign(r, c)
    PROVE  ShopInv'
<1>1. changes < MaxChanges /\ changes' = changes + 1 /\ UNCHANGED <<term, request>>
  BY DEF CreateCampaign, RemoveCampaign, DeleteCampaign, Free
<1>2. RequestsAsked' /\ changes' \in 0..MaxChanges
  BY <1>1, RequestsStay, Counted
<1>3. campaign \in [Campaign -> CampaignRow \cup {Nothing}]
  BY DEF ShopInv, ShopTypeOK
<1>4. ASSUME NEW d \in Offer, NEW ids \in SUBSET Product, CreateCampaign(r, c, d, ids)
      PROVE  ShopInv'
  <2>1. d \in Discount
    BY DEF Offer
  <2>2. [there |-> TRUE, discount |-> d, ids |-> ids, applied |-> FALSE, removed |-> FALSE,
         filtered |-> FALSE, written |-> [p \in Product |-> Nothing]] \in CampaignRow
    BY <2>1 DEF CampaignRow
  <2>3. campaign' \in [Campaign -> CampaignRow \cup {Nothing}]
    BY <1>3, <1>4, <2>2 DEF CreateCampaign
  <2> QED
    BY <1>2, <1>4, <2>3, WithCampaigns DEF CreateCampaign
\* Rows that are replaced or not: the discount is cleared, or the row says Nobody.
<1>5. ASSUME NEW S, NEW d \in Discount, WellFormed(d),
             product' = [p \in Product |->
                 IF p \in S /\ There(p) THEN [product[p] EXCEPT !.discount = d, !.by = Nobody]
                 ELSE product[p]]
      PROVE  Sold'
  <2> DEFINE new(p) == [product[p] EXCEPT !.discount = d, !.by = Nobody]
             f == [p \in Product |-> IF p \in S /\ There(p) THEN new(p) ELSE product[p]]
  <2>1. ASSUME NEW p \in Product, There(p) PROVE new(p) \in ProductRow /\ Sellable(new(p))
    <3>1. product[p] \in ProductRow
      BY <2>1 DEF ShopInv, Sold, There
    <3> QED
      BY <1>5, <3>1, Rediscounted
  <2>2. product' = [p \in Product |-> f[p]]
    BY <1>5
  <2>3. \A p \in Product : f[p] \in ProductRow \cup {Nothing} /\ Sellable(f[p])
    <3> HIDE DEF new
    <3> QED
      BY <2>1 DEF ShopInv, Sold
  <2> HIDE DEF f
  <2> QED
    BY <2>2, <2>3, SoldAll
<1>6. CASE RemoveCampaign(r, c)
  <2> DEFINE recorded == {p \in Product : campaign[c].written[p] /= Nothing}
             same == {p \in recorded : There(p) /\ product[p].discount = campaign[c].written[p]}
             removed == campaign[c].removed \/ (recorded /= {} /\ \A p \in recorded : There(p))
  <2>1. campaign' = [campaign EXCEPT ![c].removed = removed]
    BY <1>6 DEF RemoveCampaign
  <2>2. campaign' \in [Campaign -> CampaignRow \cup {Nothing}]
    <3>1. removed \in BOOLEAN
      OBVIOUS
    <3>2. campaign[c] \in CampaignRow
      BY <1>3, <1>6 DEF RemoveCampaign, Exists
    <3> HIDE DEF removed
    <3> QED
      BY <1>3, <2>1, <3>1, <3>2 DEF CampaignRow
  <2>3. product' = [p \in Product |->
            IF p \in same /\ There(p) THEN [product[p] EXCEPT !.discount = NoDiscount, !.by = Nobody]
            ELSE product[p]]
    BY <1>6 DEF RemoveCampaign
  <2> HIDE DEF same
  <2>4. Sold'
    BY <1>5, <2>3, NoDiscountFine
  <2> QED
    BY <1>1, <1>2, <2>2, <2>4 DEF ShopInv, ShopTypeOK, Sold
<1>7. CASE DeleteCampaign(r, c)
  <2>1. campaign' \in [Campaign -> CampaignRow \cup {Nothing}]
    BY <1>3, <1>7 DEF DeleteCampaign
  <2> DEFINE new(p) == [product[p] EXCEPT !.by = Nobody]
             f == [p \in Product |-> IF There(p) /\ product[p].by = c THEN new(p) ELSE product[p]]
  <2>2. ASSUME NEW p \in Product, There(p) PROVE new(p) \in ProductRow /\ Sellable(new(p))
    <3>1. product[p] \in ProductRow /\ WellFormed(product[p].discount)
      BY <2>2 DEF ShopInv, Sold, Sellable, There
    <3> QED
      BY <3>1 DEF ProductRow, Sellable
  <2>3. product' = [p \in Product |-> f[p]]
    BY <1>7 DEF DeleteCampaign
  <2>4. \A p \in Product : f[p] \in ProductRow \cup {Nothing} /\ Sellable(f[p])
    <3> HIDE DEF new
    <3> QED
      BY <2>2 DEF ShopInv, Sold
  <2> HIDE DEF f
  <2>5. Sold'
    BY <2>3, <2>4, SoldAll
  <2> QED
    BY <1>1, <1>2, <2>1, <2>5 DEF ShopInv, ShopTypeOK, Sold
<1> QED
  BY <1>4, <1>6, <1>7

LEMMA ShopInit == ASSUME Init PROVE ShopInv
<1> PICK t \in Type :
        product = [p \in Product |->
            [there |-> TRUE, type |-> t, category |-> {}, labels |-> {}, active |-> TRUE,
             stock |-> MaxStock, discount |-> NoDiscount, by |-> Nobody]]
  BY DEF Init
<1> DEFINE row == [there |-> TRUE, type |-> t, category |-> {}, labels |-> {}, active |-> TRUE,
                   stock |-> MaxStock, discount |-> NoDiscount, by |-> Nobody]
<1>1. row \in ProductRow /\ Sellable(row)
  BY NoDiscountFine, ShopAssumption DEF ProductRow, Sellable, ShopAssumption
<1>2. Asked(Idle)
  BY DEF Asked, Idle
<1> HIDE DEF row
<1>3. Sold
  BY <1>1 DEF Sold, row
<1>4. RequestsAsked
  BY <1>2 DEF Init, RequestsAsked
<1>5. /\ term \in [Term -> {"none", "active", "inactive"}]
      /\ campaign \in [Campaign -> CampaignRow \cup {Nothing}]
      /\ changes \in 0..MaxChanges
  BY ShopAssumption DEF Init, ShopAssumption
<1> QED
  BY <1>3, <1>4, <1>5 DEF ShopInv, ShopTypeOK, Sold

LEMMA ShopStep == ASSUME ShopInv, [Next]_vars PROVE ShopInv'
<1> USE ShopAssumption
<1>1. CASE TermNext
  BY <1>1, TermStepInv
<1>2. CASE ProductNext
  BY <1>2, StartProductInv, CreateImportInv, UpdateInv, DirectProductInv DEF ProductNext
<1>3. CASE CampaignNext
  BY <1>3, StartCampaignInv, EditInv, ApplyInv, DirectCampaignInv DEF CampaignNext
<1>4. CASE \E p \in Product, stock \in 0..MaxStock : MoveStock(p, stock)
  BY <1>4, DirectProductInv
<1>5. CASE UNCHANGED vars
  BY <1>5, RequestsStay DEF vars, ShopInv, ShopTypeOK, Sold, Sellable
<1> QED
  BY <1>1, <1>2, <1>3, <1>4, <1>5 DEF Next

\* The other parts of the shop front leave the catalogue alone.
LEMMA ShopRefined ==
    ASSUME [Selling \/ Visiting \/ Limiting]_everything
    PROVE  [Next]_vars
  BY DEF Selling, Visiting, Limiting, everything

LEMMA ShopInvariant == StorefrontSpec => []ShopInv
<1>1. StorefrontInit => ShopInv
  BY ShopInit DEF StorefrontInit
<1>2. ShopInv /\ [Selling \/ Visiting \/ Limiting]_everything => ShopInv'
  BY ShopStep, ShopRefined
<1> QED
  BY <1>1, <1>2, PTL DEF StorefrontSpec

\* The catalogue's rows have their types (products, taxonomy, campaigns).
THEOREM ShopTypeCorrect == StorefrontSpec => []ShopTypeOK
<1>1. ShopInv => ShopTypeOK
  BY DEF ShopInv
<1> QED
  BY <1>1, ShopInvariant, PTL

\* However many admin requests interleave, patch, import and apply: a discount
\* is either none at all or has a window that ends after it starts.
THEOREM DiscountsStayWellFormed == StorefrontSpec => []DiscountsWellFormed
<1>1. ShopInv => DiscountsWellFormed
  BY DEF ShopInv, Sold, Sellable, There, DiscountsWellFormed
<1> QED
  BY <1>1, ShopInvariant, PTL

-----------------------------------------------------------------------------
(* A term a product refers to goes away only under a request that was      *)
(* overtaken.                                                              *)

Exist(S) == \A t \in S \cap Term : term[t] /= "none"

TermsOf(row) == {row.type} \cup row.category \cup row.labels

\* What a request about terms has checked, and its write takes for granted.
Holds(q) ==
    /\ q.op = "create" => Exist({q.type} \cup q.category \cup q.labels)
    /\ q.op = "import" => /\ Exist(q.type \cup q.category \cup UNION q.labels)
                          /\ There(q.product) \/ q.type /= {}
    /\ q.op = "retype" => Exist({q.type})
    /\ q.op = "recategorize" => Exist(q.category)
    /\ q.op = "relabel" => Exist(q.labels)
    /\ q.op = "drop" => ~Referenced(q.term)

\* A request ends whose checks no longer hold.
EndsOvertaken(r) == request[r] /= Idle /\ Done(r) /\ ~Holds(request[r])

\* A step after which a product refers to a term that is gone ends such a request.
LostByOvertaken == TermsKnown => TermsKnown' \/ \E r \in Request : EndsOvertaken(r)

LEMMA AllKnown ==
    TermsKnown <=> \A p \in Product : There(p) => Exist(TermsOf(product[p]))
  BY DEF TermsKnown, Referenced, RefersTo, Exist, TermsOf, There

\* A product is as it was, gone, or refers to terms that exist.
LEMMA KnownKept ==
    ASSUME TermsKnown, UNCHANGED term,
           \A p \in Product : \/ product'[p] = product[p]
                              \/ product'[p] = Nothing
                              \/ There(p) /\ TermsOf(product'[p]) = TermsOf(product[p])
                              \/ Exist(TermsOf(product'[p]))
    PROVE  TermsKnown'
<1>1. \A p \in Product : There(p) => Exist(TermsOf(product[p]))
  BY AllKnown
<1>2. ASSUME NEW p \in Product, product'[p] /= Nothing
      PROVE  \A t \in TermsOf(product'[p]) \cap Term : term[t] /= "none"
  BY <1>1, <1>2 DEF Exist, There
<1> QED
  BY <1>2 DEF TermsKnown, Referenced, RefersTo, There, TermsOf

LEMMA SameKnown ==
    ASSUME TermsKnown, UNCHANGED <<term, product>>
    PROVE  TermsKnown'
  BY DEF TermsKnown, Referenced, RefersTo, There

LEMMA AskKnown ==
    ASSUME TermsKnown, NEW r, NEW q, Ask(r, q)
    PROVE  TermsKnown'
  BY SameKnown DEF Ask

LEMMA TermStepKnown ==
    ASSUME ShopInv, TermsKnown, TermNext, \A r \in Request : ~EndsOvertaken(r)
    PROVE  TermsKnown'
<1> PICK r \in Request :
        \/ \E t \in Term : \/ CreateTerm(r, t) \/ StartRetire(r, t)
                           \/ StartRevive(r, t) \/ StartDeleteTerm(r, t)
        \/ FinishUpdateTerm(r) \/ FinishDeleteTerm(r)
  BY DEF TermNext
<1>0. term \in [Term -> {"none", "active", "inactive"}]
  BY DEF ShopInv, ShopTypeOK
<1>1. ASSUME NEW t \in Term, CreateTerm(r, t) PROVE TermsKnown'
  BY <1>0, <1>1 DEF CreateTerm, TermsKnown, Referenced, RefersTo, There
<1>2. ASSUME NEW t \in Term, StartRetire(r, t) \/ StartRevive(r, t) \/ StartDeleteTerm(r, t)
      PROVE  TermsKnown'
  BY <1>2, AskKnown DEF StartRetire, StartRevive, StartDeleteTerm
<1>3. CASE FinishUpdateTerm(r)
  BY <1>0, <1>3 DEF FinishUpdateTerm, TermsKnown, Referenced, RefersTo, There
<1>4. CASE FinishDeleteTerm(r)
  <2>1. ~Referenced(request[r].term)
    <3>1. request[r].op = "drop" /\ Done(r)
      BY <1>4 DEF FinishDeleteTerm
    <3>2. request[r] /= Idle
      BY <3>1 DEF Idle
    <3>3. Holds(request[r])
      BY <3>1, <3>2 DEF EndsOvertaken
    <3> QED
      BY <3>1, <3>3 DEF Holds
  <2> QED
    BY <1>0, <1>4, <2>1 DEF FinishDeleteTerm, TermsKnown, Referenced, RefersTo, There
<1> QED
  BY <1>1, <1>2, <1>3, <1>4

LEMMA FinishProductKnown ==
    ASSUME ShopInv, TermsKnown, NEW r \in Request, ~EndsOvertaken(r),
           FinishCreate(r) \/ FinishImport(r) \/ FinishUpdate(r)
    PROVE  TermsKnown'
<1> DEFINE q == request[r]
           p == q.product
<1>2. Holds(q) /\ Asked(q) /\ UNCHANGED term
  BY DEF EndsOvertaken, Idle, ShopInv, RequestsAsked, FinishCreate, FinishImport, FinishUpdate
<1>3. product = [x \in Product |-> product[x]]
  BY DEF ShopInv, Sold
<1>4. \A x \in Product : There(x) => Exist(TermsOf(product[x]))
  BY AllKnown
<1>5. ASSUME NEW row, Exist(TermsOf(row)), p \in Product,
             product' = product \/ product' = [product EXCEPT ![p] = row]
      PROVE  TermsKnown'
  <2> HIDE DEF q, p
  <2>1. \A x \in Product : \/ product'[x] = product[x]
                           \/ Exist(TermsOf(product'[x]))
    BY <1>3, <1>5
  <2> QED
    BY <2>1, <1>2, KnownKept
<1>6. CASE FinishCreate(r)
  <2> DEFINE row == NewRow(q.type, q.category, q.labels, q.discount)
  <2>1. Exist(TermsOf(row))
    BY <1>2, <1>6 DEF FinishCreate, Holds, TermsOf, NewRow
  <2>2. p \in Product /\ (product' = product \/ product' = [product EXCEPT ![p] = row])
    BY <1>2, <1>6 DEF FinishCreate, Asked
  <2> HIDE DEF row
  <2> QED
    BY <1>5, <2>1, <2>2
<1>7. CASE FinishImport(r)
  <2>1. /\ Exist(q.type \cup q.category \cup UNION q.labels) /\ (There(p) \/ q.type /= {})
        /\ p \in Product /\ q.type \in Optional(Type) /\ q.labels \in Optional(SUBSET Label)
    BY <1>2, <1>7 DEF FinishImport, Holds, Asked
  <2>2. ASSUME NEW old
        PROVE  /\ \/ q.type = {} /\ Given(q.type, old) = old
                  \/ q.type = {Given(q.type, old)} /\ Exist({Given(q.type, old)})
               /\ \/ q.labels = {} /\ Given(q.labels, old) = old
                  \/ Given(q.labels, old) = UNION q.labels
    <3> HIDE DEF q
    <3>1. \/ q.type = {} /\ Given(q.type, old) = old
          \/ q.type = {Given(q.type, old)}
      BY <2>1, GivenOne
    <3>2. \/ q.labels = {} /\ Given(q.labels, old) = old
          \/ q.labels = {Given(q.labels, old)}
      BY <2>1, GivenOne
    <3> QED
      BY <2>1, <3>1, <3>2 DEF Exist
  <2>3. CASE There(p)
    <3> DEFINE category == IF q.category = {} THEN product[p].category ELSE q.category
               row == [product[p] EXCEPT !.type = Given(q.type, product[p].type),
                                         !.category = category,
                                         !.labels = Given(q.labels, product[p].labels)]
    <3>1. /\ row.type = Given(q.type, product[p].type)
          /\ row.category = category
          /\ row.labels = Given(q.labels, product[p].labels)
      BY <2>1, <2>3 DEF ShopInv, Sold, There, ProductRow
    <3>2. Exist(TermsOf(row))
      <4> HIDE DEF row
      <4>1. category \subseteq product[p].category \cup q.category
        OBVIOUS
      <4> HIDE DEF q, category
      <4> QED
        BY <1>4, <2>1, <2>2, <2>3, <3>1, <4>1 DEF Exist, TermsOf
    <3>3. product' = product \/ product' = [product EXCEPT ![p] = row]
      BY <1>7, <2>3 DEF FinishImport
    <3> HIDE DEF row
    <3> QED
      BY <1>5, <2>1, <3>2, <3>3
  <2>4. CASE ~There(p)
    <3> DEFINE type == Given(q.type, CHOOSE t \in Type : TRUE)
               row == NewRow(type, q.category, UNION q.labels, NoDiscount)
    <3>1. Exist(TermsOf(row))
      BY <2>1, <2>2, <2>4 DEF Exist, TermsOf, NewRow
    <3>2. product' = product \/ product' = [product EXCEPT ![p] = row]
      BY <1>7, <2>4 DEF FinishImport
    <3> HIDE DEF row
    <3> QED
      BY <1>5, <2>1, <3>1, <3>2
  <2> QED
    BY <2>3, <2>4
<1>8. CASE FinishUpdate(r)
  <2>1. q.op \in {"retype", "recategorize", "relabel", "discount", "restock", "show"}
        /\ p \in Product
    BY <1>2, <1>8 DEF FinishUpdate, Asked
  <2> DEFINE row == Updated(q)
  <2>2. product' = product \/ (There(p) /\ product' = [product EXCEPT ![p] = row])
    BY <1>8 DEF FinishUpdate
  <2>3. ASSUME There(p) PROVE Exist(TermsOf(row))
    <3>1. product[p] \in ProductRow /\ Exist(TermsOf(product[p]))
      BY <1>4, <2>1, <2>3 DEF ShopInv, Sold, There
    <3>2. CASE q.op = "retype"
      BY <1>2, <3>1, <3>2 DEF Updated, Holds, Exist, TermsOf, ProductRow
    <3>3. CASE q.op = "recategorize"
      BY <1>2, <3>1, <3>3 DEF Updated, Holds, Exist, TermsOf, ProductRow
    <3>4. CASE q.op = "relabel"
      BY <1>2, <3>1, <3>4 DEF Updated, Holds, Exist, TermsOf, ProductRow
    <3>5. CASE q.op \in {"discount", "restock", "show"}
      BY <3>1, <3>5 DEF Updated, TermsOf, ProductRow
    <3> QED
      BY <2>1, <3>2, <3>3, <3>4, <3>5
  <2> HIDE DEF row
  <2>4. CASE product' = product
    BY <1>2, <2>4, SameKnown
  <2> QED
    BY <1>5, <2>1, <2>2, <2>3, <2>4
<1> QED
  BY <1>6, <1>7, <1>8

LEMMA DirectProductKnown ==
    ASSUME ShopInv, TermsKnown, NEW r \in Request,
           \/ \E p \in Product : DeleteProduct(r, p)
           \/ \E P \in SUBSET Product, d \in Offer \cup {NoDiscount} : BulkDiscount(r, P, d)
    PROVE  TermsKnown'
<1>1. UNCHANGED term
  BY DEF DeleteProduct, BulkDiscount
<1>2. product \in [Product -> ProductRow \cup {Nothing}]
  BY DEF ShopInv, Sold
<1>3. \A p \in Product : \/ product'[p] = product[p]
                         \/ product'[p] = Nothing
                         \/ There(p) /\ TermsOf(product'[p]) = TermsOf(product[p])
  <2>1. CASE \E p \in Product : DeleteProduct(r, p)
    BY <1>2, <2>1 DEF DeleteProduct
  <2>2. ASSUME NEW P \in SUBSET Product, NEW d \in Offer \cup {NoDiscount}, BulkDiscount(r, P, d),
               NEW p \in Product
        PROVE  \/ product'[p] = product[p]
               \/ There(p) /\ TermsOf(product'[p]) = TermsOf(product[p])
    BY <1>2, <2>2 DEF BulkDiscount, There, TermsOf, ProductRow
  <2> QED
    BY <2>1, <2>2
<1> QED
  BY <1>1, <1>3, KnownKept

LEMMA MoveKnown ==
    ASSUME ShopInv, TermsKnown, NEW p \in Product, NEW stock \in 0..MaxStock, MoveStock(p, stock)
    PROVE  TermsKnown'
<1>1. product \in [Product -> ProductRow \cup {Nothing}]
  BY DEF ShopInv, Sold
<1>2. \A x \in Product : \/ product'[x] = product[x]
                         \/ There(x) /\ TermsOf(product'[x]) = TermsOf(product[x])
  BY <1>1 DEF MoveStock, There, TermsOf, ProductRow
<1> QED
  BY <1>2, KnownKept DEF MoveStock

LEMMA CampaignKnown ==
    ASSUME ShopInv, TermsKnown, CampaignNext
    PROVE  TermsKnown'
<1> PICK r \in Request :
        \/ \E c \in Campaign :
            \/ \E discount \in Offer, ids \in SUBSET Product :
                   CreateCampaign(r, c, discount, ids)
            \/ \E patch \in Patch : StartEdit(r, c, patch, {})
            \/ \E ids \in SUBSET Product : StartEdit(r, c, Unpatched, {ids})
            \/ StartApply(r, c) \/ RemoveCampaign(r, c) \/ DeleteCampaign(r, c)
        \/ FinishEdit(r) \/ FinishApply(r)
  BY DEF CampaignNext
<1>1. product \in [Product -> ProductRow \cup {Nothing}]
  BY DEF ShopInv, Sold
<1>3. ASSUME NEW c \in Campaign, NEW patch, NEW targets,
             StartEdit(r, c, patch, targets) \/ StartApply(r, c)
      PROVE  TermsKnown'
  BY <1>3, AskKnown DEF StartEdit, StartApply
<1>4. ASSUME \/ FinishEdit(r) \/ FinishApply(r)
             \/ \E c \in Campaign :
                   \/ \E discount \in Offer, ids \in SUBSET Product :
                          CreateCampaign(r, c, discount, ids)
                   \/ RemoveCampaign(r, c) \/ DeleteCampaign(r, c)
      PROVE  TermsKnown'
  <2>1. UNCHANGED term
    BY <1>4 DEF FinishEdit, FinishApply, CreateCampaign, RemoveCampaign, DeleteCampaign
  <2>2. ASSUME NEW p \in Product
        PROVE  \/ product'[p] = product[p]
               \/ There(p) /\ TermsOf(product'[p]) = TermsOf(product[p])
    <3>1. CASE FinishEdit(r) \/ \E c \in Campaign, d \in Offer, ids \in SUBSET Product :
                                    CreateCampaign(r, c, d, ids)
      BY <3>1 DEF FinishEdit, CreateCampaign
    <3>2. CASE FinishApply(r)
      <4> DEFINE row == [product[p] EXCEPT !.discount = request[r].discount,
                                           !.by = request[r].campaign]
      <4>1. product'[p] = product[p] \/ (There(p) /\ product'[p] = row)
        BY <1>1, <3>2 DEF FinishApply
      <4>2. There(p) => TermsOf(row) = TermsOf(product[p])
        BY <1>1 DEF There, TermsOf, ProductRow
      <4> HIDE DEF row
      <4> QED
        BY <4>1, <4>2
    <3>3. CASE \E c \in Campaign : RemoveCampaign(r, c) \/ DeleteCampaign(r, c)
      <4> DEFINE cleared == [product[p] EXCEPT !.discount = NoDiscount, !.by = Nobody]
                 disowned == [product[p] EXCEPT !.by = Nobody]
      <4>1. \/ product'[p] = product[p]
            \/ There(p) /\ product'[p] \in {cleared, disowned}
        BY <3>3 DEF RemoveCampaign, DeleteCampaign
      <4>2. There(p) => /\ TermsOf(cleared) = TermsOf(product[p])
                        /\ TermsOf(disowned) = TermsOf(product[p])
        BY <1>1 DEF There, TermsOf, ProductRow
      <4> HIDE DEF cleared, disowned
      <4> QED
        BY <4>1, <4>2
    <3> QED
      BY <1>4, <3>1, <3>2, <3>3
  <2> QED
    BY <2>1, <2>2, KnownKept
<1> QED
  BY <1>3, <1>4

LEMMA StartProductKnown ==
    ASSUME TermsKnown, NEW r \in Request, NEW p \in Product,
           \/ \E type \in Type, category \in Optional(Category), labels \in SUBSET Label,
                 discount \in Offer \cup {NoDiscount} :
                  StartCreate(r, p, type, category, labels, discount)
           \/ ImportRow(r, p)
           \/ \E type \in Type : StartRetype(r, p, type)
           \/ \E category \in Optional(Category) : StartRecategorize(r, p, category)
           \/ \E labels \in SUBSET Label : StartRelabel(r, p, labels)
           \/ \E patch \in Patch : StartDiscount(r, p, patch)
           \/ \E stock \in 0..MaxStock : StartRestock(r, p, stock)
           \/ \E visible \in BOOLEAN : StartShow(r, p, visible)
    PROVE  TermsKnown'
<1>1. \E q : Ask(r, q)
  BY DEF StartCreate, ImportRow, StartImport, StartRetype, StartRecategorize, StartRelabel,
         StartDiscount, StartRestock, StartShow
<1> QED
  BY <1>1, AskKnown

LEMMA TermsStep ==
    ASSUME ShopInv, TermsKnown, [Next]_vars, \A r \in Request : ~EndsOvertaken(r)
    PROVE  TermsKnown'
<1>1. CASE TermNext
  BY <1>1, TermStepKnown
<1>2. CASE ProductNext
  BY <1>2, StartProductKnown, FinishProductKnown, DirectProductKnown DEF ProductNext
<1>3. CASE CampaignNext
  BY <1>3, CampaignKnown
<1>4. CASE \E p \in Product, stock \in 0..MaxStock : MoveStock(p, stock)
  BY <1>4, MoveKnown
<1>5. CASE UNCHANGED vars
  BY <1>5, SameKnown DEF vars
<1> QED
  BY <1>1, <1>2, <1>3, <1>4, <1>5 DEF Next

\* However many admin requests overlap, a product is left with a term that is
\* gone in one way only: a request writes after another one has undone what it
\* checked (a term it gives was deleted, or the term it deletes is used again).
\* No deletion, import, archiving, label or campaign does it otherwise, and an
\* archived product counts as a use.
THEOREM OnlyOvertakenLosesTerms == StorefrontSpec => [][LostByOvertaken]_everything
<1>1. ShopInv /\ [Selling \/ Visiting \/ Limiting]_everything => LostByOvertaken
  BY TermsStep, ShopRefined DEF LostByOvertaken
<1>2. ShopInv /\ [Selling \/ Visiting \/ Limiting]_everything => [LostByOvertaken]_everything
  BY <1>1
<1> QED
  BY <1>2, ShopInvariant, PTL DEF StorefrontSpec

-----------------------------------------------------------------------------
(* One admin request at a time: what a campaign wrote can be taken back.   *)

\* One process serves admin requests on its event loop, each to its end.
OneRequest == \A r, s \in Request : r = s

\* A product whose discount a campaign wrote last is one the live campaign
\* names, with its discount, on record.
Wears(c, p, row, camp) ==
    row /= Nothing /\ row.by = c =>
        /\ camp /= Nothing
        /\ ~camp.filtered =>
              /\ camp.applied /\ ~camp.removed
              /\ p \in camp.ids
              /\ camp.discount = row.discount
              /\ camp.written[p] = row.discount

Worn == \A c \in Campaign, p \in Product : Wears(c, p, product[p], campaign[c])

\* What a request read of a campaign is so until it writes.
Current(q) ==
    /\ q.op = "apply" =>
           /\ Exists(q.campaign)
           /\ q.discount = campaign[q.campaign].discount
           /\ q.filter <=> Dynamic(q.campaign)
           /\ ~q.filter => q.targets = campaign[q.campaign].ids
    /\ q.op = "edit" => Exists(q.campaign) /\ ~Live(q.campaign)

AllCurrent == \A r \in Request : Current(request[r])

TraceInv == ShopInv /\ Worn /\ AllCurrent

LEMMA CurrentAsks ==
    ASSUME TraceInv, OneRequest, NEW r \in Request, NEW q, Ask(r, q), Current(q)
    PROVE  Worn' /\ AllCurrent'
<1>1. Current(q)'
  BY DEF Ask, Current, Exists, Dynamic, Live
<1>2. \A x \in Request : request'[x] = q
  BY DEF OneRequest, Ask, TraceInv, ShopInv, RequestsAsked
<1>3. Worn'
  BY DEF Ask, TraceInv, Worn
<1> QED
  BY <1>1, <1>2, <1>3 DEF TraceInv, AllCurrent

LEMMA CurrentEnds ==
    ASSUME TraceInv, OneRequest, NEW r \in Request,
           Done(r) \/ (Free(r) /\ UNCHANGED request)
    PROVE  AllCurrent'
<1>1. \A x \in Request : request'[x] = Idle
  BY DEF OneRequest, Done, Free, TraceInv, ShopInv, RequestsAsked
<1>2. Current(Idle)'
  BY DEF Current, Idle
<1> QED
  BY <1>1, <1>2 DEF AllCurrent

\* A product is as it was, gone, nobody's, or has the discount it had.
LEMMA WornProducts ==
    ASSUME Worn, ShopAssumption, UNCHANGED campaign,
           \A p \in Product : \/ product'[p] \in {product[p], Nothing}
                              \/ product'[p].by = Nobody
                              \/ /\ There(p)
                                 /\ product'[p].by = product[p].by
                                 /\ product'[p].discount = product[p].discount
    PROVE  Worn'
<1>1. \A c \in Campaign, p \in Product : Wears(c, p, product'[p], campaign[c])
  BY DEF Worn, Wears, There, ShopAssumption
<1> QED
  BY <1>1 DEF Worn

LEMMA FinishProductWorn ==
    ASSUME TraceInv, ShopAssumption, NEW r \in Request,
           FinishCreate(r) \/ FinishImport(r) \/ FinishUpdate(r)
    PROVE  Worn'
<1> DEFINE q == request[r]
           p == q.product
<1>1. Asked(q) /\ UNCHANGED campaign
  BY DEF TraceInv, ShopInv, RequestsAsked, FinishCreate, FinishImport, FinishUpdate
<1>2. product \in [Product -> ProductRow \cup {Nothing}]
  BY DEF TraceInv, ShopInv, Sold
<1>3. ASSUME NEW row, p \in Product,
             product' = product \/ product' = [product EXCEPT ![p] = row],
             \/ row.by = Nobody
             \/ There(p) /\ row.by = product[p].by /\ row.discount = product[p].discount
      PROVE  Worn'
  <2> HIDE DEF p
  <2>1. \A x \in Product : \/ product'[x] \in {product[x], Nothing}
                           \/ product'[x].by = Nobody
                           \/ /\ There(x)
                              /\ product'[x].by = product[x].by
                              /\ product'[x].discount = product[x].discount
    BY <1>2, <1>3
  <2> QED
    BY <1>1, <2>1, WornProducts DEF TraceInv
<1>4. CASE FinishCreate(r)
  <2> DEFINE row == NewRow(q.type, q.category, q.labels, q.discount)
  <2>1. p \in Product /\ row.by = Nobody
        /\ (product' = product \/ product' = [product EXCEPT ![p] = row])
    BY <1>1, <1>4 DEF FinishCreate, Asked, NewRow
  <2> HIDE DEF row
  <2> QED
    BY <1>3, <2>1
<1>5. CASE FinishImport(r)
  <2>1. p \in Product
    BY <1>1, <1>5 DEF FinishImport, Asked
  <2>2. CASE There(p)
    <3> DEFINE category == IF q.category = {} THEN product[p].category ELSE q.category
               row == [product[p] EXCEPT !.type = Given(q.type, product[p].type),
                                         !.category = category,
                                         !.labels = Given(q.labels, product[p].labels)]
    <3>1. row.by = product[p].by /\ row.discount = product[p].discount
      BY <1>2, <2>1, <2>2 DEF There, ProductRow
    <3>2. product' = product \/ product' = [product EXCEPT ![p] = row]
      BY <1>5, <2>2 DEF FinishImport
    <3> HIDE DEF row
    <3> QED
      BY <1>3, <2>1, <2>2, <3>1, <3>2
  <2>3. CASE ~There(p)
    <3> DEFINE row == NewRow(Given(q.type, CHOOSE t \in Type : TRUE), q.category, UNION q.labels,
                             NoDiscount)
    <3>1. row.by = Nobody /\ (product' = product \/ product' = [product EXCEPT ![p] = row])
      BY <1>5, <2>3 DEF FinishImport, NewRow
    <3> HIDE DEF row
    <3> QED
      BY <1>3, <2>1, <3>1
  <2> QED
    BY <2>2, <2>3
<1>6. CASE FinishUpdate(r)
  <2>1. p \in Product
        /\ q.op \in {"retype", "recategorize", "relabel", "discount", "restock", "show"}
    BY <1>1, <1>6 DEF FinishUpdate, Asked
  <2> DEFINE row == Updated(q)
  <2>2. product' = product \/ (There(p) /\ product' = [product EXCEPT ![p] = row])
    BY <1>6 DEF FinishUpdate
  <2>3. ASSUME There(p)
        PROVE  \/ row.by = Nobody
               \/ row.by = product[p].by /\ row.discount = product[p].discount
    <3>1. product[p] \in ProductRow
      BY <1>2, <2>1, <2>3 DEF There
    <3>2. CASE q.op = "discount"
      BY <3>1, <3>2 DEF Updated, ProductRow
    <3>3. CASE q.op \in {"retype", "recategorize", "relabel", "restock", "show"}
      BY <3>1, <3>3 DEF Updated, ProductRow
    <3> QED
      BY <2>1, <3>2, <3>3
  <2> HIDE DEF row
  <2>4. CASE product' = product
    BY <1>1, <2>4, WornProducts DEF TraceInv
  <2> QED
    BY <1>3, <2>1, <2>2, <2>3, <2>4
<1> QED
  BY <1>4, <1>5, <1>6

LEMMA DirectProductWorn ==
    ASSUME TraceInv, ShopAssumption,
           \/ \E r \in Request, p \in Product : DeleteProduct(r, p)
           \/ \E r \in Request, P \in SUBSET Product, d \in Offer \cup {NoDiscount} :
                  BulkDiscount(r, P, d)
           \/ \E p \in Product, stock \in 0..MaxStock : MoveStock(p, stock)
    PROVE  Worn'
<1>1. product \in [Product -> ProductRow \cup {Nothing}] /\ UNCHANGED campaign
  BY DEF TraceInv, ShopInv, Sold, DeleteProduct, BulkDiscount, MoveStock
<1>2. CASE \E r \in Request, p \in Product : DeleteProduct(r, p)
  <2>1. \A x \in Product : product'[x] \in {product[x], Nothing}
    BY <1>1, <1>2 DEF DeleteProduct
  <2> QED
    BY <1>1, <2>1, WornProducts DEF TraceInv
<1>3. ASSUME NEW r \in Request, NEW P \in SUBSET Product, NEW d \in Offer \cup {NoDiscount},
             BulkDiscount(r, P, d)
      PROVE  Worn'
  <2>1. ASSUME NEW x \in Product PROVE product'[x] = product[x] \/ product'[x].by = Nobody
    <3> DEFINE row == [product[x] EXCEPT !.discount = d, !.by = Nobody]
    <3>1. product'[x] = product[x] \/ (There(x) /\ product'[x] = row)
      BY <1>3 DEF BulkDiscount
    <3>2. There(x) => row.by = Nobody
      BY <1>1 DEF There, ProductRow
    <3> HIDE DEF row
    <3> QED
      BY <3>1, <3>2
  <2> QED
    BY <1>1, <2>1, WornProducts DEF TraceInv
<1>4. ASSUME NEW p \in Product, NEW stock \in 0..MaxStock, MoveStock(p, stock) PROVE Worn'
  <2>1. \A x \in Product : \/ product'[x] = product[x]
                           \/ /\ There(x)
                              /\ product'[x].by = product[x].by
                              /\ product'[x].discount = product[x].discount
    BY <1>1, <1>4 DEF MoveStock, There, ProductRow
  <2> QED
    BY <1>1, <2>1, WornProducts DEF TraceInv
<1> QED
  BY <1>2, <1>3, <1>4

LEMMA EditWorn ==
    ASSUME TraceInv, NEW r \in Request, FinishEdit(r)
    PROVE  Worn'
<1> DEFINE q == request[r]
           c == q.campaign
           discount == Merged(campaign[c].discount, q.patch)
           ids == Given(q.targets, campaign[c].ids)
           row == [campaign[c] EXCEPT !.discount = discount, !.ids = ids]
<1>1. Exists(c) /\ ~Live(c) /\ c \in Campaign
  BY DEF FinishEdit, TraceInv, AllCurrent, Current, ShopInv, RequestsAsked, Asked
<1>2. campaign[c] \in CampaignRow /\ campaign \in [Campaign -> CampaignRow \cup {Nothing}]
  BY <1>1 DEF Exists, TraceInv, ShopInv, ShopTypeOK
<1>3. campaign' = [campaign EXCEPT ![c].discount = discount, ![c].ids = ids] /\ UNCHANGED product
  BY <1>1 DEF FinishEdit
<1> HIDE DEF q, c, discount, ids
<1>4. campaign' = [campaign EXCEPT ![c] = row]
  BY <1>1, <1>2, <1>3 DEF CampaignRow
<1>5. row.filtered = campaign[c].filtered /\ row /= Nothing
  <2>1. row.filtered = campaign[c].filtered /\ row.there = TRUE
    BY <1>2 DEF CampaignRow
  <2> QED
    BY <2>1 DEF Nothing
<1> HIDE DEF row
<1>6. \A p \in Product : Wears(c, p, product[p], row)
  BY <1>1, <1>5 DEF TraceInv, Worn, Wears, Live
<1> QED
  BY <1>2, <1>3, <1>4, <1>6 DEF TraceInv, Worn

LEMMA ApplyWorn ==
    ASSUME TraceInv, NEW r \in Request, FinishApply(r)
    PROVE  Worn'
<1> DEFINE q == request[r]
           c == q.campaign
<1>1. Current(q) /\ q.op = "apply"
  BY DEF FinishApply, TraceInv, AllCurrent
<1>2. /\ Exists(c)
      /\ q.discount = campaign[c].discount
      /\ ~q.filter => q.targets = campaign[c].ids
  BY <1>1 DEF Current
<1>3. c \in Campaign /\ q.discount \in Discount /\ product' = Wrote(q)
  BY <1>2, ApplyWrites DEF TraceInv
<1>4. PICK row : Recorded(c, q, row) /\ campaign' = [campaign EXCEPT ![c] = row]
  BY <1>2, ApplyWrites DEF TraceInv
<1>5. /\ campaign \in [Campaign -> CampaignRow \cup {Nothing}] /\ campaign[c] \in CampaignRow
      /\ product \in [Product -> ProductRow \cup {Nothing}]
  BY <1>2, <1>3 DEF TraceInv, ShopInv, ShopTypeOK, Sold, Exists
<1>6. /\ row \in CampaignRow /\ row /= Nothing
      /\ row.discount = campaign[c].discount /\ row.ids = campaign[c].ids
      /\ Chosen(q) = {} => /\ row.written = campaign[c].written
                           /\ row.applied = campaign[c].applied
                           /\ row.removed = campaign[c].removed
                           /\ row.filtered = campaign[c].filtered
      /\ Chosen(q) /= {} =>
             /\ \A p \in Product \cap Chosen(q) : row.written[p] = q.discount
             /\ row.applied /\ ~row.removed
             /\ row.filtered <=> campaign[c].filtered \/ q.filter
  <2> HIDE DEF q, c
  <2>1. row \in CampaignRow /\ row /= Nothing
    BY <1>4, NothingIsNoRow DEF Recorded
  <2>2. /\ row.applied \in BOOLEAN /\ row.removed \in BOOLEAN /\ row.filtered \in BOOLEAN
        /\ campaign[c].applied \in BOOLEAN /\ campaign[c].removed \in BOOLEAN
        /\ campaign[c].filtered \in BOOLEAN
    BY <1>5, <2>1 DEF CampaignRow
  <2> QED
    BY <1>4, <2>1, <2>2 DEF Recorded, Written
<1>7. ASSUME NEW p \in Product
      PROVE  IF p \in Chosen(q)
             THEN /\ product'[p].by = c /\ product'[p].discount = q.discount /\ There(p)
                  /\ p \in q.targets
             ELSE product'[p] = product[p]
  <2> DEFINE new == [product[p] EXCEPT !.discount = q.discount, !.by = c]
  <2>1. product'[p] = IF p \in Chosen(q) THEN new ELSE product[p]
    BY <1>3 DEF Wrote
  <2>2. There(p) => new.by = c /\ new.discount = q.discount
    BY <1>5 DEF There, ProductRow
  <2> HIDE DEF new
  <2>3. p \in Chosen(q) => There(p) /\ p \in q.targets
    BY DEF Chosen
  <2> QED
    BY <2>1, <2>2, <2>3
<1>8. ASSUME NEW p \in Product, NEW k \in Campaign PROVE Wears(k, p, product'[p], campaign'[k])
  <2>0. Wears(k, p, product[p], campaign[k])
    BY DEF TraceInv, Worn
  <2>1. CASE k /= c
    <3>1. campaign'[k] = campaign[k]
      BY <1>4, <1>5, <2>1
    <3> QED
      BY <1>7, <2>0, <2>1, <3>1 DEF Wears
  <2>2. CASE k = c
    <3>1. campaign'[c] = row
      BY <1>3, <1>4, <1>5
    <3>2. CASE p \in Chosen(q)
      BY <1>2, <1>6, <1>7, <2>2, <3>1, <3>2 DEF Wears
    <3>3. CASE p \notin Chosen(q) /\ Chosen(q) = {}
      BY <1>6, <1>7, <2>0, <2>2, <3>1, <3>3 DEF Wears
    \* It names the product and would have written it again.
    <3>4. CASE p \notin Chosen(q) /\ Chosen(q) /= {}
      <4>1. WellFormed(q.discount)
        BY <3>4 DEF Chosen
      <4>2. There(p) /\ product[p].by = c /\ ~campaign[c].filtered /\ ~q.filter => p \in Chosen(q)
        BY <1>2, <2>0, <2>2, <4>1 DEF Chosen, Wears, There
      <4> QED
        BY <1>6, <1>7, <2>2, <3>1, <3>4, <4>2 DEF Wears, There
    <3> QED
      BY <3>2, <3>3, <3>4
  <2> QED
    BY <2>1, <2>2
<1> QED
  BY <1>8 DEF Worn

LEMMA NothingIsNoDiscount == Nothing \notin Discount
<1> SUFFICES ASSUME Nothing \in Discount PROVE FALSE
  OBVIOUS
<1>1. "there" \in DOMAIN Nothing
  BY DEF Nothing
<1>2. DOMAIN Nothing = {"percent", "starts", "ends"}
  BY DEF Discount
<1> QED
  BY <1>1, <1>2

LEMMA DirectCampaignWorn ==
    ASSUME TraceInv, ShopAssumption, NEW r \in Request, NEW c \in Campaign,
           \/ \E d \in Offer, ids \in SUBSET Product : CreateCampaign(r, c, d, ids)
           \/ RemoveCampaign(r, c) \/ DeleteCampaign(r, c)
    PROVE  Worn'
<1>1. /\ campaign \in [Campaign -> CampaignRow \cup {Nothing}]
      /\ product \in [Product -> ProductRow \cup {Nothing}]
      /\ \A p \in Product, k \in Campaign : Wears(k, p, product[p], campaign[k])
  BY DEF TraceInv, ShopInv, ShopTypeOK, Sold, Worn
\* Afterwards the campaign has no product, and the others are as they were.
<1>2. ASSUME \A k \in Campaign : k /= c => campaign'[k] = campaign[k],
             \A p \in Product : product'[p] = product[p] \/ product'[p].by = Nobody,
             \A p \in Product : product'[p] /= Nothing => 
                 \/ product'[p].by /= c
                 \/ campaign'[c] /= Nothing /\ campaign'[c].filtered
      PROVE  Worn'
  <2>1. \A p \in Product, k \in Campaign : Wears(k, p, product'[p], campaign'[k])
    BY <1>1, <1>2 DEF Wears, ShopAssumption
  <2> QED
    BY <2>1 DEF Worn
<1>3. CASE \E d \in Offer, ids \in SUBSET Product : CreateCampaign(r, c, d, ids)
  <2>1. UNCHANGED product /\ \A k \in Campaign : k /= c => campaign'[k] = campaign[k]
    BY <1>1, <1>3 DEF CreateCampaign
  <2>2. \A p \in Product : product[p] /= Nothing => product[p].by /= c
    BY <1>1, <1>3 DEF CreateCampaign, Exists, Wears
  <2> QED
    BY <1>2, <2>1, <2>2
<1>4. CASE RemoveCampaign(r, c)
  <2> DEFINE recorded == {p \in Product : campaign[c].written[p] /= Nothing}
             same == {p \in recorded : There(p) /\ product[p].discount = campaign[c].written[p]}
             removed == campaign[c].removed \/ (recorded /= {} /\ \A p \in recorded : There(p))
             row == [campaign[c] EXCEPT !.removed = removed]
  <2>1. campaign[c] \in CampaignRow
    BY <1>1, <1>4 DEF RemoveCampaign, Exists
  <2>2. campaign' = [campaign EXCEPT ![c] = row]
    BY <1>1, <1>4 DEF RemoveCampaign
  <2>3. row.filtered = campaign[c].filtered /\ row.there = TRUE
    BY <2>1 DEF CampaignRow
  <2>4. ASSUME NEW p \in Product
        PROVE  /\ product'[p] = product[p] \/ product'[p].by = Nobody
               /\ p \in same => product'[p].by = Nobody
    <3> DEFINE cleared == [product[p] EXCEPT !.discount = NoDiscount, !.by = Nobody]
    <3>1. product'[p] = IF p \in same THEN cleared ELSE product[p]
      BY <1>4 DEF RemoveCampaign
    <3>2. There(p) => cleared.by = Nobody
      BY <1>1 DEF There, ProductRow
    <3>3. p \in same => There(p)
      OBVIOUS
    <3> HIDE DEF cleared, same
    <3> QED
      BY <3>1, <3>2, <3>3
  <2>5. ASSUME NEW p \in Product, There(p), product[p].by = c, ~campaign[c].filtered
        PROVE  p \in same
    <3>1. campaign[c].written[p] = product[p].discount /\ product[p].discount \in Discount
      BY <1>1, <2>5 DEF Wears, There, ProductRow
    <3> QED
      BY <2>5, <3>1, NothingIsNoDiscount
  <2>6. campaign'[c] /= Nothing /\ campaign'[c].filtered = campaign[c].filtered
        /\ \A k \in Campaign : k /= c => campaign'[k] = campaign[k]
    <3> HIDE DEF row
    <3> QED
      BY <1>1, <2>2, <2>3 DEF Nothing
  <2>7. \A p \in Product : product'[p] /= Nothing =>
            \/ product'[p].by /= c
            \/ campaign'[c] /= Nothing /\ campaign'[c].filtered
    <3> HIDE DEF same
    <3> QED
      BY <2>4, <2>5, <2>6, ShopAssumption DEF There, ShopAssumption
  <2> QED
    BY <1>2, <2>4, <2>6, <2>7
<1>5. CASE DeleteCampaign(r, c)
  <2>1. \A k \in Campaign : k /= c => campaign'[k] = campaign[k]
    BY <1>1, <1>5 DEF DeleteCampaign
  <2>2. ASSUME NEW p \in Product
        PROVE  /\ product'[p] = product[p] \/ product'[p].by = Nobody
               /\ product'[p] /= Nothing => product'[p].by /= c
    <3> DEFINE disowned == [product[p] EXCEPT !.by = Nobody]
    <3>1. product'[p] = IF There(p) /\ product[p].by = c THEN disowned ELSE product[p]
      BY <1>5 DEF DeleteCampaign
    <3>2. There(p) => disowned.by = Nobody
      BY <1>1 DEF There, ProductRow
    <3> HIDE DEF disowned
    <3> QED
      BY <3>1, <3>2 DEF There, ShopAssumption
  <2> QED
    BY <1>2, <2>1, <2>2
<1> QED
  BY <1>3, <1>4, <1>5

LEMMA AskWorn ==
    ASSUME TraceInv, OneRequest, NEW r \in Request, NEW q, Ask(r, q),
           q.op \in {"retire", "revive", "drop", "create", "import", "retype", "recategorize",
                     "relabel", "discount", "restock", "show"}
    PROVE  Worn' /\ AllCurrent'
<1>1. Current(q)
  BY DEF Current
<1> QED
  BY <1>1, CurrentAsks

LEMMA TermWorn == ASSUME TraceInv, OneRequest, TermNext PROVE Worn' /\ AllCurrent'
<1> PICK r \in Request :
        \/ \E t \in Term : \/ CreateTerm(r, t) \/ StartRetire(r, t)
                           \/ StartRevive(r, t) \/ StartDeleteTerm(r, t)
        \/ FinishUpdateTerm(r) \/ FinishDeleteTerm(r)
  BY DEF TermNext
<1>1. CASE \E t \in Term : StartRetire(r, t) \/ StartRevive(r, t) \/ StartDeleteTerm(r, t)
  BY <1>1, AskWorn DEF StartRetire, StartRevive, StartDeleteTerm
<1>2. CASE FinishUpdateTerm(r) \/ FinishDeleteTerm(r) \/ \E t \in Term : CreateTerm(r, t)
  <2>1. UNCHANGED <<product, campaign>> /\ (Done(r) \/ (Free(r) /\ UNCHANGED request))
    BY <1>2 DEF FinishUpdateTerm, FinishDeleteTerm, CreateTerm
  <2>2. Worn'
    BY <2>1 DEF TraceInv, Worn
  <2> QED
    BY <2>1, <2>2, CurrentEnds
<1> QED
  BY <1>1, <1>2

LEMMA ProductWorn ==
    ASSUME TraceInv, OneRequest, ShopAssumption, ProductNext
    PROVE  Worn' /\ AllCurrent'
<1>1. ASSUME NEW r \in Request, NEW p \in Product,
             \/ \E type \in Type, category \in Optional(Category), labels \in SUBSET Label,
                   discount \in Offer \cup {NoDiscount} :
                    StartCreate(r, p, type, category, labels, discount)
             \/ ImportRow(r, p)
             \/ \E type \in Type : StartRetype(r, p, type)
             \/ \E category \in Optional(Category) : StartRecategorize(r, p, category)
             \/ \E labels \in SUBSET Label : StartRelabel(r, p, labels)
             \/ \E patch \in Patch : StartDiscount(r, p, patch)
             \/ \E stock \in 0..MaxStock : StartRestock(r, p, stock)
             \/ \E visible \in BOOLEAN : StartShow(r, p, visible)
      PROVE  Worn' /\ AllCurrent'
  BY <1>1, AskWorn DEF StartCreate, ImportRow, StartImport, StartRetype, StartRecategorize,
     StartRelabel, StartDiscount, StartRestock, StartShow
<1>2. ASSUME NEW r \in Request, FinishCreate(r) \/ FinishImport(r) \/ FinishUpdate(r)
      PROVE  Worn' /\ AllCurrent'
  BY <1>2, FinishProductWorn, CurrentEnds DEF FinishCreate, FinishImport, FinishUpdate
<1>3. ASSUME NEW r \in Request,
             \/ \E p \in Product : DeleteProduct(r, p)
             \/ \E P \in SUBSET Product, d \in Offer \cup {NoDiscount} : BulkDiscount(r, P, d)
      PROVE  Worn' /\ AllCurrent'
  BY <1>3, DirectProductWorn, CurrentEnds DEF DeleteProduct, BulkDiscount
<1> QED
  BY <1>1, <1>2, <1>3 DEF ProductNext

LEMMA CampaignWorn ==
    ASSUME TraceInv, OneRequest, ShopAssumption, CampaignNext
    PROVE  Worn' /\ AllCurrent'
<1> PICK r \in Request :
        \/ \E c \in Campaign :
            \/ \E discount \in Offer, ids \in SUBSET Product :
                   CreateCampaign(r, c, discount, ids)
            \/ \E patch \in Patch : StartEdit(r, c, patch, {})
            \/ \E ids \in SUBSET Product : StartEdit(r, c, Unpatched, {ids})
            \/ StartApply(r, c) \/ RemoveCampaign(r, c) \/ DeleteCampaign(r, c)
        \/ FinishEdit(r) \/ FinishApply(r)
  BY DEF CampaignNext
<1>1. ASSUME NEW c \in Campaign, NEW patch, NEW targets, StartEdit(r, c, patch, targets)
      PROVE  Worn' /\ AllCurrent'
  <2>1. Current([op |-> "edit", campaign |-> c, patch |-> patch, targets |-> targets])
    BY <1>1 DEF StartEdit, Editable, Current
  <2> QED
    BY <1>1, <2>1, CurrentAsks DEF StartEdit
<1>2. ASSUME NEW c \in Campaign, StartApply(r, c) PROVE Worn' /\ AllCurrent'
  <2>1. Current([op |-> "apply", campaign |-> c, discount |-> campaign[c].discount,
                 targets |-> Targets(c), filter |-> Dynamic(c)])
    BY <1>2 DEF StartApply, Targets, Current
  <2> QED
    BY <1>2, <2>1, CurrentAsks DEF StartApply
<1>3. CASE \/ FinishEdit(r) \/ FinishApply(r)
           \/ \E c \in Campaign :
                 \/ \E discount \in Offer, ids \in SUBSET Product :
                        CreateCampaign(r, c, discount, ids)
                 \/ RemoveCampaign(r, c) \/ DeleteCampaign(r, c)
  <2>1. Done(r) \/ (Free(r) /\ UNCHANGED request)
    BY <1>3 DEF FinishEdit, FinishApply, CreateCampaign, RemoveCampaign, DeleteCampaign
  <2>2. Worn'
    BY <1>3, EditWorn, ApplyWorn, DirectCampaignWorn
  <2> QED
    BY <2>1, <2>2, CurrentEnds
<1> QED
  BY <1>1, <1>2, <1>3

LEMMA TraceStep ==
    ASSUME TraceInv, OneRequest, ShopAssumption, [Next]_vars
    PROVE  TraceInv'
<1>1. ShopInv'
  BY ShopStep DEF TraceInv
<1>2. CASE TermNext
  BY <1>1, <1>2, TermWorn DEF TraceInv
<1>3. CASE ProductNext
  BY <1>1, <1>3, ProductWorn DEF TraceInv
<1>4. CASE CampaignNext
  BY <1>1, <1>4, CampaignWorn DEF TraceInv
<1>5. ASSUME Worn', UNCHANGED <<campaign, request>> PROVE TraceInv'
  <2>1. \A q : Current(q) => Current(q)'
    BY <1>5 DEF Current, Exists, Dynamic, Live
  <2> QED
    BY <1>1, <1>5, <2>1 DEF TraceInv, AllCurrent
<1>6. CASE \E p \in Product, stock \in 0..MaxStock : MoveStock(p, stock)
  BY <1>5, <1>6, DirectProductWorn DEF MoveStock
<1>7. CASE UNCHANGED vars
  BY <1>5, <1>7 DEF vars, TraceInv, Worn
<1> QED
  BY <1>2, <1>3, <1>4, <1>6, <1>7 DEF Next

\* Applying, removing, editing and deleting campaigns in any order, with admins
\* who patch, import and delete the products meanwhile: as long as a campaign
\* names its products, the discounts it wrote last are on record as written, and
\* those of a live campaign are its own.
THEOREM CampaignsTraceable == OneRequest /\ StorefrontSpec => []Traceable
<1> SUFFICES ASSUME OneRequest PROVE StorefrontSpec => []Traceable
  OBVIOUS
<1>1. ASSUME StorefrontInit PROVE TraceInv
  <2>1. Init /\ ShopInv
    BY <1>1, ShopInit DEF StorefrontInit
  <2>2. Worn
    BY <2>1, ShopAssumption DEF Init, Worn, Wears, ShopAssumption
  <2>3. AllCurrent
    BY <2>1 DEF Init, AllCurrent, Current, Idle
  <2> QED
    BY <2>1, <2>2, <2>3 DEF TraceInv
<1>2. TraceInv /\ [Selling \/ Visiting \/ Limiting]_everything => TraceInv'
  BY TraceStep, ShopRefined, ShopAssumption
<1>3. TraceInv => Traceable
  BY DEF TraceInv, Worn, Wears, Traceable, There, Live
<1> QED
  BY <1>1, <1>2, <1>3, PTL DEF StorefrontSpec

-----------------------------------------------------------------------------
(* Visitors: the theorems of Visitors_proofs hold of the shop front.       *)

LEMMA VisitorsRefined ==
    ASSUME [Selling \/ Visiting \/ Limiting]_everything
    PROVE  [V!VisitorsNext]_V!vars
  BY DEF Selling, Visiting, Limiting, everything, visitors,
     V!vars, V!shop, V!people, V!history, V!network

LEMMA VisitorsOfStorefront == StorefrontSpec => V!Spec
<1>1. StorefrontInit => V!Init
  BY DEF StorefrontInit
<1>2. [Selling \/ Visiting \/ Limiting]_everything => [V!VisitorsNext]_V!vars
  BY VisitorsRefined
<1> QED
  BY <1>1, <1>2, PTL DEF StorefrontSpec, V!Spec

\* Of a session that a sign-in replaced nothing is left: no row that is alive,
\* nothing in its cart, no order it could list without an account.
THEOREM NothingStaysBehind == StorefrontSpec => []NothingLeftBehind
<1>1. V!Spec => []V!NothingLeftBehind
  BY V!NothingIsLeft, StorefrontVisitors
<1> QED
  BY <1>1, VisitorsOfStorefront, PTL DEF NothingLeftBehind

\* A session that was signed out acts for nobody, however late the requests of
\* its browser arrive.
THEOREM SignedOutForGood == StorefrontSpec => []SignOutIsFinal
<1>1. V!Spec => []V!SignOutIsFinal
  BY V!SignOutFinal, StorefrontVisitors
<1> QED
  BY <1>1, VisitorsOfStorefront, PTL DEF SignOutIsFinal

-----------------------------------------------------------------------------
(* Limits: no window holds more than its limit.                            *)

\* Accepted events are finitely many, not later than now, and those that are
\* forgotten are older than any window of their kind.
EventsSound ==
    /\ now \in Nat
    /\ IsFiniteSet(accepted)
    /\ \A e \in accepted : e.at \in Nat /\ e.at <= now
    /\ event \subseteq accepted
    /\ \A e \in accepted \ event :
           e.action \in L!Payment \cup {"react"} /\ e.at < now - Retention

\* One more contact message from the address i may be accepted, as of t.
ByAddress == <<"contact", "ip">>
Contacts(i, t) ==
    {f \in event : f.action = "contact" /\ f.ip = i /\ L!Within(ByAddress, f.at, t)}
Room(i, t) == Cardinality(Contacts(i, t)) < Limit[ByAddress].limit

\* A contact message that was counted has the lock of its address and may
\* still be accepted; its transaction began no later than now.
ThreadRow == [stage : {"begun", "counted"}, at : Nat, action : {"contact", "poll", "stripe"},
              session : Visitor, ip : Address, order : Order \cup {None}]

ThreadSound(h) ==
    thread[h] /= L!Idle =>
        /\ thread[h] \in ThreadRow
        /\ thread[h].at <= now
        /\ thread[h].stage = "counted" /\ thread[h].action = "contact" =>
               /\ lock[thread[h].ip] = h
               /\ Room(thread[h].ip, thread[h].at)

ThreadsSound ==
    /\ thread = [h \in Thread |-> thread[h]]
    /\ lock = [i \in Address |-> lock[i]]
    /\ \A h \in Thread : ThreadSound(h)

LimitsInv == EventsSound /\ ThreadsSound /\ WindowsKept

\* What a window that ends with e holds.
InWindow(b, e, f) ==
    f.action = b[1] /\ L!SameKey(b[2], e, f) /\ f.at <= e.at /\ L!Within(b, f.at, e.at)
Window(b, e) == {f \in accepted : InWindow(b, e, f)}

Kept(b) == \A e \in accepted : e.action = b[1] => Cardinality(Window(b, e)) <= Limit[b].limit

\* Limits brings FiniteSets in under its own name.
LEMMA SameCardinality == \A S : L!Cardinality(S) = Cardinality(S)
  BY DEF L!Cardinality, Cardinality

\* Threads count and insert these without a lock.
Unlocked == {"poll", "stripe"}
AllKept == \A b \in L!Bucket : b[1] \notin Unlocked /\ Limit[b].window /= 0 => Kept(b)

LEMMA KeptMeans == WindowsKept <=> AllKept
<1> DEFINE held(b, e) == {f \in accepted : f.action = b[1] /\ L!SameKey(b[2], e, f)
                                          /\ f.at <= e.at /\ L!Within(b, f.at, e.at)}
<1>1. \A b, e : held(b, e) = Window(b, e)
  BY DEF Window, InWindow
<1>2. ASSUME NEW b PROVE L!WindowKept(b) <=> Kept(b)
  <2>1. L!WindowKept(b) <=>
            \A e \in {x \in accepted : x.action = b[1]} : L!Cardinality(held(b, e)) <= Limit[b].limit
    BY DEF L!WindowKept
  <2> HIDE DEF held
  <2> QED
    BY <1>1, <2>1, SameCardinality DEF Kept
<1> QED
  BY <1>2 DEF WindowsKept, L!WindowsKept, AllKept, Unlocked

LEMMA Buckets12 ==
    ASSUME NEW b \in L!Bucket
    PROVE  /\ b[1] \in L!Action /\ b[2] \in L!Scope
           /\ Limit[b].window \in Nat /\ Limit[b].limit \in Nat \ {0}
           /\ Limit[b].closed \in BOOLEAN
<1>1. Limit[b] \in [limit : Nat \ {0}, window : Nat, closed : BOOLEAN]
  BY StorefrontLimits DEF L!LimitsAssumption
<1> QED
  BY <1>1 DEF L!Bucket, L!Action, L!Scope

LEMMA SameKeyEquivalence ==
    ASSUME NEW k \in L!Scope, NEW e, NEW f, NEW g
    PROVE  /\ L!SameKey(k, e, e)
           /\ L!SameKey(k, e, f) /\ L!SameKey(k, e, g) => L!SameKey(k, f, g)
  BY DEF L!Scope, L!SameKey

\* A window that contains x and ends later reaches no further back than the
\* one that ends with x.
LEMMA WithinEarlier ==
    ASSUME NEW b \in L!Bucket, NEW a \in Nat, NEW t \in Nat, NEW u \in Nat, t <= u,
           L!Within(b, a, u)
    PROVE  L!Within(b, a, t)
  BY Buckets12 DEF L!Within

LEMMA WithinItself ==
    ASSUME NEW b \in L!Bucket, NEW t \in Nat
    PROVE  L!Within(b, t, t)
  BY Buckets12 DEF L!Within

LEMMA CountedFinite ==
    ASSUME EventsSound, NEW b, NEW e, NEW t
    PROVE  /\ IsFiniteSet(L!Counted(b, e, t)) /\ Cardinality(L!Counted(b, e, t)) \in Nat
           /\ IsFiniteSet(Window(b, e)) /\ Cardinality(Window(b, e)) \in Nat
<1>1. L!Counted(b, e, t) \subseteq accepted /\ Window(b, e) \subseteq accepted
  BY DEF EventsSound, L!Counted, Window
<1>2. IsFiniteSet(L!Counted(b, e, t)) /\ IsFiniteSet(Window(b, e))
  BY <1>1, FS_Subset DEF EventsSound
<1> QED
  BY <1>2, FS_CardinalityType

\* A new event x that was allowed, and is either as late as any or of a kind
\* that is never forgotten, leaves every window it falls into within its limit.
LEMMA RecordKeeps ==
    ASSUME LimitsInv, NEW x, x.at \in Nat, x.at <= now,
           \/ x.action \in Unlocked
           \/ /\ L!Allowed(x)
              /\ x.at = now \/ x.action \notin L!Payment \cup {"react"},
           accepted' = accepted \cup {x}
    PROVE  WindowsKept'
<1>0. WindowsKept' <=> AllKept'
  BY KeptMeans, PTL
<1> SUFFICES ASSUME NEW b \in L!Bucket, b[1] \notin Unlocked, Limit[b].window /= 0,
                    NEW e \in accepted', e.action = b[1]
             PROVE  Cardinality(Window(b, e)') <= Limit[b].limit
  BY <1>0 DEF AllKept, Kept
<1> DEFINE W == {f \in accepted' : InWindow(b, e, f)}
           limit == Limit[b].limit
<1>1. Limit[b].window \in Nat /\ limit \in Nat \ {0} /\ b[2] \in L!Scope
  BY Buckets12
<1>2. e.at \in Nat /\ e.at <= now
  BY DEF LimitsInv, EventsSound
<1>3. CASE ~InWindow(b, e, x)
  <2>1. e /= x
    BY <1>3, <1>2, SameKeyEquivalence, WithinItself, Buckets12 DEF InWindow
  <2>2. W = Window(b, e) /\ e \in accepted
    BY <1>3, <2>1 DEF Window
  <2> QED
    BY <2>2, KeptMeans DEF LimitsInv, AllKept, Kept, Window
<1>4. CASE InWindow(b, e, x)
  <2> DEFINE C == L!Counted(b, x, x.at)
  <2>1. x.action = b[1] /\ L!SameKey(b[2], e, x) /\ x.at <= e.at /\ L!Within(b, x.at, e.at)
    BY <1>4 DEF InWindow
  <2>2. ASSUME NEW f \in accepted, InWindow(b, e, f) PROVE f \in C
    <3>1. f.action = b[1] /\ L!SameKey(b[2], e, f) /\ f.at <= e.at /\ L!Within(b, f.at, e.at)
          /\ f.at \in Nat
      BY <2>2 DEF InWindow, LimitsInv, EventsSound
    <3>2. L!SameKey(b[2], x, f)
      BY <1>1, <2>1, <3>1, SameKeyEquivalence
    <3>3. L!Within(b, f.at, x.at)
      BY <1>2, <2>1, <3>1, WithinEarlier
    <3>4. f \in event
      <4> SUFFICES ASSUME f \notin event PROVE FALSE
        OBVIOUS
      <4>1. f.action \in L!Payment \cup {"react"} /\ f.at < now - Retention
        BY DEF LimitsInv, EventsSound
      <4>2. e.at = now
        BY <1>2, <2>1, <3>1, <4>1 DEF LimitsInv, EventsSound
      <4>3. Limit[b].window <= Retention /\ Retention \in Nat
        BY <3>1, <4>1, StorefrontLimits DEF L!LimitsAssumption
      <4>4. f.at >= e.at - Limit[b].window
        BY <1>1, <1>2, <3>1, Buckets12 DEF L!Within
      <4> QED
        BY <1>1, <1>2, <3>1, <4>1, <4>2, <4>3, <4>4
    <3> QED
      BY <3>1, <3>2, <3>3, <3>4 DEF L!Counted
  <2>3. IsFiniteSet(C) /\ Cardinality(C) \in Nat
    BY CountedFinite DEF LimitsInv
  <2>4. Cardinality(C) < limit
    <3>1. ~L!Exceeds(b, x)
      BY <2>1 DEF L!Allowed
    <3>2. ~(Cardinality(C) >= limit)
      BY <3>1, SameCardinality DEF L!Exceeds
    <3> HIDE DEF C, limit
    <3> QED
      BY <1>1, <2>3, <3>2
  <2>5. W \subseteq C \cup {x}
    BY <2>2
  <2>6. IsFiniteSet(C \cup {x}) /\ Cardinality(C \cup {x}) <= Cardinality(C) + 1
        /\ Cardinality(C \cup {x}) \in Nat
    <3> HIDE DEF C
    <3>1. IsFiniteSet(C \cup {x})
          /\ Cardinality(C \cup {x}) = IF x \in C THEN Cardinality(C) ELSE Cardinality(C) + 1
      BY <2>3, FS_AddElement
    <3> QED
      BY <2>3, <3>1
  <2>7. Cardinality(W) <= Cardinality(C \cup {x}) /\ Cardinality(W) \in Nat
    <3> HIDE DEF C, W
    <3> QED
      BY <2>5, <2>6, FS_Subset, FS_CardinalityType
  <2> HIDE DEF C, W, limit
  <2> QED
    BY <1>1, <2>3, <2>4, <2>6, <2>7 DEF limit, W, Window
<1> QED
  BY <1>3, <1>4

LEMMA EventsRecorded ==
    ASSUME EventsSound, NEW x, x.at \in Nat, x.at <= now, L!Record(x), UNCHANGED now
    PROVE  EventsSound'
<1>1. /\ event' = (event \ L!Forgotten(x)) \cup {x}
      /\ accepted' = accepted \cup {x}
  BY DEF L!Record
<1>2. IsFiniteSet(accepted')
  BY <1>1, FS_AddElement DEF EventsSound
<1>3. \A f \in L!Forgotten(x) : f.action \in L!Payment \cup {"react"} /\ f.at < x.at - Retention
  BY DEF L!Forgotten
<1>4. Retention \in Nat
  BY StorefrontLimits DEF L!LimitsAssumption
<1> QED
  BY <1>1, <1>2, <1>3, <1>4 DEF EventsSound

LEMMA ContactsFinite ==
    ASSUME EventsSound, NEW i, NEW t
    PROVE  IsFiniteSet(Contacts(i, t)) /\ Cardinality(Contacts(i, t)) \in Nat
<1>1. Contacts(i, t) \subseteq accepted
  BY DEF EventsSound, Contacts
<1> QED
  BY <1>1, FS_Subset, FS_CardinalityType DEF EventsSound

LEMMA RoomAllows ==
    ASSUME EventsSound, NEW h \in Thread, thread[h].action = "contact"
    PROVE  L!Allowed(L!EventOf(h)) <=> Room(thread[h].ip, thread[h].at)
<1> DEFINE x == L!EventOf(h)
<1>1. x.action = "contact" /\ x.at = thread[h].at /\ x.ip = thread[h].ip
  BY DEF L!EventOf, L!Event
<1>2. \A b \in L!Bucket : b[1] = "contact" <=> b = ByAddress
  BY DEF L!Bucket, ByAddress
<1>3. L!Allowed(x) <=> ~L!Exceeds(ByAddress, x)
  BY <1>1, <1>2 DEF L!Allowed, ByAddress, L!Bucket
<1>4. L!Counted(ByAddress, x, x.at) = Contacts(thread[h].ip, thread[h].at)
  <2>1. \A f : L!SameKey("ip", x, f) <=> f.ip = thread[h].ip
    BY <1>1 DEF L!SameKey
  <2> HIDE DEF x
  <2> QED
    BY <1>1, <2>1 DEF L!Counted, Contacts, ByAddress
<1>5. L!Exceeds(ByAddress, x) <=>
          Cardinality(Contacts(thread[h].ip, thread[h].at)) >= Limit[ByAddress].limit
  BY <1>4, SameCardinality DEF L!Exceeds
<1> HIDE DEF x
<1>6. Limit[ByAddress].limit \in Nat
  BY Buckets12 DEF L!Bucket, ByAddress
<1> QED
  BY <1>3, <1>5, <1>6, ContactsFinite DEF Room, x

LEMMA RoomKept ==
    ASSUME EventsSound, NEW i, NEW t, Room(i, t),
           \A f \in event' : f.action = "contact" /\ f.ip = i => f \in event
    PROVE  Room(i, t)'
<1> DEFINE C == Contacts(i, t)
           D == {f \in event' : f.action = "contact" /\ f.ip = i /\ L!Within(ByAddress, f.at, t)}
<1>1. D \subseteq C
  BY DEF Contacts
<1>2. IsFiniteSet(C) /\ Cardinality(C) \in Nat
  BY ContactsFinite
<1>3. Cardinality(C) < Limit[ByAddress].limit /\ Limit[ByAddress].limit \in Nat
  BY Buckets12 DEF Room, L!Bucket, ByAddress
<1> HIDE DEF C, D
<1>4. Cardinality(D) <= Cardinality(C) /\ Cardinality(D) \in Nat
  BY <1>1, <1>2, FS_Subset, FS_CardinalityType
<1>5. Cardinality(D) < Limit[ByAddress].limit
  BY <1>2, <1>3, <1>4
<1> QED
  BY <1>5 DEF Room, Contacts, D

\* Threads that a step leaves alone, with their locks and the room they found.
LEMMA ThreadKept ==
    ASSUME EventsSound, NEW h \in Thread, ThreadSound(h),
           thread'[h] = thread[h], now' \in Nat, now \in Nat, now <= now',
           thread[h] /= L!Idle /\ thread[h].stage = "counted" /\ thread[h].action = "contact" =>
               /\ lock'[thread[h].ip] = lock[thread[h].ip]
               /\ \A f \in event' : f.action = "contact" /\ f.ip = thread[h].ip => f \in event
    PROVE  ThreadSound(h)'
<1>1. CASE thread[h] = L!Idle
  BY <1>1 DEF ThreadSound
<1>2. CASE thread[h] /= L!Idle
  <2>1. ASSUME thread[h].stage = "counted", thread[h].action = "contact"
        PROVE  Room(thread[h].ip, thread[h].at)'
    <3> DEFINE i == thread[h].ip
               t == thread[h].at
    <3>1. Room(i, t)
      BY <1>2, <2>1 DEF ThreadSound
    <3>2. PICK a, u : a = i /\ u = t
      OBVIOUS
    <3>3. Room(a, u)'
      BY <1>2, <2>1, <3>1, <3>2, RoomKept
    <3> QED
      BY <3>2, <3>3
  <2> QED
    BY <1>2, <2>1 DEF ThreadSound, ThreadRow
<1> QED
  BY <1>1, <1>2

\* An attempt of a handler on the event loop: counted and recorded at once,
\* or refused, or never ended because the loop hangs.
LEMMA AttemptInv ==
    ASSUME LimitsInv, NEW x, x.at = now, x.action /= "contact", L!Attempt(x) \/ L!Refused,
           UNCHANGED <<now, lock, thread>>
    PROVE  LimitsInv'
<1>0. now \in Nat
  BY DEF LimitsInv, EventsSound
<1>1. CASE L!Allowed(x) /\ L!Attempt(x)
  <2>1. L!Record(x)
    BY <1>1 DEF L!Attempt
  <2>2. EventsSound'
    BY <1>0, <2>1, EventsRecorded DEF LimitsInv
  <2>3. WindowsKept'
    BY <1>0, <1>1, <2>1, RecordKeeps DEF L!Record
  <2>4. \A f \in event' : f.action = "contact" => f \in event
    BY <2>1 DEF L!Record
  <2>5. ThreadsSound'
    BY <1>0, <2>4, ThreadKept DEF LimitsInv, ThreadsSound
  <2> QED
    BY <2>2, <2>3, <2>5 DEF LimitsInv
<1>2. CASE L!Refused
  <2>1. UNCHANGED <<event, events, accepted>>
    BY <1>2 DEF L!Refused
  <2>2. ThreadsSound'
    BY <1>0, <2>1, ThreadKept DEF LimitsInv, ThreadsSound
  <2>3. WindowsKept'
    BY <2>1 DEF LimitsInv, WindowsKept, L!WindowsKept, L!WindowKept
  <2> QED
    BY <2>1, <2>2, <2>3 DEF LimitsInv, EventsSound
<1> QED
  BY <1>1, <1>2 DEF L!Attempt

LEMMA LoopInv ==
    ASSUME LimitsInv, NEW s, NEW i, NEW p, NEW o,
           \/ L!CreateComment(s, i, p) \/ L!ToggleReaction(s, i, p)
           \/ L!CreateOrder(s, i) \/ L!PayOnDelivery(s, i) \/ L!OpenStripeSession(s, i, o)
    PROVE  LimitsInv'
<1>1. PICK a, q, n : /\ a \in {"comment", "react", "checkout", "cod", "stripe"}
                     /\ L!Attempt(L!Event(a, s, i, q, n)) \/ L!Refused
                     /\ UNCHANGED <<now, lock, thread>>
  <2>1. CASE L!CreateComment(s, i, p) \/ L!ToggleReaction(s, i, p)
    BY <2>1 DEF L!CreateComment, L!ToggleReaction
  <2>2. CASE L!CreateOrder(s, i)
    BY <2>2 DEF L!CreateOrder, L!Consume
  <2>3. CASE L!PayOnDelivery(s, i)
    BY <2>3 DEF L!PayOnDelivery, L!Consume
  <2>4. CASE L!OpenStripeSession(s, i, o)
    BY <2>4 DEF L!OpenStripeSession, L!Consume
  <2> QED
    BY <2>1, <2>2, <2>3, <2>4
<1> DEFINE x == L!Event(a, s, i, q, n)
<1>2. x.at = now /\ x.action = a
  BY DEF L!Event
<1> HIDE DEF x
<1> QED
  BY <1>1, <1>2, AttemptInv DEF x

\* Fewer events are in fewer windows.
LEMMA DeleteInv ==
    ASSUME LimitsInv, NEW e \in event, L!DeleteComment(e)
    PROVE  LimitsInv'
<1>1. /\ event' = event \ {e} /\ accepted' = accepted \ {e} /\ UNCHANGED <<now, lock, thread>>
  BY DEF L!DeleteComment
<1>2. EventsSound'
  BY <1>1, FS_Subset DEF LimitsInv, EventsSound
<1>3. ThreadsSound'
  BY <1>1, ThreadKept DEF LimitsInv, ThreadsSound, EventsSound
<1>4. AllKept'
  <2> SUFFICES ASSUME NEW b \in L!Bucket, b[1] \notin Unlocked, Limit[b].window /= 0,
                      NEW x \in accepted', x.action = b[1]
               PROVE  Cardinality(Window(b, x)') <= Limit[b].limit
    BY DEF AllKept, Kept
  <2> DEFINE Then == {f \in accepted' : InWindow(b, x, f)}
             W == Window(b, x)
  <2>1. Then \subseteq W
    BY <1>1 DEF Window
  <2>2. IsFiniteSet(W) /\ Cardinality(W) \in Nat
    BY CountedFinite DEF LimitsInv
  <2>3. Cardinality(W) <= Limit[b].limit /\ Limit[b].limit \in Nat
    BY <1>1, KeptMeans, Buckets12 DEF LimitsInv, AllKept, Kept
  <2> HIDE DEF Then, W
  <2>4. Cardinality(Then) <= Cardinality(W) /\ Cardinality(Then) \in Nat
    BY <2>1, <2>2, FS_Subset, FS_CardinalityType
  <2>5. Cardinality(Then) <= Limit[b].limit
    BY <2>2, <2>3, <2>4
  <2> QED
    BY <2>5 DEF Then, Window
<1>5. WindowsKept' <=> AllKept'
  BY KeptMeans, PTL
<1> QED
  BY <1>2, <1>3, <1>4, <1>5 DEF LimitsInv

\* What records nothing.
LEMMA NothingRecorded ==
    ASSUME LimitsInv, UNCHANGED <<event, accepted>>, now' \in Nat, now <= now', ThreadsSound'
    PROVE  LimitsInv'
<1>1. Retention \in Nat
  BY StorefrontLimits DEF L!LimitsAssumption
<1>2. EventsSound'
  BY <1>1 DEF LimitsInv, EventsSound
<1>3. WindowsKept'
  BY DEF LimitsInv, WindowsKept, L!WindowsKept, L!WindowKept
<1> QED
  BY <1>2, <1>3 DEF LimitsInv

LEMMA TickInv == ASSUME LimitsInv, L!Tick PROVE LimitsInv'
<1>1. now \in Nat /\ now' = now + 1 /\ UNCHANGED <<event, accepted, lock, thread>>
  BY DEF L!Tick, LimitsInv, EventsSound
<1>2. ThreadsSound'
  BY <1>1, ThreadKept DEF LimitsInv, ThreadsSound
<1> QED
  BY <1>1, <1>2, NothingRecorded

\* A thread, or a retry, that takes up its work.
LEMMA TakenUp ==
    ASSUME LimitsInv, NEW h \in Thread, NEW row \in ThreadRow, row.at = now,
           row.stage = "begun" \/ row.action /= "contact",
           UNCHANGED <<now, event, accepted, lock>>,
           thread' = [thread EXCEPT ![h] = row]
    PROVE  LimitsInv'
<1>1. now \in Nat /\ UNCHANGED <<now, event, accepted, lock>>
      /\ thread' = [thread EXCEPT ![h] = row]
  BY DEF LimitsInv, EventsSound
<1>2. thread' = [x \in Thread |-> thread'[x]] /\ lock' = [x \in Address |-> lock'[x]]
  BY <1>1 DEF LimitsInv, ThreadsSound
<1>3. ASSUME NEW x \in Thread PROVE ThreadSound(x)'
  <2>1. CASE x = h
    <3>1. thread'[x] = row
      BY <1>1, <2>1 DEF LimitsInv, ThreadsSound
    <3> QED
      BY <1>1, <3>1 DEF ThreadSound, ThreadRow
  <2>2. CASE x /= h
    <3>1. thread'[x] = thread[x]
      BY <1>1, <2>2 DEF LimitsInv, ThreadsSound
    <3> QED
      BY <1>1, <3>1, ThreadKept DEF LimitsInv, ThreadsSound
  <2> QED
    BY <2>1, <2>2
<1> QED
  BY <1>1, <1>2, <1>3, NothingRecorded DEF ThreadsSound

LEMMA BeginInv ==
    ASSUME LimitsInv, NEW h \in Thread, NEW a \in {"contact", "poll"}, NEW s, NEW i \in Address,
           s \in Visitor, L!Begin(h, a, s, i)
    PROVE  LimitsInv'
<1> DEFINE row == [stage |-> "begun", at |-> now, action |-> a, session |-> s, ip |-> i,
                   order |-> None]
<1>1. UNCHANGED <<now, event, accepted, lock>> /\ thread' = [thread EXCEPT ![h] = row]
  BY DEF L!Begin
<1>2. row \in ThreadRow /\ row.at = now /\ row.stage = "begun"
  BY DEF ThreadRow, LimitsInv, EventsSound
<1> HIDE DEF row
<1> QED
  BY <1>1, <1>2, TakenUp

LEMMA RetryInv ==
    ASSUME LimitsInv, NEW h \in Thread, NEW s \in Visitor, NEW i \in Address, NEW o \in Order,
           L!RetryStripeSession(h, s, i, o)
    PROVE  LimitsInv'
<1> DEFINE row == [stage |-> "counted", at |-> now, action |-> "stripe", session |-> s,
                   ip |-> i, order |-> o]
<1>1. UNCHANGED <<now, event, accepted, lock>>
  BY DEF L!RetryStripeSession
<1>2. UNCHANGED thread \/ thread' = [thread EXCEPT ![h] = row]
  BY DEF L!RetryStripeSession
<1>3. row \in ThreadRow /\ row.at = now /\ row.action = "stripe"
  BY DEF ThreadRow, LimitsInv, EventsSound
<1> HIDE DEF row
<1>4. CASE UNCHANGED thread
  <2>1. now \in Nat
    BY DEF LimitsInv, EventsSound
  <2>2. ThreadsSound'
    BY <1>1, <1>4, <2>1, ThreadKept DEF LimitsInv, ThreadsSound
  <2> QED
    BY <1>1, <2>1, <2>2, NothingRecorded
<1> QED
  BY <1>1, <1>2, <1>3, <1>4, TakenUp

\* Ends of threads, with the locks they held.
LEMMA EndsSound ==
    ASSUME LimitsInv, NEW h \in Thread, L!EndsNow(h),
           \A x \in Thread \ {h}, f \in event' :
               /\ thread[x] /= L!Idle
               /\ thread[x].stage = "counted" /\ thread[x].action = "contact"
               /\ f.action = "contact" /\ f.ip = thread[x].ip
               => f \in event
    PROVE  ThreadsSound'
<1>1. /\ now \in Nat /\ UNCHANGED now
      /\ thread' = [thread EXCEPT ![h] = L!Idle]
      /\ lock' = [i \in Address |-> IF lock[i] = h THEN None ELSE lock[i]]
  BY DEF L!EndsNow, LimitsInv, EventsSound
<1>2. thread' = [x \in Thread |-> thread'[x]] /\ lock' = [x \in Address |-> lock'[x]]
  BY <1>1 DEF LimitsInv, ThreadsSound
<1>3. ASSUME NEW x \in Thread PROVE ThreadSound(x)'
  <2>1. CASE x = h
    <3>1. thread'[x] = L!Idle
      BY <1>1, <2>1 DEF LimitsInv, ThreadsSound
    <3> QED
      BY <3>1 DEF ThreadSound
  <2>2. CASE x /= h
    <3>1. thread'[x] = thread[x] /\ ThreadSound(x)
      BY <1>1, <2>2 DEF LimitsInv, ThreadsSound
    <3>2. thread[x] /= L!Idle /\ thread[x].stage = "counted" /\ thread[x].action = "contact" =>
              lock'[thread[x].ip] = lock[thread[x].ip]
      BY <1>1, <2>2, <3>1 DEF ThreadSound, ThreadRow
    <3> QED
      BY <1>1, <2>2, <3>1, <3>2, ThreadKept DEF LimitsInv
  <2> QED
    BY <2>1, <2>2
<1> QED
  BY <1>2, <1>3 DEF ThreadsSound

LEMMA CountInv ==
    ASSUME LimitsInv, NEW h \in Thread, L!Count(h)
    PROVE  LimitsInv'
<1> DEFINE i == thread[h].ip
<1>1. /\ now \in Nat /\ UNCHANGED <<now, event, accepted>>
      /\ thread[h].stage = "begun"
  BY DEF L!Count, LimitsInv, EventsSound
<1>2. thread[h] /= L!Idle /\ ThreadSound(h)
  BY <1>1 DEF L!Idle, LimitsInv, ThreadsSound
<1>3. CASE ~L!Allowed(L!EventOf(h))
  <2>1. thread' = [thread EXCEPT ![h] = L!Idle] /\ UNCHANGED lock
    BY <1>3 DEF L!Count
  <2>2. ASSUME NEW x \in Thread PROVE ThreadSound(x)'
    <3>1. CASE x = h
      <4>1. thread'[x] = L!Idle
        BY <2>1, <3>1 DEF LimitsInv, ThreadsSound
      <4> QED
        BY <4>1 DEF ThreadSound
    <3>2. CASE x /= h
      <4>1. thread'[x] = thread[x] /\ ThreadSound(x)
        BY <2>1, <3>2 DEF LimitsInv, ThreadsSound
      <4> QED
        BY <1>1, <2>1, <4>1, ThreadKept DEF LimitsInv
    <3> QED
      BY <3>1, <3>2
  <2>3. ThreadsSound'
    BY <2>1, <2>2 DEF LimitsInv, ThreadsSound
  <2> QED
    BY <1>1, <2>3, NothingRecorded
<1>4. CASE L!Allowed(L!EventOf(h))
  <2>1. /\ thread' = [thread EXCEPT ![h].stage = "counted"]
        /\ lock' = IF thread[h].action = "contact" THEN [lock EXCEPT ![i] = h] ELSE lock
        /\ thread[h].action = "contact" => lock[i] = None
    BY <1>4 DEF L!Count, L!LockFree
  <2>2. thread[h].action = "contact" => Room(thread[h].ip, thread[h].at)
    BY <1>4, RoomAllows DEF LimitsInv
  <2>3. ASSUME NEW x \in Thread, x /= h PROVE ThreadSound(x)'
    <3>1. thread'[x] = thread[x] /\ ThreadSound(x)
      BY <2>1, <2>3 DEF LimitsInv, ThreadsSound
    <3>2. None \notin Thread
      BY StorefrontLimits DEF L!LimitsAssumption
    <3>3. thread[x] /= L!Idle /\ thread[x].stage = "counted" /\ thread[x].action = "contact" =>
              lock'[thread[x].ip] = lock[thread[x].ip]
      BY <2>1, <3>1, <3>2 DEF ThreadSound, LimitsInv, ThreadsSound
    <3> QED
      BY <1>1, <3>1, <3>3, ThreadKept DEF LimitsInv
  <2> DEFINE row == [thread[h] EXCEPT !.stage = "counted"]
  <2>4. /\ row \in ThreadRow /\ row.at = thread[h].at
        /\ row.ip = i /\ row.action = thread[h].action
    BY <1>2 DEF ThreadSound, ThreadRow
  <2>5. thread'[h] = row /\ i \in Address
    BY <1>2, <2>1 DEF LimitsInv, ThreadsSound, ThreadSound, ThreadRow
  <2>6. thread[h].action = "contact" => lock'[i] = h
    BY <2>1, <2>5 DEF LimitsInv, ThreadsSound
  <2>7. PICK a, u : a = i /\ u = thread[h].at
    OBVIOUS
  <2>8. thread[h].action = "contact" => Room(a, u)'
    BY <1>1, <2>2, <2>7 DEF Room, Contacts
  <2> HIDE DEF row, i
  <2>9. ThreadSound(h)'
    BY <1>1, <1>2, <2>4, <2>5, <2>6, <2>7, <2>8 DEF ThreadSound
  <2>10. ThreadsSound'
    BY <2>1, <2>3, <2>9 DEF LimitsInv, ThreadsSound
  <2> QED
    BY <1>1, <2>10, NothingRecorded
<1> QED
  BY <1>3, <1>4

LEMMA FinishInv ==
    ASSUME LimitsInv, NEW h \in Thread, L!Finish(h)
    PROVE  LimitsInv'
<1> DEFINE x == L!EventOf(h)
<1>1. /\ now \in Nat /\ UNCHANGED now
      /\ thread[h].stage = "counted" /\ L!Record(x) /\ L!EndsNow(h)
  BY DEF L!Finish, L!EndsNow, LimitsInv, EventsSound
<1>2. thread[h] /= L!Idle /\ ThreadSound(h) /\ thread[h] \in ThreadRow
  BY <1>1 DEF L!Idle, LimitsInv, ThreadsSound, ThreadSound
<1>3. /\ x.at = thread[h].at /\ x.at \in Nat /\ x.at <= now
      /\ x.action = thread[h].action /\ x.action \in {"contact", "poll", "stripe"}
      /\ x.ip = thread[h].ip
  BY <1>2 DEF L!EventOf, L!Event, ThreadSound, ThreadRow
<1>4. x.action = "contact" => L!Allowed(x)
  BY <1>1, <1>2, <1>3, RoomAllows DEF ThreadSound, LimitsInv
<1> HIDE DEF x
<1>5. EventsSound'
  BY <1>1, <1>3, EventsRecorded DEF LimitsInv
<1>6. WindowsKept'
  BY <1>1, <1>3, <1>4, RecordKeeps DEF L!Record, L!Payment, Unlocked
\* Two messages of one address are not both counted: each has the lock.
<1>7. ThreadsSound'
  <2>1. \A y \in Thread \ {h} :
            /\ thread[y] /= L!Idle
            /\ thread[y].stage = "counted" /\ thread[y].action = "contact"
            /\ x.action = "contact"
            => thread[y].ip /= thread[h].ip
    BY <1>1, <1>2, <1>3 DEF LimitsInv, ThreadsSound, ThreadSound
  <2>2. \A f \in event' : f \in event \/ f = x
    BY <1>1 DEF L!Record
  <2> QED
    BY <1>1, <1>3, <2>1, <2>2, EndsSound
<1> QED
  BY <1>5, <1>6, <1>7 DEF LimitsInv

LEMMA AbortInv ==
    ASSUME LimitsInv, NEW h \in Thread, L!Abort(h)
    PROVE  LimitsInv'
<1>1. L!EndsNow(h) /\ UNCHANGED <<now, event, accepted>> /\ now \in Nat
  BY DEF L!Abort, L!EndsNow, L!Refused, LimitsInv, EventsSound
<1>2. ThreadsSound'
  BY <1>1, EndsSound
<1> QED
  BY <1>1, <1>2, NothingRecorded

LEMMA LimitsStep == ASSUME LimitsInv, [L!LimitsNext]_L!vars PROVE LimitsInv'
<1>1. ASSUME UNCHANGED L!vars PROVE LimitsInv'
  <2>1. UNCHANGED <<now, event, accepted, lock, thread>> /\ now \in Nat
    BY <1>1 DEF L!vars, LimitsInv, EventsSound
  <2>2. ThreadsSound'
    BY <2>1, ThreadKept DEF LimitsInv, ThreadsSound
  <2> QED
    BY <2>1, <2>2, NothingRecorded
<1> QED
  BY <1>1, TickInv, LoopInv, DeleteInv, BeginInv, RetryInv, CountInv, FinishInv, AbortInv DEF L!LimitsNext

\* Whatever visitors do, in whatever threads and whenever the clock moves: no
\* window of comments, reactions, contact messages, or orders of either payment
\* ends with more accepted events than its limit. What is counted is never older
\* than what is forgotten, and a contact message counts and inserts under one lock.
THEOREM NoWindowOverflows == StorefrontSpec => []WindowsKept
<1>1. ASSUME StorefrontInit PROVE LimitsInv
  <2>1. /\ now = 0 /\ event = {} /\ accepted = {}
        /\ lock = [i \in Address |-> None] /\ thread = [h \in Thread |-> L!Idle]
    BY <1>1 DEF StorefrontInit, L!Init
  <2>2. EventsSound
    BY <2>1, FS_EmptySet DEF EventsSound
  <2>3. ThreadsSound
    BY <2>1 DEF ThreadsSound, ThreadSound
  <2>4. AllKept
    BY <2>1 DEF AllKept, Kept
  <2> QED
    BY <2>2, <2>3, <2>4, KeptMeans DEF LimitsInv
<1>2. [Selling \/ Visiting \/ Limiting]_everything => [L!LimitsNext]_L!vars
  BY DEF Selling, Visiting, Limiting, everything, limits, L!vars
<1>3. LimitsInv /\ [Selling \/ Visiting \/ Limiting]_everything => LimitsInv'
  BY <1>2, LimitsStep
<1>4. LimitsInv => WindowsKept
  BY DEF LimitsInv
<1> QED
  BY <1>1, <1>3, <1>4, PTL DEF StorefrontSpec

=============================================================================
