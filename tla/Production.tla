----------------------------- MODULE Production -----------------------------
(***************************************************************************)
(* Materials, recipes and production batches:                              *)
(* app/services/inventory_service.py over materials, material_lots,        *)
(* recipe_versions, recipe_components, production_batches,                 *)
(* production_batch_consumption, inventory_movements and products.stock.   *)
(*                                                                         *)
(* Every admin request is one READ COMMITTED transaction without explicit  *)
(* locks.  A request that decides on rows it has read and writes them      *)
(* later is two actions, as in Orders: the first evaluates the code's      *)
(* guards and keeps in job[a] what the Python variables hold, the second   *)
(* applies the INSERTs and UPDATEs to the rows as they are then.           *)
(*                                                                         *)
(* A recipe makes one unit of its product, and each of its component lines *)
(* needs one stock unit of a material for it (quantity_basis per_unit, no  *)
(* wastage), so a batch's expected consumption is its planned quantity on  *)
(* every line.  Units are counted in stock units; costs are the subject of *)
(* Valuation.                                                              *)
(***************************************************************************)
EXTENDS Integers, FiniteSetsExt

CONSTANTS
    Product,       \* rows of products
    Material,      \* rows of materials
    Lot,           \* ids a material receipt may create
    DatedLot,      \* lots received with an expiry or use-by date
    Recipe,        \* ids of recipe versions
    RecipeProduct, \* the product of each recipe version
    Slot,          \* positions of component lines in a recipe
    Batch,         \* ids of production batches
    Admin,         \* admin requests being served at the same time
    MaxQuantity    \* bound: units of one receipt, plan, usage or correction

\* What the constants must satisfy; the MC module assumes it.
ProductionAssumption ==
    /\ DatedLot \subseteq Lot
    /\ RecipeProduct \in [Recipe -> Product]
    /\ IsFiniteSet(Slot)
    /\ MaxQuantity \in Nat \ {0}

VARIABLES
    active,   \* materials whose active flag is set
    onHand,   \* sum of a material's inventory_movements
    lot,      \* rows of material_lots
    consumed, \* sum of the production_consumption movements of a lot
    recipe,   \* rows of recipe_versions with their components
    batch,    \* rows of production_batches with their consumption lines
    outputs,  \* how many production_output movements a batch has
    stock,    \* products.stock
    ledger,   \* sum of a product's finished_good movements
    job       \* the admin requests in flight, with what they have read

vars == <<active, onHand, lot, consumed, recipe, batch, outputs, stock,
          ledger, job>>
materialVars == <<active, onHand, lot, consumed>>
stockVars == <<outputs, stock, ledger>>

RecipeStatus == {"draft", "active", "archived"}
BatchStatus == {"draft", "produced", "cancelled"}
Quantity == 1..MaxQuantity

\* Component and consumption lines: which material stands on which line.
Line == Slot \X Material
NoLot == [lot |-> "none"]
Choice == [lot : Lot] \cup {NoLot}
NoneYet == [status |-> "absent"]

LotRow == [material : Material, received : Nat, remaining : Nat] \cup {NoneYet}
RecipeRow == [status : RecipeStatus, lines : SUBSET Line] \cup {NoneYet}
BatchRow == [status : BatchStatus, recipe : Recipe, planned : Nat,
             lines : SUBSET Line] \cup {NoneYet}
Idle == [op |-> "idle"]

ProductionTypeOK ==
    /\ active \in SUBSET Material
    /\ onHand \in [Material -> Int]
    /\ lot \in [Lot -> LotRow]
    /\ consumed \in [Lot -> Nat]
    /\ recipe \in [Recipe -> RecipeRow]
    /\ batch \in [Batch -> BatchRow]
    /\ outputs \in [Batch -> Nat]
    /\ stock \in [Product -> Nat]
    /\ ledger \in [Product -> Int]
    /\ \A a \in Admin :
          job[a].op \in {"idle", "edit", "activate", "replan", "post", "cancel"}

Init ==
    /\ active = Material
    /\ onHand = [m \in Material |-> 0]
    /\ lot = [l \in Lot |-> NoneYet]
    /\ consumed = [l \in Lot |-> 0]
    /\ recipe = [v \in Recipe |-> NoneYet]
    /\ batch = [b \in Batch |-> NoneYet]
    /\ outputs = [b \in Batch |-> 0]
    /\ stock = [p \in Product |-> 0]
    /\ ledger = [p \in Product |-> 0]
    /\ job = [a \in Admin |-> Idle]

Free(a) == job[a].op = "idle"

\* GREATEST(x, 0).
AtLeastZero(x) == IF x < 0 THEN 0 ELSE x

(***************************************************************************)
(* Materials.                                                              *)
(***************************************************************************)

\* create_material_receipt: the lot, its remaining snapshot and a positive
\* movement; l is the new lot's id.
ReceiveMaterial(m, l, q) ==
    /\ lot[l] = NoneYet
    /\ lot' = [lot EXCEPT ![l] =
                  [material |-> m, received |-> q, remaining |-> q]]
    /\ onHand' = [onHand EXCEPT ![m] = @ + q]
    /\ UNCHANGED <<active, consumed, recipe, batch, stockVars, job>>

\* create_material_adjustment: a movement of the material, of no lot.  A
\* stock count may be wrong in either direction; the bound keeps it finite.
AdjustMaterial(m, d) ==
    /\ d /= 0
    /\ onHand[m] + d \in -MaxQuantity..MaxQuantity
    /\ onHand' = [onHand EXCEPT ![m] = @ + d]
    /\ UNCHANGED <<active, lot, consumed, recipe, batch, stockVars, job>>

\* update_material: only the active flag is read elsewhere.
ToggleMaterial(m) ==
    /\ active' = IF m \in active THEN active \ {m} ELSE active \cup {m}
    /\ UNCHANGED <<onHand, lot, consumed, recipe, batch, stockVars, job>>

(***************************************************************************)
(* Recipes.                                                                *)
(***************************************************************************)

\* _validate_recipe_component: each line names an active material.
ValidLines(lines) ==
    /\ \A line \in lines : line[2] \in active
    /\ \A x, y \in lines : x[1] = y[1] => x = y

\* create_recipe_version: a draft with its lines.
CreateRecipe(v, lines) ==
    /\ recipe[v] = NoneYet
    /\ ValidLines(lines)
    /\ recipe' = [recipe EXCEPT ![v] = [status |-> "draft", lines |-> lines]]
    /\ UNCHANGED <<materialVars, batch, stockVars, job>>

\* Fault: component lines may be replaced whatever the recipe's status.
EditableAlways(v) == recipe[v] /= NoneYet

\* update_recipe_version: only drafts replace their lines.
Editable(v) == recipe[v] /= NoneYet /\ recipe[v].status = "draft"

StartEdit(a, v, lines) ==
    /\ Free(a)
    /\ Editable(v)
    /\ job' = [job EXCEPT ![a] = [op |-> "edit", recipe |-> v, lines |-> lines]]
    /\ UNCHANGED <<materialVars, recipe, batch, stockVars>>

\* _replace_recipe_components: validated while they are inserted.
FinishEdit(a) ==
    /\ job[a].op = "edit"
    /\ recipe' = IF ValidLines(job[a].lines)
                 THEN [recipe EXCEPT ![job[a].recipe].lines = job[a].lines]
                 ELSE recipe
    /\ job' = [job EXCEPT ![a] = Idle]
    /\ UNCHANGED <<materialVars, batch, stockVars>>

\* The active versions the first UPDATE of activate_recipe_version finds.
Conflicting(v) ==
    {w \in Recipe \ {v} : /\ RecipeProduct[w] = RecipeProduct[v]
                          /\ recipe[w] /= NoneYet
                          /\ recipe[w].status = "active"}

\* activate_recipe_version counts the components and archives the versions
\* that are active when its UPDATE starts ...
StartActivate(a, v) ==
    /\ Free(a)
    /\ recipe[v] /= NoneYet
    /\ recipe[v].lines /= {}
    /\ job' = [job EXCEPT ![a] =
                  [op |-> "activate", recipe |-> v, archived |-> Conflicting(v)]]
    /\ UNCHANGED <<materialVars, recipe, batch, stockVars>>

\* ... and activates its own; a version another transaction activated after
\* that UPDATE started is not in its snapshot and stays active.
FinishActivate(a) ==
    /\ job[a].op = "activate"
    /\ recipe' = [v \in Recipe |->
                     IF v = job[a].recipe
                     THEN [recipe[v] EXCEPT !.status = "active"]
                     ELSE IF v \in job[a].archived
                     THEN [recipe[v] EXCEPT !.status = "archived"]
                     ELSE recipe[v]]
    /\ job' = [job EXCEPT ![a] = Idle]
    /\ UNCHANGED <<materialVars, batch, stockVars>>

\* archive_recipe_version.
ArchiveRecipe(v) ==
    /\ recipe[v] /= NoneYet
    /\ recipe' = [recipe EXCEPT ![v].status = "archived"]
    /\ UNCHANGED <<materialVars, batch, stockVars, job>>

(***************************************************************************)
(* Batches.                                                                *)
(***************************************************************************)

\* create_production_batch: from a recipe version the admin names, whatever
\* its status, or from the product's active one; the expected consumption
\* is seeded from its lines (_seed_batch_expected_consumption).
CreateBatch(b, v, q) ==
    /\ batch[b] = NoneYet
    /\ recipe[v] /= NoneYet
    /\ batch' = [batch EXCEPT ![b] =
                    [status |-> "draft", recipe |-> v, planned |-> q,
                     lines |-> recipe[v].lines]]
    /\ UNCHANGED <<materialVars, recipe, stockVars, job>>

\* update_production_batch: the guard ...
StartReplan(a, b, q) ==
    /\ Free(a)
    /\ batch[b] /= NoneYet
    /\ batch[b].status = "draft"
    /\ job' = [job EXCEPT ![a] = [op |-> "replan", batch |-> b, planned |-> q]]
    /\ UNCHANGED <<materialVars, recipe, batch, stockVars>>

\* ... the UPDATE and the consumption lines seeded anew.
FinishReplan(a) ==
    /\ job[a].op = "replan"
    /\ batch' = [batch EXCEPT ![job[a].batch].planned = job[a].planned,
                              ![job[a].batch].lines =
                                  recipe[batch[job[a].batch].recipe].lines]
    /\ job' = [job EXCEPT ![a] = Idle]
    /\ UNCHANGED <<materialVars, recipe, stockVars>>

\* The units of material m that a posting's lines use, each counted on its line ...
Units(lines, usage, m) ==
    {u \in Slot \X Quantity : <<u[1], m>> \in lines /\ u[2] <= usage[<<u[1], m>>]}

\* ... and added up.
Required(lines, usage, m) == Cardinality(Units(lines, usage, m))

\* Fault: each line is compared with the stock on its own.
EnoughMaterialPerLine(lines, usage) ==
    \A line \in lines : usage[line] <= onHand[line[2]]

\* planned_by_material against _material_on_hand: the lines of one material
\* are added up.
EnoughMaterial(lines, usage) ==
    \A m \in Material :
        (\E line \in lines : line[2] = m)
            => Required(lines, usage, m) <= onHand[m]

\* A selected lot is one of the material and holds what the line takes; each
\* line is compared with it on its own.
EnoughInLots(lines, usage, from) ==
    \A line \in lines : from[line] /= NoLot /\ usage[line] /= 0 =>
        /\ lot[from[line].lot] /= NoneYet
        /\ lot[from[line].lot].material = line[2]
        /\ usage[line] <= lot[from[line].lot].remaining

\* The comparison of a lot's expiry date with the production date slices a
\* datetime.date, which raises, so a posting with a dated lot is rolled back.
Undated(lines, from) ==
    \A line \in lines : from[line] = NoLot \/ from[line].lot \notin DatedLot

\* Fault: a batch may be posted again.
PostableAgain(b) == batch[b] /= NoneYet /\ batch[b].status /= "cancelled"

\* Only draft batches can be posted.
Postable(b) == batch[b] /= NoneYet /\ batch[b].status = "draft"

\* post_production_batch up to its writes.  A posting short of material or
\* of a lot's quantity only leaves an exception and a warning on the batch,
\* which nothing here reads, and has no action.
StartPost(a, b, usage, from, made) ==
    /\ Free(a)
    /\ Postable(b)
    /\ EnoughMaterial(batch[b].lines, usage)
    /\ EnoughInLots(batch[b].lines, usage, from)
    /\ Undated(batch[b].lines, from)
    /\ job' = [job EXCEPT ![a] =
                  [op |-> "post", batch |-> b, lines |-> batch[b].lines,
                   usage |-> usage, from |-> from, made |-> made]]
    /\ UNCHANGED <<materialVars, recipe, batch, stockVars>>

\* What job j takes from lot l.
Taken(j, l) ==
    MapThenSumSet(LAMBDA line : IF j.from[line] = [lot |-> l]
                                THEN j.usage[line] ELSE 0, j.lines)

\* The writes: a negative movement per line, the lots' snapshots, the output
\* movement, the product's stock and the batch's status.
FinishPost(a) ==
    LET j == job[a]
        p == RecipeProduct[batch[j.batch].recipe]
    IN  /\ j.op = "post"
        /\ onHand' = [m \in Material |->
                         onHand[m] - Required(j.lines, j.usage, m)]
        /\ lot' = [l \in Lot |->
                      IF lot[l] = NoneYet THEN lot[l]
                      ELSE [lot[l] EXCEPT !.remaining = AtLeastZero(@ - Taken(j, l))]]
        /\ consumed' = [l \in Lot |-> consumed[l] + Taken(j, l)]
        /\ outputs' = [outputs EXCEPT ![j.batch] = @ + 1]
        /\ stock' = [stock EXCEPT ![p] = @ + j.made]
        /\ ledger' = [ledger EXCEPT ![p] = @ + j.made]
        /\ batch' = [batch EXCEPT ![j.batch].status = "produced"]
        /\ job' = [job EXCEPT ![a] = Idle]
        /\ UNCHANGED <<active, recipe>>

\* cancel_production_batch refuses a produced batch ...
Cancellable(b) == batch[b] /= NoneYet /\ batch[b].status /= "produced"

StartCancel(a, b) ==
    /\ Free(a)
    /\ Cancellable(b)
    /\ job' = [job EXCEPT ![a] = [op |-> "cancel", batch |-> b]]
    /\ UNCHANGED <<materialVars, recipe, batch, stockVars>>

\* ... and sets the status without looking again.
FinishCancel(a) ==
    /\ job[a].op = "cancel"
    /\ batch' = [batch EXCEPT ![job[a].batch].status = "cancelled"]
    /\ job' = [job EXCEPT ![a] = Idle]
    /\ UNCHANGED <<materialVars, recipe, stockVars>>

\* UPDATE products SET stock = GREATEST(stock + delta, 0).
CorrectedStock(s, d) == AtLeastZero(s + d)

\* correct_production_batch: a movement of delta for a finished good or a
\* material the request names; lots are left alone.
CorrectProduct(b, p, d) ==
    /\ batch[b] /= NoneYet
    /\ batch[b].status = "produced"
    /\ d /= 0
    /\ ledger[p] + d \in -MaxQuantity..MaxQuantity
    /\ ledger' = [ledger EXCEPT ![p] = @ + d]
    /\ stock' = [stock EXCEPT ![p] = CorrectedStock(@, d)]
    /\ UNCHANGED <<materialVars, recipe, batch, outputs, job>>

CorrectMaterial(b, m, d) ==
    /\ batch[b] /= NoneYet
    /\ batch[b].status = "produced"
    /\ AdjustMaterial(m, d)

(***************************************************************************)
(* The specification.                                                      *)
(***************************************************************************)

Delta == -MaxQuantity..MaxQuantity

MaterialNext ==
    \E m \in Material :
        \/ \E l \in Lot, q \in Quantity : ReceiveMaterial(m, l, q)
        \/ \E d \in Delta : AdjustMaterial(m, d)
        \/ ToggleMaterial(m)

RecipeNext ==
    \E v \in Recipe :
        \/ \E lines \in SUBSET Line : CreateRecipe(v, lines)
        \/ ArchiveRecipe(v)
        \/ \E a \in Admin :
              \/ \E lines \in SUBSET Line : StartEdit(a, v, lines)
              \/ StartActivate(a, v)

BatchNext ==
    \E b \in Batch :
        \/ \E v \in Recipe, q \in Quantity : CreateBatch(b, v, q)
        \/ \E p \in Product, d \in Delta : CorrectProduct(b, p, d)
        \/ \E m \in Material, d \in Delta : CorrectMaterial(b, m, d)
        \/ \E a \in Admin :
              \/ \E q \in Quantity : StartReplan(a, b, q)
              \/ StartCancel(a, b)
              \/ /\ Postable(b)
                 /\ \E usage \in [batch[b].lines -> 0..MaxQuantity],
                       from \in [batch[b].lines -> Choice], made \in Quantity :
                        StartPost(a, b, usage, from, made)

FinishNext ==
    \E a \in Admin :
        \/ FinishEdit(a) \/ FinishActivate(a) \/ FinishReplan(a)
        \/ FinishPost(a) \/ FinishCancel(a)

Next == MaterialNext \/ RecipeNext \/ BatchNext \/ FinishNext

Spec == Init /\ [][Next]_vars

\* One admin request of this service at a time.
Alone == \A a \in Admin : Free(a)
SerialNext == FinishNext \/ (Alone /\ (MaterialNext \/ RecipeNext \/ BatchNext))
SerialSpec == Init /\ [][SerialNext]_vars

(***************************************************************************)
(* Properties.                                                             *)
(***************************************************************************)

\* A batch is 'produced' exactly when its output entered stock, once: a
\* second posting, or a cancellation after the posting, would leave candles
\* on the shelf that no batch accounts for.
ProducedOnce ==
    \A b \in Batch :
        outputs[b] = IF batch[b].status = "produced" THEN 1 ELSE 0

\* Only one recipe version of a product is active, so that a batch created
\* without naming one is seeded from an unambiguous recipe.
OneActiveRecipe ==
    \A v, w \in Recipe :
        /\ recipe[v].status = "active" /\ recipe[w].status = "active"
        /\ RecipeProduct[v] = RecipeProduct[w]
        => v = w

\* The component lines of a version that was ever activated or archived are
\* history: batches and cost snapshots refer to them.
ActiveRecipesFrozen ==
    [][\A v \in Recipe :
          recipe[v].status \in {"active", "archived"}
              => recipe'[v].lines = recipe[v].lines]_vars

\* A posting never takes more of a material than there is, over all the lines
\* of the batch together.
PostingCovered ==
    [][(\E b \in Batch : outputs'[b] > outputs[b])
          => \A m \in Material : onHand'[m] < onHand[m] => onHand'[m] >= 0]_vars

\* Not kept by the code (see the README):
\* what batches consumed of a lot is within what was received, so that the
\* trace from a supplier's lot to the batches adds up;
LotNotOverdrawn ==
    \A l \in Lot : lot[l] /= NoneYet => consumed[l] <= lot[l].received

\* products.stock shows the sum of the product's movements.
StockFollowsMovements == \A p \in Product : stock[p] = ledger[p]
=============================================================================
