-------------------------- MODULE Production_proofs --------------------------
(***************************************************************************)
(* Theorems about Production with one admin request at a time, for every   *)
(* set of products, materials, recipes, batches and admins.                *)
(***************************************************************************)
EXTENDS Production, FiniteSetTheorems, TLAPS

\* The rows that decide about production are rows or absent.
RowsOK ==
    /\ recipe \in [Recipe -> RecipeRow]
    /\ batch \in [Batch -> BatchRow]
    /\ outputs \in [Batch -> Nat]
    /\ job = [a \in Admin |-> job[a]]

\* One request is in flight at most.
OneJob == \A a, c \in Admin : ~Free(a) /\ ~Free(c) => a = c

\* What a request in flight has read still holds: this is what overlapping
\* requests destroy.
Holds(j) ==
    /\ j.op = "edit" => j.recipe \in Recipe /\ Editable(j.recipe) /\ j.lines \in SUBSET Line
    /\ j.op = "activate" => /\ j.recipe \in Recipe /\ recipe[j.recipe] /= NoneYet
                            /\ j.archived = Conflicting(j.recipe)
    /\ j.op = "replan" => j.batch \in Batch /\ j.planned \in Nat /\ Postable(j.batch)
    /\ j.op = "post" => j.batch \in Batch /\ Postable(j.batch)
    /\ j.op = "cancel" => j.batch \in Batch /\ Cancellable(j.batch)
JobsHold == \A a \in Admin : Holds(job[a])

\* A batch was made from a recipe version that exists.
MadeFromRecipe ==
    \A b \in Batch : batch[b] /= NoneYet => recipe[batch[b].recipe] /= NoneYet

ProductionInv ==
    RowsOK /\ OneJob /\ JobsHold /\ MadeFromRecipe /\ ProducedOnce /\ OneActiveRecipe

LEMMA InitInv == ASSUME ProductionAssumption, Init PROVE ProductionInv
  BY DEF Init, ProductionInv, RowsOK, OneJob, JobsHold, MadeFromRecipe, ProducedOnce,
         OneActiveRecipe, Free, Idle, Holds, NoneYet, RecipeRow, BatchRow

\* Nothing a request reads or decides on changes.
LEMMA Untouched ==
    ASSUME ProductionInv, UNCHANGED <<recipe, batch, outputs, job>>
    PROVE  ProductionInv'
  BY DEF ProductionInv, RowsOK, OneJob, JobsHold, MadeFromRecipe, ProducedOnce,
         OneActiveRecipe, Free, Holds, Editable, Conflicting, Postable, Cancellable

LEMMA MaterialKeeps == ASSUME ProductionInv, MaterialNext PROVE ProductionInv'
  BY Untouched DEF MaterialNext, ReceiveMaterial, AdjustMaterial, ToggleMaterial, stockVars

\* With no request in flight there is nothing that may have gone stale.
LEMMA IdleHolds ==
    ASSUME Alone
    PROVE  \A a \in Admin : job[a].op = "idle"
  BY DEF Alone, Free

\* A request that only reads enters its job.
LEMMA Enters ==
    ASSUME ProductionInv, Alone, NEW a \in Admin, NEW j,
           job' = [job EXCEPT ![a] = j],
           UNCHANGED <<recipe, batch, outputs>>,
           Holds(j)
    PROVE  ProductionInv'
<1>1. /\ job' = [c \in Admin |-> job'[c]]
      /\ job'[a] = j
      /\ \A c \in Admin \ {a} : job'[c] = job[c] /\ job[c].op = "idle"
  BY IdleHolds DEF ProductionInv, RowsOK
<1>2. RowsOK' /\ MadeFromRecipe' /\ ProducedOnce' /\ OneActiveRecipe'
  BY <1>1 DEF ProductionInv, RowsOK, MadeFromRecipe, ProducedOnce, OneActiveRecipe
<1>3. OneJob'
  BY <1>1 DEF OneJob, Free
<1>4. \A v : /\ Editable(v)' <=> Editable(v)
             /\ Conflicting(v)' = Conflicting(v)
             /\ Postable(v)' <=> Postable(v)
             /\ Cancellable(v)' <=> Cancellable(v)
  BY DEF Editable, Conflicting, Postable, Cancellable
<1>5. JobsHold'
  <2> SUFFICES ASSUME NEW c \in Admin PROVE Holds(job[c])'
    BY DEF JobsHold
  <2>1. CASE c = a
    BY <2>1, <1>1, <1>4 DEF Holds
  <2>2. CASE c /= a
    BY <2>2, <1>1 DEF Holds
  <2> QED
    BY <2>1, <2>2
<1> QED
  BY <1>2, <1>3, <1>5 DEF ProductionInv

\* A request ends, and with it every reading that could be stale.
LEMMA Ends ==
    ASSUME ProductionInv, NEW a \in Admin, ~Free(a), job' = [job EXCEPT ![a] = Idle]
    PROVE  OneJob' /\ JobsHold' /\ job' = [c \in Admin |-> job'[c]]
<1>1. \A c \in Admin \ {a} : Free(c)
  BY DEF ProductionInv, OneJob
<1>2. \A c \in Admin : job'[c].op = "idle"
  BY <1>1 DEF ProductionInv, RowsOK, Free, Idle
<1> QED
  BY <1>2 DEF ProductionInv, RowsOK, OneJob, JobsHold, Holds, Free

-----------------------------------------------------------------------------
(* Recipes.                                                                *)

LEMMA CreateRecipeKeeps ==
    ASSUME ProductionInv, Alone, NEW v \in Recipe, NEW lines \in SUBSET Line, CreateRecipe(v, lines)
    PROVE  ProductionInv'
<1>1. recipe' = [recipe EXCEPT ![v] = [status |-> "draft", lines |-> lines]]
      /\ UNCHANGED <<batch, outputs, job>>
  BY DEF CreateRecipe, stockVars
<1>2. [status |-> "draft", lines |-> lines] \in RecipeRow /\ [status |-> "draft", lines |-> lines] /= NoneYet
  BY DEF RecipeRow, RecipeStatus, NoneYet
<1>3. RowsOK' /\ MadeFromRecipe' /\ ProducedOnce' /\ OneActiveRecipe'
  BY <1>1, <1>2 DEF ProductionInv, RowsOK, MadeFromRecipe, ProducedOnce, OneActiveRecipe
<1>4. OneJob' /\ JobsHold'
  BY <1>1, IdleHolds DEF ProductionInv, OneJob, JobsHold, Holds, Free
<1> QED
  BY <1>3, <1>4 DEF ProductionInv

LEMMA ArchiveRecipeKeeps ==
    ASSUME ProductionInv, Alone, NEW v \in Recipe, ArchiveRecipe(v)
    PROVE  ProductionInv'
<1>1. /\ recipe' = [recipe EXCEPT ![v].status = "archived"]
      /\ recipe[v] /= NoneYet
      /\ UNCHANGED <<batch, outputs, job>>
  BY DEF ArchiveRecipe, stockVars
<1>2. /\ recipe' \in [Recipe -> RecipeRow]
      /\ recipe'[v].status = "archived"
      /\ \A w \in Recipe \ {v} : recipe'[w] = recipe[w]
  BY <1>1 DEF ProductionInv, RowsOK, RecipeRow, RecipeStatus
<1>3. recipe'[v] /= NoneYet
  BY <1>2 DEF NoneYet
<1>4. RowsOK' /\ MadeFromRecipe' /\ ProducedOnce' /\ OneActiveRecipe'
  BY <1>1, <1>2, <1>3 DEF ProductionInv, RowsOK, MadeFromRecipe, ProducedOnce, OneActiveRecipe
<1>5. OneJob' /\ JobsHold'
  BY <1>1, IdleHolds DEF ProductionInv, OneJob, JobsHold, Holds, Free
<1> QED
  BY <1>4, <1>5 DEF ProductionInv

LEMMA StartEditKeeps ==
    ASSUME ProductionInv, Alone, NEW a \in Admin, NEW v \in Recipe,
           NEW lines \in SUBSET Line, StartEdit(a, v, lines)
    PROVE  ProductionInv'
<1> DEFINE j == [op |-> "edit", recipe |-> v, lines |-> lines]
<1>1. job' = [job EXCEPT ![a] = j] /\ UNCHANGED <<recipe, batch, outputs>> /\ Holds(j)
  BY DEF StartEdit, stockVars, Holds
<1> HIDE DEF j
<1> QED
  BY <1>1, Enters

LEMMA StartActivateKeeps ==
    ASSUME ProductionInv, Alone, NEW a \in Admin, NEW v \in Recipe, StartActivate(a, v)
    PROVE  ProductionInv'
<1> DEFINE j == [op |-> "activate", recipe |-> v, archived |-> Conflicting(v)]
<1>1. job' = [job EXCEPT ![a] = j] /\ UNCHANGED <<recipe, batch, outputs>> /\ Holds(j)
  BY DEF StartActivate, stockVars, Holds
<1> HIDE DEF j
<1> QED
  BY <1>1, Enters

LEMMA RecipeKeeps == ASSUME ProductionInv, Alone, RecipeNext PROVE ProductionInv'
  BY CreateRecipeKeeps, ArchiveRecipeKeeps, StartEditKeeps, StartActivateKeeps DEF RecipeNext

\* Replacing a draft's lines leaves its status.
LEMMA FinishEditKeeps ==
    ASSUME ProductionInv, NEW a \in Admin, FinishEdit(a)
    PROVE  ProductionInv'
<1> DEFINE v == job[a].recipe
<1>1. v \in Recipe /\ recipe[v] /= NoneYet /\ job[a].lines \in SUBSET Line
  BY DEF FinishEdit, ProductionInv, JobsHold, Holds, Editable
<1>2. /\ recipe' = recipe \/ recipe' = [recipe EXCEPT ![v].lines = job[a].lines]
      /\ UNCHANGED <<batch, outputs>>
      /\ job' = [job EXCEPT ![a] = Idle]
  BY DEF FinishEdit, stockVars
<1>3. OneJob' /\ JobsHold' /\ job' = [c \in Admin |-> job'[c]]
  BY <1>2, Ends DEF FinishEdit, Free
<1>4. /\ recipe' \in [Recipe -> RecipeRow]
      /\ \A w \in Recipe : /\ recipe'[w].status = recipe[w].status
                           /\ recipe[w] /= NoneYet => recipe'[w] /= NoneYet
  BY <1>1, <1>2 DEF ProductionInv, RowsOK, RecipeRow, RecipeStatus, NoneYet
<1>5. RowsOK'
  BY <1>2, <1>3, <1>4 DEF ProductionInv, RowsOK
<1>6. MadeFromRecipe' /\ ProducedOnce' /\ OneActiveRecipe'
  BY <1>2, <1>4 DEF ProductionInv, MadeFromRecipe, ProducedOnce, OneActiveRecipe, RowsOK, BatchRow, NoneYet
<1> QED
  BY <1>3, <1>5, <1>6 DEF ProductionInv

\* The versions that were active when the request read are archived, and no
\* other of the product was activated since.
LEMMA FinishActivateKeeps ==
    ASSUME ProductionInv, NEW a \in Admin, FinishActivate(a)
    PROVE  ProductionInv'
<1> DEFINE v == job[a].recipe
<1>1. v \in Recipe /\ recipe[v] /= NoneYet /\ job[a].archived = Conflicting(v)
  BY DEF FinishActivate, ProductionInv, JobsHold, Holds
<1>2. /\ recipe' = [w \in Recipe |->
                       IF w = v THEN [recipe[w] EXCEPT !.status = "active"]
                       ELSE IF w \in Conflicting(v) THEN [recipe[w] EXCEPT !.status = "archived"]
                       ELSE recipe[w]]
      /\ UNCHANGED <<batch, outputs>>
      /\ job' = [job EXCEPT ![a] = Idle]
  BY <1>1 DEF FinishActivate, stockVars
<1> HIDE DEF v
<1>3. OneJob' /\ JobsHold' /\ job' = [c \in Admin |-> job'[c]]
  BY <1>2, Ends DEF FinishActivate, Free
<1>4. \A w \in Recipe :
         /\ recipe'[w] \in RecipeRow
         /\ recipe[w] /= NoneYet => recipe'[w] /= NoneYet
         /\ recipe'[w].status = "active" =>
               w = v \/ (recipe[w].status = "active" /\ w \notin Conflicting(v))
  <2> SUFFICES ASSUME NEW w \in Recipe
               PROVE  /\ recipe'[w] \in RecipeRow
                      /\ recipe[w] /= NoneYet => recipe'[w] /= NoneYet
                      /\ recipe'[w].status = "active" =>
                            w = v \/ (recipe[w].status = "active" /\ w \notin Conflicting(v))
    OBVIOUS
  <2>1. CASE w = v
    BY <2>1, <1>1, <1>2 DEF ProductionInv, RowsOK, RecipeRow, RecipeStatus, NoneYet
  <2>2. CASE w /= v /\ w \in Conflicting(v)
    <3>1. recipe[w] /= NoneYet
      BY <2>2 DEF Conflicting
    <3> QED
      BY <2>2, <3>1, <1>2 DEF ProductionInv, RowsOK, RecipeRow, RecipeStatus, NoneYet
  <2>3. CASE w /= v /\ w \notin Conflicting(v)
    BY <2>3, <1>2 DEF ProductionInv, RowsOK
  <2> QED
    BY <2>1, <2>2, <2>3
<1>5. RowsOK'
  BY <1>2, <1>3, <1>4 DEF ProductionInv, RowsOK
<1>6. OneActiveRecipe'
  <2> SUFFICES ASSUME NEW x \in Recipe, NEW y \in Recipe,
                      recipe'[x].status = "active", recipe'[y].status = "active",
                      RecipeProduct[x] = RecipeProduct[y]
               PROVE  x = y
    BY DEF OneActiveRecipe
  <2>1. CASE x /= v /\ y /= v
    BY <2>1, <1>4 DEF ProductionInv, OneActiveRecipe
  <2>2. CASE x = v /\ y /= v
    BY <2>2, <1>4 DEF Conflicting, NoneYet
  <2>3. CASE x /= v /\ y = v
    BY <2>3, <1>4 DEF Conflicting, NoneYet
  <2> QED
    BY <2>1, <2>2, <2>3
<1>7. MadeFromRecipe' /\ ProducedOnce'
  BY <1>2, <1>4 DEF ProductionInv, MadeFromRecipe, ProducedOnce, RowsOK, BatchRow, NoneYet
<1> QED
  BY <1>3, <1>5, <1>6, <1>7 DEF ProductionInv

-----------------------------------------------------------------------------
(* Batches.                                                                *)

LEMMA CreateBatchKeeps ==
    ASSUME ProductionAssumption, ProductionInv, Alone,
           NEW b \in Batch, NEW v \in Recipe, NEW q \in Quantity, CreateBatch(b, v, q)
    PROVE  ProductionInv'
<1> DEFINE new == [status |-> "draft", recipe |-> v, planned |-> q, lines |-> recipe[v].lines]
<1>1. /\ batch' = [batch EXCEPT ![b] = new]
      /\ batch[b] = NoneYet /\ recipe[v] /= NoneYet
      /\ UNCHANGED <<recipe, outputs, job>>
  BY DEF CreateBatch, stockVars
<1>2. new \in BatchRow /\ new /= NoneYet /\ new.recipe = v /\ new.status = "draft"
  <2>1. recipe[v].lines \in SUBSET Line
    BY <1>1 DEF ProductionInv, RowsOK, RecipeRow
  <2>2. q \in Nat
    BY DEF Quantity, ProductionAssumption
  <2> QED
    BY <2>1, <2>2 DEF BatchRow, BatchStatus, NoneYet
<1> HIDE DEF new
<1>3. outputs[b] = 0
  BY <1>1 DEF ProductionInv, ProducedOnce, NoneYet
<1>4. RowsOK' /\ MadeFromRecipe' /\ ProducedOnce' /\ OneActiveRecipe'
  BY <1>1, <1>2, <1>3 DEF ProductionInv, RowsOK, MadeFromRecipe, ProducedOnce, OneActiveRecipe
<1>5. OneJob' /\ JobsHold'
  BY <1>1, IdleHolds DEF ProductionInv, OneJob, JobsHold, Holds, Free
<1> QED
  BY <1>4, <1>5 DEF ProductionInv

LEMMA StartReplanKeeps ==
    ASSUME ProductionAssumption, ProductionInv, Alone, NEW a \in Admin, NEW b \in Batch,
           NEW q \in Quantity, StartReplan(a, b, q)
    PROVE  ProductionInv'
<1> DEFINE j == [op |-> "replan", batch |-> b, planned |-> q]
<1>1. q \in Nat
  BY DEF Quantity, ProductionAssumption
<1>2. job' = [job EXCEPT ![a] = j] /\ UNCHANGED <<recipe, batch, outputs>> /\ Holds(j)
  BY <1>1 DEF StartReplan, stockVars, Holds, Postable
<1> HIDE DEF j
<1> QED
  BY <1>2, Enters

LEMMA StartCancelKeeps ==
    ASSUME ProductionInv, Alone, NEW a \in Admin, NEW b \in Batch, StartCancel(a, b)
    PROVE  ProductionInv'
<1> DEFINE j == [op |-> "cancel", batch |-> b]
<1>1. job' = [job EXCEPT ![a] = j] /\ UNCHANGED <<recipe, batch, outputs>> /\ Holds(j)
  BY DEF StartCancel, stockVars, Holds
<1> HIDE DEF j
<1> QED
  BY <1>1, Enters

LEMMA StartPostKeeps ==
    ASSUME ProductionInv, Alone, NEW a \in Admin, NEW b \in Batch,
           NEW usage, NEW from, NEW made, StartPost(a, b, usage, from, made)
    PROVE  ProductionInv'
<1> DEFINE j == [op |-> "post", batch |-> b, lines |-> batch[b].lines,
                 usage |-> usage, from |-> from, made |-> made]
<1>1. job' = [job EXCEPT ![a] = j] /\ UNCHANGED <<recipe, batch, outputs>> /\ Holds(j)
  BY DEF StartPost, stockVars, Holds
<1> HIDE DEF j
<1> QED
  BY <1>1, Enters

LEMMA BatchKeeps ==
    ASSUME ProductionAssumption, ProductionInv, Alone, BatchNext
    PROVE  ProductionInv'
<1> PICK b \in Batch :
        \/ \E v \in Recipe, q \in Quantity : CreateBatch(b, v, q)
        \/ \E p \in Product, d \in Delta : CorrectProduct(b, p, d)
        \/ \E m \in Material, d \in Delta : CorrectMaterial(b, m, d)
        \/ \E a \in Admin : \/ \E q \in Quantity : StartReplan(a, b, q)
                           \/ StartCancel(a, b)
                           \/ \E usage, from, made : StartPost(a, b, usage, from, made)
  BY DEF BatchNext
<1>1. CASE \E v \in Recipe, q \in Quantity : CreateBatch(b, v, q)
  BY <1>1, CreateBatchKeeps
<1>2. CASE \E p \in Product, d \in Delta : CorrectProduct(b, p, d)
  BY <1>2, Untouched DEF CorrectProduct, materialVars
<1>3. CASE \E m \in Material, d \in Delta : CorrectMaterial(b, m, d)
  BY <1>3, Untouched DEF CorrectMaterial, AdjustMaterial, stockVars
<1>4. CASE \E a \in Admin : \/ \E q \in Quantity : StartReplan(a, b, q)
                           \/ StartCancel(a, b)
                           \/ \E usage, from, made : StartPost(a, b, usage, from, made)
  BY <1>4, StartReplanKeeps, StartCancelKeeps, StartPostKeeps
<1> QED
  BY <1>1, <1>2, <1>3, <1>4

\* A batch that gives way to another draft, or ends, of the same recipe.
LEMMA BatchRewritten ==
    ASSUME ProductionInv, NEW a \in Admin, ~Free(a), job' = [job EXCEPT ![a] = Idle],
           NEW b \in Batch, batch[b] /= NoneYet, NEW row \in BatchRow,
           row /= NoneYet, row.recipe = batch[b].recipe,
           batch' = [batch EXCEPT ![b] = row], recipe' = recipe,
           NEW n \in Nat, outputs' = [outputs EXCEPT ![b] = n],
           n = IF row.status = "produced" THEN 1 ELSE 0
    PROVE  ProductionInv'
<1>1. OneJob' /\ JobsHold' /\ job' = [c \in Admin |-> job'[c]]
  BY Ends
<1>2. RowsOK' /\ MadeFromRecipe' /\ ProducedOnce' /\ OneActiveRecipe'
  BY <1>1 DEF ProductionInv, RowsOK, MadeFromRecipe, ProducedOnce, OneActiveRecipe
<1> QED
  BY <1>1, <1>2 DEF ProductionInv

LEMMA FinishReplanKeeps ==
    ASSUME ProductionInv, NEW a \in Admin, FinishReplan(a)
    PROVE  ProductionInv'
<1> DEFINE b == job[a].batch
           row == [batch[b] EXCEPT !.planned = job[a].planned,
                                   !.lines = recipe[batch[b].recipe].lines]
<1>1. b \in Batch /\ job[a].planned \in Nat /\ batch[b] /= NoneYet /\ batch[b].status = "draft"
  BY DEF FinishReplan, ProductionInv, JobsHold, Holds, Postable
<1>2. batch[b] \in [status : BatchStatus, recipe : Recipe, planned : Nat, lines : SUBSET Line]
  BY <1>1 DEF ProductionInv, RowsOK, BatchRow
<1>3. recipe[batch[b].recipe].lines \in SUBSET Line
  BY <1>1, <1>2 DEF ProductionInv, RowsOK, MadeFromRecipe, RecipeRow
<1>4. /\ row \in BatchRow /\ row /= NoneYet
      /\ row.recipe = batch[b].recipe /\ row.status = "draft"
  BY <1>1, <1>2, <1>3 DEF BatchRow, NoneYet
<1>5. /\ batch' = [batch EXCEPT ![b] = row]
      /\ job' = [job EXCEPT ![a] = Idle] /\ ~Free(a)
      /\ recipe' = recipe /\ outputs' = outputs
  BY <1>1 DEF FinishReplan, stockVars, Free, ProductionInv, RowsOK
<1>6. outputs' = [outputs EXCEPT ![b] = 0]
  BY <1>1, <1>5 DEF ProductionInv, RowsOK, ProducedOnce
<1> HIDE DEF b, row
<1> QED
  BY <1>1, <1>4, <1>5, <1>6, BatchRewritten

LEMMA FinishPostKeeps ==
    ASSUME ProductionInv, NEW a \in Admin, FinishPost(a)
    PROVE  ProductionInv'
<1> DEFINE b == job[a].batch
           row == [batch[b] EXCEPT !.status = "produced"]
<1>1. b \in Batch /\ batch[b] /= NoneYet /\ batch[b].status = "draft"
  BY DEF FinishPost, ProductionInv, JobsHold, Holds, Postable
<1>2. /\ row \in BatchRow /\ row /= NoneYet
      /\ row.recipe = batch[b].recipe /\ row.status = "produced"
  BY <1>1 DEF ProductionInv, RowsOK, BatchRow, BatchStatus, NoneYet
<1>3. /\ batch' = [batch EXCEPT ![b] = row]
      /\ job' = [job EXCEPT ![a] = Idle] /\ ~Free(a)
      /\ recipe' = recipe
  BY <1>1 DEF FinishPost, Free
<1>4. outputs[b] = 0
  BY <1>1 DEF ProductionInv, ProducedOnce
<1>5. outputs' = [outputs EXCEPT ![b] = 1]
  BY <1>1, <1>4 DEF FinishPost, ProductionInv, RowsOK
<1>6. 1 = IF row.status = "produced" THEN 1 ELSE 0
  BY <1>2
<1> HIDE DEF b, row
<1> QED
  BY <1>1, <1>2, <1>3, <1>5, <1>6, BatchRewritten

LEMMA FinishCancelKeeps ==
    ASSUME ProductionInv, NEW a \in Admin, FinishCancel(a)
    PROVE  ProductionInv'
<1> DEFINE b == job[a].batch
           row == [batch[b] EXCEPT !.status = "cancelled"]
<1>1. b \in Batch /\ batch[b] /= NoneYet /\ batch[b].status /= "produced"
  BY DEF FinishCancel, ProductionInv, JobsHold, Holds, Cancellable
<1>2. /\ row \in BatchRow /\ row /= NoneYet
      /\ row.recipe = batch[b].recipe /\ row.status = "cancelled"
  BY <1>1 DEF ProductionInv, RowsOK, BatchRow, BatchStatus, NoneYet
<1>3. /\ batch' = [batch EXCEPT ![b] = row]
      /\ job' = [job EXCEPT ![a] = Idle] /\ ~Free(a)
      /\ recipe' = recipe /\ outputs' = outputs
  BY <1>1 DEF FinishCancel, stockVars, Free
<1>4. outputs' = [outputs EXCEPT ![b] = 0]
  BY <1>1, <1>3 DEF ProductionInv, RowsOK, ProducedOnce
<1> HIDE DEF b, row
<1> QED
  BY <1>1, <1>2, <1>3, <1>4, BatchRewritten

-----------------------------------------------------------------------------
LEMMA StepInv ==
    ASSUME ProductionAssumption, ProductionInv, [SerialNext]_vars
    PROVE  ProductionInv'
<1>1. CASE Alone /\ (MaterialNext \/ RecipeNext \/ BatchNext)
  BY <1>1, MaterialKeeps, RecipeKeeps, BatchKeeps
<1>2. CASE FinishNext
  BY <1>2, FinishEditKeeps, FinishActivateKeeps, FinishReplanKeeps, FinishPostKeeps,
     FinishCancelKeeps DEF FinishNext
<1>3. CASE UNCHANGED vars
  BY <1>3, Untouched DEF vars
<1> QED
  BY <1>1, <1>2, <1>3 DEF SerialNext

\* With one admin request at a time, a batch's output enters stock once and
\* exactly when the batch is 'produced' (post_production_batch,
\* cancel_production_batch), and a product has one active recipe version
\* (activate_recipe_version).
THEOREM SerialProduces ==
    ASSUME ProductionAssumption
    PROVE  SerialSpec => []ProducedOnce /\ []OneActiveRecipe
<1>1. Init => ProductionInv
  BY InitInv
<1>2. ProductionInv /\ [SerialNext]_vars => ProductionInv'
  BY StepInv
<1>3. ProductionInv => ProducedOnce /\ OneActiveRecipe
  BY DEF ProductionInv
<1> QED
  BY <1>1, <1>2, <1>3, PTL DEF SerialSpec
-----------------------------------------------------------------------------
(* The material of a posting.                                              *)

\* What a posting in flight has checked is still there.
CoverInv ==
    /\ onHand \in [Material -> Int]
    /\ \A a \in Admin : job[a].op = "post" => EnoughMaterial(job[a].lines, job[a].usage)

\* The units a posting uses are counted in full, and none of a material on
\* none of its lines.
LEMMA RequiredCounts ==
    ASSUME ProductionAssumption, NEW lines, NEW usage, NEW m
    PROVE  /\ Required(lines, usage, m) \in Nat
           /\ (\A line \in lines : line[2] /= m) => Required(lines, usage, m) = 0
<1> DEFINE units == Units(lines, usage, m)
<1>1. IsFiniteSet(Slot \X Quantity)
  <2>1. IsFiniteSet(Slot)
    BY DEF ProductionAssumption
  <2>2. MaxQuantity \in Int
    BY DEF ProductionAssumption
  <2>3. IsFiniteSet(Quantity)
    BY <2>2, FS_Interval DEF Quantity
  <2> QED
    BY <2>1, <2>3, FS_Product
<1>2. IsFiniteSet(units)
  BY <1>1, FS_Subset DEF Units
<1>3. Required(lines, usage, m) \in Nat
  BY <1>2, FS_CardinalityType DEF Required
<1>4. ASSUME \A line \in lines : line[2] /= m PROVE units = {}
  BY <1>4 DEF Units
<1> QED
  BY <1>3, <1>4, FS_EmptySet DEF Required

\* With no request in flight, nothing has been checked.
LEMMA IdleCovers ==
    ASSUME CoverInv, Alone, onHand' \in [Material -> Int], job' = job
    PROVE  CoverInv'
  BY IdleHolds DEF CoverInv

LEMMA MaterialCovers ==
    ASSUME CoverInv, Alone, MaterialNext PROVE CoverInv'
<1>1. ASSUME NEW m \in Material, NEW l \in Lot, NEW q \in Quantity, ReceiveMaterial(m, l, q)
      PROVE  onHand' \in [Material -> Int] /\ job' = job
  BY <1>1 DEF ReceiveMaterial, CoverInv, Quantity
<1>2. ASSUME NEW m \in Material, NEW d \in Delta, AdjustMaterial(m, d)
      PROVE  onHand' \in [Material -> Int] /\ job' = job
  BY <1>2 DEF AdjustMaterial, CoverInv, Delta
<1>3. ASSUME NEW m \in Material, ToggleMaterial(m)
      PROVE  onHand' \in [Material -> Int] /\ job' = job
  BY <1>3 DEF ToggleMaterial, CoverInv
<1> QED
  BY <1>1, <1>2, <1>3, IdleCovers DEF MaterialNext

\* A request that enters its job, and has checked the material if it posts.
LEMMA EntersCovered ==
    ASSUME ProductionInv, CoverInv, Alone, NEW a \in Admin, NEW j,
           job' = [job EXCEPT ![a] = j], onHand' = onHand,
           j.op = "post" => EnoughMaterial(j.lines, j.usage)
    PROVE  CoverInv'
<1>1. \A c \in Admin : job[c].op = "idle"
  BY IdleHolds
<1>2. \A c \in Admin : job'[c].op = "post" => job'[c] = j
  BY <1>1 DEF ProductionInv, RowsOK
<1>3. \A lines, usage : EnoughMaterial(lines, usage)' <=> EnoughMaterial(lines, usage)
  BY DEF EnoughMaterial
<1> SUFFICES ASSUME NEW c \in Admin, job'[c].op = "post"
             PROVE  EnoughMaterial(job[c].lines, job[c].usage)'
  BY DEF CoverInv
<1>4. PICK i : i = job'[c]
  OBVIOUS
<1>5. EnoughMaterial(i.lines, i.usage)'
  BY <1>2, <1>3, <1>4
<1> QED
  BY <1>4, <1>5 DEF EnoughMaterial

LEMMA RecipeCovers ==
    ASSUME ProductionInv, CoverInv, Alone, RecipeNext PROVE CoverInv'
<1>1. ASSUME NEW v \in Recipe, NEW lines, CreateRecipe(v, lines) \/ ArchiveRecipe(v)
      PROVE  CoverInv'
  BY <1>1, IdleCovers DEF CreateRecipe, ArchiveRecipe, materialVars, CoverInv
<1>2. ASSUME NEW v \in Recipe, NEW a \in Admin, NEW lines, StartEdit(a, v, lines)
      PROVE  CoverInv'
  <2> DEFINE j == [op |-> "edit", recipe |-> v, lines |-> lines]
  <2>1. job' = [job EXCEPT ![a] = j] /\ onHand' = onHand /\ j.op /= "post"
    BY <1>2 DEF StartEdit, materialVars
  <2> HIDE DEF j
  <2> QED
    BY <2>1, EntersCovered
<1>3. ASSUME NEW v \in Recipe, NEW a \in Admin, StartActivate(a, v)
      PROVE  CoverInv'
  <2> DEFINE j == [op |-> "activate", recipe |-> v, archived |-> Conflicting(v)]
  <2>1. job' = [job EXCEPT ![a] = j] /\ j.op /= "post"
    BY <1>3 DEF StartActivate
  <2>2. onHand' = onHand
    BY <1>3 DEF StartActivate, materialVars
  <2> HIDE DEF j
  <2> QED
    BY <2>1, <2>2, EntersCovered
<1> QED
  BY <1>1, <1>2, <1>3 DEF RecipeNext

LEMMA BatchCovers ==
    ASSUME ProductionInv, CoverInv, Alone, BatchNext PROVE CoverInv'
<1> PICK b \in Batch :
        \/ \E v \in Recipe, q \in Quantity : CreateBatch(b, v, q)
        \/ \E p \in Product, d \in Delta : CorrectProduct(b, p, d)
        \/ \E m \in Material, d \in Delta : CorrectMaterial(b, m, d)
        \/ \E a \in Admin : \/ \E q \in Quantity : StartReplan(a, b, q)
                           \/ StartCancel(a, b)
                           \/ \E usage, from, made : StartPost(a, b, usage, from, made)
  BY DEF BatchNext
<1>1. CASE \/ \E v \in Recipe, q \in Quantity : CreateBatch(b, v, q)
           \/ \E p \in Product, d \in Delta : CorrectProduct(b, p, d)
  BY <1>1, IdleCovers DEF CreateBatch, CorrectProduct, materialVars, CoverInv
<1>2. CASE \E m \in Material, d \in Delta : CorrectMaterial(b, m, d)
  BY <1>2, IdleCovers DEF CorrectMaterial, AdjustMaterial, CoverInv, Delta
<1>3. ASSUME NEW a \in Admin, NEW q \in Quantity, StartReplan(a, b, q) PROVE CoverInv'
  <2> DEFINE j == [op |-> "replan", batch |-> b, planned |-> q]
  <2>1. job' = [job EXCEPT ![a] = j] /\ onHand' = onHand /\ j.op /= "post"
    BY <1>3 DEF StartReplan, materialVars
  <2> HIDE DEF j
  <2> QED
    BY <2>1, EntersCovered
<1>4. ASSUME NEW a \in Admin, StartCancel(a, b) PROVE CoverInv'
  <2> DEFINE j == [op |-> "cancel", batch |-> b]
  <2>1. job' = [job EXCEPT ![a] = j] /\ onHand' = onHand /\ j.op /= "post"
    BY <1>4 DEF StartCancel, materialVars
  <2> HIDE DEF j
  <2> QED
    BY <2>1, EntersCovered
<1>5. ASSUME NEW a \in Admin, NEW usage, NEW from, NEW made, StartPost(a, b, usage, from, made)
      PROVE  CoverInv'
  <2> DEFINE j == [op |-> "post", batch |-> b, lines |-> batch[b].lines,
                   usage |-> usage, from |-> from, made |-> made]
  <2>1. /\ job' = [job EXCEPT ![a] = j] /\ onHand' = onHand
        /\ EnoughMaterial(j.lines, j.usage)
    BY <1>5 DEF StartPost, materialVars
  <2> HIDE DEF j
  <2> QED
    BY <2>1, EntersCovered
<1> QED
  BY <1>1, <1>2, <1>3, <1>4, <1>5

\* The request in flight is the only one, so nothing is in flight after it.
LEMMA FinishCovers ==
    ASSUME ProductionAssumption, ProductionInv, CoverInv, FinishNext PROVE CoverInv'
<1>1. PICK a \in Admin : \/ FinishEdit(a) \/ FinishActivate(a) \/ FinishReplan(a)
                         \/ FinishPost(a) \/ FinishCancel(a)
  BY DEF FinishNext
<1>2. ~Free(a) /\ job' = [job EXCEPT ![a] = Idle]
  BY <1>1 DEF FinishEdit, FinishActivate, FinishReplan, FinishPost, FinishCancel, Free
<1>3. \A c \in Admin : job'[c].op = "idle"
  BY <1>2 DEF ProductionInv, RowsOK, OneJob, Free, Idle
<1>4. onHand' \in [Material -> Int]
  <2>1. CASE FinishPost(a)
    <3>1. PICK lines, usage : onHand' = [m \in Material |-> onHand[m] - Required(lines, usage, m)]
      BY <2>1 DEF FinishPost
    <3> QED
      BY <3>1, RequiredCounts DEF CoverInv
  <2>2. CASE ~FinishPost(a)
    BY <2>2, <1>1 DEF FinishEdit, FinishActivate, FinishReplan, FinishCancel, materialVars, CoverInv
  <2> QED
    BY <2>1, <2>2
<1> QED
  BY <1>3, <1>4 DEF CoverInv

LEMMA StepCovers ==
    ASSUME ProductionAssumption, ProductionInv, CoverInv, [SerialNext]_vars PROVE CoverInv'
<1>1. CASE Alone /\ (MaterialNext \/ RecipeNext \/ BatchNext)
  BY <1>1, MaterialCovers, RecipeCovers, BatchCovers
<1>2. CASE FinishNext
  BY <1>2, FinishCovers
<1>3. CASE UNCHANGED vars
  BY <1>3 DEF vars, CoverInv, EnoughMaterial
<1> QED
  BY <1>1, <1>2, <1>3 DEF SerialNext

\* Only the writes of a posting bring output, and it covers what they take.
LEMMA PostCovers ==
    ASSUME ProductionAssumption, ProductionInv, CoverInv, SerialNext,
           NEW b \in Batch, outputs'[b] > outputs[b],
           NEW m \in Material, onHand'[m] < onHand[m]
    PROVE  onHand'[m] >= 0
<1>1. \A c \in Batch : ~(outputs[c] > outputs[c])
  BY DEF ProductionInv, RowsOK
<1>2. PICK a \in Admin : FinishPost(a)
  <2>1. CASE Alone /\ (MaterialNext \/ RecipeNext \/ BatchNext)
    <3>1. outputs' = outputs
      BY <2>1 DEF MaterialNext, ReceiveMaterial, AdjustMaterial, ToggleMaterial, stockVars,
         RecipeNext, CreateRecipe, ArchiveRecipe, StartEdit, StartActivate,
         BatchNext, CreateBatch, CorrectProduct, CorrectMaterial, StartReplan, StartCancel,
         StartPost
    <3> QED
      BY <1>1, <3>1
  <2>2. CASE FinishNext
    BY <1>1, <2>2 DEF FinishNext, FinishEdit, FinishActivate, FinishReplan, FinishCancel,
       stockVars
  <2> QED
    BY <2>1, <2>2 DEF SerialNext
<1>3. PICK lines, usage : /\ onHand'[m] = onHand[m] - Required(lines, usage, m)
                          /\ EnoughMaterial(lines, usage)
  BY <1>2 DEF FinishPost, CoverInv
<1>4. onHand[m] \in Int /\ Required(lines, usage, m) \in Nat
  BY RequiredCounts DEF CoverInv
<1>5. PICK line \in lines : line[2] = m
  BY <1>3, <1>4, RequiredCounts
<1>6. Required(lines, usage, m) <= onHand[m]
  BY <1>3, <1>5 DEF EnoughMaterial
<1> QED
  BY <1>3, <1>4, <1>6

\* With one admin request at a time, a posting never takes more of a
\* material than there is, over all its lines together (post_production_batch).
THEOREM PostingsCovered ==
    ASSUME ProductionAssumption PROVE SerialSpec => PostingCovered
<1>1. Init => ProductionInv /\ CoverInv
  BY InitInv DEF Init, CoverInv, Idle
<1>2. ProductionInv /\ CoverInv /\ [SerialNext]_vars => (ProductionInv /\ CoverInv)'
  BY StepInv, StepCovers
<1>3. /\ ProductionInv /\ CoverInv /\ [SerialNext]_vars
      => [(\E b \in Batch : outputs'[b] > outputs[b])
          => \A m \in Material : onHand'[m] < onHand[m] => onHand'[m] >= 0]_vars
  BY PostCovers
<1> QED
  BY <1>1, <1>2, <1>3, PTL DEF SerialSpec, PostingCovered
=============================================================================
