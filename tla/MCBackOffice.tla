---------------------------- MODULE MCBackOffice ----------------------------
(***************************************************************************)
(* The workshop's stock and the books, one admin request at a time, in one *)
(* run: Production, Valuation and Finance. In the models they share no     *)
(* state, so a behaviour is of one of them: the run explores the sum of    *)
(* their states.                                                           *)
(***************************************************************************)
EXTENDS Finance

CONSTANTS o1, t1, p1, p2,
          Product, Material, Lot, DatedLot, Recipe, RecipeProduct, Slot, Batch, MaxQuantity,
          v1, v2, q1,
          Item, TakenIn, SoldAtOnce, Cost, MaxMovements, MaxReturns

VARIABLES active, onHand, lot, consumed, recipe, batch, outputs, stock, ledger, posting,
          log, layers, sold, cogs, valuing, part

\* Production with its theorems, which then hold of this workshop.
P == INSTANCE Production_proofs WITH job <- posting
V == INSTANCE Valuation WITH job <- valuing, Taken <- TakenIn, Quantity <- SoldAtOnce

ASSUME BackOfficeAssumption == P!ProductionAssumption /\ V!ValuationAssumption

production == <<active, onHand, lot, consumed, recipe, batch, outputs, stock, ledger, posting>>
valuation == <<log, layers, sold, cogs, valuing>>
everything == <<vars, production, valuation, part>>

BackOfficeInit ==
    /\ Init /\ P!Init /\ V!Init
    /\ part \in {"production", "valuation", "finance"}
    /\ part # "finance" => config.seller.latest = Absent /\ \A o \in Order : orders[o].status = Absent

Producing == part = "production" /\ P!SerialNext /\ UNCHANGED <<vars, valuation, part>>
Valuing == part = "valuation" /\ V!SerialNext /\ UNCHANGED <<vars, production, part>>
Reporting == part = "finance" /\ SerialNext /\ UNCHANGED <<production, valuation, part>>

BackOfficeSpec ==
    BackOfficeInit /\ [][Producing \/ Valuing \/ Reporting]_everything

ProductionTypeOK == P!ProductionTypeOK
ValuationTypeOK == V!ValuationTypeOK

\* A batch's output is posted once (Production.ProducedOnce).
ProducedOnce == P!ProducedOnce

\* A posting finds what it consumes (Production.PostingCovered).
PostingCovered == P!PostingCovered

\* A movement is valued once (Valuation.ValuedOnce).
ValuedOnce == V!ValuedOnce

\* A cancelled order costs nothing (Valuation.CancelledCostsNothing).
CancelledCostsNothing == V!CancelledCostsNothing

Periods == Permutations({p1, p2})
TheTxnOrder == [t \in {t1} |-> o1]
BothOfQ1 == [r \in {v1, v2} |-> q1]
=============================================================================
