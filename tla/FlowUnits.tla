----------------------------- MODULE FlowUnits -----------------------------
(***************************************************************************)
(* The arithmetic of spec.rs by which a plan keeps its channel limits out  *)
(* of the way of the solver: above a threshold askrene moves an amount in  *)
(* whole flow units, so a limit is worth the whole units that fit under it.*)
(* Amounts are natural numbers: what saturates at u64::MAX in the code is  *)
(* more than there is money.                                               *)
(***************************************************************************)
EXTENDS Naturals

CONSTANTS
    SinglePath,   \* SINGLE_PATH_THRESHOLD_MSAT
    Accuracy      \* the flow units an amount is divided into

ASSUME FlowUnitsAssumption ==
    /\ SinglePath \in Nat
    /\ Accuracy \in Nat \ {0}

\* saturating_sub
Less(a, b) == IF a >= b THEN a - b ELSE 0

Least(a, b) == IF a <= b THEN a ELSE b

DivCeil(a, b) == (a + b - 1) \div b

\* flow_unit_msat is None at or below the threshold, where a single flow
\* carries the whole amount.
Quantized(amount) == amount > SinglePath

\* The flow unit of a quantized amount.
FlowUnit(amount) == DivCeil(amount, Accuracy)

\* The largest value at or below the bound that is one msat short of whole
\* units.
BoundWithUnitSlack(bound, amount) ==
    IF Quantized(amount)
    THEN Less(((bound + 1) \div FlowUnit(amount)) * FlowUnit(amount), 1)
    ELSE bound

\* Mutant: one unit per source, as if the bounds were not lowered.
UnitHeadroomOfFloors(sources, amount) ==
    IF Quantized(amount) THEN FlowUnit(amount) * sources ELSE 0

\* What the rounding to units can cost n sources and the amount itself.
UnitHeadroom(sources, amount) ==
    IF Quantized(amount) THEN FlowUnit(amount) * (2 * sources + 1) ELSE 0

\* The msat a source is worth to the solver under a bound (mcf.c packs whole
\* units), and what the amount takes.
Drawable(bound, amount) ==
    IF Quantized(amount)
    THEN (bound \div FlowUnit(amount)) * FlowUnit(amount)
    ELSE bound

Packed(amount) ==
    IF Quantized(amount)
    THEN DivCeil(amount, FlowUnit(amount)) * FlowUnit(amount)
    ELSE amount

=============================================================================
