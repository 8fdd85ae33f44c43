--------------------------- MODULE PlannerProofs ---------------------------
(***************************************************************************)
(* Proofs about Planner and the flow units it plans with, for every value  *)
(* of their constants: first the arithmetic of spec.rs for one source,     *)
(* then the plan of plan.rs.                                               *)
(***************************************************************************)
EXTENDS Planner, Sums

-----------------------------------------------------------------------------
(* Flow units (spec.rs).                                                   *)

\* Integer division.
LEMMA Division ==
    ASSUME NEW a \in Nat, NEW b \in Nat \ {0}
    PROVE  /\ a \div b \in Nat
           /\ b * (a \div b) <= a
           /\ a < b * (a \div b) + b
  OBVIOUS

\* A quotient is at least every q with q whole divisors in the dividend.
LEMMA DivisionLeast ==
    ASSUME NEW a \in Nat, NEW b \in Nat \ {0}, NEW q \in Nat, b * q <= a
    PROVE  q <= a \div b
  BY Division

\* Division rounded up.
LEMMA Ceiling ==
    ASSUME NEW a \in Nat, NEW b \in Nat \ {0}
    PROVE  /\ DivCeil(a, b) \in Nat
           /\ a <= b * DivCeil(a, b)
           /\ b * DivCeil(a, b) <= a + b - 1
<1>1. a + b - 1 \in Nat
  OBVIOUS
<1>2. /\ DivCeil(a, b) \in Nat
      /\ b * DivCeil(a, b) <= a + b - 1
      /\ a + b - 1 < b * DivCeil(a, b) + b
  BY <1>1, Division DEF DivCeil
<1>3. b * DivCeil(a, b) \in Nat
  BY <1>2
<1>4. QED
  BY <1>2, <1>3

\* The unit of a quantized amount is a positive number.
LEMMA UnitPositive ==
    ASSUME NEW msat \in Nat, Quantized(msat)
    PROVE  FlowUnit(msat) \in Nat \ {0}
<1>1. SinglePath \in Nat /\ Accuracy \in Nat \ {0} /\ msat > 0
  BY FlowUnitsAssumption DEF Quantized
<1>2. /\ FlowUnit(msat) \in Nat
      /\ msat <= Accuracy * FlowUnit(msat)
  BY <1>1, Ceiling DEF FlowUnit
<1>3. FlowUnit(msat) # 0
  BY <1>1, <1>2
<1>4. QED
  BY <1>2, <1>3

\* The unit grows with the amount.
LEMMA UnitMonotone ==
    ASSUME NEW small \in Nat, NEW large \in Nat, small <= large
    PROVE  FlowUnit(small) <= FlowUnit(large)
<1> DEFINE s == small + Accuracy - 1
           l == large + Accuracy - 1
<1>1. /\ Accuracy \in Nat \ {0} /\ s \in Nat /\ l \in Nat /\ s <= l
  BY FlowUnitsAssumption
<1> HIDE DEF s, l
<1>2. s \div Accuracy \in Nat /\ Accuracy * (s \div Accuracy) <= s
  BY <1>1, Division
<1>3. s \div Accuracy <= l \div Accuracy
  <2>1. Accuracy * (s \div Accuracy) <= l
    BY <1>1, <1>2
  <2>2. QED
    BY <1>1, <1>2, <2>1, DivisionLeast
<1>4. QED
  BY <1>3 DEF FlowUnit, DivCeil, s, l

\* A lowered bound never exceeds the bound, and the units that the solver packs
\* under it leave one unit less a msat for what it adds to the parts
\* (bound_with_unit_slack: "one msat short of a multiple of the unit").
THEOREM SlackKept ==
    ASSUME NEW bound \in Nat, NEW msat \in Nat, Quantized(msat)
    PROVE  LET low == BoundWithUnitSlack(bound, msat) IN
           /\ low \in Nat
           /\ low <= bound
           /\ Drawable(low, msat) \in Nat
           /\ low > 0 =>
                Drawable(low, msat) + FlowUnit(msat) - 1 = low
<1> DEFINE u == FlowUnit(msat)
           k == (bound + 1) \div u
           low == BoundWithUnitSlack(bound, msat)
<1>1. u \in Nat \ {0}
  BY UnitPositive
<1>2. /\ k \in Nat /\ k * u \in Nat
      /\ k * u <= bound + 1
  <2> HIDE DEF u
  <2>1. k \in Nat /\ u * k <= bound + 1
    BY <1>1, Division
  <2> HIDE DEF k
  <2> QED  BY <1>1, <2>1
<1>3. low = IF k * u >= 1 THEN k * u - 1 ELSE 0
  BY DEF BoundWithUnitSlack, Less
<1> HIDE DEF k, low, u
<1>4. low \in Nat /\ low <= bound
  BY <1>2, <1>3
<1>5. low \div u \in Nat /\ (low \div u) * u \in Nat
  BY <1>1, <1>4, Division
<1>6. Drawable(low, msat) = (low \div u) * u
  BY DEF Drawable, u
<1>7. ASSUME low > 0
      PROVE  (low \div u) * u + u - 1 = low
  <2>1. k >= 1 /\ low = k * u - 1
    BY <1>1, <1>2, <1>3, <1>7
  <2>2. k - 1 \in Nat /\ (k - 1) * u = k * u - u
    BY <1>1, <1>2, <2>1
  <2>3. k - 1 <= low \div u
    <3>1. u * (k - 1) <= low
      BY <1>1, <1>2, <2>1, <2>2
    <3>2. QED
      BY <1>1, <1>4, <2>2, <3>1, DivisionLeast
  <2>4. low \div u <= k - 1
    <3>1. u * (low \div u) <= low
      BY <1>1, <1>4, Division
    <3>2. u * (low \div u) < u * k
      BY <1>1, <1>2, <1>5, <2>1, <3>1
    <3>3. low \div u < k
      BY <1>1, <1>2, <1>5, <3>2
    <3>4. QED
      BY <1>2, <1>5, <3>3
  <2>5. low \div u = k - 1
    BY <1>2, <1>5, <2>3, <2>4
  <2>6. QED
    BY <1>1, <1>2, <2>1, <2>2, <2>5
<1>8. QED
  BY <1>4, <1>5, <1>6, <1>7 DEF low, u

\* Lowering a bound and packing whole units under it costs a source less than
\* two units (unit_headroom_msat: "under one unit short of the bound, and
\* bound_with_unit_slack lowers the bound by under one more").
THEOREM LossUnderTwoUnits ==
    ASSUME NEW bound \in Nat, NEW msat \in Nat, Quantized(msat)
    PROVE  LET u == FlowUnit(msat) IN
           bound + 2 <= Drawable(BoundWithUnitSlack(bound, msat), msat)
                        + 2 * u
<1> DEFINE u == FlowUnit(msat)
           k == (bound + 1) \div u
           low == BoundWithUnitSlack(bound, msat)
           d == Drawable(low, msat)
<1>1. u \in Nat \ {0}
  BY UnitPositive
<1>2. /\ k \in Nat /\ k * u \in Nat
      /\ bound + 1 < k * u + u
  <2> HIDE DEF u
  <2>1. k \in Nat /\ bound + 1 < u * k + u
    BY <1>1, Division
  <2> HIDE DEF k
  <2>2. QED
    BY <1>1, <2>1
<1>3. low = IF k * u >= 1 THEN k * u - 1 ELSE 0
  BY DEF BoundWithUnitSlack, Less
<1>4. /\ low \in Nat /\ d \in Nat
      /\ low > 0 => d + u - 1 = low
  BY SlackKept
<1> HIDE DEF k, low, u, d
<1>5. bound + 2 <= d + 2 * u
  <2>1. CASE low > 0
    <3>1. low = k * u - 1
      BY <1>2, <1>3, <2>1
    <3>2. QED
      BY <1>1, <1>2, <1>4, <2>1, <3>1
  <2>2. CASE low = 0
    <3>1. k * u <= 1
      BY <1>2, <1>3, <2>2
    <3>2. bound + 2 <= 1 + u
      BY <1>1, <1>2, <3>1
    <3>3. QED
      BY <1>1, <1>4, <3>2
  <2>3. QED
    BY <1>4, <2>1, <2>2
<1>6. QED
  BY <1>5 DEF u, low, d

\* With n sources that each lose less than two units, an ask that leaves the
\* headroom under their summed bounds fits into the whole units that they are
\* worth (unit_headroom_msat: "is feasible by local arithmetic").
THEOREM UnitsSuffice ==
    ASSUME NEW n \in Nat, NEW msat \in Nat, Quantized(msat),
           NEW summed \in Nat,    \* the bounds of the n sources
           NEW drawable \in Nat,  \* what they are worth
           summed + 2 * n <= drawable + n * (2 * FlowUnit(msat)),
           msat + UnitHeadroom(n, msat) <= summed
    PROVE  Packed(msat) <= drawable
<1> DEFINE u == FlowUnit(msat)
           v == n * (2 * u)
           packed == DivCeil(msat, u) * u
<1>1. u \in Nat \ {0} /\ v \in Nat
  BY UnitPositive
<1>2. UnitHeadroom(n, msat) = v + u
  <2>1. UnitHeadroom(n, msat) = u * (2 * n + 1)
    BY DEF UnitHeadroom
  <2> HIDE DEF u
  <2>2. u * (2 * n + 1) = v + u
    BY <1>1
  <2>3. QED
    BY <2>1, <2>2
<1>3. packed \in Nat /\ packed <= msat + u - 1
  <2> DEFINE c == DivCeil(msat, u)
  <2> HIDE DEF u
  <2>1. c \in Nat /\ u * c <= msat + u - 1
    BY <1>1, Ceiling
  <2> HIDE DEF c
  <2>2. c * u \in Nat /\ c * u <= msat + u - 1
    BY <1>1, <2>1
  <2>3. QED
    BY <2>2 DEF c
<1>4. Packed(msat) = packed
  BY DEF Packed
<1>5. summed + 2 * n <= drawable + v
  OBVIOUS
<1> HIDE DEF u, v, packed
<1>6. msat + v + u <= summed
  BY <1>1, <1>2
<1>7. QED
  BY <1>1, <1>3, <1>4, <1>5, <1>6

-----------------------------------------------------------------------------
(* The inductive invariant.                                                *)

\* Layer names are never used again: what is there has an earlier name than the
\* next, and a plan in its layer is one of this process.
NamesPassed ==
    /\ \A n \in DOMAIN layers : n[1] < run \/ (n[1] = run /\ n[2] < seq)
    /\ \A t \in Task : Holds(t) => layer[t][1] = run /\ layer[t][2] < seq

\* A plan is of valid parameters; once it has looked, of channels that can be
\* planned with and of the amount that the clamp leaves.
PlanInv ==
    \A t \in Task :
        /\ ~Given.live => snap[t] = ledger
        /\ pc[t] \notin {"idle", "done", "gone"} =>
                ask[t] \in Given.asks /\ Valid(ask[t])
        /\ pc[t] \in InLayer \cup {"prepare"} =>
                /\ Plannable(ask[t], snap[t])
                /\ amount[t] = Clamp(ask[t], snap[t]) /\ amount[t] > 0
        /\ pc[t] \in {"idle", "snapshot", "prepare", "build", "ladder", "solve"} =>
                kept[t] = NoParts

\* A rung's amount and budget, which hold for its plan to the end; parts are kept
\* on a rung.
RungInv ==
    \A t \in Task :
        /\ rung[t] # NoRung =>
                /\ ask[t] \in Given.asks
                /\ rung[t].amount \in 1..ask[t].amount
                /\ rung[t].maxfee = Maxfee(ask[t], rung[t].amount)
        /\ pc[t] \in {"idle", "snapshot", "prepare", "build"} => rung[t] = NoRung
        /\ pc[t] \in {"solve", "parts"} => rung[t] # NoRung
        /\ rung[t] = NoRung => kept[t] = NoParts

\* What a plan has written into its layer, and that its notes of what the solver
\* sees of the sources are right.
Written(t) ==
    LET a == ask[t]
        l == snap[t]
        content == layers[layer[t]]
    IN
    /\ content.mirrors = [i \in DOMAIN a.dests |-> Mirror(a.dests[i], l)]
    /\ content.outOff = Ours(l) \ Chans(a.sources)
    /\ content.inOff = Ours(l)
    /\ DOMAIN bounds[t] = Chans(a.sources)
    /\ \A c \in Chans(a.sources) :
        LET b == bounds[t][c] IN
        /\ b.bound = Least(CapOf(a, c), l[c].spend)
        /\ b.solverMax <= l[c].spend
        /\ content.max[c] = IF b.solverMax < l[c].spend THEN b.solverMax
                            ELSE NoCap
        /\ pc[t] = "solve" => b.solverMax <= b.bound

LayerInv == \A t \in Task : pc[t] \in {"ladder", "solve"} => Written(t)

\* What the solution has left and what is kept of it are within the limits
\* together.
Within(t) ==
    LET a == ask[t] IN
    /\ kept[t].delivered + draw[t].left <= rung[t].amount
    /\ DOMAIN draw[t].dst = DOMAIN a.dests
    /\ \A i \in DOMAIN a.dests :
        kept[t].in[a.dests[i].chan] + draw[t].dst[i] <= a.dests[i].max
    /\ \A i \in DOMAIN a.sources :
        LET s == a.sources[i] IN
        ~Given.live \/ s.max < snap[t][s.chan].spend
            => kept[t].out[s.chan] + draw[t].src[s.chan] <= s.max
    /\ \A c \in Ours(snap[t]) :
        /\ c \notin Chans(a.sources) => draw[t].src[c] = 0
        /\ c \notin draw[t].enter

DrawInv == \A t \in Task : pc[t] = "parts" => Within(t)

\* The parts that are kept are within the rate of the rung as each of them is.
RateInv ==
    \A t \in Task :
        /\ kept[t].delivered <= kept[t].sent
        /\ kept[t].delivered <= rung[t].amount
        /\ (kept[t].sent - kept[t].delivered) * rung[t].amount
                <= rung[t].maxfee * kept[t].delivered
        /\ outcome[t] # "overBudget"

IInv ==
    /\ TypeOK /\ LayersAccounted /\ NamesPassed
    /\ PlanInv /\ RungInv /\ LayerInv /\ DrawInv /\ RateInv
    /\ CapsKept /\ SourcesPinned /\ SlotsWellUsed

\* What writing a bound for an amount costs it at most.
Loss(msat) == IF Quantized(msat) THEN FlowUnit(msat) - 1 ELSE 0

\* The amount of a rung, and what the rungs up to a step cost a bound at most.
Portion(m, step) == (m * Ladder[step][1]) \div Ladder[step][2]

LossOf(m, step, j) == IF j <= step THEN Loss(Portion(m, j)) ELSE 0

LossUpTo(m, step) ==
    LossOf(m, step, 1) + LossOf(m, step, 2) + LossOf(m, step, 3)
        + LossOf(m, step, 4) + LossOf(m, step, 5)

\* The bounds that the solver sees are short of what a request may draw by what
\* the rungs have cost, and short of whole units by what the last one costs.
Short(t) ==
    /\ \A c \in Chans(ask[t].sources) :
            bounds[t][c].bound
                <= bounds[t][c].solverMax + LossUpTo(amount[t], rung[t].step)
    /\ pc[t] = "solve" =>
        /\ rung[t].step \in 1..5
        /\ rung[t].amount = Portion(amount[t], rung[t].step)
        /\ \A c \in Chans(ask[t].sources) :
            bounds[t][c].solverMax
                <= Drawable(bounds[t][c].solverMax, rung[t].amount)
                    + Loss(rung[t].amount)

BoundsInv == \A t \in Task : pc[t] \in {"ladder", "solve"} => Short(t)

\* The headroom grows with the amount.
LEMMA HeadroomMonotone ==
    ASSUME NEW n \in Nat, NEW small \in Nat, NEW large \in Nat, small <= large
    PROVE  /\ UnitHeadroom(n, small) \in Nat
           /\ UnitHeadroom(n, small) <= UnitHeadroom(n, large)
<1> DEFINE s == FlowUnit(small)
           l == FlowUnit(large)
           m == 2 * n + 1
<1>1. m \in Nat /\ SinglePath \in Nat
  BY FlowUnitsAssumption
<1>2. Quantized(small) => Quantized(large)
  BY <1>1 DEF Quantized
<1>3. Quantized(small) => s \in Nat
  BY UnitPositive
<1>4. Quantized(large) => l \in Nat
  BY UnitPositive
<1>5. s <= l
  BY UnitMonotone
<1>6. /\ UnitHeadroom(n, small) = IF Quantized(small) THEN s * m ELSE 0
      /\ UnitHeadroom(n, large) = IF Quantized(large) THEN l * m ELSE 0
  BY DEF UnitHeadroom
<1> HIDE DEF s, l, m
<1>7. CASE Quantized(small)
  <2>1. s * m \in Nat /\ s * m <= l * m
    BY <1>1, <1>2, <1>3, <1>4, <1>5, <1>7
  <2>2. QED
    BY <1>2, <1>6, <1>7, <2>1
<1>8. CASE ~Quantized(small)
  <2>1. Quantized(large) => l * m \in Nat
    BY <1>1, <1>4
  <2>2. QED
    BY <1>6, <1>8, <2>1
<1>9. QED
  BY <1>7, <1>8

\* What is left of a bound after the fees is a number.
LEMMA AfterFeesType ==
    ASSUME NEW a, a.maxfee \in Nat, NEW bound \in Nat
    PROVE  AfterFees(a, bound) \in Nat
<1>1. bound * Million \in Nat /\ Million + a.maxfee \in Nat \ {0}
  BY PlannerAssumption
<1>2. (bound * Million) \div (Million + a.maxfee) \in Nat
  BY <1>1, Division
<1>3. QED
  BY <1>2 DEF AfterFees, Less

\* What is left of a bound after the fees pays for them: an amount within it,
\* and the fee budget for that amount, are within the bound.
LEMMA AfterFeesPays ==
    ASSUME NEW a, a.maxfee \in Nat, a.budget \in {"msat", "ppm"},
           NEW bound \in Nat, NEW m \in Nat, m > 0, m <= AfterFees(a, bound)
    PROVE  /\ Maxfee(a, m) \in Nat
           /\ m + Maxfee(a, m) <= bound
<1> DEFINE f == a.maxfee
<1>1. Million \in Nat \ {0}
  BY PlannerAssumption
<1>2. CASE a.budget = "msat"
  <2>1. /\ AfterFees(a, bound) = IF bound >= f THEN bound - f ELSE 0
        /\ Maxfee(a, m) = f
    BY <1>2 DEF AfterFees, Less, Maxfee
  <2>2. QED
    BY <2>1
<1>3. CASE a.budget # "msat"
  <2> DEFINE total == Million + f
             most == bound * Million
             share == m * f
             left == most \div total
             fee == share \div Million
  <2>1. /\ total \in Nat \ {0} /\ most \in Nat /\ share \in Nat
        /\ total * m = Million * m + share
    BY <1>1
  <2>2. AfterFees(a, bound) = left /\ Maxfee(a, m) = fee
    BY <1>3 DEF AfterFees, Maxfee
  <2>3. m <= left
    BY <2>2
  <2> HIDE DEF f, total, most, share, left, fee
  <2>4. left \in Nat /\ total * left <= most
    BY <2>1, Division DEF left
  <2>5. fee \in Nat /\ Million * fee <= share
    BY <1>1, <2>1, Division DEF fee
  <2>6. total * m <= total * left
    BY <2>1, <2>3, <2>4
  <2>7. Million * (m + fee) <= Million * bound
    <3>1. Million * (m + fee) = Million * m + Million * fee
      BY <1>1, <2>5
    <3>2. Million * bound = most
      BY <1>1 DEF most
    <3>3. Million * m \in Nat /\ Million * fee \in Nat
          /\ total * m \in Nat /\ total * left \in Nat
      BY <1>1, <2>1, <2>4, <2>5
    <3>4. QED
      BY <2>1, <2>4, <2>5, <2>6, <3>1, <3>2, <3>3
  <2>8. m + fee <= bound
    BY <1>1, <2>5, <2>7
  <2>9. QED
    BY <2>2, <2>5, <2>8
<1>4. QED
  BY <1>2, <1>3

\* The clamp leaves a number, at most what was asked for.
LEMMA ClampBounded ==
    ASSUME NEW a, IsAsk(a), NEW src \in Nat, NEW dst \in Nat
    PROVE  ClampTo(a, src, dst) \in Nat /\ ClampTo(a, src, dst) <= a.amount
<1>1. /\ a.amount \in Nat /\ a.maxfee \in Nat /\ Million \in Nat \ {0}
      /\ Len(a.sources) \in Nat
  <2>1. a.sources \in Seq([chan : Chan, max : 0..NoCap])
    BY DEF IsAsk, IsSpecs
  <2>2. Len(a.sources) \in Nat
    BY <2>1
  <2>3. QED
    BY <2>2, PlannerAssumption DEF IsAsk
<1>2. \A b \in Nat : AfterFees(a, b) \in Nat
  BY <1>1, AfterFeesType
<1>3. \A b \in Nat : Less(src, b) \in Nat
  BY DEF Less
<1>4. \A m \in Nat : UnitHeadroom(Len(a.sources), m) \in Nat
  <2> TAKE m \in Nat
  <2>1. m <= m
    OBVIOUS
  <2>2. QED
    BY <1>1, <2>1, HeadroomMonotone
<1>5. Least(Least(a.amount, AfterFees(a, src)), dst) \in Nat
  BY <1>1, <1>2 DEF Least
<1> DEFINE room == UnitHeadroom(Len(a.sources),
                        Least(Least(a.amount, AfterFees(a, src)), dst))
<1>6. room \in Nat
  BY <1>4, <1>5
<1>7. ClampTo(a, src, dst) =
            Least(Least(a.amount, AfterFees(a, Less(src, room))), dst)
  BY DEF ClampTo
<1> HIDE DEF room
<1>8. AfterFees(a, Less(src, room)) \in Nat
  BY <1>2, <1>3, <1>6
<1>9. QED
  BY <1>1, <1>7, <1>8 DEF Least

\* The clamp (plan.rs:388-440): an amount that it leaves, with the fee budget
\* for it and the headroom of its own flow unit, is within what the sources
\* carry, and it is within what the destinations carry and what was asked for.
THEOREM ClampFits ==
    ASSUME NEW a, IsAsk(a), NEW src \in Nat, NEW dst \in Nat,
           ClampTo(a, src, dst) > 0
    PROVE  LET m == ClampTo(a, src, dst) IN
           /\ m \in Nat
           /\ m <= a.amount /\ m <= dst
           /\ m + Maxfee(a, m) + UnitHeadroom(Len(a.sources), m) <= src
<1> DEFINE n == Len(a.sources)
           before == Least(Least(a.amount, AfterFees(a, src)), dst)
           room == UnitHeadroom(n, before)
           m == ClampTo(a, src, dst)
<1>1. /\ a.amount \in Nat /\ a.maxfee \in Nat /\ n \in Nat
      /\ a.budget \in {"msat", "ppm"} /\ Million \in Nat \ {0}
  <2>1. a.sources \in Seq([chan : Chan, max : 0..NoCap])
    BY DEF IsAsk, IsSpecs
  <2>2. n \in Nat
    BY <2>1
  <2>3. QED
    BY <2>2, PlannerAssumption DEF IsAsk
<1>2. \A b \in Nat : AfterFees(a, b) \in Nat
  BY <1>1, AfterFeesType
<1>3. before \in Nat
  BY <1>1, <1>2 DEF Least
<1>4. room \in Nat
  <2> HIDE DEF n, before
  <2>1. before <= before
    BY <1>3
  <2>2. QED
    BY <1>1, <1>3, <2>1, HeadroomMonotone
<1>5. m = Least(Least(a.amount, AfterFees(a, Less(src, room))), dst)
  BY DEF ClampTo
<1> HIDE DEF n, before, room, m
<1>6. Less(src, room) \in Nat
  BY <1>4 DEF Less
<1>7. /\ m \in Nat /\ m <= a.amount /\ m <= dst
      /\ m <= AfterFees(a, Less(src, room))
  BY <1>1, <1>2, <1>5, <1>6 DEF Least
<1>8. m > 0
  BY DEF m
<1>9. /\ Maxfee(a, m) \in Nat
      /\ m + Maxfee(a, m) <= Less(src, room)
  BY <1>1, <1>6, <1>7, <1>8, AfterFeesPays
<1>10. m + Maxfee(a, m) + room <= src
  BY <1>4, <1>7, <1>8, <1>9 DEF Less
<1>11. m <= before
  <2>1. AfterFees(a, Less(src, room)) <= AfterFees(a, src)
    <3>1. Less(src, room) <= src
      BY <1>4 DEF Less
    <3>2. CASE a.budget = "msat"
      BY <1>1, <1>6, <3>1, <3>2 DEF AfterFees, Less
    <3>3. CASE a.budget # "msat"
      <4> DEFINE low == Less(src, room)
                 total == Million + a.maxfee
                 x == low * Million
                 y == src * Million
      <4>1. /\ total \in Nat \ {0} /\ x \in Nat /\ y \in Nat /\ low <= src
            /\ low \in Nat
        BY <1>1, <1>6, <3>1
      <4> HIDE DEF low
      <4>2. x <= y
        BY <1>1, <4>1
      <4> HIDE DEF total, x, y
      <4>3. x \div total \in Nat /\ total * (x \div total) <= x
        BY <4>1, Division
      <4>4. x \div total <= y \div total
        <5>1. total * (x \div total) <= y
          BY <4>1, <4>2, <4>3
        <5>2. QED
          BY <4>1, <4>3, <5>1, DivisionLeast
      <4>5. QED
        BY <3>3, <4>4 DEF AfterFees, low, total, x, y
    <3>4. QED
      BY <3>2, <3>3
  <2>2. QED
    BY <1>1, <1>2, <1>5, <1>6, <2>1 DEF Least, before
<1>12. /\ UnitHeadroom(n, m) \in Nat
       /\ UnitHeadroom(n, m) <= room
  BY <1>1, <1>3, <1>7, <1>11, HeadroomMonotone DEF room
<1>13. m + Maxfee(a, m) + UnitHeadroom(n, m) <= src
  BY <1>4, <1>7, <1>9, <1>10, <1>12
<1>14. QED
  BY <1>7, <1>13 DEF m, n

-----------------------------------------------------------------------------
(* The parameters of a plan, and what the environment gives.                *)

\* A list of channel specs, and the channels it names.
LEMMA SpecsType ==
    ASSUME NEW specs, IsSpecs(specs)
    PROVE  /\ Len(specs) \in Nat /\ DOMAIN specs = 1..Len(specs)
           /\ IsFiniteSet(DOMAIN specs)
           /\ Cardinality(DOMAIN specs) = Len(specs)
           /\ \A i \in DOMAIN specs : /\ i \in Nat
                                      /\ specs[i].chan \in Chan
                                      /\ specs[i].chan \in Chans(specs)
                                      /\ specs[i].max \in Nat
           /\ Chans(specs) \subseteq Chan
<1> DEFINE R == [chan : Chan, max : 0..NoCap]
           n == Len(specs)
<1>1. specs \in Seq(R)
  BY DEF IsSpecs
<1> HIDE DEF R
<1>2. Len(specs) \in Nat /\ DOMAIN specs = 1..Len(specs)
  BY <1>1
<1>3. \A i \in DOMAIN specs : specs[i] \in R
  BY <1>1
<1>4. /\ IsFiniteSet(1..Len(specs))
      /\ Cardinality(1..Len(specs)) = Len(specs)
  <2>1. n \in Nat
    BY <1>2
  <2> HIDE DEF n
  <2>2. 1 \in Int /\ n \in Int
    BY <2>1
  <2>3. IsFiniteSet(1..n) /\ Cardinality(1..n) = IF 1 > n THEN 0 ELSE n - 1 + 1
    BY <2>2, FS_Interval
  <2> QED  BY <2>1, <2>3 DEF n
<1>5. \A i \in DOMAIN specs : specs[i].chan \in Chan /\ specs[i].max \in 0..NoCap
  BY <1>3 DEF R
<1>6. 0..NoCap \subseteq Nat
  BY PlannerAssumption
<1> QED  BY <1>2, <1>4, <1>5, <1>6 DEF Chans

\* Without duplicates, a spec is told by its channel (spec.rs:117).
LEMMA SpecsApart ==
    ASSUME NEW specs, IsSpecs(specs), NoDuplicate(specs),
           NEW i \in DOMAIN specs, NEW j \in DOMAIN specs,
           specs[i].chan = specs[j].chan
    PROVE  i = j
<1> DEFINE S == DOMAIN specs
           T == Chans(specs)
           f == [k \in S |-> specs[k].chan]
<1>1. IsFiniteSet(S) /\ Cardinality(S) = Cardinality(T)
  BY SpecsType DEF NoDuplicate
<1>2. f \in Surjection(S, T)
  BY DEF Surjection, Chans
<1>3. IsFiniteSet(T)
  BY <1>1, <1>2, FS_Surjection
<1>4. f \in Injection(S, T)
  <2> HIDE DEF S, T, f
  <2> QED  BY <1>1, <1>2, <1>3, FS_SurjSameCardinalityImpliesInj
<1>5. f[i] = f[j]
  OBVIOUS
<1> QED  BY <1>4, <1>5 DEF Injection, IsInjective

\* Then the cap of a source is the one its spec names (plan.rs:759).
LEMMA CapIsTheSpecs ==
    ASSUME NEW a, IsSpecs(a.sources), NoDuplicate(a.sources),
           NEW i \in DOMAIN a.sources
    PROVE  CapOf(a, a.sources[i].chan) = a.sources[i].max
<1> DEFINE c == a.sources[i].chan
           NamesIt(k) == /\ a.sources[k].chan = c
                         /\ \A j \in DOMAIN a.sources :
                                a.sources[j].chan = c => j <= k
           last == CHOOSE k \in DOMAIN a.sources : NamesIt(k)
<1>1. \A k \in DOMAIN a.sources : a.sources[k].chan = c => k = i
  BY SpecsApart
<1>2. i \in Nat
  BY SpecsType
<1>3. NamesIt(i)
  BY <1>1, <1>2
<1>4. last \in DOMAIN a.sources /\ NamesIt(last)
  <2> HIDE DEF NamesIt
  <2> QED  BY <1>3
<1>5. last = i
  BY <1>1, <1>4
<1>6. CapOf(a, c) = a.sources[last].max
  BY DEF CapOf
<1> QED  BY <1>5, <1>6

\* What the case at hand gives.
LEMMA GivenType ==
    ASSUME case \in DOMAIN Cases
    PROVE  /\ \A a \in Given.asks : IsAsk(a)
           /\ \A l \in Given.ledgers : l \in [Chan -> ChanRecord]
           /\ Given.partFee \in Nat
  BY PlannerAssumption DEF IsCase, Given

\* A channel of a ledger.
LEMMA LedgerType ==
    ASSUME NEW l \in [Chan -> ChanRecord], NEW c \in Chan
    PROVE  /\ l[c].spend \in Nat /\ l[c].spend <= NoCap
           /\ l[c].recv \in Nat /\ l[c].slots \in Nat
<1>1. l[c] \in ChanRecord
  OBVIOUS
<1>2. 0..NoCap \subseteq Nat /\ \A n \in 0..NoCap : n <= NoCap
  BY PlannerAssumption
<1> QED  BY <1>1, <1>2 DEF ChanRecord

\* What sources and destinations carry is a number.
LEMMA BoundsType ==
    ASSUME NEW a, IsAsk(a), NEW l \in [Chan -> ChanRecord]
    PROVE  SrcBound(a, l) \in Nat /\ DstBound(a, l) \in Nat
<1> DEFINE src == [i \in DOMAIN a.sources |->
                    Capped(a.sources[i], l[a.sources[i].chan].spend)]
           dst == [i \in DOMAIN a.dests |->
                    Capped(a.dests[i], l[a.dests[i].chan].recv)]
<1>1. /\ IsFiniteSet(DOMAIN a.sources) /\ IsFiniteSet(DOMAIN a.dests)
      /\ \A i \in DOMAIN a.sources :
            a.sources[i].chan \in Chan /\ a.sources[i].max \in Nat
      /\ \A i \in DOMAIN a.dests :
            a.dests[i].chan \in Chan /\ a.dests[i].max \in Nat
  BY SpecsType DEF IsAsk
<1>2. \A i \in DOMAIN a.sources : src[i] \in Nat
  BY <1>1, LedgerType DEF Capped, Least
<1>3. \A i \in DOMAIN a.dests : dst[i] \in Nat
  BY <1>1, LedgerType DEF Capped, Least
<1>4. /\ SrcBound(a, l) = SumFunctionOnSet(src, DOMAIN a.sources)
      /\ DstBound(a, l) = SumFunctionOnSet(dst, DOMAIN a.dests)
  BY DEF SrcBound, DstBound, SumFunction
<1> HIDE DEF src, dst
<1> QED  BY <1>1, <1>2, <1>3, <1>4, SumNat

\* The clamp leaves no more than was asked for.
LEMMA ClampType ==
    ASSUME NEW a, IsAsk(a), NEW l \in [Chan -> ChanRecord]
    PROVE  Clamp(a, l) \in Nat /\ Clamp(a, l) <= a.amount
<1> DEFINE src == SrcBound(a, l)
           dst == DstBound(a, l)
<1>1. src \in Nat /\ dst \in Nat
  BY BoundsType
<1>2. a.amount \in Nat
  BY DEF IsAsk
<1> HIDE DEF src, dst
<1>3. ClampTo(a, src, dst) \in Nat /\ ClampTo(a, src, dst) <= a.amount
  BY <1>1, <1>2, ClampBounded
<1> QED  BY <1>3 DEF Clamp, src, dst

\* The fee budget of an amount is a number.
LEMMA MaxfeeType ==
    ASSUME NEW a, IsAsk(a), NEW msat \in Nat
    PROVE  Maxfee(a, msat) \in Nat
<1>1. a.maxfee \in Nat /\ Million \in Nat \ {0}
  BY PlannerAssumption DEF IsAsk
<1>2. msat * a.maxfee \in Nat
  BY <1>1
<1> QED  BY <1>1, <1>2, Division DEF Maxfee

\* A rung is at most the amount that the clamp left.
LEMMA RungAmountType ==
    ASSUME NEW t, amount[t] \in Nat, NEW step \in 1..Len(Ladder)
    PROVE  RungAmount(t, step) \in Nat /\ RungAmount(t, step) <= amount[t]
<1> DEFINE n == Ladder[step][1]
           d == Ladder[step][2]
<1>1. Len(Ladder) = 5
  BY DEF Ladder
<1>2. n \in Nat /\ d \in Nat \ {0} /\ n <= d /\ n > 0
  BY <1>1 DEF Ladder
<1>3. RungAmount(t, step) = (amount[t] * n) \div d
  BY DEF RungAmount
<1> HIDE DEF n, d
<1>4. amount[t] * n \in Nat /\ amount[t] * n <= amount[t] * d
  BY <1>2
<1> DEFINE q == (amount[t] * n) \div d
           x == amount[t] * n
<1>5. x \div d \in Nat /\ d * (x \div d) <= x
  <2> HIDE DEF x
  <2> QED  BY <1>2, <1>4, Division DEF x
<1>6. d * (x \div d) <= d * amount[t]
  BY <1>2, <1>4, <1>5
<1> HIDE DEF x
<1>7. x \div d <= amount[t]
  BY <1>2, <1>5, <1>6
<1> QED  BY <1>3, <1>5, <1>7 DEF x

\* A bound that is lowered is lowered.
LEMMA LoweredType ==
    ASSUME NEW b \in [bound : Nat, solverMax : Nat], NEW msat \in Nat
    PROVE  /\ Lowered(b, msat) \in Nat
           /\ Lowered(b, msat) <= b.bound /\ Lowered(b, msat) <= b.solverMax
<1> DEFINE under == Least(b.bound, b.solverMax)
<1>1. under \in Nat /\ under <= b.bound /\ under <= b.solverMax
  BY DEF Least
<1> HIDE DEF under
<1>2. /\ BoundWithUnitSlack(under, msat) \in Nat
      /\ BoundWithUnitSlack(under, msat) <= under
  <2>1. CASE Quantized(msat)
    BY <1>1, <2>1, SlackKept
  <2>2. CASE ~Quantized(msat)
    BY <1>1, <2>2 DEF BoundWithUnitSlack
  <2> QED  BY <2>1, <2>2
<1>3. Lowered(b, msat) = Least(BoundWithUnitSlack(under, msat), b.solverMax)
  BY DEF Lowered, under
<1> QED  BY <1>1, <1>2, <1>3 DEF Least

-----------------------------------------------------------------------------
(* The type invariant.                                                      *)

\* What a plan may find out or be asked never changes its type.
LEMMA PartType ==
    ASSUME TypeOK, NEW t \in Task, NEW x \in Nat, NEW fee \in Nat,
           NEW c \in Chan, NEW i \in DOMAIN draw[t].dst, Part(t, x, x + fee, c, i)
    PROVE  TypeOK'
<1> DEFINE sent == x + fee
<1>1. draw[t] \in DrawRecord /\ kept[t] \in PartsRecord
  BY DEF TypeOK
<1>2. Take(draw[t], x, sent, c, i) \in DrawRecord
  <2>0. /\ draw[t].left \in Nat /\ draw[t].src \in [Chan -> Nat]
        /\ draw[t].dst \in Seq(Nat) /\ draw[t].enter \in SUBSET Chan
    BY <1>1 DEF DrawRecord
  <2>1. /\ draw[t].left - x \in Nat
        /\ draw[t].src[c] - sent \in Nat
        /\ draw[t].dst[i] - x \in Nat
    <3>1. draw[t].dst[i] \in Nat /\ draw[t].src[c] \in Nat
      BY <2>0
    <3>2. x <= draw[t].left /\ x <= draw[t].dst[i] /\ sent <= draw[t].src[c]
      BY DEF Part
    <3>3. sent \in Nat
      OBVIOUS
    <3>4. draw[t].left \in Nat
      BY <2>0
    <3> HIDE DEF sent
    <3> QED  BY <3>1, <3>2, <3>3, <3>4
  <2>2. [draw[t].src EXCEPT ![c] = @ - sent] \in [Chan -> Nat]
    BY <2>0, <2>1
  <2>3. [draw[t].dst EXCEPT ![i] = @ - x] \in Seq(Nat)
    BY <2>0, <2>1
  <2> HIDE DEF sent
  <2> QED  BY <1>1, <2>1, <2>2, <2>3 DEF Take, DrawRecord
<1>3. ASSUME NEW flaw \in Flaw, NEW entry \in {{}} \cup {{e} : e \in draw[t].enter}
      PROVE  Pruned(t, x, sent, c, i, entry, flaw) \in PartsRecord
  <2> DEFINE k == kept[t]
             m == ask[t].dests[i].chan
  <2>1. entry \subseteq Chan
    BY <1>1 DEF DrawRecord
  <2>2. sent \in Nat
    OBVIOUS
  <2>3. /\ k.delivered \in Nat /\ k.sent \in Nat /\ k.out \in [Chan -> Nat]
        /\ k.in \in [Chan -> Nat] /\ k.parts \in [Chan -> Nat]
        /\ k.noSlot \subseteq Chan /\ k.entered \subseteq Chan
    BY <1>1 DEF PartsRecord
  <2> HIDE DEF sent
  <2> HIDE DEF k, m
  <2>4. /\ [k.out EXCEPT ![c] = @ + sent] \in [Chan -> Nat]
        /\ [k.in EXCEPT ![m] = @ + x] \in [Chan -> Nat]
        /\ [k.parts EXCEPT ![c] = @ + 1] \in [Chan -> Nat]
    <3>1. k.out[c] + sent \in Nat /\ k.parts[c] + 1 \in Nat
      BY <2>2, <2>3
    <3>2. m \in Chan => k.in[m] + x \in Nat
      BY <2>3
    <3> QED  BY <2>3, <3>1, <3>2
  <2>5. [k EXCEPT !.noSlot = @ \cup {c}] \in PartsRecord
    BY <1>1, <2>3 DEF PartsRecord, k
  <2>6. [k EXCEPT !.delivered = @ + x, !.sent = @ + sent,
            !.out[c] = @ + sent, !.in[m] = @ + x,
            !.parts[c] = @ + 1, !.entered = @ \cup entry] \in PartsRecord
    <3>1. k \in PartsRecord
      BY <1>1 DEF k
    <3>2. k.delivered + x \in Nat /\ k.sent + sent \in Nat
      BY <2>2, <2>3
    <3> QED  BY <2>1, <2>3, <2>4, <3>1, <3>2 DEF PartsRecord
  <2> QED  BY <1>1, <2>5, <2>6 DEF Pruned, k, m
<1>4. draw' \in [Task -> DrawRecord]
  BY <1>2 DEF TypeOK, Part
<1>5. kept' \in [Task -> PartsRecord]
  <2>1. PICK flaw \in Flaw, entry \in {{}} \cup {{e} : e \in draw[t].enter} :
            kept' = [kept EXCEPT ![t] = Pruned(t, x, sent, c, i, entry, flaw)]
    BY DEF Part
  <2> HIDE DEF sent
  <2> QED  BY <1>3, <2>1 DEF TypeOK
<1>6. UNCHANGED <<world, ask, pc, snap, amount, layer, bounds, rung, outcome>>
  BY DEF Part
<1> HIDE DEF sent
<1> QED  BY <1>4, <1>5, <1>6 DEF TypeOK, world, Given

\* A plan's steps, and what happens around it, keep the types.
LEMMA TypeStep ==
    ASSUME TypeOK, PlanInv, [Next]_vars
    PROVE  TypeOK'
<1>0. \A t \in Task : pc[t] \in {"build", "ladder"} => IsAsk(ask[t]) /\ Valid(ask[t])
  BY GivenType DEF TypeOK, PlanInv
<1>1. ASSUME NEW t \in Task, Call(t) PROVE TypeOK'
  BY <1>1 DEF TypeOK, Call, world, Given, Pc, Outcome
<1>2. ASSUME NEW t \in Task, Snapshot(t) PROVE TypeOK'
  <2>1. ledger \in [Chan -> ChanRecord]
    BY GivenType DEF TypeOK
  <2>2. Plannable(ask[t], ledger) => Clamp(ask[t], ledger) \in Nat
    <3>1. IsAsk(ask[t]) \/ ask[t] = NoAsk
      BY GivenType DEF TypeOK
    <3>2. IsAsk(NoAsk)
      BY DEF IsAsk, NoAsk, IsSpecs
    <3> QED  BY <2>1, <3>1, <3>2, ClampType
  <2> QED  BY <1>2, <2>2 DEF TypeOK, Snapshot, Stop, world, Given, Pc, Outcome
<1>3. ASSUME NEW t \in Task, FailEarly(t) PROVE TypeOK'
  BY <1>3 DEF TypeOK, FailEarly, Stop, world, Given, Pc, Outcome
<1>4. ASSUME NEW t \in Task, CreateLayer(t) PROVE TypeOK'
  <2>1. LayerName \in Name
    BY DEF TypeOK, LayerName, Name
  <2>2. EmptyLayer \in Content
    BY PlannerAssumption DEF EmptyLayer, Content
  <2>3. DOMAIN layers' \subseteq Name /\ \A n \in DOMAIN layers' : layers'[n] \in Content
    <3>1. layers' = [n \in DOMAIN layers \cup {LayerName} |->
                        IF n \in DOMAIN layers THEN layers[n] ELSE EmptyLayer]
      BY <1>4 DEF CreateLayer
    <3> QED  BY <2>1, <2>2, <3>1 DEF TypeOK
  <2>4. /\ seq' \in Nat /\ leaked' \subseteq Name
        /\ layer' \in [Task -> Name]
        /\ pc' \in [Task -> Pc] /\ outcome' \in [Task -> Outcome]
    <3>1. /\ seq' = seq + 1
          /\ \/ layer' = layer \/ layer' = [layer EXCEPT ![t] = LayerName]
          /\ leaked' = leaked \/ leaked' = leaked \cup {LayerName}
          /\ \/ outcome' = outcome /\ pc' = [pc EXCEPT ![t] = "build"]
             \/ /\ outcome' = [outcome EXCEPT ![t] = "error"]
                /\ pc' = [pc EXCEPT ![t] = "done"]
      BY <1>4 DEF CreateLayer, Stop
    <3>2. {"build", "done"} \subseteq Pc /\ "error" \in Outcome
      BY DEF Pc, Outcome
    <3>3. seq' \in Nat /\ leaked' \subseteq Name /\ layer' \in [Task -> Name]
      BY <2>1, <3>1 DEF TypeOK
    <3>4. pc' \in [Task -> Pc] /\ outcome' \in [Task -> Outcome]
      BY <3>1, <3>2 DEF TypeOK
    <3> QED  BY <3>3, <3>4
  <2>5. UNCHANGED <<case, ledger, run, ask, snap, amount, bounds, rung, draw, kept>>
    BY <1>4 DEF CreateLayer
  <2> QED  BY <2>3, <2>4, <2>5 DEF TypeOK, Given
<1>5. ASSUME NEW t \in Task, BuildLayer(t) PROVE TypeOK'
  <2> DEFINE a == ask[t]
             l == snap[t]
             targets == Chans(a.sources) \cap Fence(l)
             content == [mirrors |-> [i \in DOMAIN a.dests |-> Mirror(a.dests[i], l)],
                         outOff |-> Fence(l) \ Chans(a.sources),
                         inOff |-> Fence(l), max |-> [c \in Chan |-> NoCap]]
             limits == [c \in targets |-> SourceBound(a, c, l)]
  <2>0. IsAsk(a) /\ Valid(a)
    BY <1>0, <1>5 DEF BuildLayer
  <2>1. l \in [Chan -> ChanRecord]
    BY GivenType DEF TypeOK
  <2>2. content \in Content
    <3>1. [i \in DOMAIN a.dests |-> Mirror(a.dests[i], l)] \in Seq(Nat)
      <4>1. /\ Len(a.dests) \in Nat /\ DOMAIN a.dests = 1..Len(a.dests)
            /\ \A i \in DOMAIN a.dests :
                    a.dests[i].chan \in Chan /\ a.dests[i].max \in Nat
        BY <2>0, SpecsType DEF IsAsk
      <4>2. \A i \in DOMAIN a.dests : Mirror(a.dests[i], l) \in Nat
        BY <2>1, <4>1, LedgerType DEF Mirror, Capped, Least
      <4> HIDE DEF a, l
      <4> QED  BY <4>1, <4>2
    <3>2. Fence(l) \subseteq Chan
      BY DEF Fence, Ours
    <3>3. [c \in Chan |-> NoCap] \in [Chan -> Nat]
      BY PlannerAssumption
    <3> HIDE DEF a, l
    <3> QED  BY <3>1, <3>2, <3>3 DEF Content
  <2>3. limits \in [targets -> BoundRecord] /\ targets \subseteq Chan
    <3>1. \A c \in targets : c \in Chan /\ CapOf(a, c) \in Nat
      <4> TAKE c \in targets
      <4>1. PICK i \in DOMAIN a.sources : c = a.sources[i].chan
        BY DEF Chans
      <4>2. CapOf(a, c) = a.sources[i].max
        BY <2>0, <4>1, CapIsTheSpecs DEF IsAsk, Valid
      <4> QED  BY <2>0, <4>1, <4>2, SpecsType DEF IsAsk
    <3>2. \A c \in targets : SourceBound(a, c, l) \in BoundRecord
      BY <2>1, <3>1, LedgerType DEF SourceBound, BoundRecord, Least
    <3> HIDE DEF a, l, targets
    <3> QED  BY <3>1, <3>2
  <2>4. /\ layers' = [layers EXCEPT ![layer[t]] = content]
        /\ bounds' = [bounds EXCEPT ![t] = limits]
        /\ pc' = [pc EXCEPT ![t] = "ladder"]
        /\ UNCHANGED <<case, ledger, run, seq, leaked, ask, snap, amount, layer,
                       rung, draw, kept, outcome>>
    BY <1>5 DEF BuildLayer
  <2> HIDE DEF content, limits, targets, a, l
  <2>5. /\ DOMAIN bounds' = Task
        /\ \A u \in Task : /\ DOMAIN bounds'[u] \subseteq Chan
                           /\ bounds'[u] \in [DOMAIN bounds'[u] -> BoundRecord]
    BY <2>3, <2>4 DEF TypeOK
  <2>6. DOMAIN layers' \subseteq Name /\ \A n \in DOMAIN layers' : layers'[n] \in Content
    BY <2>2, <2>4 DEF TypeOK
  <2> QED  BY <2>4, <2>5, <2>6 DEF TypeOK, Given, Pc
<1>6. ASSUME NEW t \in Task, FailInLayer(t) PROVE TypeOK'
  BY <1>6 DEF TypeOK, FailInLayer, LeaveLayer, world, Given, Pc, Outcome
<1>7. ASSUME NEW t \in Task, Descend(t) PROVE TypeOK'
  <2> DEFINE step == NextStep(t)
             msat == RungAmount(t, step)
             lower == [c \in DOMAIN bounds[t] |-> Lowered(bounds[t][c], msat)]
             written == {c \in DOMAIN lower : lower[c] < bounds[t][c].solverMax}
             limits == [c \in DOMAIN lower |->
                            [bounds[t][c] EXCEPT !.solverMax = lower[c]]]
             max == layers[layer[t]].max
             caps == [c \in Chan |-> IF c \in written THEN lower[c] ELSE max[c]]
             next == [step |-> step, amount |-> msat, maxfee |-> Maxfee(ask[t], msat)]
  <2>1. /\ layer[t] \in DOMAIN layers /\ step <= Len(Ladder)
        /\ rung' = [rung EXCEPT ![t] = next]
        /\ bounds' = [bounds EXCEPT ![t] = limits]
        /\ layers' = [layers EXCEPT ![layer[t]].max = caps]
        /\ pc' = [pc EXCEPT ![t] = "solve"]
        /\ UNCHANGED <<case, ledger, run, seq, leaked, ask, snap, amount, layer,
                       draw, kept, outcome>>
    BY <1>7 DEF Descend
  <2>2. step \in 1..5
    <3>1. Len(Ladder) = 5
      BY DEF Ladder
    <3>2. rung[t].step \in 0..5
      BY DEF TypeOK, RungRecord
    <3> QED  BY <2>1, <3>1, <3>2 DEF NextStep
  <2>3. msat \in Nat
    <3>1. Len(Ladder) = 5 /\ amount[t] \in Nat
      BY DEF Ladder, TypeOK
    <3> HIDE DEF step
    <3> QED  BY <2>2, <3>1, RungAmountType
  <2>4. next \in RungRecord
    <3>1. Maxfee(ask[t], msat) \in Nat
      <4>1. IsAsk(ask[t])
        BY <1>0, <1>7 DEF Descend
      <4> HIDE DEF msat
      <4> QED  BY <2>3, <4>1, MaxfeeType
    <3> HIDE DEF step, msat
    <3> QED  BY <2>2, <2>3, <3>1 DEF RungRecord
  <2>5. \A c \in DOMAIN bounds[t] : /\ c \in Chan /\ bounds[t][c] \in BoundRecord
                                    /\ lower[c] \in Nat
    <3>1. \A c \in DOMAIN bounds[t] : c \in Chan /\ bounds[t][c] \in BoundRecord
      BY DEF TypeOK
    <3>2. \A c \in DOMAIN bounds[t] : Lowered(bounds[t][c], msat) \in Nat
      <4> HIDE DEF msat
      <4> QED  BY <2>3, <3>1, LoweredType DEF BoundRecord
    <3> HIDE DEF msat
    <3> QED  BY <3>1, <3>2
  <2>6. limits \in [DOMAIN bounds[t] -> BoundRecord]
    <3> HIDE DEF msat
    <3> QED  BY <2>5 DEF BoundRecord
  <2>7. layers[layer[t]] \in Content
    BY <2>1 DEF TypeOK
  <2>8. caps \in [Chan -> Nat]
    <3>1. max \in [Chan -> Nat]
      BY <2>7 DEF Content
    <3>2. written \subseteq DOMAIN bounds[t]
      OBVIOUS
    <3> HIDE DEF lower, written, max
    <3> QED  BY <2>5, <3>1, <3>2
  <2>9. DOMAIN layers' \subseteq Name /\ \A n \in DOMAIN layers' : layers'[n] \in Content
    <3> HIDE DEF caps
    <3>1. [layers[layer[t]] EXCEPT !.max = caps] \in Content
      BY <2>7, <2>8 DEF Content
    <3>2. layers' = [layers EXCEPT ![layer[t]] = [layers[layer[t]] EXCEPT !.max = caps]]
      BY <2>1
    <3> QED  BY <3>1, <3>2 DEF TypeOK
  <2> HIDE DEF caps, limits, next
  <2>10. /\ DOMAIN bounds' = Task
         /\ \A u \in Task : /\ DOMAIN bounds'[u] \subseteq Chan
                            /\ bounds'[u] \in [DOMAIN bounds'[u] -> BoundRecord]
    BY <2>1, <2>5, <2>6 DEF TypeOK
  <2> QED  BY <2>1, <2>4, <2>9, <2>10 DEF TypeOK, Given, Pc
<1>8. ASSUME NEW t \in Task, EndLadder(t) PROVE TypeOK'
  BY <1>8 DEF TypeOK, EndLadder, LeaveLayer, world, Given, Pc, Outcome
<1>9. ASSUME NEW t \in Task, Solve(t) PROVE TypeOK'
  <2>1. layer[t] \in DOMAIN layers => Seen(t) \in DrawRecord
    <3> SUFFICES ASSUME layer[t] \in DOMAIN layers PROVE Seen(t) \in DrawRecord
      OBVIOUS
    <3> DEFINE content == layers[layer[t]]
    <3>1. content \in Content /\ rung[t].amount \in Nat
      BY DEF TypeOK, RungRecord
    <3>2. ledger \in [Chan -> ChanRecord]
      BY GivenType DEF TypeOK
    <3>3. \A c \in Chan : Least(ledger[c].spend, content.max[c]) \in Nat
      BY <3>1, <3>2, LedgerType DEF Content, Least
    <3>4. Ours(ledger) \ content.inOff \subseteq Chan
      BY DEF Ours
    <3>5. content.mirrors \in Seq(Nat)
      BY <3>1 DEF Content
    <3>6. [c \in Chan |-> IF c \in Ours(ledger) \ content.outOff
                THEN Least(ledger[c].spend, content.max[c]) ELSE 0] \in [Chan -> Nat]
      BY <3>3
    <3> HIDE DEF content
    <3> QED  BY <3>1, <3>4, <3>5, <3>6 DEF Seen, DrawRecord, content
  <2> QED  BY <1>9, <2>1 DEF TypeOK, Solve, LeaveLayer, world, Given, Pc, Outcome
<1>10. ASSUME NEW t \in Task, PartStep(t) PROVE TypeOK'
  <2>1. PICK x \in 1..draw[t].left, fee \in 0..Given.partFee, c \in Chan,
             i \in DOMAIN draw[t].dst : Part(t, x, x + fee, c, i)
    BY <1>10 DEF PartStep
  <2>2. x \in Nat /\ fee \in Nat
    BY GivenType DEF TypeOK
  <2> QED  BY <2>1, <2>2, PartType
<1>11. ASSUME NEW t \in Task, Finish(t) PROVE TypeOK'
  BY <1>11 DEF TypeOK, Finish, LeaveLayer, world, Given, Pc, Outcome
<1>12. ASSUME NEW t \in Task, RemoveLayer(t) PROVE TypeOK'
  BY <1>12 DEF TypeOK, RemoveLayer, Given, Pc, Outcome
<1>13. ASSUME Traffic PROVE TypeOK'
  BY <1>13 DEF TypeOK, Traffic, Given
<1>14. ASSUME Restart PROVE TypeOK'
  BY <1>14 DEF TypeOK, Restart, Given, Pc
<1>15. ASSUME UNCHANGED vars PROVE TypeOK'
  BY <1>15 DEF TypeOK, vars, world, Given
<1> QED
  BY <1>1, <1>2, <1>3, <1>4, <1>5, <1>6, <1>7, <1>8, <1>9, <1>10, <1>11,
     <1>12, <1>13, <1>14, <1>15 DEF Next, Running

-----------------------------------------------------------------------------
(* Layers.                                                                  *)

\* A step of a plan that neither makes nor removes a layer, and does not enter
\* one: the names stand.
LEMMA LayersStand ==
    ASSUME TypeOK, LayersAccounted, NamesPassed,
           DOMAIN layers' = DOMAIN layers, UNCHANGED <<run, seq, leaked, layer>>,
           \A t \in Task : Holds(t)' <=> Holds(t)
    PROVE  LayersAccounted' /\ NamesPassed'
<1>1. {u \in Task : Holds(u)'} = {u \in Task : Holds(u)}
  OBVIOUS
<1>2. LayersAccounted'
  BY <1>1 DEF LayersAccounted
<1>3. NamesPassed'
  BY DEF NamesPassed
<1> QED  BY <1>2, <1>3

\* Layers are accounted for through every step.
LEMMA LayersStep ==
    ASSUME TypeOK, LayersAccounted, NamesPassed, [Next]_vars
    PROVE  LayersAccounted' /\ NamesPassed'
<1>1. ASSUME NEW t \in Task, Call(t) PROVE LayersAccounted' /\ NamesPassed'
  <2>1. \A u \in Task : Holds(u)' <=> Holds(u)
    BY <1>1 DEF TypeOK, Call, Holds, InLayer
  <2> QED  BY <1>1, <2>1, LayersStand DEF Call, world
<1>2. ASSUME NEW t \in Task, Snapshot(t) PROVE LayersAccounted' /\ NamesPassed'
  <2>1. \A u \in Task : Holds(u)' <=> Holds(u)
    BY <1>2 DEF TypeOK, Snapshot, Stop, Holds, InLayer
  <2> QED  BY <1>2, <2>1, LayersStand DEF Snapshot, world
<1>3. ASSUME NEW t \in Task, FailEarly(t) PROVE LayersAccounted' /\ NamesPassed'
  <2>1. \A u \in Task : Holds(u)' <=> Holds(u)
    BY <1>3 DEF TypeOK, FailEarly, Stop, Holds, InLayer
  <2> QED  BY <1>3, <2>1, LayersStand DEF FailEarly, world
<1>4. ASSUME NEW t \in Task, CreateLayer(t) PROVE LayersAccounted' /\ NamesPassed'
  <2>1. /\ ~Holds(t) /\ run \in Nat /\ seq \in Nat
        /\ run' = run /\ seq' = seq + 1
        /\ DOMAIN layers' = DOMAIN layers \cup {<<run, seq>>}
    BY <1>4 DEF TypeOK, CreateLayer, LayerName, Holds, InLayer
  <2>2. \A n \in DOMAIN layers : n[1] \in Nat /\ n[2] \in Nat /\ n # <<run, seq>>
    BY <2>1 DEF TypeOK, NamesPassed, Name
  <2>3. \A u \in Task \ {t} : (Holds(u)' <=> Holds(u)) /\ layer'[u] = layer[u]
    BY <1>4 DEF TypeOK, CreateLayer, Stop, Holds
  <2>4. \/ /\ layer'[t] = <<run, seq>> /\ Holds(t)'
           /\ leaked' = leaked
        \/ ~Holds(t)' /\ leaked' = leaked \cup {<<run, seq>>}
    BY <1>4 DEF TypeOK, CreateLayer, Stop, Holds, InLayer, LayerName
  <2>5. LayersAccounted'
    <3>1. \A u \in Task \ {t} : Holds(u) => layer[u] \in DOMAIN layers
      BY DEF LayersAccounted
    <3>2. \A u \in Task : Holds(u)' => layer'[u] \in DOMAIN layers'
      BY <2>1, <2>3, <2>4, <3>1
    <3>3. \A u, v \in Task : Holds(u)' /\ Holds(v)' /\ u # v => layer'[u] # layer'[v]
      BY <2>2, <2>3, <2>4, <3>1 DEF LayersAccounted
    <3>4. ASSUME NEW n \in DOMAIN layers'
          PROVE  n \in leaked' \cup {layer'[u] : u \in {v \in Task : Holds(v)'}}
      <4>1. CASE n = <<run, seq>>
        BY <2>4, <4>1
      <4>2. CASE n \in leaked
        BY <2>4, <4>2
      <4>3. CASE n \in DOMAIN layers /\ n \notin leaked
        <5>1. PICK u \in Task : Holds(u) /\ n = layer[u]
          BY <4>3 DEF LayersAccounted
        <5> QED  BY <2>1, <2>3, <5>1
      <4> QED  BY <2>1, <4>1, <4>2, <4>3
    <3> QED  BY <3>2, <3>3, <3>4 DEF LayersAccounted
  <2>6. NamesPassed'
    <3>1. \A n \in DOMAIN layers' : n[1] < run' \/ (n[1] = run' /\ n[2] < seq')
      BY <2>1, <2>2 DEF NamesPassed
    <3>2. \A u \in Task : Holds(u)' => layer'[u][1] = run' /\ layer'[u][2] < seq'
      <4> TAKE u \in Task
      <4> HAVE Holds(u)'
      <4>1. CASE u = t
        BY <2>1, <2>4, <4>1
      <4>2. CASE u # t
        <5>1. layer[u] \in Nat \X Nat
          BY DEF TypeOK, Name
        <5> QED  BY <2>1, <2>3, <4>2, <5>1 DEF NamesPassed
      <4> QED  BY <4>1, <4>2
    <3> QED  BY <3>1, <3>2 DEF NamesPassed
  <2> QED  BY <2>5, <2>6
<1>5. ASSUME NEW t \in Task, BuildLayer(t) PROVE LayersAccounted' /\ NamesPassed'
  <2>1. \A u \in Task : Holds(u)' <=> Holds(u)
    BY <1>5 DEF TypeOK, BuildLayer, Holds, InLayer
  <2>2. DOMAIN layers' = DOMAIN layers
    BY <1>5 DEF BuildLayer
  <2> QED  BY <1>5, <2>1, <2>2, LayersStand DEF BuildLayer
<1>6. ASSUME NEW t \in Task, FailInLayer(t) PROVE LayersAccounted' /\ NamesPassed'
  <2>1. \A u \in Task : Holds(u)' <=> Holds(u)
    BY <1>6 DEF TypeOK, FailInLayer, LeaveLayer, Holds, InLayer
  <2> QED  BY <1>6, <2>1, LayersStand DEF FailInLayer, world
<1>7. ASSUME NEW t \in Task, Descend(t) PROVE LayersAccounted' /\ NamesPassed'
  <2>1. \A u \in Task : Holds(u)' <=> Holds(u)
    BY <1>7 DEF TypeOK, Descend, Holds, InLayer
  <2>2. DOMAIN layers' = DOMAIN layers
    BY <1>7 DEF Descend
  <2> QED  BY <1>7, <2>1, <2>2, LayersStand DEF Descend
<1>8. ASSUME NEW t \in Task, EndLadder(t) PROVE LayersAccounted' /\ NamesPassed'
  <2>1. \A u \in Task : Holds(u)' <=> Holds(u)
    BY <1>8 DEF TypeOK, EndLadder, LeaveLayer, Holds, InLayer
  <2> QED  BY <1>8, <2>1, LayersStand DEF EndLadder, world
<1>9. ASSUME NEW t \in Task, Solve(t) PROVE LayersAccounted' /\ NamesPassed'
  <2>1. \A u \in Task : Holds(u)' <=> Holds(u)
    BY <1>9 DEF TypeOK, Solve, LeaveLayer, Holds, InLayer
  <2> QED  BY <1>9, <2>1, LayersStand DEF Solve, world
<1>10. ASSUME NEW t \in Task, PartStep(t) PROVE LayersAccounted' /\ NamesPassed'
  <2>1. UNCHANGED <<world, layer, pc>>
    BY <1>10 DEF PartStep, Part
  <2>2. \A u \in Task : Holds(u)' <=> Holds(u)
    BY <2>1 DEF Holds
  <2> QED  BY <2>1, <2>2, LayersStand DEF world
<1>11. ASSUME NEW t \in Task, Finish(t) PROVE LayersAccounted' /\ NamesPassed'
  <2>1. \A u \in Task : Holds(u)' <=> Holds(u)
    BY <1>11 DEF TypeOK, Finish, LeaveLayer, Holds, InLayer
  <2> QED  BY <1>11, <2>1, LayersStand DEF Finish, world
<1>12. ASSUME NEW t \in Task, RemoveLayer(t) PROVE LayersAccounted' /\ NamesPassed'
  <2>1. /\ Holds(t) /\ ~Holds(t)'
        /\ \A u \in Task \ {t} : Holds(u)' <=> Holds(u)
        /\ UNCHANGED <<run, seq, layer>>
    BY <1>12 DEF TypeOK, RemoveLayer, Holds, InLayer
  <2>2. \/ DOMAIN layers' = DOMAIN layers \ {layer[t]} /\ leaked' = leaked
        \/ DOMAIN layers' = DOMAIN layers /\ leaked' = leaked \cup {layer[t]}
    BY <1>12 DEF RemoveLayer
  <2>3. LayersAccounted'
    <3>1. \A u \in Task : Holds(u)' =>
            /\ layer'[u] \in DOMAIN layers'
            /\ \A v \in Task \ {u} : Holds(v)' => layer'[v] # layer'[u]
      BY <2>1, <2>2 DEF LayersAccounted
    <3>2. ASSUME NEW n \in DOMAIN layers'
          PROVE  n \in leaked' \cup {layer'[u] : u \in {v \in Task : Holds(v)'}}
      <4>1. CASE n \in leaked \/ n = layer[t]
        BY <2>2, <4>1
      <4>2. CASE n \notin leaked /\ n # layer[t]
        <5>1. PICK u \in Task : Holds(u) /\ n = layer[u]
          BY <2>2, <4>2 DEF LayersAccounted
        <5> QED  BY <2>1, <4>2, <5>1
      <4> QED  BY <4>1, <4>2
    <3> QED  BY <3>1, <3>2 DEF LayersAccounted
  <2>4. NamesPassed'
    BY <2>1, <2>2 DEF NamesPassed
  <2> QED  BY <2>3, <2>4
<1>13. ASSUME Traffic PROVE LayersAccounted' /\ NamesPassed'
  <2>1. \A u \in Task : Holds(u)' <=> Holds(u)
    BY <1>13 DEF Traffic, Holds
  <2> QED  BY <1>13, <2>1, LayersStand DEF Traffic
<1>14. ASSUME Restart PROVE LayersAccounted' /\ NamesPassed'
  <2>1. \A u \in Task : ~Holds(u)'
    BY <1>14 DEF TypeOK, Restart, Holds, InLayer
  <2>2. \/ DOMAIN layers' = {}
        \/ DOMAIN layers' = DOMAIN layers /\ leaked' = DOMAIN layers
    <3>1. \/ layers' = layers /\ leaked' = DOMAIN layers
          \/ layers' = [n \in {} |-> EmptyLayer]
      BY <1>14 DEF Restart
    <3>2. DOMAIN [n \in {} |-> EmptyLayer] = {}
      OBVIOUS
    <3> QED  BY <3>1, <3>2
  <2>3. LayersAccounted'
    BY <2>1, <2>2 DEF LayersAccounted
  <2>4. NamesPassed'
    <3>1. run \in Nat /\ run' = run + 1 /\ DOMAIN layers \subseteq Nat \X Nat
      BY <1>14 DEF TypeOK, Restart, Name
    <3>2. \A n \in DOMAIN layers' : n[1] < run'
      BY <2>2, <3>1 DEF NamesPassed
    <3> QED  BY <2>1, <3>2 DEF NamesPassed
  <2> QED  BY <2>3, <2>4
<1>15. ASSUME UNCHANGED vars PROVE LayersAccounted' /\ NamesPassed'
  <2>1. \A u \in Task : Holds(u)' <=> Holds(u)
    BY <1>15 DEF vars, Holds
  <2> QED  BY <1>15, <2>1, LayersStand DEF vars, world
<1> QED
  BY <1>1, <1>2, <1>3, <1>4, <1>5, <1>6, <1>7, <1>8, <1>9, <1>10, <1>11,
     <1>12, <1>13, <1>14, <1>15 DEF Next, Running

-----------------------------------------------------------------------------
(* What a plan has found out, and its rung.                                 *)

\* A plan goes on with valid parameters, channels that can be planned with, and
\* the amount that the clamp leaves; nothing is kept before there are parts.
LEMMA PlanStep ==
    ASSUME TypeOK, PlanInv, [Next]_vars
    PROVE  PlanInv'
<1>1. ASSUME NEW t \in Task, Call(t) PROVE PlanInv'
  BY <1>1 DEF TypeOK, PlanInv, Call, world, Given, InLayer
<1>2. ASSUME NEW t \in Task, Snapshot(t) PROVE PlanInv'
  <2> DEFINE clamped == Clamp(ask[t], ledger)
  <2>1. clamped \in Nat
    <3>1. IsAsk(ask[t]) /\ ledger \in [Chan -> ChanRecord]
      BY <1>2, GivenType DEF TypeOK, PlanInv, Snapshot
    <3> QED  BY <3>1, ClampType
  <2>2. /\ UNCHANGED <<case, ledger, ask, kept>>
        /\ pc[t] = "snapshot" /\ snap' = [snap EXCEPT ![t] = ledger]
        /\ \/ pc' = [pc EXCEPT ![t] = "done"] /\ amount' = amount
           \/ pc' = [pc EXCEPT ![t] = "done"] /\ amount' = [amount EXCEPT ![t] = clamped]
           \/ /\ pc' = [pc EXCEPT ![t] = "prepare"] /\ Plannable(ask[t], ledger)
              /\ amount' = [amount EXCEPT ![t] = clamped] /\ clamped # 0
    BY <1>2 DEF Snapshot, Stop, world
  <2>3. pc'[t] = "prepare" =>
            /\ Plannable(ask[t], ledger) /\ amount'[t] = clamped /\ clamped > 0
    <3> HIDE DEF clamped
    <3> QED  BY <2>1, <2>2 DEF TypeOK
  <2> HIDE DEF clamped
  <2>4. pc'[t] \in {"prepare", "done"} /\ snap'[t] = ledger
    BY <2>2 DEF TypeOK
  <2>5. \A u \in Task \ {t} : /\ pc'[u] = pc[u] /\ snap'[u] = snap[u]
                             /\ amount'[u] = amount[u]
    BY <2>2 DEF TypeOK
  <2> QED  BY <2>2, <2>3, <2>4, <2>5 DEF PlanInv, Given, InLayer, clamped
<1>3. ASSUME NEW t \in Task, FailEarly(t) PROVE PlanInv'
  BY <1>3 DEF TypeOK, PlanInv, FailEarly, Stop, world, Given, InLayer
<1>4. ASSUME NEW t \in Task, CreateLayer(t) PROVE PlanInv'
  BY <1>4 DEF TypeOK, PlanInv, CreateLayer, Stop, Given, InLayer
<1>5. ASSUME NEW t \in Task, BuildLayer(t) PROVE PlanInv'
  BY <1>5 DEF TypeOK, PlanInv, BuildLayer, Given, InLayer
<1>6. ASSUME NEW t \in Task, FailInLayer(t) PROVE PlanInv'
  BY <1>6 DEF TypeOK, PlanInv, FailInLayer, LeaveLayer, world, Given, InLayer
<1>7. ASSUME NEW t \in Task, Descend(t) PROVE PlanInv'
  BY <1>7 DEF TypeOK, PlanInv, Descend, Given, InLayer
<1>8. ASSUME NEW t \in Task, EndLadder(t) PROVE PlanInv'
  BY <1>8 DEF TypeOK, PlanInv, EndLadder, LeaveLayer, world, Given, InLayer
<1>9. ASSUME NEW t \in Task, Solve(t) PROVE PlanInv'
  BY <1>9 DEF TypeOK, PlanInv, Solve, LeaveLayer, world, Given, InLayer
<1>10. ASSUME NEW t \in Task, PartStep(t) PROVE PlanInv'
  <2>1. /\ UNCHANGED <<world, ask, pc, snap, amount>>
        /\ pc[t] = "parts" /\ \A u \in Task \ {t} : kept'[u] = kept[u]
    BY <1>10 DEF TypeOK, PartStep, Part
  <2> QED  BY <2>1 DEF PlanInv, world, Given
<1>11. ASSUME NEW t \in Task, Finish(t) PROVE PlanInv'
  BY <1>11 DEF TypeOK, PlanInv, Finish, LeaveLayer, world, Given, InLayer
<1>12. ASSUME NEW t \in Task, RemoveLayer(t) PROVE PlanInv'
  BY <1>12 DEF TypeOK, PlanInv, RemoveLayer, Given, InLayer
<1>13. ASSUME Traffic PROVE PlanInv'
  BY <1>13 DEF TypeOK, PlanInv, Traffic, Given
<1>14. ASSUME Restart PROVE PlanInv'
  BY <1>14 DEF TypeOK, PlanInv, Restart, Given, InLayer
<1>15. ASSUME UNCHANGED vars PROVE PlanInv'
  BY <1>15 DEF PlanInv, vars, world, Given
<1> QED
  BY <1>1, <1>2, <1>3, <1>4, <1>5, <1>6, <1>7, <1>8, <1>9, <1>10, <1>11,
     <1>12, <1>13, <1>14, <1>15 DEF Next, Running

\* A rung is within the ask, with the budget of its amount.
LEMMA RungStep ==
    ASSUME TypeOK, PlanInv, RungInv, [Next]_vars
    PROVE  RungInv'
<1>1. ASSUME NEW t \in Task, Call(t) PROVE RungInv'
  BY <1>1 DEF TypeOK, RungInv, Call, world, Given
<1>2. ASSUME NEW t \in Task, Snapshot(t) PROVE RungInv'
  BY <1>2 DEF TypeOK, RungInv, Snapshot, Stop, world, Given
<1>3. ASSUME NEW t \in Task, FailEarly(t) PROVE RungInv'
  BY <1>3 DEF TypeOK, RungInv, FailEarly, Stop, world, Given
<1>4. ASSUME NEW t \in Task, CreateLayer(t) PROVE RungInv'
  BY <1>4 DEF TypeOK, RungInv, CreateLayer, Stop, Given
<1>5. ASSUME NEW t \in Task, BuildLayer(t) PROVE RungInv'
  BY <1>5 DEF TypeOK, RungInv, BuildLayer, Given
<1>6. ASSUME NEW t \in Task, FailInLayer(t) PROVE RungInv'
  BY <1>6 DEF TypeOK, RungInv, FailInLayer, LeaveLayer, world, Given
<1>7. ASSUME NEW t \in Task, Descend(t) PROVE RungInv'
  <2> DEFINE step == NextStep(t)
             msat == RungAmount(t, step)
             next == [step |-> step, amount |-> msat, maxfee |-> Maxfee(ask[t], msat)]
  <2>1. /\ pc[t] = "ladder" /\ step <= Len(Ladder) /\ msat # 0
        /\ rung' = [rung EXCEPT ![t] = next]
        /\ pc' = [pc EXCEPT ![t] = "solve"] /\ UNCHANGED <<case, ask, kept>>
    BY <1>7 DEF Descend
  <2>2. ask[t] \in Given.asks /\ ask[t].amount \in Nat /\ amount[t] <= ask[t].amount
    <3>1. ask[t] \in Given.asks /\ IsAsk(ask[t])
      BY <2>1, GivenType DEF TypeOK, PlanInv
    <3>2. snap[t] \in [Chan -> ChanRecord] /\ amount[t] = Clamp(ask[t], snap[t])
      BY <2>1, GivenType DEF TypeOK, PlanInv, InLayer
    <3> QED  BY <3>1, <3>2, ClampType DEF IsAsk
  <2>3. step \in 1..Len(Ladder)
    <3>1. rung[t].step \in 0..5 /\ Len(Ladder) = 5
      BY DEF TypeOK, RungRecord, Ladder
    <3> QED  BY <2>1, <3>1 DEF NextStep
  <2>4. msat \in 1..ask[t].amount
    <3>1. amount[t] \in Nat
      BY DEF TypeOK
    <3> HIDE DEF step
    <3>2. RungAmount(t, step) \in Nat /\ RungAmount(t, step) <= amount[t]
      BY <2>3, <3>1, RungAmountType
    <3> QED  BY <2>1, <2>2, <3>1, <3>2
  <2>5. next # NoRung
    <3>1. step # 0
      BY <2>3
    <3> HIDE DEF step, msat
    <3> QED  BY <3>1 DEF NoRung
  <2> HIDE DEF step, msat
  <2>6. next.amount = msat /\ next.maxfee = Maxfee(ask[t], msat)
    OBVIOUS
  <2> HIDE DEF next
  <2> QED  BY <2>1, <2>2, <2>4, <2>5, <2>6 DEF TypeOK, RungInv, Given
<1>8. ASSUME NEW t \in Task, EndLadder(t) PROVE RungInv'
  BY <1>8 DEF TypeOK, RungInv, EndLadder, LeaveLayer, world, Given
<1>9. ASSUME NEW t \in Task, Solve(t) PROVE RungInv'
  BY <1>9 DEF TypeOK, RungInv, Solve, LeaveLayer, world, Given
<1>10. ASSUME NEW t \in Task, PartStep(t) PROVE RungInv'
  BY <1>10 DEF RungInv, PartStep, Part, world, Given
<1>11. ASSUME NEW t \in Task, Finish(t) PROVE RungInv'
  BY <1>11 DEF TypeOK, RungInv, Finish, LeaveLayer, world, Given
<1>12. ASSUME NEW t \in Task, RemoveLayer(t) PROVE RungInv'
  BY <1>12 DEF TypeOK, RungInv, RemoveLayer, Given
<1>13. ASSUME Traffic PROVE RungInv'
  BY <1>13 DEF RungInv, Traffic, Given
<1>14. ASSUME Restart PROVE RungInv'
  BY <1>14 DEF TypeOK, RungInv, Restart, Given
<1>15. ASSUME UNCHANGED vars PROVE RungInv'
  BY <1>15 DEF RungInv, vars, world, Given
<1> QED
  BY <1>1, <1>2, <1>3, <1>4, <1>5, <1>6, <1>7, <1>8, <1>9, <1>10, <1>11,
     <1>12, <1>13, <1>14, <1>15 DEF Next, Running

-----------------------------------------------------------------------------
(* What is in a layer.                                                      *)

\* A plan whose layer is not touched has written into it what it had.
LEMMA WrittenStands ==
    ASSUME NEW t \in Task, LayerInv,
           pc'[t] \in {"ladder", "solve"} =>
                /\ pc[t] \in {"ladder", "solve"}
                /\ pc'[t] = "solve" => pc[t] = "solve"
                /\ ask'[t] = ask[t] /\ snap'[t] = snap[t]
                /\ bounds'[t] = bounds[t]
                /\ layers'[layer'[t]] = layers[layer[t]]
    PROVE  pc'[t] \in {"ladder", "solve"} => Written(t)'
  BY DEF LayerInv, Written

\* The plan builds its layer (plan.rs:664-802).
LEMMA WrittenByBuild ==
    ASSUME TypeOK, PlanInv, NEW t \in Task, BuildLayer(t)
    PROVE  Written(t)'
<1> DEFINE a == ask[t]
           l == snap[t]
           targets == Chans(a.sources) \cap Fence(l)
           content == [mirrors |-> [i \in DOMAIN a.dests |-> Mirror(a.dests[i], l)],
                       outOff |-> Fence(l) \ Chans(a.sources),
                       inOff |-> Fence(l), max |-> [c \in Chan |-> NoCap]]
           limits == [c \in targets |-> SourceBound(a, c, l)]
<1>1. /\ pc[t] = "build" /\ layer[t] \in DOMAIN layers
      /\ layers' = [layers EXCEPT ![layer[t]] = content]
      /\ bounds' = [bounds EXCEPT ![t] = limits]
      /\ pc' = [pc EXCEPT ![t] = "ladder"]
      /\ UNCHANGED <<ask, snap, layer>>
  BY DEF BuildLayer
<1>2. /\ layers'[layer'[t]] = content /\ bounds'[t] = limits /\ pc'[t] = "ladder"
      /\ ask'[t] = a /\ snap'[t] = l
  <2> HIDE DEF content, limits
  <2> QED  BY <1>1 DEF TypeOK
<1>3. l \in [Chan -> ChanRecord]
  BY GivenType DEF TypeOK
<1>4. targets = Chans(a.sources) /\ targets \subseteq Chan
  <2>1. Plannable(a, l)
    BY <1>1 DEF PlanInv, InLayer
  <2> QED  BY <2>1 DEF Plannable, Usable, Fence, Ours
<1>5. \A c \in targets : /\ limits[c].bound = Least(CapOf(a, c), l[c].spend)
                         /\ limits[c].solverMax = l[c].spend
                         /\ l[c].spend \in Nat /\ content.max[c] = NoCap
  BY <1>3, <1>4, LedgerType DEF SourceBound
<1>6. DOMAIN limits = targets
  OBVIOUS
<1>7. /\ content.mirrors = [i \in DOMAIN a.dests |-> Mirror(a.dests[i], l)]
      /\ content.outOff = Fence(l) \ Chans(a.sources) /\ content.inOff = Fence(l)
  OBVIOUS
<1> HIDE DEF content, limits, targets, a, l
<1>8. \A c \in targets : ~(limits[c].solverMax < l[c].spend)
  BY <1>5
<1> QED  BY <1>2, <1>4, <1>5, <1>6, <1>7, <1>8 DEF Written, Fence

\* A rung lowers what the solver sees of a source, and notes it (plan.rs:849-866).
LEMMA WrittenByDescend ==
    ASSUME TypeOK, PlanInv, LayerInv, NEW t \in Task, Descend(t)
    PROVE  Written(t)'
<1> DEFINE a == ask[t]
           l == snap[t]
           step == NextStep(t)
           msat == RungAmount(t, step)
           lower == [c \in DOMAIN bounds[t] |-> Lowered(bounds[t][c], msat)]
           written == {c \in DOMAIN lower : lower[c] < bounds[t][c].solverMax}
           limits == [c \in DOMAIN lower |->
                          [bounds[t][c] EXCEPT !.solverMax = lower[c]]]
           old == layers[layer[t]]
           caps == [c \in Chan |-> IF c \in written THEN lower[c] ELSE old.max[c]]
<1>1. /\ pc[t] = "ladder" /\ layer[t] \in DOMAIN layers /\ step <= Len(Ladder)
      /\ bounds' = [bounds EXCEPT ![t] = limits]
      /\ layers' = [layers EXCEPT ![layer[t]].max = caps]
      /\ pc' = [pc EXCEPT ![t] = "solve"]
      /\ UNCHANGED <<ask, snap, layer>>
  BY DEF Descend
<1>2. /\ bounds'[t] = limits /\ pc'[t] = "solve"
      /\ ask'[t] = a /\ snap'[t] = l
      /\ layers'[layer'[t]].mirrors = old.mirrors
      /\ layers'[layer'[t]].outOff = old.outOff
      /\ layers'[layer'[t]].inOff = old.inOff
      /\ layers'[layer'[t]].max = caps
  <2> HIDE DEF caps, limits
  <2>1. layers' = [layers EXCEPT ![layer[t]] = [old EXCEPT !.max = caps]]
    BY <1>1
  <2>2. layers'[layer'[t]] = [old EXCEPT !.max = caps]
    BY <1>1, <2>1
  <2>3. old \in Content
    BY <1>1 DEF TypeOK
  <2> HIDE DEF old
  <2> QED  BY <1>1, <2>2, <2>3 DEF TypeOK, Content
<1>3. Written(t) /\ DOMAIN bounds[t] = Chans(a.sources)
  BY <1>1 DEF LayerInv, Written
<1>4. l \in [Chan -> ChanRecord] /\ Chans(a.sources) \subseteq Chan
  BY <1>3, GivenType DEF TypeOK
<1>5. msat \in Nat
  <2>1. amount[t] \in Nat /\ rung[t].step \in 0..5 /\ Len(Ladder) = 5
    BY DEF TypeOK, RungRecord, Ladder
  <2>2. step \in 1..Len(Ladder)
    BY <1>1, <2>1 DEF NextStep
  <2> HIDE DEF step
  <2> QED  BY <2>1, <2>2, RungAmountType
<1> HIDE DEF msat
<1>6. ASSUME NEW c \in Chans(a.sources)
      PROVE  /\ limits[c].bound = Least(CapOf(a, c), l[c].spend)
             /\ limits[c].solverMax <= l[c].spend
             /\ caps[c] = IF limits[c].solverMax < l[c].spend THEN limits[c].solverMax
                          ELSE NoCap
             /\ limits[c].solverMax <= limits[c].bound
  <2> DEFINE b == bounds[t][c]
             low == lower[c]
  <2>1. b \in BoundRecord /\ c \in DOMAIN bounds[t] /\ c \in Chan
    BY <1>3, <1>4 DEF TypeOK
  <2>2. low = Lowered(b, msat)
    BY <2>1
  <2>3. /\ low \in Nat /\ low <= b.bound /\ low <= b.solverMax
        /\ b.bound \in Nat /\ b.solverMax \in Nat
    <3> HIDE DEF b, low
    <3> QED  BY <1>5, <2>1, <2>2, LoweredType DEF BoundRecord
  <2>4. limits[c] = [b EXCEPT !.solverMax = low]
    <3> HIDE DEF lower
    <3>1. DOMAIN lower = DOMAIN bounds[t]
      BY DEF lower
    <3> QED  BY <2>1, <3>1
  <2>5. limits[c].bound = b.bound /\ limits[c].solverMax = low
    <3> HIDE DEF limits, b, low
    <3> QED  BY <2>1, <2>4 DEF BoundRecord
  <2>6. c \in written <=> low < b.solverMax
    BY <2>1
  <2>7. caps[c] = IF low < b.solverMax THEN low ELSE old.max[c]
    <3> HIDE DEF written, low, lower, old
    <3>1. caps[c] = IF c \in written THEN lower[c] ELSE old.max[c]
      BY <2>1
    <3> QED  BY <2>6, <3>1 DEF low
  <2>8. /\ b.bound = Least(CapOf(a, c), l[c].spend)
        /\ b.solverMax <= l[c].spend
        /\ old.max[c] = IF b.solverMax < l[c].spend THEN b.solverMax ELSE NoCap
    BY <1>3 DEF Written
  <2>9. l[c].spend \in Nat
    BY <1>4, <2>1, LedgerType
  <2> HIDE DEF b, low, limits, caps, old, a, l
  <2> QED  BY <2>3, <2>5, <2>7, <2>8, <2>9
<1>7. DOMAIN limits = Chans(a.sources)
  BY <1>3
<1>8. /\ old.mirrors = [i \in DOMAIN a.dests |-> Mirror(a.dests[i], l)]
      /\ old.outOff = Ours(l) \ Chans(a.sources) /\ old.inOff = Ours(l)
  BY <1>3 DEF Written
<1> HIDE DEF limits, caps, old, a, l
<1> QED  BY <1>2, <1>6, <1>7, <1>8 DEF Written

\* What is written in a layer stays while its plan climbs down the ladder.
LEMMA LayerStep ==
    ASSUME TypeOK, LayersAccounted, PlanInv, LayerInv, [Next]_vars
    PROVE  LayerInv'
<1>0. \A u \in Task : pc[u] \in {"ladder", "solve"} =>
        /\ layer[u] \in DOMAIN layers
        /\ \A t \in Task \ {u} : pc[t] \in InLayer => layer[u] # layer[t]
  BY DEF LayersAccounted, Holds, InLayer
<1>1. ASSUME NEW t \in Task, Call(t) PROVE LayerInv'
  <2>1. ASSUME NEW u \in Task, pc'[u] \in {"ladder", "solve"} PROVE Written(u)'
    <3>1. /\ pc[u] \in {"ladder", "solve"} /\ (pc'[u] = "solve" => pc[u] = "solve")
          /\ UNCHANGED <<ask[u], snap[u], bounds[u], layers[layer[u]]>>
      BY <1>1, <2>1 DEF TypeOK, Call, world
    <3> QED  BY <2>1, <3>1, WrittenStands
  <2> QED  BY <2>1 DEF LayerInv
<1>2. ASSUME NEW t \in Task, Snapshot(t) PROVE LayerInv'
  <2>1. ASSUME NEW u \in Task, pc'[u] \in {"ladder", "solve"} PROVE Written(u)'
    <3>1. /\ pc[u] \in {"ladder", "solve"} /\ (pc'[u] = "solve" => pc[u] = "solve")
          /\ UNCHANGED <<ask[u], snap[u], bounds[u], layers[layer[u]]>>
      BY <1>2, <2>1 DEF TypeOK, Snapshot, Stop, world
    <3> QED  BY <2>1, <3>1, WrittenStands
  <2> QED  BY <2>1 DEF LayerInv
<1>3. ASSUME NEW t \in Task, FailEarly(t) PROVE LayerInv'
  <2>1. ASSUME NEW u \in Task, pc'[u] \in {"ladder", "solve"} PROVE Written(u)'
    <3>1. /\ pc[u] \in {"ladder", "solve"} /\ (pc'[u] = "solve" => pc[u] = "solve")
          /\ UNCHANGED <<ask[u], snap[u], bounds[u], layers[layer[u]]>>
      BY <1>3, <2>1 DEF TypeOK, FailEarly, Stop, world
    <3> QED  BY <2>1, <3>1, WrittenStands
  <2> QED  BY <2>1 DEF LayerInv
<1>4. ASSUME NEW t \in Task, CreateLayer(t) PROVE LayerInv'
  <2>1. ASSUME NEW u \in Task, pc'[u] \in {"ladder", "solve"} PROVE Written(u)'
    <3>1. pc[u] \in {"ladder", "solve"} /\ pc'[u] = pc[u] /\ u # t
      BY <1>4, <2>1 DEF TypeOK, CreateLayer, Stop
    <3>2. layers'[layer[u]] = layers[layer[u]]
      BY <1>0, <1>4, <3>1 DEF CreateLayer
    <3>3. UNCHANGED <<ask, snap, bounds, layer[u]>>
      BY <1>4, <3>1 DEF TypeOK, CreateLayer
    <3> QED  BY <2>1, <3>1, <3>2, <3>3, WrittenStands
  <2> QED  BY <2>1 DEF LayerInv
<1>5. ASSUME NEW t \in Task, BuildLayer(t) PROVE LayerInv'
  <2>1. ASSUME NEW u \in Task, u # t, pc'[u] \in {"ladder", "solve"}
        PROVE  Written(u)'
    <3>1. pc[u] \in {"ladder", "solve"} /\ pc'[u] = pc[u]
      BY <1>5, <2>1 DEF TypeOK, BuildLayer
    <3>2. layers'[layer[u]] = layers[layer[u]]
      <4>1. layer[u] # layer[t] /\ layer[u] \in DOMAIN layers
        BY <1>0, <1>5, <2>1, <3>1 DEF BuildLayer, InLayer
      <4> QED  BY <1>5, <4>1 DEF BuildLayer
    <3>3. UNCHANGED <<ask, snap, layer, bounds[u]>>
      BY <1>5, <2>1 DEF TypeOK, BuildLayer
    <3> QED  BY <2>1, <3>1, <3>2, <3>3, WrittenStands
  <2> QED  BY <1>5, <2>1, WrittenByBuild DEF LayerInv
<1>6. ASSUME NEW t \in Task, FailInLayer(t) PROVE LayerInv'
  <2>1. ASSUME NEW u \in Task, pc'[u] \in {"ladder", "solve"} PROVE Written(u)'
    <3>1. /\ pc[u] \in {"ladder", "solve"} /\ (pc'[u] = "solve" => pc[u] = "solve")
          /\ UNCHANGED <<ask[u], snap[u], bounds[u], layers[layer[u]]>>
      BY <1>6, <2>1 DEF TypeOK, FailInLayer, LeaveLayer, world
    <3> QED  BY <2>1, <3>1, WrittenStands
  <2> QED  BY <2>1 DEF LayerInv
<1>7. ASSUME NEW t \in Task, Descend(t) PROVE LayerInv'
  <2>1. ASSUME NEW u \in Task, u # t, pc'[u] \in {"ladder", "solve"}
        PROVE  Written(u)'
    <3>1. pc[u] \in {"ladder", "solve"} /\ pc'[u] = pc[u]
      BY <1>7, <2>1 DEF TypeOK, Descend
    <3>2. layers'[layer[u]] = layers[layer[u]]
      <4>1. layer[u] # layer[t] /\ layer[u] \in DOMAIN layers
        BY <1>0, <1>7, <2>1, <3>1 DEF Descend, InLayer
      <4> QED  BY <1>7, <4>1 DEF Descend
    <3>3. UNCHANGED <<ask, snap, layer, bounds[u]>>
      BY <1>7, <2>1 DEF TypeOK, Descend
    <3> QED  BY <2>1, <3>1, <3>2, <3>3, WrittenStands
  <2> QED  BY <1>7, <2>1, WrittenByDescend DEF LayerInv
<1>8. ASSUME NEW t \in Task, EndLadder(t) PROVE LayerInv'
  <2>1. ASSUME NEW u \in Task, pc'[u] \in {"ladder", "solve"} PROVE Written(u)'
    <3>1. /\ pc[u] \in {"ladder", "solve"} /\ (pc'[u] = "solve" => pc[u] = "solve")
          /\ UNCHANGED <<ask[u], snap[u], bounds[u], layers[layer[u]]>>
      BY <1>8, <2>1 DEF TypeOK, EndLadder, LeaveLayer, world
    <3> QED  BY <2>1, <3>1, WrittenStands
  <2> QED  BY <2>1 DEF LayerInv
<1>9. ASSUME NEW t \in Task, Solve(t) PROVE LayerInv'
  <2>1. ASSUME NEW u \in Task, pc'[u] \in {"ladder", "solve"} PROVE Written(u)'
    <3>1. /\ pc[u] \in {"ladder", "solve"} /\ (pc'[u] = "solve" => pc[u] = "solve")
          /\ UNCHANGED <<ask[u], snap[u], bounds[u], layers[layer[u]]>>
      BY <1>9, <2>1 DEF TypeOK, Solve, LeaveLayer, world
    <3> QED  BY <2>1, <3>1, WrittenStands
  <2> QED  BY <2>1 DEF LayerInv
<1>10. ASSUME NEW t \in Task, PartStep(t) PROVE LayerInv'
  <2>1. ASSUME NEW u \in Task, pc'[u] \in {"ladder", "solve"} PROVE Written(u)'
    <3>1. /\ pc[u] \in {"ladder", "solve"} /\ (pc'[u] = "solve" => pc[u] = "solve")
          /\ UNCHANGED <<ask[u], snap[u], bounds[u], layers[layer[u]]>>
      BY <1>10, <2>1 DEF TypeOK, PartStep, Part, world
    <3> QED  BY <2>1, <3>1, WrittenStands
  <2> QED  BY <2>1 DEF LayerInv
<1>11. ASSUME NEW t \in Task, Finish(t) PROVE LayerInv'
  <2>1. ASSUME NEW u \in Task, pc'[u] \in {"ladder", "solve"} PROVE Written(u)'
    <3>1. /\ pc[u] \in {"ladder", "solve"} /\ (pc'[u] = "solve" => pc[u] = "solve")
          /\ UNCHANGED <<ask[u], snap[u], bounds[u], layers[layer[u]]>>
      BY <1>11, <2>1 DEF TypeOK, Finish, LeaveLayer, world
    <3> QED  BY <2>1, <3>1, WrittenStands
  <2> QED  BY <2>1 DEF LayerInv
<1>12. ASSUME NEW t \in Task, RemoveLayer(t) PROVE LayerInv'
  <2>1. ASSUME NEW u \in Task, pc'[u] \in {"ladder", "solve"} PROVE Written(u)'
    <3>1. pc[u] \in {"ladder", "solve"} /\ pc'[u] = pc[u] /\ u # t
      BY <1>12, <2>1 DEF TypeOK, RemoveLayer
    <3>2. layers'[layer[u]] = layers[layer[u]]
      <4>1. layer[u] # layer[t] /\ layer[u] \in DOMAIN layers
        BY <1>0, <1>12, <3>1 DEF RemoveLayer, InLayer
      <4> QED  BY <1>12, <4>1 DEF RemoveLayer
    <3>3. UNCHANGED <<ask, snap, bounds, layer>>
      BY <1>12 DEF RemoveLayer
    <3> QED  BY <2>1, <3>1, <3>2, <3>3, WrittenStands
  <2> QED  BY <2>1 DEF LayerInv
<1>13. ASSUME Traffic PROVE LayerInv'
  BY <1>13 DEF LayerInv, Written, Traffic
<1>14. ASSUME Restart PROVE LayerInv'
  BY <1>14 DEF TypeOK, LayerInv, Restart
<1>15. ASSUME UNCHANGED vars PROVE LayerInv'
  BY <1>15 DEF LayerInv, Written, vars, world
<1> QED
  BY <1>1, <1>2, <1>3, <1>4, <1>5, <1>6, <1>7, <1>8, <1>9, <1>10, <1>11,
     <1>12, <1>13, <1>14, <1>15 DEF Next, Running

-----------------------------------------------------------------------------
(* What a solution has, and what is kept of it.                             *)

\* The solver sees the caps, the fence and the mirrors (plan.rs:664-802).
LEMMA SeenWithin ==
    ASSUME TypeOK, PlanInv, LayerInv, NEW t \in Task, pc[t] = "solve",
           layer[t] \in DOMAIN layers
    PROVE  LET a == ask[t]
               d == Seen(t)
           IN
           /\ d.left = rung[t].amount
           /\ DOMAIN d.dst = DOMAIN a.dests
           /\ \A i \in DOMAIN a.dests : d.dst[i] <= a.dests[i].max
           /\ \A i \in DOMAIN a.sources :
                LET s == a.sources[i] IN
                ~Given.live \/ s.max < snap[t][s.chan].spend
                    => d.src[s.chan] <= s.max
           /\ \A c \in Ours(snap[t]) :
                /\ c \notin Chans(a.sources) => d.src[c] = 0
                /\ c \notin d.enter
<1> DEFINE a == ask[t]
           l == snap[t]
           content == layers[layer[t]]
           d == Seen(t)
<1>1. /\ IsAsk(a) /\ Valid(a) /\ Plannable(a, l)
      /\ l \in [Chan -> ChanRecord] /\ ledger \in [Chan -> ChanRecord]
      /\ ~Given.live => l = ledger
  BY GivenType DEF TypeOK, PlanInv, InLayer
<1>2. Written(t) /\ content \in Content
  BY DEF LayerInv, TypeOK
<1>3. /\ d.left = rung[t].amount /\ d.dst = content.mirrors
      /\ d.enter = Ours(ledger) \ content.inOff
      /\ d.src = [c \in Chan |-> IF c \in Ours(ledger) \ content.outOff
                THEN Least(ledger[c].spend, content.max[c]) ELSE 0]
  BY DEF Seen
<1>4. /\ content.mirrors = [i \in DOMAIN a.dests |-> Mirror(a.dests[i], l)]
      /\ content.outOff = Ours(l) \ Chans(a.sources)
      /\ content.inOff = Ours(l)
  BY <1>2 DEF Written
<1>5. DOMAIN d.dst = DOMAIN a.dests
  BY <1>3, <1>4
<1>6. ASSUME NEW i \in DOMAIN a.dests PROVE d.dst[i] <= a.dests[i].max
  <2>1. a.dests[i].chan \in Chan /\ a.dests[i].max \in Nat
    BY <1>1, SpecsType DEF IsAsk
  <2>2. l[a.dests[i].chan].recv \in Nat
    BY <1>1, <2>1, LedgerType
  <2>3. d.dst[i] = Least(l[a.dests[i].chan].recv, a.dests[i].max)
    BY <1>3, <1>4 DEF Mirror, Capped
  <2> QED  BY <2>1, <2>2, <2>3 DEF Least
<1>7. ASSUME NEW i \in DOMAIN a.sources,
             ~Given.live \/ a.sources[i].max < l[a.sources[i].chan].spend
      PROVE  d.src[a.sources[i].chan] <= a.sources[i].max
  <2> DEFINE s == a.sources[i]
             c == s.chan
             b == bounds[t][c]
  <2>1. /\ c \in Chan /\ c \in Chans(a.sources) /\ s.max \in Nat
        /\ CapOf(a, c) = s.max
    BY <1>1, SpecsType, CapIsTheSpecs DEF IsAsk, Valid
  <2>2. /\ ledger[c].spend \in Nat /\ l[c].spend \in Nat /\ content.max[c] \in Nat
    BY <1>1, <1>2, <2>1, LedgerType DEF Content
  <2>3. d.src[c] <= ledger[c].spend /\ d.src[c] <= content.max[c]
    <3> HIDE DEF content, c, d
    <3> QED  BY <1>3, <2>1, <2>2 DEF Least
  <2>4. CASE l[c].spend <= s.max
    <3>1. ledger = l
      BY <1>1, <1>7, <2>1, <2>2, <2>4
    <3>2. d.src[c] \in Nat
      <4> HIDE DEF content, c, d
      <4> QED  BY <1>3, <2>1, <2>2 DEF Least
    <3> QED  BY <2>1, <2>2, <2>3, <2>4, <3>1, <3>2
  <2>5. CASE s.max < l[c].spend
    <3>1. /\ b.bound = Least(s.max, l[c].spend) /\ b.solverMax <= b.bound
          /\ content.max[c] = IF b.solverMax < l[c].spend THEN b.solverMax
                              ELSE NoCap
      BY <1>2, <2>1 DEF Written
    <3>2. b.bound \in Nat /\ b.solverMax \in Nat
      <4>1. b \in BoundRecord
        BY <1>2, <2>1 DEF TypeOK, Written
      <4> QED  BY <4>1 DEF BoundRecord
    <3>3. content.max[c] <= s.max
      <4> HIDE DEF content, s, c, b
      <4> QED  BY <2>1, <2>2, <2>5, <3>1, <3>2 DEF Least
    <3>4. d.src[c] \in Nat
      <4> HIDE DEF content, c, d
      <4> QED  BY <1>3, <2>1, <2>2 DEF Least
    <3> QED  BY <2>1, <2>2, <2>3, <3>3, <3>4
  <2> QED  BY <2>1, <2>2, <2>4, <2>5
<1>8. ASSUME NEW c \in Ours(l)
      PROVE  (c \notin Chans(a.sources) => d.src[c] = 0) /\ c \notin d.enter
  <2>1. c \in Chan
    BY DEF Ours
  <2> QED  BY <1>3, <1>4, <2>1
<1> HIDE DEF a, l, d
<1> QED  BY <1>3, <1>5, <1>6, <1>7, <1>8 DEF a, l, d

\* What the solution has left after a part: what the part takes is gone.
LEMMA Taken ==
    ASSUME TypeOK, NEW t \in Task, NEW x \in Nat, NEW sent \in Nat,
           NEW c \in Chan, NEW i \in DOMAIN draw[t].dst, Part(t, x, sent, c, i)
    PROVE  LET d == draw[t]
               e == draw'[t]
           IN
           /\ x <= d.left /\ e.left = d.left - x
           /\ x <= d.dst[i] /\ e.dst[i] = d.dst[i] - x
           /\ DOMAIN e.dst = DOMAIN d.dst
           /\ \A j \in DOMAIN d.dst \ {i} : e.dst[j] = d.dst[j]
           /\ sent <= d.src[c] /\ e.src[c] = d.src[c] - sent
           /\ \A o \in Chan \ {c} : e.src[o] = d.src[o]
           /\ e.enter = d.enter
<1> DEFINE d == draw[t]
           e == draw'[t]
<1>1. d \in DrawRecord
  BY DEF TypeOK
<1>2. e = Take(d, x, sent, c, i) /\ x <= d.left /\ x <= d.dst[i] /\ sent <= d.src[c]
  BY DEF Part, TypeOK
<1> HIDE DEF d, e
<1>3. /\ e.left = d.left - x /\ e.enter = d.enter
      /\ e.src = [d.src EXCEPT ![c] = @ - sent]
      /\ e.dst = [d.dst EXCEPT ![i] = @ - x]
  BY <1>1, <1>2 DEF Take, DrawRecord
<1>4. d.src \in [Chan -> Nat] /\ i \in DOMAIN d.dst
  BY <1>1 DEF DrawRecord, d
<1> QED  BY <1>2, <1>3, <1>4 DEF d, e

\* What the prunes make of what is kept, k, when they look at a part that leaves by
\* c and comes in by m: it stays, or notes that c has no slot left, or has the part.
Look(t, k, n, x, sent, c, m) ==
    \/ n = k
    \/ /\ ~HasSlot(t, c) /\ n.noSlot = k.noSlot \cup {c}
       /\ n.delivered = k.delivered /\ n.sent = k.sent /\ n.out = k.out
       /\ n.in = k.in /\ n.parts = k.parts /\ n.entered = k.entered
    \/ /\ HasSlot(t, c) /\ n.noSlot = k.noSlot
       /\ WithinRate(t, sent - x, x)
       /\ n.delivered = k.delivered + x /\ n.sent = k.sent + sent
       /\ \A o \in Chan :
             /\ n.out[o] = IF o = c THEN k.out[o] + sent ELSE k.out[o]
             /\ n.in[o] = IF o = m THEN k.in[o] + x ELSE k.in[o]
             /\ n.parts[o] = IF o = c THEN k.parts[o] + 1 ELSE k.parts[o]
       /\ \A o \in n.entered : o \in k.entered \/ o \in draw[t].enter

\* That is what a part of the solution does (plan.rs:1013-1119).
LEMMA Looked ==
    ASSUME TypeOK, NEW t \in Task, NEW x \in Nat, NEW sent \in Nat,
           NEW c \in Chan, NEW i \in DOMAIN draw[t].dst, Part(t, x, sent, c, i)
    PROVE  Look(t, kept[t], kept'[t], x, sent, c, ask[t].dests[i].chan)
<1> DEFINE k == kept[t]
           n == kept'[t]
           d == ask[t].dests[i].chan
<1>1. k \in PartsRecord
  BY DEF TypeOK
<1>2. PICK flaw \in Flaw, entry \in {{}} \cup {{e} : e \in draw[t].enter} :
        n = Pruned(t, x, sent, c, i, entry, flaw)
  BY DEF Part, TypeOK
<1>3. \/ n = k
      \/ ~HasSlot(t, c) /\ n = [k EXCEPT !.noSlot = @ \cup {c}]
      \/ /\ HasSlot(t, c) /\ WithinRate(t, sent - x, x)
         /\ n = [k EXCEPT !.delivered = @ + x, !.sent = @ + sent,
                    !.out[c] = @ + sent, !.in[d] = @ + x,
                    !.parts[c] = @ + 1, !.entered = @ \cup entry]
  BY <1>2 DEF Pruned
<1> HIDE DEF k, n, d
<1>4. CASE n = [k EXCEPT !.noSlot = @ \cup {c}] /\ ~HasSlot(t, c)
  BY <1>1, <1>4 DEF PartsRecord, Look, k, n
<1>5. CASE /\ HasSlot(t, c) /\ WithinRate(t, sent - x, x)
           /\ n = [k EXCEPT !.delivered = @ + x, !.sent = @ + sent,
                    !.out[c] = @ + sent, !.in[d] = @ + x,
                    !.parts[c] = @ + 1, !.entered = @ \cup entry]
  <2>1. /\ n.noSlot = k.noSlot
        /\ n.delivered = k.delivered + x /\ n.sent = k.sent + sent
        /\ n.out = [k.out EXCEPT ![c] = @ + sent]
        /\ n.in = [k.in EXCEPT ![d] = @ + x]
        /\ n.parts = [k.parts EXCEPT ![c] = @ + 1]
        /\ n.entered = k.entered \cup entry
    BY <1>1, <1>5 DEF PartsRecord
  <2>2. \A o \in n.entered : o \in k.entered \/ o \in draw[t].enter
    BY <2>1
  <2>3. /\ k.out \in [Chan -> Nat] /\ k.in \in [Chan -> Nat]
        /\ k.parts \in [Chan -> Nat]
    BY <1>1 DEF PartsRecord
  <2>4. ASSUME NEW o \in Chan
        PROVE  /\ n.out[o] = IF o = c THEN k.out[o] + sent ELSE k.out[o]
               /\ n.in[o] = IF o = d THEN k.in[o] + x ELSE k.in[o]
               /\ n.parts[o] = IF o = c THEN k.parts[o] + 1 ELSE k.parts[o]
    BY <2>1, <2>3
  <2> QED  BY <1>5, <2>1, <2>2, <2>4 DEF Look, k, n, d
<1> QED  BY <1>3, <1>4, <1>5 DEF Look, k, n

\* The step of a part, with its amounts as they are.
LEMMA PartAmounts ==
    ASSUME TypeOK, NEW t \in Task, PartStep(t)
    PROVE  \E x \in Nat, sent \in Nat, c \in Chan, i \in DOMAIN draw[t].dst :
                x > 0 /\ x <= sent /\ Part(t, x, sent, c, i)
<1>1. PICK x \in 1..draw[t].left, fee \in 0..Given.partFee, c \in Chan,
           i \in DOMAIN draw[t].dst : Part(t, x, x + fee, c, i)
  BY DEF PartStep
<1>2. Given.partFee \in Nat /\ draw[t].left \in Nat
  BY GivenType DEF TypeOK, DrawRecord
<1>3. x \in Nat /\ x > 0 /\ x + fee \in Nat /\ x <= x + fee
  BY <1>2
<1> QED  BY <1>1, <1>3

\* A part keeps within what the solution has.
LEMMA DrawByPart ==
    ASSUME TypeOK, PlanInv, DrawInv, NEW t \in Task, PartStep(t)
    PROVE  DrawInv'
<1> DEFINE a == ask[t]
           d == draw[t]
           e == draw'[t]
           k == kept[t]
           n == kept'[t]
<1>1. PICK x \in Nat, sent \in Nat, c \in Chan, i \in DOMAIN d.dst :
        x > 0 /\ x <= sent /\ Part(t, x, sent, c, i)
  BY PartAmounts
<1>2. /\ pc[t] = "parts" /\ UNCHANGED <<world, ask, pc, snap, rung>>
      /\ \A u \in Task \ {t} : draw'[u] = draw[u] /\ kept'[u] = kept[u]
  BY <1>1 DEF Part, TypeOK
<1>3. /\ Within(t) /\ IsAsk(a) /\ Valid(a)
  BY <1>2, GivenType DEF TypeOK, PlanInv, DrawInv
<1>4. k \in PartsRecord /\ d \in DrawRecord /\ n \in PartsRecord /\ e \in DrawRecord
  <2>1. k \in PartsRecord /\ d \in DrawRecord
    BY DEF TypeOK
  <2>2. TypeOK'
    BY TypeStep DEF Next, Running
  <2> QED  BY <2>1, <2>2 DEF TypeOK
<1>5. /\ x <= d.left /\ e.left = d.left - x
      /\ x <= d.dst[i] /\ e.dst[i] = d.dst[i] - x
      /\ DOMAIN e.dst = DOMAIN d.dst
      /\ \A j \in DOMAIN d.dst \ {i} : e.dst[j] = d.dst[j]
      /\ sent <= d.src[c] /\ e.src[c] = d.src[c] - sent
      /\ \A o \in Chan \ {c} : e.src[o] = d.src[o]
      /\ e.enter = d.enter
  BY <1>1, Taken
<1>6. \/ n.delivered = k.delivered /\ n.out = k.out /\ n.in = k.in
      \/ /\ n.delivered = k.delivered + x
         /\ \A o \in Chan :
                /\ n.out[o] = IF o = c THEN k.out[o] + sent ELSE k.out[o]
                /\ n.in[o] = IF o = a.dests[i].chan THEN k.in[o] + x ELSE k.in[o]
  <2>1. Look(t, k, n, x, sent, c, ask[t].dests[i].chan)
    BY <1>1, Looked
  <2> HIDE DEF k, n
  <2> QED  BY <2>1 DEF Look
<1> HIDE DEF a, d, e, k, n
<1>7. n.delivered + e.left <= rung[t].amount
  <2>1. k.delivered + d.left <= rung[t].amount
    BY <1>3 DEF Within, k, d
  <2>2. rung[t].amount \in Nat
    BY DEF TypeOK, RungRecord
  <2>3. k.delivered \in Nat /\ d.left \in Nat
    BY <1>4 DEF PartsRecord, DrawRecord
  <2> QED  BY <1>5, <1>6, <2>1, <2>2, <2>3
<1>8. DOMAIN e.dst = DOMAIN a.dests
  BY <1>3, <1>5 DEF Within, a, d
<1>9. ASSUME NEW j \in DOMAIN a.dests
      PROVE  n.in[a.dests[j].chan] + e.dst[j] <= a.dests[j].max
  <2>1. /\ a.dests[j].chan \in Chan /\ a.dests[j].max \in Nat
        /\ a.dests[i].chan \in Chan
        /\ j # i => a.dests[j].chan # a.dests[i].chan
    BY <1>3, <1>5, <1>8, SpecsType, SpecsApart DEF IsAsk, Valid
  <2>2. k.in[a.dests[j].chan] + d.dst[j] <= a.dests[j].max
    BY <1>3 DEF Within, k, d, a
  <2>3. k.in \in [Chan -> Nat] /\ d.dst \in Seq(Nat) /\ j \in DOMAIN d.dst
    BY <1>4, <1>5, <1>8 DEF PartsRecord, DrawRecord
  <2>4. k.in[a.dests[j].chan] \in Nat /\ d.dst[j] \in Nat
    BY <2>1, <2>3
  <2>5. \/ n.in[a.dests[j].chan] = k.in[a.dests[j].chan]
        \/ j = i /\ n.in[a.dests[j].chan] = k.in[a.dests[j].chan] + x
    BY <1>6, <2>1, <2>3
  <2>6. e.dst[j] = IF j = i THEN d.dst[j] - x ELSE d.dst[j]
    BY <1>5, <2>3
  <2> QED  BY <1>5, <2>1, <2>2, <2>4, <2>5, <2>6
<1>10. ASSUME NEW j \in DOMAIN a.sources,
              ~Given.live \/ a.sources[j].max < snap[t][a.sources[j].chan].spend
       PROVE  n.out[a.sources[j].chan] + e.src[a.sources[j].chan] <= a.sources[j].max
  <2> DEFINE o == a.sources[j].chan
             most == a.sources[j].max
  <2>1. o \in Chan /\ most \in Nat
    BY <1>3, SpecsType DEF IsAsk
  <2>2. k.out[o] + d.src[o] <= most
    BY <1>3, <1>10 DEF Within, k, d, a
  <2> HIDE DEF o, most
  <2>3. k.out \in [Chan -> Nat] /\ d.src \in [Chan -> Nat]
    BY <1>4 DEF PartsRecord, DrawRecord
  <2>4. k.out[o] \in Nat /\ d.src[o] \in Nat
    BY <2>1, <2>3
  <2>5. n.out[o] = k.out[o] \/ (o = c /\ n.out[o] = k.out[o] + sent)
    BY <1>6, <2>1, <2>3
  <2>6. e.src[o] = IF o = c THEN d.src[o] - sent ELSE d.src[o]
    BY <1>5, <2>1
  <2>7. n.out[o] + e.src[o] <= most
    BY <1>5, <2>1, <2>2, <2>4, <2>5, <2>6
  <2> QED  BY <2>7 DEF o, most
<1>11. ASSUME NEW o \in Ours(snap[t])
       PROVE  (o \notin Chans(a.sources) => e.src[o] = 0) /\ o \notin e.enter
  <2>1. /\ o \notin Chans(a.sources) => d.src[o] = 0
        /\ o \notin d.enter /\ o \in Chan
    BY <1>3 DEF Within, Ours, a, d
  <2>2. d.src \in [Chan -> Nat]
    BY <1>4 DEF DrawRecord
  <2> QED  BY <1>1, <1>5, <2>1, <2>2
<1>12. Within(t)'
  <2>1. ask' = ask /\ snap' = snap /\ rung' = rung /\ Given' = Given
    BY <1>2 DEF world, Given
  <2> QED  BY <1>7, <1>8, <1>9, <1>10, <1>11, <2>1 DEF Within, a, e, n
<1>13. \A u \in Task \ {t} : pc'[u] = "parts" => Within(u)'
  BY <1>2 DEF DrawInv, Within, world, Given
<1> QED  BY <1>12, <1>13 DEF DrawInv

\* What is kept of a solution is within the rate when each part is
\* (plan.rs:131-139).
LEMMA RateByPart ==
    ASSUME TypeOK, PlanInv, DrawInv, RateInv, NEW t \in Task, PartStep(t)
    PROVE  RateInv'
<1> DEFINE k == kept[t]
           n == kept'[t]
           r == rung[t]
<1>1. PICK x \in Nat, sent \in Nat, c \in Chan, i \in DOMAIN draw[t].dst :
        x > 0 /\ x <= sent /\ Part(t, x, sent, c, i)
  BY PartAmounts
<1>2. /\ pc[t] = "parts" /\ UNCHANGED <<pc, rung, outcome>>
      /\ \A u \in Task \ {t} : kept'[u] = kept[u]
  BY <1>1 DEF Part, TypeOK
<1>3. TypeOK' /\ Within(t)'
  BY <1>2, TypeStep, DrawByPart DEF Next, Running, DrawInv
<1>4. /\ k.delivered \in Nat /\ k.sent \in Nat /\ r.amount \in Nat /\ r.maxfee \in Nat
      /\ n.delivered \in Nat /\ draw'[t].left \in Nat
  BY <1>3 DEF TypeOK, PartsRecord, RungRecord, DrawRecord
<1>5. /\ k.delivered <= k.sent
      /\ (k.sent - k.delivered) * r.amount <= r.maxfee * k.delivered
  BY DEF RateInv
<1>6. \/ n.delivered = k.delivered /\ n.sent = k.sent
      \/ /\ (sent - x) * r.amount <= r.maxfee * x
         /\ n.delivered = k.delivered + x /\ n.sent = k.sent + sent
  <2>1. Look(t, k, n, x, sent, c, ask[t].dests[i].chan)
    BY <1>1, Looked
  <2> HIDE DEF k, n
  <2> QED  BY <2>1 DEF Look, WithinRate, r
<1>7. n.delivered + draw'[t].left <= r.amount
  BY <1>2, <1>3 DEF Within
<1> HIDE DEF k, n, r
<1>8. /\ n.delivered <= n.sent
      /\ (n.sent - n.delivered) * r.amount <= r.maxfee * n.delivered
  <2>1. CASE n.delivered = k.delivered /\ n.sent = k.sent
    BY <1>5, <2>1
  <2>2. CASE /\ (sent - x) * r.amount <= r.maxfee * x
             /\ n.delivered = k.delivered + x /\ n.sent = k.sent + sent
    <3> DEFINE p == k.sent - k.delivered
               q == sent - x
               A == r.amount
               F == r.maxfee
               D == k.delivered
    <3>1. p \in Nat /\ q \in Nat /\ A \in Nat /\ F \in Nat /\ D \in Nat
      BY <1>1, <1>4, <1>5
    <3>2. p * A <= F * D /\ q * A <= F * x
      BY <1>5, <2>2
    <3>3. n.sent - n.delivered = p + q /\ n.delivered = D + x /\ n.delivered <= n.sent
      BY <1>1, <1>4, <1>5, <2>2
    <3> HIDE DEF p, q, A, F, D
    <3>4. (p + q) * A = p * A + q * A /\ F * (D + x) = F * D + F * x
      BY <3>1
    <3>5. p * A \in Nat /\ q * A \in Nat /\ F * D \in Nat /\ F * x \in Nat
      BY <3>1
    <3>6. (p + q) * A <= F * (D + x)
      BY <3>2, <3>4, <3>5
    <3> QED  BY <3>3, <3>6 DEF A, F
  <2> QED  BY <1>6, <2>1, <2>2
<1>9. n.delivered <= r.amount
  BY <1>4, <1>7
<1> QED  BY <1>2, <1>8, <1>9 DEF RateInv, k, n, r

\* What is kept is within the caps as it is together with what is left.
LEMMA CapsByPart ==
    ASSUME TypeOK, PlanInv, DrawInv, CapsKept, NEW t \in Task, PartStep(t)
    PROVE  CapsKept'
<1> DEFINE a == ask[t]
           e == draw'[t]
           n == kept'[t]
<1>1. /\ pc[t] = "parts" /\ UNCHANGED <<world, ask, pc, snap>>
      /\ \A u \in Task \ {t} : kept'[u] = kept[u]
  BY DEF PartStep, Part, TypeOK
<1>2. TypeOK' /\ Within(t)'
  BY <1>1, TypeStep, DrawByPart DEF Next, Running, DrawInv
<1>3. /\ e.dst \in Seq(Nat) /\ e.src \in [Chan -> Nat]
      /\ n.in \in [Chan -> Nat] /\ n.out \in [Chan -> Nat]
  BY <1>2 DEF TypeOK, DrawRecord, PartsRecord
<1>4. IsAsk(a)
  BY <1>1, GivenType DEF TypeOK, PlanInv
<1>5. /\ DOMAIN e.dst = DOMAIN a.dests
      /\ \A i \in DOMAIN a.dests : n.in[a.dests[i].chan] + e.dst[i] <= a.dests[i].max
      /\ \A i \in DOMAIN a.sources :
            ~Given.live \/ a.sources[i].max < snap[t][a.sources[i].chan].spend
                => n.out[a.sources[i].chan] + e.src[a.sources[i].chan]
                        <= a.sources[i].max
  BY <1>1, <1>2 DEF Within, world, Given
<1> HIDE DEF a, e, n
<1>6. ASSUME NEW i \in DOMAIN a.dests PROVE n.in[a.dests[i].chan] <= a.dests[i].max
  <2>1. a.dests[i].chan \in Chan /\ a.dests[i].max \in Nat
    BY <1>4, SpecsType DEF IsAsk
  <2>2. n.in[a.dests[i].chan] \in Nat /\ e.dst[i] \in Nat
    BY <1>3, <1>5, <2>1
  <2> QED  BY <1>5, <2>1, <2>2
<1>7. ASSUME NEW i \in DOMAIN a.sources,
             ~Given.live \/ a.sources[i].max < snap[t][a.sources[i].chan].spend
      PROVE  n.out[a.sources[i].chan] <= a.sources[i].max
  <2>1. a.sources[i].chan \in Chan /\ a.sources[i].max \in Nat
    BY <1>4, SpecsType DEF IsAsk
  <2>2. n.out[a.sources[i].chan] \in Nat /\ e.src[a.sources[i].chan] \in Nat
    BY <1>3, <2>1
  <2> QED  BY <1>5, <1>7, <2>1, <2>2
<1>8. ask' = ask /\ snap' = snap /\ Given' = Given
  BY <1>1 DEF world, Given
<1> QED  BY <1>1, <1>6, <1>7, <1>8 DEF CapsKept, a, n

\* A part leaves by a named source, and passes none of the channels that the plan
\* has seen.
LEMMA PinnedByPart ==
    ASSUME TypeOK, DrawInv, SourcesPinned, NEW t \in Task, PartStep(t)
    PROVE  SourcesPinned'
<1> DEFINE k == kept[t]
           n == kept'[t]
           d == draw[t]
<1>1. PICK x \in Nat, sent \in Nat, c \in Chan, i \in DOMAIN draw[t].dst :
        x > 0 /\ x <= sent /\ Part(t, x, sent, c, i)
  BY PartAmounts
<1>2. /\ pc[t] = "parts" /\ UNCHANGED <<ask, snap>>
      /\ \A u \in Task \ {t} : kept'[u] = kept[u]
  BY <1>1 DEF Part, TypeOK
<1>3. sent <= d.src[c] /\ d.src \in [Chan -> Nat]
  BY <1>1 DEF Part, TypeOK, DrawRecord
<1>4. \/ n.out = k.out /\ n.entered = k.entered
      \/ /\ \A o \in Chan : n.out[o] = IF o = c THEN k.out[o] + sent ELSE k.out[o]
         /\ \A o \in n.entered : o \in k.entered \/ o \in d.enter
  <2>1. Look(t, k, n, x, sent, c, ask[t].dests[i].chan)
    BY <1>1, Looked
  <2> HIDE DEF k, n
  <2> QED  BY <2>1 DEF Look
<1> HIDE DEF k, n, d
<1>5. ASSUME NEW o \in Ours(snap[t])
      PROVE  (n.out[o] > 0 => o \in Chans(ask[t].sources)) /\ o \notin n.entered
  <2>1. o \in Chan /\ d.src[o] \in Nat
    BY <1>3 DEF Ours
  <2>2. /\ o \notin Chans(ask[t].sources) => d.src[o] = 0
        /\ o \notin d.enter
    BY <1>2 DEF DrawInv, Within, d
  <2>3. /\ k.out[o] > 0 => o \in Chans(ask[t].sources)
        /\ o \notin k.entered
    BY DEF SourcesPinned, k
  <2>4. o = c => o \in Chans(ask[t].sources)
    BY <1>1, <1>3, <2>1, <2>2
  <2> QED  BY <1>4, <2>1, <2>2, <2>3, <2>4
<1> QED  BY <1>2, <1>5 DEF SourcesPinned, n

\* A part takes a slot that is free, or finds them all taken by parts that are
\* kept (plan.rs:1087-1093).
LEMMA SlotsByPart ==
    ASSUME TypeOK, SlotsWellUsed, NEW t \in Task, PartStep(t)
    PROVE  SlotsWellUsed'
<1> DEFINE k == kept[t]
           n == kept'[t]
           l == snap[t]
<1>1. PICK x \in Nat, sent \in Nat, c \in Chan, i \in DOMAIN draw[t].dst :
        x > 0 /\ x <= sent /\ Part(t, x, sent, c, i)
  BY PartAmounts
<1>2. /\ UNCHANGED snap /\ \A u \in Task \ {t} : kept'[u] = kept[u]
  BY <1>1 DEF Part, TypeOK
<1>3. /\ k.parts \in [Chan -> Nat] /\ k.out \in [Chan -> Nat]
      /\ l \in [Chan -> ChanRecord]
  BY GivenType DEF TypeOK, PartsRecord
<1>4. \/ n = k
      \/ /\ c \in Usable(l) => ~(k.parts[c] < l[c].slots)
         /\ n.noSlot = k.noSlot \cup {c} /\ n.out = k.out /\ n.parts = k.parts
      \/ /\ c \in Usable(l) => k.parts[c] < l[c].slots
         /\ n.noSlot = k.noSlot
         /\ \A o \in Chan :
               /\ n.out[o] = IF o = c THEN k.out[o] + sent ELSE k.out[o]
               /\ n.parts[o] = IF o = c THEN k.parts[o] + 1 ELSE k.parts[o]
  <2>1. Look(t, k, n, x, sent, c, ask[t].dests[i].chan)
    BY <1>1, Looked
  <2>2. HasSlot(t, c) <=> (c \in Usable(l) => k.parts[c] < l[c].slots)
    BY DEF HasSlot
  <2> HIDE DEF k, n, l
  <2> QED  BY <2>1, <2>2 DEF Look
<1> HIDE DEF k, n, l
<1>5. ASSUME NEW o \in Usable(l)
      PROVE  /\ n.parts[o] <= l[o].slots /\ n.parts[o] <= n.out[o]
             /\ o \in n.noSlot => n.parts[o] = l[o].slots
  <2>1. o \in Chan
    BY DEF Usable
  <2>2. l[o].slots \in Nat /\ k.parts[o] \in Nat /\ k.out[o] \in Nat
    BY <1>3, <2>1, LedgerType
  <2>3. /\ k.parts[o] <= l[o].slots /\ k.parts[o] <= k.out[o]
        /\ o \in k.noSlot => k.parts[o] = l[o].slots
    BY DEF SlotsWellUsed, k, l
  <2>4. CASE o = c
    BY <1>1, <1>4, <2>1, <2>2, <2>3, <2>4
  <2>5. CASE o # c
    BY <1>4, <2>1, <2>2, <2>3, <2>5
  <2> QED  BY <2>4, <2>5
<1> QED  BY <1>2, <1>5 DEF SlotsWellUsed, n, l

\* What the properties say of the parts that are kept, with what is left to draw.
KeptInv == DrawInv /\ RateInv /\ CapsKept /\ SourcesPinned /\ SlotsWellUsed

\* A step that changes neither what is kept nor what it is measured by.
LEMMA KeptStands ==
    ASSUME KeptInv, UNCHANGED <<case, kept, ask, snap, rung>>,
           \A u \in Task : outcome'[u] # "overBudget",
           \A u \in Task : pc'[u] = "parts" => pc[u] = "parts" /\ draw'[u] = draw[u]
    PROVE  KeptInv'
<1>1. Given' = Given
  BY DEF Given
<1>2. DrawInv'
  BY <1>1 DEF KeptInv, DrawInv, Within
<1>3. RateInv' /\ CapsKept' /\ SourcesPinned' /\ SlotsWellUsed'
  BY <1>1 DEF KeptInv, RateInv, CapsKept, SourcesPinned, SlotsWellUsed
<1> QED  BY <1>2, <1>3 DEF KeptInv

\* A plan that keeps nothing yet is within any measure.
LEMMA NothingKept ==
    ASSUME KeptInv, TypeOK', NEW t \in Task, kept'[t] = NoParts,
           pc'[t] # "parts", outcome'[t] # "overBudget",
           UNCHANGED <<case, kept, draw>>,
           \A u \in Task \ {t} : /\ pc'[u] = pc[u] /\ ask'[u] = ask[u]
                                 /\ snap'[u] = snap[u] /\ rung'[u] = rung[u]
                                 /\ outcome'[u] = outcome[u]
    PROVE  KeptInv'
<1>1. Given' = Given
  BY DEF Given
<1>2. IsAsk(ask'[t]) /\ snap'[t] \in [Chan -> ChanRecord]
  <2>1. case' \in DOMAIN Cases /\ Given' = Cases[case']
    BY DEF TypeOK, Given
  <2>2. /\ \A a \in Given'.asks : IsAsk(a)
        /\ \A l \in Given'.ledgers : l \in [Chan -> ChanRecord]
    BY <2>1, PlannerAssumption DEF IsCase
  <2>3. IsAsk(NoAsk)
    BY DEF IsAsk, NoAsk, IsSpecs
  <2> QED  BY <2>2, <2>3 DEF TypeOK
<1>3. /\ NoParts.delivered = 0 /\ NoParts.sent = 0 /\ NoParts.noSlot = {}
      /\ NoParts.entered = {}
      /\ \A c \in Chan : NoParts.out[c] = 0 /\ NoParts.in[c] = 0 /\ NoParts.parts[c] = 0
  BY DEF NoParts
<1>4. DrawInv'
  BY <1>1 DEF KeptInv, DrawInv, Within
<1>5. RateInv'
  <2>1. rung'[t].amount \in Nat /\ rung'[t].maxfee \in Nat
    BY DEF TypeOK, RungRecord
  <2>2. (0 - 0) * rung'[t].amount <= rung'[t].maxfee * 0
    BY <2>1
  <2>3. /\ kept'[t].delivered <= kept'[t].sent
        /\ kept'[t].delivered <= rung'[t].amount
        /\ (kept'[t].sent - kept'[t].delivered) * rung'[t].amount
                <= rung'[t].maxfee * kept'[t].delivered
    BY <1>3, <2>1, <2>2
  <2> QED  BY <2>3 DEF KeptInv, RateInv
<1>6. CapsKept'
  <2>1. \A j \in DOMAIN ask'[t].dests :
            kept'[t].in[ask'[t].dests[j].chan] <= ask'[t].dests[j].max
    BY <1>2, <1>3, SpecsType DEF IsAsk
  <2>2. \A j \in DOMAIN ask'[t].sources :
            kept'[t].out[ask'[t].sources[j].chan] <= ask'[t].sources[j].max
    BY <1>2, <1>3, SpecsType DEF IsAsk
  <2> QED  BY <1>1, <2>1, <2>2 DEF KeptInv, CapsKept
<1>7. SourcesPinned'
  <2>1. \A c \in Ours(snap'[t]) : ~(kept'[t].out[c] > 0) /\ c \notin kept'[t].entered
    BY <1>3 DEF Ours
  <2> QED  BY <2>1 DEF KeptInv, SourcesPinned
<1>8. SlotsWellUsed'
  <2>1. ASSUME NEW c \in Usable(snap'[t])
        PROVE  /\ kept'[t].parts[c] <= snap'[t][c].slots
               /\ kept'[t].parts[c] <= kept'[t].out[c]
               /\ c \notin kept'[t].noSlot
    <3>1. c \in Chan
      BY DEF Usable
    <3>2. snap'[t][c].slots \in Nat
      BY <1>2, <3>1, LedgerType
    <3> QED  BY <1>3, <3>1, <3>2
  <2> QED  BY <2>1 DEF KeptInv, SlotsWellUsed
<1> QED  BY <1>4, <1>5, <1>6, <1>7, <1>8 DEF KeptInv

\* A fee within the rate of an amount is within its budget.
LEMMA RateGivesBudget ==
    ASSUME NEW fee \in Nat, NEW msat \in Nat, NEW most \in Nat, NEW moved \in Nat,
           msat > 0, moved <= msat, fee * msat <= most * moved
    PROVE  fee <= most
<1>1. most * moved <= most * msat
  OBVIOUS
<1>2. most * moved \in Nat /\ most * msat \in Nat /\ fee * msat \in Nat
  OBVIOUS
<1>3. fee * msat <= most * msat
  BY <1>1, <1>2
<1> QED  BY <1>3

\* So the check of the total fee passes (plan.rs:1191-1197).
LEMMA FeeCheckPasses ==
    ASSUME TypeOK, RungInv, RateInv, NEW t \in Task, pc[t] = "parts"
    PROVE  ~(Less(kept[t].sent, kept[t].delivered) > rung[t].maxfee)
<1> DEFINE k == kept[t]
           r == rung[t]
<1>1. /\ k.delivered \in Nat /\ k.sent \in Nat /\ r.amount \in Nat /\ r.maxfee \in Nat
  BY DEF TypeOK, PartsRecord, RungRecord
<1>2. r.amount \in 1..ask[t].amount /\ ask[t].amount \in Nat
  <2>1. rung[t] # NoRung
    BY DEF RungInv
  <2>2. IsAsk(ask[t])
    BY <2>1, GivenType DEF TypeOK, RungInv
  <2> QED  BY <2>1, <2>2 DEF RungInv, IsAsk
<1>3. /\ k.delivered <= k.sent /\ k.delivered <= r.amount
      /\ (k.sent - k.delivered) * r.amount <= r.maxfee * k.delivered
  BY DEF RateInv
<1>4. Less(k.sent, k.delivered) = k.sent - k.delivered /\ k.sent - k.delivered \in Nat
  BY <1>1, <1>3 DEF Less
<1> DEFINE fee == k.sent - k.delivered
           msat == r.amount
           most == r.maxfee
           moved == k.delivered
<1>5. /\ fee \in Nat /\ msat \in Nat /\ most \in Nat /\ moved \in Nat
      /\ msat > 0 /\ moved <= msat /\ fee * msat <= most * moved
  BY <1>1, <1>2, <1>3, <1>4
<1>6. fee <= most
  <2> HIDE DEF fee, msat, most, moved
  <2> QED  BY <1>5, RateGivesBudget
<1> QED  BY <1>1, <1>4, <1>6

\* Every step keeps what the properties say of the parts.
LEMMA KeptStep ==
    ASSUME TypeOK, PlanInv, RungInv, LayerInv, KeptInv, [Next]_vars
    PROVE  KeptInv'
<1>0. TypeOK'
  BY TypeStep
<1>1. ASSUME NEW t \in Task, Call(t) PROVE KeptInv'
  <2>1. /\ kept' = kept /\ kept[t] = NoParts
        /\ UNCHANGED <<case, draw, snap, rung>>
    BY <1>1 DEF PlanInv, Call, world
  <2>2. pc'[t] # "parts" /\ outcome'[t] # "overBudget"
    BY <1>1 DEF TypeOK, KeptInv, RateInv, Call
  <2>3. \A u \in Task \ {t} : /\ pc'[u] = pc[u] /\ ask'[u] = ask[u]
                             /\ outcome'[u] = outcome[u]
    BY <1>1 DEF TypeOK, Call
  <2> QED  BY <1>0, <2>1, <2>2, <2>3, NothingKept
<1>2. ASSUME NEW t \in Task, Snapshot(t) PROVE KeptInv'
  <2>1. /\ kept' = kept /\ kept[t] = NoParts
        /\ UNCHANGED <<case, draw, ask, rung>>
    BY <1>2 DEF PlanInv, Snapshot, world
  <2>2. pc'[t] # "parts" /\ outcome'[t] # "overBudget"
    BY <1>2 DEF TypeOK, KeptInv, RateInv, Snapshot, Stop
  <2>3. \A u \in Task \ {t} : /\ pc'[u] = pc[u] /\ snap'[u] = snap[u]
                             /\ outcome'[u] = outcome[u]
    BY <1>2 DEF TypeOK, Snapshot, Stop
  <2> QED  BY <1>0, <2>1, <2>2, <2>3, NothingKept
<1>3. ASSUME NEW t \in Task, FailEarly(t) PROVE KeptInv'
  <2>1. \A u \in Task : outcome'[u] # "overBudget"
    BY <1>3 DEF TypeOK, KeptInv, RateInv, FailEarly, Stop, world
  <2>2. UNCHANGED <<case, kept, ask, snap, rung>>
    BY <1>3 DEF FailEarly, Stop, world
  <2>3. \A u \in Task : pc'[u] = "parts" => pc[u] = "parts" /\ draw'[u] = draw[u]
    BY <1>3 DEF TypeOK, FailEarly, Stop, world
  <2> QED  BY <2>1, <2>2, <2>3, KeptStands
<1>4. ASSUME NEW t \in Task, CreateLayer(t) PROVE KeptInv'
  <2>1. \A u \in Task : outcome'[u] # "overBudget"
    BY <1>4 DEF TypeOK, KeptInv, RateInv, CreateLayer, Stop
  <2>2. UNCHANGED <<case, kept, ask, snap, rung>>
    BY <1>4 DEF CreateLayer, Stop
  <2>3. \A u \in Task : pc'[u] = "parts" => pc[u] = "parts" /\ draw'[u] = draw[u]
    BY <1>4 DEF TypeOK, CreateLayer, Stop
  <2> QED  BY <2>1, <2>2, <2>3, KeptStands
<1>5. ASSUME NEW t \in Task, BuildLayer(t) PROVE KeptInv'
  <2>1. \A u \in Task : outcome'[u] # "overBudget"
    BY <1>5 DEF TypeOK, KeptInv, RateInv, BuildLayer
  <2>2. UNCHANGED <<case, kept, ask, snap, rung>>
    BY <1>5 DEF BuildLayer
  <2>3. \A u \in Task : pc'[u] = "parts" => pc[u] = "parts" /\ draw'[u] = draw[u]
    BY <1>5 DEF TypeOK, BuildLayer
  <2> QED  BY <2>1, <2>2, <2>3, KeptStands
<1>6. ASSUME NEW t \in Task, FailInLayer(t) PROVE KeptInv'
  <2>1. \A u \in Task : outcome'[u] # "overBudget"
    BY <1>6 DEF TypeOK, KeptInv, RateInv, FailInLayer, LeaveLayer, world
  <2>2. UNCHANGED <<case, kept, ask, snap, rung>>
    BY <1>6 DEF FailInLayer, LeaveLayer, world
  <2>3. \A u \in Task : pc'[u] = "parts" => pc[u] = "parts" /\ draw'[u] = draw[u]
    BY <1>6 DEF TypeOK, FailInLayer, LeaveLayer, world
  <2> QED  BY <2>1, <2>2, <2>3, KeptStands
<1>7. ASSUME NEW t \in Task, Descend(t) PROVE KeptInv'
  <2>1. /\ kept' = kept /\ kept[t] = NoParts
        /\ UNCHANGED <<case, draw, ask, snap, outcome>>
    BY <1>7 DEF PlanInv, Descend
  <2>2. pc'[t] # "parts" /\ outcome'[t] # "overBudget"
    BY <1>7 DEF TypeOK, KeptInv, RateInv, Descend
  <2>3. \A u \in Task \ {t} : pc'[u] = pc[u] /\ rung'[u] = rung[u]
    BY <1>7 DEF TypeOK, Descend
  <2> QED  BY <1>0, <2>1, <2>2, <2>3, NothingKept
<1>8. ASSUME NEW t \in Task, EndLadder(t) PROVE KeptInv'
  <2>1. \A u \in Task : outcome'[u] # "overBudget"
    BY <1>8 DEF TypeOK, KeptInv, RateInv, EndLadder, LeaveLayer, world
  <2>2. UNCHANGED <<case, kept, ask, snap, rung>>
    BY <1>8 DEF EndLadder, LeaveLayer, world
  <2>3. \A u \in Task : pc'[u] = "parts" => pc[u] = "parts" /\ draw'[u] = draw[u]
    BY <1>8 DEF TypeOK, EndLadder, LeaveLayer, world
  <2> QED  BY <2>1, <2>2, <2>3, KeptStands
<1>9. ASSUME NEW t \in Task, Solve(t) PROVE KeptInv'
  <2>1. /\ UNCHANGED <<case, ask, snap, rung, kept>> /\ kept[t] = NoParts
        /\ pc[t] = "solve"
    BY <1>9 DEF PlanInv, Solve, world
  <2>2. \A u \in Task : outcome'[u] # "overBudget"
    BY <1>9 DEF TypeOK, KeptInv, RateInv, Solve, LeaveLayer
  <2>3. \A u \in Task \ {t} : pc'[u] = pc[u] /\ draw'[u] = draw[u]
    BY <1>9 DEF TypeOK, Solve, LeaveLayer
  <2>4. CASE pc'[t] # "parts"
    <3>1. \A u \in Task : pc'[u] = "parts" => pc[u] = "parts" /\ draw'[u] = draw[u]
      BY <2>3, <2>4
    <3> QED  BY <2>1, <2>2, <3>1, KeptStands
  <2>5. CASE pc'[t] = "parts"
    <3>1. draw'[t] = Seen(t) /\ layer[t] \in DOMAIN layers
      BY <1>9, <2>5 DEF TypeOK, Solve, LeaveLayer
    <3>2. Given' = Given
      BY <2>1 DEF Given
    <3>3. Within(t)'
      <4> DEFINE a == ask[t]
                 d == Seen(t)
      <4>1. /\ d.left = rung[t].amount
            /\ DOMAIN d.dst = DOMAIN a.dests
            /\ \A i \in DOMAIN a.dests : d.dst[i] <= a.dests[i].max
            /\ \A i \in DOMAIN a.sources :
                 ~Given.live \/ a.sources[i].max < snap[t][a.sources[i].chan].spend
                     => d.src[a.sources[i].chan] <= a.sources[i].max
            /\ \A c \in Ours(snap[t]) :
                 /\ c \notin Chans(a.sources) => d.src[c] = 0
                 /\ c \notin d.enter
        BY <2>1, <3>1, SeenWithin
      <4>2. d \in DrawRecord /\ rung[t].amount \in Nat /\ IsAsk(a)
        <5>1. draw'[t] \in DrawRecord
          BY <1>0 DEF TypeOK
        <5> QED  BY <2>1, <3>1, <5>1, GivenType DEF TypeOK, RungRecord, PlanInv
      <4>3. /\ NoParts.delivered = 0
            /\ \A c \in Chan : NoParts.out[c] = 0 /\ NoParts.in[c] = 0
        BY DEF NoParts
      <4>4. /\ \A i \in DOMAIN a.dests : a.dests[i].chan \in Chan
            /\ \A i \in DOMAIN a.sources : a.sources[i].chan \in Chan
        BY <4>2, SpecsType DEF IsAsk
      <4> HIDE DEF a, d
      <4>5. \A i \in DOMAIN a.dests :
                NoParts.in[a.dests[i].chan] + d.dst[i] <= a.dests[i].max
        <5>1. \A i \in DOMAIN d.dst : d.dst[i] \in Nat
          BY <4>2 DEF DrawRecord
        <5> QED  BY <4>1, <4>3, <4>4, <5>1
      <4>6. \A i \in DOMAIN a.sources :
                ~Given.live \/ a.sources[i].max < snap[t][a.sources[i].chan].spend
                    => NoParts.out[a.sources[i].chan] + d.src[a.sources[i].chan]
                            <= a.sources[i].max
        <5>1. \A c \in Chan : d.src[c] \in Nat
          BY <4>2 DEF DrawRecord
        <5> QED  BY <4>1, <4>3, <4>4, <5>1
      <4>7. NoParts.delivered + d.left <= rung[t].amount
        BY <4>1, <4>2, <4>3
      <4>8. /\ draw'[t] = d /\ ask'[t] = a /\ kept'[t] = NoParts
            /\ rung'[t] = rung[t] /\ snap'[t] = snap[t]
        BY <2>1, <3>1 DEF a, d
      <4> QED  BY <3>2, <4>1, <4>5, <4>6, <4>7, <4>8 DEF Within
    <3>4. DrawInv'
      <4> SUFFICES ASSUME NEW u \in Task, pc'[u] = "parts" PROVE Within(u)'
        BY DEF DrawInv
      <4>1. CASE u = t
        BY <3>3, <4>1
      <4>2. CASE u # t
        <5>1. Within(u) /\ draw'[u] = draw[u]
          BY <2>3, <4>2 DEF KeptInv, DrawInv
        <5> QED  BY <2>1, <3>2, <5>1 DEF Within
      <4> QED  BY <4>1, <4>2
    <3>5. RateInv' /\ CapsKept' /\ SourcesPinned' /\ SlotsWellUsed'
      BY <2>1, <2>2, <3>2
         DEF KeptInv, RateInv, CapsKept, SourcesPinned, SlotsWellUsed
    <3> QED  BY <3>4, <3>5 DEF KeptInv
  <2> QED  BY <2>4, <2>5
<1>10. ASSUME NEW t \in Task, PartStep(t) PROVE KeptInv'
  BY <1>10, DrawByPart, RateByPart, CapsByPart, PinnedByPart, SlotsByPart
     DEF KeptInv
<1>11. ASSUME NEW t \in Task, Finish(t) PROVE KeptInv'
  <2>1. /\ UNCHANGED <<case, kept, ask, snap, rung, draw>>
        /\ pc' = [pc EXCEPT ![t] = "remove"]
        /\ outcome' = [outcome EXCEPT ![t] = "planned"]
    BY <1>11, FeeCheckPasses DEF KeptInv, Finish, LeaveLayer, world
  <2>2. /\ \A u \in Task : outcome'[u] # "overBudget"
        /\ \A u \in Task : pc'[u] = "parts" => pc[u] = "parts"
    BY <2>1 DEF TypeOK, KeptInv, RateInv
  <2> QED  BY <2>1, <2>2, KeptStands
<1>12. ASSUME NEW t \in Task, RemoveLayer(t) PROVE KeptInv'
  <2>1. \A u \in Task : outcome'[u] # "overBudget"
    BY <1>12 DEF TypeOK, KeptInv, RateInv, RemoveLayer
  <2>2. UNCHANGED <<case, kept, ask, snap, rung>>
    BY <1>12 DEF RemoveLayer
  <2>3. \A u \in Task : pc'[u] = "parts" => pc[u] = "parts" /\ draw'[u] = draw[u]
    BY <1>12 DEF TypeOK, RemoveLayer
  <2> QED  BY <2>1, <2>2, <2>3, KeptStands
<1>13. ASSUME Traffic PROVE KeptInv'
  <2>1. UNCHANGED <<case, kept, ask, snap, rung, outcome, pc, draw>>
    BY <1>13 DEF Traffic
  <2>2. \A u \in Task : outcome'[u] # "overBudget"
    BY <2>1 DEF KeptInv, RateInv
  <2> QED  BY <2>1, <2>2, KeptStands
<1>14. ASSUME Restart PROVE KeptInv'
  <2>1. /\ UNCHANGED <<case, kept, ask, snap, rung, outcome, draw>>
        /\ \A u \in Task : pc'[u] # "parts"
    BY <1>14 DEF TypeOK, Restart
  <2>2. \A u \in Task : outcome'[u] # "overBudget"
    BY <2>1 DEF KeptInv, RateInv
  <2> QED  BY <2>1, <2>2, KeptStands
<1>15. ASSUME UNCHANGED vars PROVE KeptInv'
  <2>1. UNCHANGED <<case, kept, ask, snap, rung, outcome, pc, draw>>
    BY <1>15 DEF vars, world
  <2>2. \A u \in Task : outcome'[u] # "overBudget"
    BY <2>1 DEF KeptInv, RateInv
  <2> QED  BY <2>1, <2>2, KeptStands
<1> QED
  BY <1>1, <1>2, <1>3, <1>4, <1>5, <1>6, <1>7, <1>8, <1>9, <1>10, <1>11,
     <1>12, <1>13, <1>14, <1>15 DEF Next, Running

-----------------------------------------------------------------------------
(* The theorems.                                                            *)

\* The inductive invariant holds (module Planner says what its parts are).
THEOREM Inductive == Spec => []IInv
<1>1. Init => IInv
  <2> SUFFICES ASSUME Init PROVE IInv
    OBVIOUS
  <2>0. /\ \A t \in Task : /\ pc[t] = "idle" /\ kept[t] = NoParts /\ ask[t] = NoAsk
                           /\ rung[t] = NoRung /\ snap[t] = ledger
                           /\ outcome[t] = "none"
        /\ case \in DOMAIN Cases /\ ledger \in Given.ledgers
    BY DEF Init
  <2>1. TypeOK
    <3>1. NoParts \in PartsRecord /\ NoDraw \in DrawRecord /\ NoRung \in RungRecord
      BY DEF NoParts, NoDraw, NoRung, PartsRecord, DrawRecord, RungRecord
    <3>2. NoBounds \in [{} -> BoundRecord] /\ DOMAIN NoBounds = {}
      BY DEF NoBounds
    <3>3. NoName \in Name
      BY DEF NoName, Name
    <3>4. DOMAIN layers = {}
      BY DEF Init
    <3>5. \A t \in Task : /\ DOMAIN bounds[t] \subseteq Chan
                          /\ bounds[t] \in [DOMAIN bounds[t] -> BoundRecord]
      BY <3>2 DEF Init
    <3> QED  BY <3>1, <3>3, <3>4, <3>5 DEF Init, TypeOK, Pc, Outcome
  <2>2. LayersAccounted /\ NamesPassed
    <3>1. DOMAIN layers = {}
      BY DEF Init
    <3> QED  BY <2>0, <3>1 DEF LayersAccounted, NamesPassed, Holds, InLayer
  <2>3. PlanInv /\ RungInv /\ LayerInv /\ DrawInv
    BY <2>0 DEF PlanInv, RungInv, LayerInv, DrawInv, InLayer
  <2>4. RateInv
    BY <2>0 DEF RateInv, NoParts, NoRung
  <2>5. CapsKept
    <3>1. NoAsk.dests = <<>> /\ NoAsk.sources = <<>>
      BY DEF NoAsk
    <3> QED  BY <2>0, <3>1 DEF CapsKept
  <2>6. SourcesPinned
    BY <2>0 DEF SourcesPinned, NoParts, Ours
  <2>7. SlotsWellUsed
    <3>1. ASSUME NEW t \in Task, NEW c \in Usable(snap[t])
          PROVE  /\ kept[t].parts[c] = 0 /\ kept[t].out[c] = 0
                 /\ c \notin kept[t].noSlot /\ snap[t][c].slots \in Nat
      <4>1. c \in Chan
        BY DEF Usable
      <4>2. snap[t] \in [Chan -> ChanRecord]
        BY <2>0, GivenType
      <4> QED  BY <2>0, <4>1, <4>2, LedgerType DEF NoParts
    <3> QED  BY <3>1 DEF SlotsWellUsed
  <2> QED  BY <2>1, <2>2, <2>3, <2>4, <2>5, <2>6, <2>7 DEF IInv
<1>2. IInv /\ [Next]_vars => IInv'
  <2> SUFFICES ASSUME IInv, [Next]_vars PROVE IInv'
    OBVIOUS
  <2>1. TypeOK'
    BY TypeStep DEF IInv
  <2>2. LayersAccounted' /\ NamesPassed'
    BY LayersStep DEF IInv
  <2>3. PlanInv' /\ RungInv'
    BY PlanStep, RungStep DEF IInv
  <2>4. LayerInv'
    BY LayerStep DEF IInv
  <2>5. KeptInv'
    BY KeptStep DEF IInv, KeptInv
  <2> QED  BY <2>1, <2>2, <2>3, <2>4, <2>5 DEF IInv, KeptInv
<1> QED  BY <1>1, <1>2, PTL DEF Spec

\* Types.
THEOREM TypeCorrect == Spec => []TypeOK
<1>1. IInv => TypeOK
  BY DEF IInv
<1> QED  BY <1>1, Inductive, PTL

\* Every request layer has one plan in it or was left behind (plan.rs:458-487).
THEOREM LayersAreAccounted == Spec => []LayersAccounted
<1>1. IInv => LayersAccounted
  BY DEF IInv
<1> QED  BY <1>1, Inductive, PTL

\* The caps of a request hold of the sum of its parts (spec.rs:4-13).
THEOREM CapsAreKept == Spec => []CapsKept
<1>1. IInv => CapsKept
  BY DEF IInv
<1> QED  BY <1>1, Inductive, PTL

\* Only the named sources of a request send for it (plan.rs:15-19).
THEOREM SourcesArePinned == Spec => []SourcesPinned
<1>1. IInv => SourcesPinned
  BY DEF IInv
<1> QED  BY <1>1, Inductive, PTL

\* Slots are not overrun, and are refused only when they are taken.
THEOREM SlotsAreWellUsed == Spec => []SlotsWellUsed
<1>1. IInv => SlotsWellUsed
  BY DEF IInv
<1> QED  BY <1>1, Inductive, PTL

\* A plan is within its ask, its budget and its rate (plan.rs:1191-1197): the rate
\* of a rung, which rounds down, is at most the rate of the ask.
THEOREM EnvelopeIsKept == Spec => []PlanKeepsTheEnvelope
<1>1. IInv => PlanKeepsTheEnvelope
  <2> SUFFICES ASSUME IInv, NEW t \in Task
               PROVE  LET fee == kept[t].sent - kept[t].delivered IN
                      /\ kept[t].delivered <= rung[t].amount
                      /\ rung[t].amount <= ask[t].amount
                      /\ ask[t].budget = "msat" => fee <= ask[t].maxfee
                      /\ ask[t].budget = "ppm" =>
                            fee * Million <= ask[t].maxfee * kept[t].delivered
                      /\ outcome[t] # "overBudget"
    BY DEF PlanKeepsTheEnvelope
  <2> DEFINE a == ask[t]
             A == rung[t].amount
             F == rung[t].maxfee
             D == kept[t].delivered
             fee == kept[t].sent - kept[t].delivered
             f == a.maxfee
  <2>1. IsAsk(a)
    <3>1. IsAsk(NoAsk)
      BY DEF IsAsk, NoAsk, IsSpecs
    <3> QED  BY <3>1, GivenType DEF IInv, TypeOK
  <2>2. /\ A \in Nat /\ F \in Nat /\ D \in Nat /\ fee \in Nat /\ f \in Nat
        /\ a.amount \in Nat /\ Million \in Nat \ {0}
    <3>1. /\ A \in Nat /\ F \in Nat /\ D \in Nat /\ kept[t].sent \in Nat
          /\ D <= kept[t].sent
      BY DEF IInv, TypeOK, RungRecord, PartsRecord, RateInv
    <3> QED  BY <2>1, <3>1, PlannerAssumption DEF IsAsk
  <2>3. D <= A /\ fee * A <= F * D /\ outcome[t] # "overBudget"
    BY DEF IInv, RateInv
  <2>4. CASE rung[t] = NoRung
    <3>1. A = 0 /\ D = 0
      BY <2>2, <2>3, <2>4 DEF NoRung
    <3>2. fee = 0
      BY <2>4 DEF IInv, RungInv, NoParts
    <3> HIDE DEF A, F, D, fee, f
    <3>3. fee * Million = 0 /\ f * D = 0
      BY <2>2, <3>1, <3>2
    <3>4. D <= A /\ A <= a.amount /\ fee <= f /\ fee * Million <= f * D
      BY <2>2, <3>1, <3>2, <3>3
    <3> HIDE DEF a
    <3> QED  BY <2>3, <3>4 DEF A, D, fee, f, a
  <2>5. CASE rung[t] # NoRung
    <3>1. A > 0 /\ A <= a.amount /\ F = Maxfee(a, A)
      BY <2>2, <2>5 DEF IInv, RungInv
    <3>2. fee <= F
      <4> HIDE DEF A, F, D, fee
      <4> QED  BY <2>2, <2>3, <3>1, RateGivesBudget
    <3>3. a.budget = "msat" => fee <= f
      BY <3>1, <3>2 DEF Maxfee
    <3>4. ASSUME a.budget = "ppm" PROVE fee * Million <= f * D
      <4> DEFINE share == A * f
      <4>1. F = share \div Million
        BY <3>1, <3>4 DEF Maxfee
      <4>2. share \in Nat
        <5> HIDE DEF A, f
        <5> QED  BY <2>2
      <4>3. Million * F <= share
        <5> HIDE DEF share, F
        <5> QED  BY <2>2, <4>1, <4>2, Division
      <4> HIDE DEF A, F, D, fee, f
      <4>4. (fee * Million) * A = Million * (fee * A)
        BY <2>2
      <4>5. Million * (fee * A) <= Million * (F * D)
        <5>1. fee * A \in Nat /\ F * D \in Nat
          BY <2>2
        <5> DEFINE x == fee * A
                   y == F * D
        <5>2. x \in Nat /\ y \in Nat /\ x <= y
          BY <2>3, <5>1
        <5> HIDE DEF x, y
        <5>3. Million * x <= Million * y
          BY <2>2, <5>2
        <5> QED  BY <5>3 DEF x, y
      <4>6. Million * (F * D) <= (f * D) * A
        <5>1. Million * (F * D) = (Million * F) * D
          BY <2>2
        <5>2. (Million * F) * D <= share * D
          <6> DEFINE x == Million * F
          <6>1. x \in Nat
            BY <2>2
          <6> HIDE DEF share, x
          <6>2. x <= share
            BY <4>3 DEF x
          <6>3. x * D <= share * D
            BY <2>2, <4>2, <6>1, <6>2
          <6> QED  BY <6>3 DEF x
        <5>3. share * D = (f * D) * A
          BY <2>2
        <5>4. (Million * F) * D \in Nat /\ share * D \in Nat
          BY <2>2
        <5> QED  BY <5>1, <5>2, <5>3
      <4> DEFINE x == fee * Million
                 y == f * D
      <4>7. x \in Nat /\ y \in Nat
        BY <2>2
      <4>8. x * A <= y * A
        <5>1. x * A \in Nat /\ y * A \in Nat /\ Million * (F * D) \in Nat
          BY <2>2
        <5> QED  BY <4>4, <4>5, <4>6, <5>1
      <4> HIDE DEF x, y
      <4>9. x <= y
        BY <2>2, <3>1, <4>7, <4>8
      <4> QED  BY <4>9 DEF x, y
    <3> QED  BY <2>3, <3>1, <3>3, <3>4
  <2> QED  BY <2>4, <2>5
<1> QED  BY <1>1, Inductive, PTL

-----------------------------------------------------------------------------
(* The bounds leave room for a rung.                                        *)

\* What a rung costs a bound is less than its flow unit, a part in Accuracy of
\* its amount.
LEMMA LossType ==
    ASSUME NEW m \in Nat
    PROVE  Loss(m) \in Nat /\ Accuracy * Loss(m) <= m
<1>0. Accuracy \in Nat \ {0}
  BY FlowUnitsAssumption
<1>1. CASE Quantized(m)
  <2> DEFINE u == FlowUnit(m)
  <2>1. u \in Nat \ {0} /\ Accuracy * u <= m + Accuracy - 1
    BY <1>0, <1>1, UnitPositive, Ceiling DEF FlowUnit
  <2>2. Loss(m) = u - 1
    BY <1>1 DEF Loss
  <2> HIDE DEF u
  <2>3. Accuracy * (u - 1) = Accuracy * u - Accuracy /\ Accuracy * u \in Nat
    BY <1>0, <2>1
  <2> QED  BY <1>0, <2>1, <2>2, <2>3
<1>2. CASE ~Quantized(m)
  BY <1>0, <1>2 DEF Loss
<1> QED  BY <1>1, <1>2

\* A bound loses less than a unit when it is lowered.
LEMMA SlackLoss ==
    ASSUME NEW bound \in Nat, NEW msat \in Nat
    PROVE  LET low == BoundWithUnitSlack(bound, msat) IN
           /\ low \in Nat /\ low <= bound
           /\ bound <= low + Loss(msat)
           /\ Drawable(low, msat) \in Nat
           /\ low <= Drawable(low, msat) + Loss(msat)
<1> DEFINE low == BoundWithUnitSlack(bound, msat)
<1>1. CASE Quantized(msat)
  <2> DEFINE u == FlowUnit(msat)
             k == (bound + 1) \div u
  <2>1. /\ u \in Nat \ {0} /\ Loss(msat) = u - 1
        /\ low \in Nat /\ low <= bound
        /\ Drawable(low, msat) \in Nat
        /\ low > 0 => Drawable(low, msat) + u - 1 = low
    BY <1>1, UnitPositive, SlackKept DEF Loss
  <2>2. low = IF k * u >= 1 THEN k * u - 1 ELSE 0
    BY <1>1 DEF BoundWithUnitSlack, Less
  <2> HIDE DEF low, u
  <2>3. bound + 1 \in Nat
    OBVIOUS
  <2>4. k \in Nat /\ bound + 1 < u * k + u
    BY <2>1, <2>3, Division
  <2> HIDE DEF k
  <2>5. bound + 1 < k * u + u /\ k * u \in Nat
    BY <2>1, <2>4
  <2>6. bound <= low + u - 1
    BY <2>1, <2>2, <2>5
  <2> QED  BY <2>1, <2>6 DEF low
<1>2. CASE ~Quantized(msat)
  <2>1. low = bound /\ Loss(msat) = 0 /\ Drawable(low, msat) = low
    BY <1>2 DEF BoundWithUnitSlack, Loss, Drawable
  <2> QED  BY <2>1
<1> QED  BY <1>1, <1>2

\* So does a bound that a rung writes (plan.rs:849-866).
LEMMA LoweredLoss ==
    ASSUME NEW b \in BoundRecord, NEW msat \in Nat, NEW lost \in Nat,
           b.bound <= b.solverMax + lost
    PROVE  LET low == Lowered(b, msat) IN
           /\ b.bound <= low + (lost + Loss(msat))
           /\ low <= Drawable(low, msat) + Loss(msat)
<1> DEFINE under == Least(b.bound, b.solverMax)
           slack == BoundWithUnitSlack(under, msat)
           low == Lowered(b, msat)
<1>1. /\ b.bound \in Nat /\ b.solverMax \in Nat
      /\ under \in Nat /\ under <= b.bound /\ under <= b.solverMax
      /\ b.bound <= under + lost
  BY DEF Least, BoundRecord
<1>2. low = Least(slack, b.solverMax)
  BY DEF Lowered
<1> HIDE DEF under, low
<1>3. /\ slack \in Nat /\ slack <= under /\ under <= slack + Loss(msat)
      /\ slack <= Drawable(slack, msat) + Loss(msat)
  BY <1>1, SlackLoss
<1>4. Loss(msat) \in Nat
  BY LossType
<1> HIDE DEF slack
<1>5. low = slack
  BY <1>1, <1>2, <1>3 DEF Least
<1>6. b.bound <= low + (lost + Loss(msat))
  BY <1>1, <1>3, <1>4, <1>5
<1> QED  BY <1>3, <1>5, <1>6 DEF low

\* The amounts of the rungs (plan.rs:801).
LEMMA Portions ==
    ASSUME NEW m \in Nat
    PROVE  /\ \A step \in 1..5 : Portion(m, step) \in Nat
           /\ Portion(m, 1) = m /\ 4 * Portion(m, 2) <= 3 * m
           /\ 2 * Portion(m, 3) <= m /\ 4 * Portion(m, 4) <= m
           /\ 8 * Portion(m, 5) <= m
<1>1. /\ Portion(m, 1) = (m * 1) \div 1 /\ Portion(m, 2) = (m * 3) \div 4
      /\ Portion(m, 3) = (m * 1) \div 2 /\ Portion(m, 4) = (m * 1) \div 4
      /\ Portion(m, 5) = (m * 1) \div 8
  BY DEF Portion, Ladder
<1>2. (m * 1) \div 1 = m
  OBVIOUS
<1>3. (m * 3) \div 4 \in Nat /\ 4 * ((m * 3) \div 4) <= 3 * m
  OBVIOUS
<1>4. (m * 1) \div 2 \in Nat /\ 2 * ((m * 1) \div 2) <= m
  OBVIOUS
<1>5. (m * 1) \div 4 \in Nat /\ 4 * ((m * 1) \div 4) <= m
  OBVIOUS
<1>6. (m * 1) \div 8 \in Nat /\ 8 * ((m * 1) \div 8) <= m
  OBVIOUS
<1>7. ASSUME NEW step \in 1..5 PROVE Portion(m, step) \in Nat
  <2>1. step = 1 \/ step = 2 \/ step = 3 \/ step = 4 \/ step = 5
    OBVIOUS
  <2> QED  BY <1>1, <1>2, <1>3, <1>4, <1>5, <1>6, <2>1
<1> QED  BY <1>1, <1>2, <1>3, <1>4, <1>5, <1>6, <1>7

\* The losses of the rungs, one by one.
LEMMA LossesType ==
    ASSUME NEW m \in Nat
    PROVE  /\ \A step \in 0..5 : LossUpTo(m, step) \in Nat
           /\ LossUpTo(m, 0) = 0
           /\ \A step \in 0..4 :
                LossUpTo(m, step + 1)
                    = LossUpTo(m, step) + Loss(Portion(m, step + 1))
<1> DEFINE p(j) == Loss(Portion(m, j))
<1>1. \A j \in 1..5 : p(j) \in Nat
  BY Portions, LossType
<1>2. p(1) \in Nat /\ p(2) \in Nat /\ p(3) \in Nat /\ p(4) \in Nat /\ p(5) \in Nat
  BY <1>1
<1>3. \A step \in 0..5 : \A j \in 1..5 :
            LossOf(m, step, j) = IF j <= step THEN p(j) ELSE 0
  BY DEF LossOf
<1> HIDE DEF p
<1>4. \A step \in 0..5 : LossUpTo(m, step) =
            (IF 1 <= step THEN p(1) ELSE 0) + (IF 2 <= step THEN p(2) ELSE 0)
                + (IF 3 <= step THEN p(3) ELSE 0) + (IF 4 <= step THEN p(4) ELSE 0)
                + (IF 5 <= step THEN p(5) ELSE 0)
  BY <1>3 DEF LossUpTo
<1>5. \A step \in 0..5 : LossUpTo(m, step) \in Nat
  BY <1>2, <1>4
<1>6. LossUpTo(m, 0) = 0
  BY <1>4
<1>7. ASSUME NEW step \in 0..4
      PROVE  LossUpTo(m, step + 1) = LossUpTo(m, step) + p(step + 1)
  <2>1. step = 0 \/ step = 1 \/ step = 2 \/ step = 3 \/ step = 4
    OBVIOUS
  <2> QED  BY <1>2, <1>4, <2>1
<1> QED  BY <1>5, <1>6, <1>7 DEF p

\* A factor of both sides may be left out.
LEMMA Cancel ==
    ASSUME NEW a \in Nat \ {0}, NEW x \in Nat, NEW y \in Nat, a * x <= a * y
    PROVE  x <= y
  OBVIOUS

\* A request names few enough sources that a quantized amount has two flow units
\* for each.  With the Accuracy of 1000 and the SinglePath of 1,000,000 msat that
\* plan.rs passes, they may be up to 499.
FewSources(n) == 2 * n * (SinglePath + Accuracy) <= Accuracy * SinglePath

\* For so few sources, what their bounds lose by it is less than the ask.
LEMMA UnitsForFew ==
    ASSUME NEW n \in Nat, FewSources(n), NEW m \in Nat, Quantized(m)
    PROVE  2 * (n * FlowUnit(m)) <= m
<1> DEFINE u == FlowUnit(m)
           w == 2 * n
<1>1. /\ SinglePath \in Nat /\ Accuracy \in Nat \ {0} /\ m > SinglePath
      /\ u \in Nat /\ Accuracy * u <= m + Accuracy - 1 /\ w \in Nat
  BY FlowUnitsAssumption, UnitPositive, Ceiling DEF FlowUnit, Quantized
<1>2. w * (SinglePath + Accuracy) <= Accuracy * SinglePath
  BY <1>1 DEF FewSources
<1>3. 2 * (n * u) = w * u
  <2> HIDE DEF u
  <2> QED  BY <1>1
<1> HIDE DEF u, w
<1>4. w * SinglePath + w * Accuracy <= Accuracy * SinglePath
  <2>1. w * (SinglePath + Accuracy) = w * SinglePath + w * Accuracy
    BY <1>1
  <2> QED  BY <1>2, <2>1
<1>5. w <= Accuracy
  <2>1. w * SinglePath \in Nat /\ w * Accuracy \in Nat
    BY <1>1
  <2>2. CASE SinglePath = 0
    <3>1. Accuracy * w <= Accuracy * 0
      BY <1>1, <1>4, <2>1, <2>2
    <3>2. w <= 0
      BY <1>1, <3>1, Cancel
    <3> QED  BY <1>1, <3>2
  <2>3. CASE SinglePath # 0
    <3>1. SinglePath * w <= SinglePath * Accuracy
      BY <1>1, <1>4, <2>1
    <3> QED  BY <1>1, <2>3, <3>1, Cancel
  <2> QED  BY <2>2, <2>3
<1>6. w * m + w * Accuracy <= Accuracy * m
  <2> DEFINE r == m - SinglePath
  <2>1. r \in Nat /\ m = SinglePath + r
    BY <1>1
  <2> HIDE DEF r
  <2>2. w * m = w * SinglePath + w * r /\ Accuracy * m = Accuracy * SinglePath + Accuracy * r
    BY <1>1, <2>1
  <2>3. w * r <= Accuracy * r
    BY <1>1, <1>5, <2>1
  <2>4. /\ w * SinglePath \in Nat /\ w * r \in Nat /\ w * Accuracy \in Nat
        /\ Accuracy * SinglePath \in Nat /\ Accuracy * r \in Nat
    BY <1>1, <2>1
  <2> QED  BY <1>4, <2>2, <2>3, <2>4
<1>7. w * (Accuracy * u) <= w * (m + Accuracy)
  <2>1. Accuracy * u <= m + Accuracy /\ Accuracy * u \in Nat
    BY <1>1
  <2> QED  BY <1>1, <2>1
<1>8. Accuracy * (w * u) <= Accuracy * m
  <2>1. w * (Accuracy * u) = Accuracy * (w * u)
    BY <1>1
  <2>2. w * (m + Accuracy) = w * m + w * Accuracy
    BY <1>1
  <2>3. /\ w * (Accuracy * u) \in Nat /\ w * m \in Nat /\ w * Accuracy \in Nat
        /\ Accuracy * m \in Nat
    BY <1>1
  <2> QED  BY <1>6, <1>7, <2>1, <2>2, <2>3
<1>9. w * u <= m
  <2>1. w * u \in Nat
    BY <1>1
  <2> QED  BY <1>1, <1>8, <2>1, Cancel
<1> QED  BY <1>3, <1>9 DEF u

\* What the rungs so far have cost n sources, and packing costs them on this one,
\* is no more than the headroom and what the rung asks less than the first.
LEMMA LossesFit ==
    ASSUME NEW n \in Nat, FewSources(n), NEW m \in Nat, NEW step \in 1..5
    PROVE  LET x == Portion(m, step)
           IN x + Loss(x) + n * (LossUpTo(m, step) + Loss(x))
                  <= m + UnitHeadroom(n, m)
<1> DEFINE x(j) == Portion(m, j)
           p(j) == Loss(x(j))
           q(j) == n * p(j)
<1>1. /\ \A j \in 1..5 : x(j) \in Nat
      /\ x(1) = m /\ 4 * x(2) <= 3 * m /\ 2 * x(3) <= m /\ 4 * x(4) <= m
      /\ 8 * x(5) <= m
  BY Portions
<1>2. \A j \in 1..5 : p(j) \in Nat /\ Accuracy * p(j) <= x(j)
  BY <1>1, LossType
<1>3. /\ step = 1 => LossUpTo(m, step) = p(1)
      /\ step = 2 => LossUpTo(m, step) = p(1) + p(2)
      /\ step = 3 => LossUpTo(m, step) = p(1) + p(2) + p(3)
      /\ step = 4 => LossUpTo(m, step) = p(1) + p(2) + p(3) + p(4)
      /\ step = 5 => LossUpTo(m, step) = p(1) + p(2) + p(3) + p(4) + p(5)
  <2> HIDE DEF p
  <2>1. \A j \in 1..5 : LossOf(m, step, j) = IF j <= step THEN p(j) ELSE 0
    BY DEF LossOf, p
  <2>2. p(1) \in Nat /\ p(2) \in Nat /\ p(3) \in Nat /\ p(4) \in Nat /\ p(5) \in Nat
    BY <1>2
  <2> QED  BY <2>1, <2>2 DEF LossUpTo
<1> HIDE DEF x
<1>4. CASE Quantized(m)
  <2> DEFINE u == FlowUnit(m)
             v == n * u
  <2>1. /\ Accuracy \in Nat \ {0} /\ u \in Nat \ {0} /\ m <= Accuracy * u
        /\ UnitHeadroom(n, m) = u * (2 * n + 1)
        /\ 2 * v <= m
    BY <1>4, FlowUnitsAssumption, UnitPositive, Ceiling, UnitsForFew
       DEF FlowUnit, UnitHeadroom
  <2> HIDE DEF u, p
  <2>2. v \in Nat /\ u * (2 * n + 1) = 2 * v + u
    BY <2>1
  <2>3. ASSUME NEW j \in 1..5, NEW num \in Nat, NEW den \in Nat,
               den * x(j) <= num * m
        PROVE  den * p(j) <= num * u /\ den * q(j) <= num * v
    <3>0. p(j) \in Nat /\ x(j) \in Nat /\ Accuracy * p(j) <= x(j)
      BY <1>1, <1>2
    <3> HIDE DEF x
    <3>1. den * (Accuracy * p(j)) <= den * x(j)
      BY <2>1, <3>0
    <3>2. num * m <= num * (Accuracy * u)
      BY <2>1
    <3>3. /\ den * (Accuracy * p(j)) = Accuracy * (den * p(j))
          /\ num * (Accuracy * u) = Accuracy * (num * u)
      BY <2>1, <3>0
    <3>4. /\ Accuracy * (den * p(j)) \in Nat /\ Accuracy * (num * u) \in Nat
          /\ den * x(j) \in Nat /\ num * m \in Nat
      BY <2>1, <3>0
    <3>5. Accuracy * (den * p(j)) <= Accuracy * (num * u)
      BY <2>3, <3>1, <3>2, <3>3, <3>4
    <3>6. den * p(j) \in Nat /\ num * u \in Nat
      BY <2>1, <3>0
    <3>7. den * p(j) <= num * u
      BY <2>1, <3>5, <3>6, Cancel
    <3>8. n * (den * p(j)) <= n * (num * u)
      BY <3>6, <3>7
    <3>9. n * (den * p(j)) = den * q(j) /\ n * (num * u) = num * v
      BY <2>1, <3>0
    <3> QED  BY <3>7, <3>8, <3>9
  <2> HIDE DEF v, q
  <2>4. /\ 1 * p(1) <= 1 * u /\ 1 * q(1) <= 1 * v
        /\ 4 * p(2) <= 3 * u /\ 4 * q(2) <= 3 * v
        /\ 2 * p(3) <= 1 * u /\ 2 * q(3) <= 1 * v
        /\ 4 * p(4) <= 1 * u /\ 4 * q(4) <= 1 * v
        /\ 8 * p(5) <= 1 * u /\ 8 * q(5) <= 1 * v
    <3>1. /\ 1 * x(1) <= 1 * m /\ 4 * x(2) <= 3 * m /\ 2 * x(3) <= 1 * m
          /\ 4 * x(4) <= 1 * m /\ 8 * x(5) <= 1 * m
      BY <1>1
    <3> QED  BY <2>3, <3>1
  <2>5. \A j \in 1..5 : q(j) \in Nat /\ x(j) \in Nat /\ p(j) \in Nat
    BY <1>1, <1>2 DEF q
  <2>6. n * (LossUpTo(m, step) + p(step)) =
            IF step = 1 THEN q(1) + q(1)
            ELSE IF step = 2 THEN q(1) + q(2) + q(2)
            ELSE IF step = 3 THEN q(1) + q(2) + q(3) + q(3)
            ELSE IF step = 4 THEN q(1) + q(2) + q(3) + q(4) + q(4)
            ELSE q(1) + q(2) + q(3) + q(4) + q(5) + q(5)
    <3>0. p(1) \in Nat /\ p(2) \in Nat /\ p(3) \in Nat /\ p(4) \in Nat /\ p(5) \in Nat
      BY <2>5
    <3>1. CASE step = 1
      <4>1. n * (p(1) + p(1)) = n * p(1) + n * p(1)
        BY <3>0
      <4> QED  BY <1>3, <3>1, <4>1 DEF q
    <3>2. CASE step = 2
      <4>1. n * (p(1) + p(2) + p(2)) = n * p(1) + n * p(2) + n * p(2)
        BY <3>0
      <4> QED  BY <1>3, <3>2, <4>1 DEF q
    <3>3. CASE step = 3
      <4>1. n * (p(1) + p(2) + p(3) + p(3))
                = n * p(1) + n * p(2) + n * p(3) + n * p(3)
        BY <3>0
      <4> QED  BY <1>3, <3>3, <4>1 DEF q
    <3>4. CASE step = 4
      <4>1. n * (p(1) + p(2) + p(3) + p(4) + p(4))
                = n * p(1) + n * p(2) + n * p(3) + n * p(4) + n * p(4)
        BY <3>0
      <4> QED  BY <1>3, <3>4, <4>1 DEF q
    <3>5. CASE step = 5
      <4>1. n * (p(1) + p(2) + p(3) + p(4) + p(5) + p(5))
                = n * p(1) + n * p(2) + n * p(3) + n * p(4) + n * p(5) + n * p(5)
        BY <3>0
      <4> QED  BY <1>3, <3>5, <4>1 DEF q
    <3> QED  BY <3>1, <3>2, <3>3, <3>4, <3>5
  <2>7. x(step) + p(step) + n * (LossUpTo(m, step) + p(step)) <= m + (2 * v + u)
    <3>0. /\ q(1) \in Nat /\ q(2) \in Nat /\ q(3) \in Nat /\ q(4) \in Nat
          /\ q(5) \in Nat /\ p(1) \in Nat /\ p(2) \in Nat /\ p(3) \in Nat
          /\ p(4) \in Nat /\ p(5) \in Nat /\ x(1) \in Nat /\ x(2) \in Nat
          /\ x(3) \in Nat /\ x(4) \in Nat /\ x(5) \in Nat
      BY <2>5
    <3>1. CASE step = 1
      BY <1>1, <2>1, <2>2, <2>4, <2>6, <3>0, <3>1
    <3>2. CASE step = 2
      BY <1>1, <2>1, <2>2, <2>4, <2>6, <3>0, <3>2
    <3>3. CASE step = 3
      BY <1>1, <2>1, <2>2, <2>4, <2>6, <3>0, <3>3
    <3>4. CASE step = 4
      BY <1>1, <2>1, <2>2, <2>4, <2>6, <3>0, <3>4
    <3>5. CASE step = 5
      BY <1>1, <2>1, <2>2, <2>4, <2>6, <3>0, <3>5
    <3> QED  BY <3>1, <3>2, <3>3, <3>4, <3>5
  <2> QED  BY <2>1, <2>2, <2>7 DEF x, p
<1>5. CASE ~Quantized(m)
  <2>1. \A j \in 1..5 : x(j) <= m
    <3>1. ASSUME NEW j \in 1..5 PROVE x(j) <= m
      <4>1. j = 1 \/ j = 2 \/ j = 3 \/ j = 4 \/ j = 5
        OBVIOUS
      <4>2. /\ x(1) \in Nat /\ x(2) \in Nat /\ x(3) \in Nat /\ x(4) \in Nat
            /\ x(5) \in Nat
        BY <1>1
      <4> QED  BY <1>1, <4>1, <4>2
    <3> QED  BY <3>1
  <2>2. \A j \in 1..5 : p(j) = 0
    BY <1>1, <1>5, <2>1, FlowUnitsAssumption DEF Loss, Quantized
  <2> HIDE DEF p
  <2>3. LossUpTo(m, step) = 0 /\ p(step) = 0
    BY <1>3, <2>2
  <2>4. UnitHeadroom(n, m) = 0
    BY <1>5 DEF UnitHeadroom
  <2>5. x(step) + p(step) + n * (LossUpTo(m, step) + p(step))
            <= m + UnitHeadroom(n, m)
    BY <1>1, <2>1, <2>3, <2>4
  <2> QED  BY <2>5 DEF x, p
<1> QED  BY <1>4, <1>5

\* A plan whose bounds and rung are not touched is as short as it was.
LEMMA ShortStands ==
    ASSUME NEW t \in Task, BoundsInv, pc[t] \in {"ladder", "solve"},
           pc'[t] = "solve" => pc[t] = "solve",
           UNCHANGED <<ask[t], amount[t], bounds[t], rung[t]>>
    PROVE  Short(t)'
  BY DEF BoundsInv, Short

\* A new layer has the bounds as they are.
LEMMA ShortByBuild ==
    ASSUME TypeOK, TypeOK', PlanInv, RungInv, NEW t \in Task, BuildLayer(t)
    PROVE  Short(t)'
<1> DEFINE a == ask[t]
           l == snap[t]
           targets == Chans(a.sources) \cap Fence(l)
           limits == [c \in targets |-> SourceBound(a, c, l)]
<1>1. /\ pc[t] = "build" /\ bounds' = [bounds EXCEPT ![t] = limits]
      /\ pc' = [pc EXCEPT ![t] = "ladder"]
      /\ UNCHANGED <<ask, rung, amount>>
  BY DEF BuildLayer
<1>2. /\ bounds'[t] = limits /\ pc'[t] = "ladder" /\ ask'[t] = a
      /\ rung'[t] = NoRung
  <2> HIDE DEF limits
  <2> QED  BY <1>1 DEF TypeOK, RungInv
<1>3. targets = Chans(a.sources)
  <2>1. Plannable(a, l)
    BY <1>1 DEF PlanInv, InLayer
  <2> QED  BY <2>1 DEF Plannable, Usable, Fence, Ours
<1>4. LossUpTo(amount'[t], rung'[t].step) = 0
  BY <1>2, LossesType DEF TypeOK, NoRung
<1>5. ASSUME NEW c \in Chans(a.sources)
      PROVE  bounds'[t][c].bound <= bounds'[t][c].solverMax + 0
  <2>1. bounds'[t][c] = SourceBound(a, c, l) /\ c \in DOMAIN bounds'[t]
    BY <1>2, <1>3
  <2>2. bounds'[t][c] \in BoundRecord
    BY <2>1 DEF TypeOK
  <2>3. /\ bounds'[t][c].bound = Least(CapOf(a, c), l[c].spend)
        /\ bounds'[t][c].solverMax = l[c].spend
    BY <2>1 DEF SourceBound
  <2>4. bounds'[t][c].bound \in Nat /\ bounds'[t][c].solverMax \in Nat
    BY <2>2 DEF BoundRecord
  <2>5. l \in [Chan -> ChanRecord] /\ c \in Chan
    BY <1>3, GivenType DEF TypeOK, Fence, Ours
  <2>6. Least(CapOf(a, c), l[c].spend) <= l[c].spend
    <3>1. l[c].spend \in Nat
      BY <2>5, LedgerType
    <3> QED  BY <2>3, <2>4, <3>1 DEF Least
  <2> QED  BY <2>3, <2>4, <2>6
<1> HIDE DEF limits, targets, a, l
<1> QED  BY <1>2, <1>4, <1>5 DEF Short

\* A rung costs a bound what it costs to lower it, on top of what the rungs before
\* it have cost.
LEMMA ShortByDescend ==
    ASSUME TypeOK, PlanInv, LayerInv, BoundsInv, NEW t \in Task, Descend(t)
    PROVE  Short(t)'
<1> DEFINE a == ask[t]
           m == amount[t]
           step == NextStep(t)
           msat == RungAmount(t, step)
           lower == [c \in DOMAIN bounds[t] |-> Lowered(bounds[t][c], msat)]
           limits == [c \in DOMAIN lower |->
                          [bounds[t][c] EXCEPT !.solverMax = lower[c]]]
           lost == LossUpTo(m, rung[t].step)
<1>1. /\ pc[t] = "ladder" /\ step <= Len(Ladder)
      /\ bounds' = [bounds EXCEPT ![t] = limits]
      /\ rung' = [rung EXCEPT ![t] = [step |-> step, amount |-> msat,
                                      maxfee |-> Maxfee(a, msat)]]
      /\ pc' = [pc EXCEPT ![t] = "solve"]
      /\ UNCHANGED <<ask, amount>>
  BY DEF Descend
<1>2. /\ bounds'[t] = limits /\ pc'[t] = "solve" /\ ask'[t] = a /\ amount'[t] = m
      /\ rung'[t].step = step /\ rung'[t].amount = msat
  <2> HIDE DEF limits, msat, step
  <2> QED  BY <1>1 DEF TypeOK
<1>3. /\ m \in Nat /\ rung[t].step \in 0..4 /\ step = rung[t].step + 1
      /\ step \in 1..5
  <2>1. m \in Nat /\ rung[t].step \in 0..5 /\ Len(Ladder) = 5
    BY DEF TypeOK, RungRecord, Ladder
  <2> QED  BY <1>1, <2>1 DEF NextStep
<1>4. /\ msat = Portion(m, step)
      /\ msat \in Nat /\ lost \in Nat /\ Loss(msat) \in Nat
      /\ LossUpTo(m, step) = lost + Loss(msat)
  <2>1. msat = Portion(m, step)
    BY DEF RungAmount, Portion
  <2> DEFINE s == rung[t].step
  <2>2. s \in 0..4 /\ s \in 0..5 /\ step = s + 1
    BY <1>3
  <2> HIDE DEF msat, step, s, m
  <2>3. msat \in Nat /\ Loss(msat) \in Nat
    BY <1>3, <2>1, Portions, LossType
  <2>4. /\ LossUpTo(m, s) \in Nat
        /\ LossUpTo(m, s + 1) = LossUpTo(m, s) + Loss(Portion(m, s + 1))
    BY <1>3, <2>2, LossesType
  <2> QED  BY <2>1, <2>2, <2>3, <2>4 DEF s
<1>5. DOMAIN bounds[t] = Chans(a.sources)
  BY <1>1 DEF LayerInv, Written
<1> HIDE DEF msat, lost
<1>6. ASSUME NEW c \in Chans(a.sources)
      PROVE  /\ limits[c].bound <= limits[c].solverMax + (lost + Loss(msat))
             /\ limits[c].solverMax <= Drawable(limits[c].solverMax, msat) + Loss(msat)
  <2> DEFINE b == bounds[t][c]
             low == Lowered(b, msat)
  <2>1. b \in BoundRecord /\ b.bound <= b.solverMax + lost
    BY <1>1, <1>5 DEF TypeOK, BoundsInv, Short, lost
  <2>2. limits[c] = [b EXCEPT !.solverMax = low]
    BY <1>5
  <2>3. limits[c].bound = b.bound /\ limits[c].solverMax = low
    <3> HIDE DEF limits, b, low
    <3> QED  BY <2>1, <2>2 DEF BoundRecord
  <2> HIDE DEF b, limits
  <2>4. /\ b.bound <= low + (lost + Loss(msat))
        /\ low <= Drawable(low, msat) + Loss(msat)
    BY <1>4, <2>1, LoweredLoss
  <2> QED  BY <2>3, <2>4
<1> HIDE DEF limits, step, a, m
<1> QED  BY <1>2, <1>3, <1>4, <1>6 DEF Short

\* Nothing else brings a plan to its ladder or touches its bounds there.
LEMMA BoundsStep ==
    ASSUME TypeOK, TypeOK', PlanInv, RungInv, LayerInv, BoundsInv, [Next]_vars
    PROVE  BoundsInv'
<1> SUFFICES ASSUME NEW u \in Task, pc'[u] \in {"ladder", "solve"} PROVE Short(u)'
  BY DEF BoundsInv
<1> DEFINE Stands == /\ pc[u] \in {"ladder", "solve"}
                     /\ pc'[u] = "solve" => pc[u] = "solve"
                     /\ UNCHANGED <<ask[u], amount[u], bounds[u], rung[u]>>
<1>0. Stands => Short(u)'
  BY ShortStands
<1>1. ASSUME NEW t \in Task, Call(t) PROVE Stands
  BY <1>1 DEF TypeOK, Call, world
<1>2. ASSUME NEW t \in Task, Snapshot(t) PROVE Stands
  BY <1>2 DEF TypeOK, Snapshot, Stop, world
<1>3. ASSUME NEW t \in Task, FailEarly(t) PROVE Stands
  BY <1>3 DEF TypeOK, FailEarly, Stop, world
<1>4. ASSUME NEW t \in Task, CreateLayer(t) PROVE Stands
  BY <1>4 DEF TypeOK, CreateLayer, Stop
<1>5. ASSUME NEW t \in Task, BuildLayer(t) PROVE Short(u)'
  <2>1. CASE u = t
    BY <1>5, <2>1, ShortByBuild
  <2>2. CASE u # t
    BY <1>0, <1>5, <2>2 DEF TypeOK, BuildLayer
  <2> QED  BY <2>1, <2>2
<1>6. ASSUME NEW t \in Task, FailInLayer(t) PROVE Stands
  BY <1>6 DEF TypeOK, FailInLayer, LeaveLayer, world
<1>7. ASSUME NEW t \in Task, Descend(t) PROVE Short(u)'
  <2>1. CASE u = t
    BY <1>7, <2>1, ShortByDescend
  <2>2. CASE u # t
    BY <1>0, <1>7, <2>2 DEF TypeOK, Descend
  <2> QED  BY <2>1, <2>2
<1>8. ASSUME NEW t \in Task, EndLadder(t) PROVE Stands
  BY <1>8 DEF TypeOK, EndLadder, LeaveLayer, world
<1>9. ASSUME NEW t \in Task, Solve(t) PROVE Stands
  BY <1>9 DEF TypeOK, Solve, LeaveLayer, world
<1>10. ASSUME NEW t \in Task, PartStep(t) PROVE Stands
  BY <1>10 DEF TypeOK, PartStep, Part, world
<1>11. ASSUME NEW t \in Task, Finish(t) PROVE Stands
  BY <1>11 DEF TypeOK, Finish, LeaveLayer, world
<1>12. ASSUME NEW t \in Task, RemoveLayer(t) PROVE Stands
  BY <1>12 DEF TypeOK, RemoveLayer
<1>13. ASSUME Traffic PROVE Stands
  BY <1>13 DEF Traffic
<1>14. ASSUME Restart PROVE Stands
  BY <1>14 DEF TypeOK, Restart
<1>15. ASSUME UNCHANGED vars PROVE Stands
  BY <1>15 DEF vars, world
<1> HIDE DEF Stands
<1> QED
  BY <1>0, <1>1, <1>2, <1>3, <1>4, <1>5, <1>6, <1>7, <1>8, <1>9, <1>10, <1>11,
     <1>12, <1>13, <1>14, <1>15 DEF Next, Running

\* What a bound is worth, and what an amount takes.
LEMMA PackedType ==
    ASSUME NEW m \in Nat, NEW bound \in Nat
    PROVE  /\ Packed(m) \in Nat /\ Packed(m) <= m + Loss(m)
           /\ Drawable(bound, m) \in Nat /\ Drawable(0, m) = 0
<1>1. CASE Quantized(m)
  <2> DEFINE u == FlowUnit(m)
             k == DivCeil(m, u)
  <2>1. u \in Nat \ {0} /\ Loss(m) = u - 1
    BY <1>1, UnitPositive DEF Loss
  <2>2. /\ Packed(m) = k * u /\ Drawable(bound, m) = (bound \div u) * u
        /\ Drawable(0, m) = (0 \div u) * u
    BY <1>1 DEF Packed, Drawable
  <2> HIDE DEF u
  <2>3. k \in Nat /\ u * k <= m + u - 1
    BY <2>1, Ceiling
  <2> HIDE DEF k
  <2>4. k * u \in Nat /\ k * u <= m + (u - 1)
    BY <2>1, <2>3
  <2>5. (bound \div u) * u \in Nat /\ (0 \div u) * u = 0
    BY <2>1, Division
  <2> QED  BY <2>1, <2>2, <2>4, <2>5
<1>2. CASE ~Quantized(m)
  BY <1>2 DEF Packed, Drawable, Loss
<1> QED  BY <1>1, <1>2

\* The budget grows with the amount.
LEMMA MaxfeeMonotone ==
    ASSUME NEW a, IsAsk(a), NEW small \in Nat, NEW large \in Nat, small <= large
    PROVE  Maxfee(a, small) <= Maxfee(a, large)
<1> DEFINE x == small * a.maxfee
           y == large * a.maxfee
<1>1. a.maxfee \in Nat /\ Million \in Nat \ {0}
  BY PlannerAssumption DEF IsAsk
<1>2. x \in Nat /\ y \in Nat /\ x <= y
  BY <1>1
<1>3. /\ Maxfee(a, small) = IF a.budget = "msat" THEN a.maxfee ELSE x \div Million
      /\ Maxfee(a, large) = IF a.budget = "msat" THEN a.maxfee ELSE y \div Million
  BY DEF Maxfee
<1> HIDE DEF x, y
<1>4. x \div Million <= y \div Million
  <2>1. x \div Million \in Nat /\ Million * (x \div Million) <= x
    BY <1>1, <1>2, Division
  <2>2. Million * (x \div Million) <= y
    <3>1. Million * (x \div Million) \in Nat
      BY <1>1, <2>1
    <3> QED  BY <1>2, <2>1, <3>1
  <2> QED  BY <1>1, <1>2, <2>1, <2>2, DivisionLeast
<1> QED  BY <1>1, <1>3, <1>4

\* While our channels stand still, the solver sees of each source what the plan
\* thinks it does, of no other channel anything, and of the mirrors what the clamp
\* has counted.
LEMMA SeenStill ==
    ASSUME TypeOK, PlanInv, LayerInv, NEW t \in Task, pc[t] = "solve", ~Given.live
    PROVE  LET a == ask[t]
               d == Seen(t)
           IN
           /\ d.src \in [Chan -> Nat]
           /\ \A c \in Chans(a.sources) : d.src[c] = bounds[t][c].solverMax
           /\ \A c \in Chan \ Chans(a.sources) : d.src[c] = 0
           /\ SumFunction(d.dst) = DstBound(a, snap[t])
<1> DEFINE a == ask[t]
           l == snap[t]
           content == layers[layer[t]]
           d == Seen(t)
<1>1. /\ IsAsk(a) /\ Plannable(a, l) /\ l = ledger
      /\ l \in [Chan -> ChanRecord] /\ Written(t)
  BY GivenType DEF TypeOK, PlanInv, InLayer, LayerInv
<1>2. /\ d.dst = content.mirrors
      /\ d.src = [c \in Chan |-> IF c \in Ours(l) \ content.outOff
                THEN Least(l[c].spend, content.max[c]) ELSE 0]
  BY <1>1 DEF Seen
<1>3. /\ content.mirrors = [i \in DOMAIN a.dests |-> Mirror(a.dests[i], l)]
      /\ content.outOff = Ours(l) \ Chans(a.sources)
      /\ DOMAIN bounds[t] = Chans(a.sources)
      /\ \A c \in Chans(a.sources) :
            /\ bounds[t][c].solverMax <= l[c].spend
            /\ content.max[c] = IF bounds[t][c].solverMax < l[c].spend
                                THEN bounds[t][c].solverMax ELSE NoCap
  BY <1>1 DEF Written
<1>4. Chans(a.sources) \subseteq Ours(l)
  BY <1>1 DEF Plannable, Usable, Ours
<1>5. SumFunction(d.dst) = DstBound(a, l)
  BY <1>2, <1>3 DEF DstBound, Mirror
<1>6. ASSUME NEW c \in Chans(a.sources)
      PROVE  d.src[c] = bounds[t][c].solverMax /\ d.src[c] \in Nat
  <2> DEFINE b == bounds[t][c]
  <2>1. c \in Chan /\ c \in Ours(l) \ content.outOff
    BY <1>3, <1>4 DEF Ours
  <2>2. b \in BoundRecord
    BY <1>3 DEF TypeOK
  <2>3. l[c].spend \in Nat /\ l[c].spend <= NoCap /\ NoCap \in Nat
    BY <1>1, <2>1, LedgerType, PlannerAssumption
  <2>4. b.solverMax \in Nat
    BY <2>2 DEF BoundRecord
  <2>5. d.src[c] = Least(l[c].spend, content.max[c])
    <3> HIDE DEF content, d
    <3> QED  BY <1>2, <2>1
  <2>6. /\ b.solverMax <= l[c].spend
        /\ content.max[c] = IF b.solverMax < l[c].spend THEN b.solverMax ELSE NoCap
    BY <1>3
  <2> HIDE DEF b, content, d, l
  <2>7. d.src[c] = b.solverMax
    BY <2>3, <2>4, <2>5, <2>6 DEF Least
  <2> QED  BY <2>4, <2>7 DEF b
<1>7. ASSUME NEW c \in Chan \ Chans(a.sources) PROVE d.src[c] = 0
  BY <1>2, <1>3
<1>8. d.src \in [Chan -> Nat]
  <2>1. \A c \in Chan : d.src[c] \in Nat
    BY <1>6, <1>7
  <2> HIDE DEF content, a
  <2> QED  BY <1>2, <2>1
<1> HIDE DEF a, l, d
<1> QED  BY <1>5, <1>6, <1>7, <1>8 DEF a, l, d

\* What a request may draw through its sources adds up to the clamp's bound.
LEMMA BoundsAddUp ==
    ASSUME TypeOK, PlanInv, LayerInv, NEW t \in Task, pc[t] = "solve"
    PROVE  LET a == ask[t]
               f == [c \in Chans(a.sources) |-> bounds[t][c].bound]
           IN
           /\ \A c \in Chans(a.sources) : f[c] \in Nat
           /\ SumFunctionOnSet(f, Chans(a.sources)) = SrcBound(a, snap[t])
<1> DEFINE a == ask[t]
           l == snap[t]
           C == Chans(a.sources)
           S == DOMAIN a.sources
           f == [c \in C |-> bounds[t][c].bound]
           g == [i \in S |-> Capped(a.sources[i], l[a.sources[i].chan].spend)]
           r == [i \in S |-> a.sources[i].chan]
<1>1. /\ IsAsk(a) /\ Valid(a) /\ l \in [Chan -> ChanRecord] /\ Written(t)
  BY GivenType DEF TypeOK, PlanInv, InLayer, LayerInv
<1>2. IsSpecs(a.sources) /\ NoDuplicate(a.sources)
  BY <1>1 DEF IsAsk, Valid
<1>3. /\ DOMAIN bounds[t] = C
      /\ \A c \in C : bounds[t][c].bound = Least(CapOf(a, c), l[c].spend)
  BY <1>1 DEF Written
<1>4. \A c \in C : f[c] \in Nat
  BY <1>3 DEF TypeOK, BoundRecord
<1>5. ASSUME NEW i \in S PROVE g[i] \in Nat /\ f[r[i]] = g[i]
  <2> DEFINE c == a.sources[i].chan
             max == a.sources[i].max
  <2>1. c \in Chan /\ c \in C /\ max \in Nat
    BY <1>2, SpecsType
  <2>2. l[c].spend \in Nat
    BY <1>1, <2>1, LedgerType
  <2>3. CapOf(a, c) = max
    BY <1>2, CapIsTheSpecs
  <2>4. f[r[i]] = Least(max, l[c].spend)
    BY <1>3, <2>1, <2>3
  <2>5. g[i] = Least(l[c].spend, max)
    BY DEF Capped
  <2> HIDE DEF c, max, g, f, l
  <2> QED  BY <2>1, <2>2, <2>4, <2>5 DEF Least
<1>6. IsFiniteSet(S) /\ \A i, j \in S : r[i] = r[j] => i = j
  BY <1>2, SpecsType, SpecsApart
<1>7. C = {r[i] : i \in S}
  BY DEF Chans
<1>8. SrcBound(a, l) = SumFunctionOnSet(g, S)
  BY DEF SrcBound, SumFunction
<1> HIDE DEF a, l, C, S, f, g, r
<1>9. SumFunctionOnSet(f, {r[i] : i \in S}) = SumFunctionOnSet(g, S)
  BY <1>5, <1>6, SumRenamed
<1> QED  BY <1>4, <1>7, <1>8, <1>9 DEF a, l, C, f

\* The asks of every case are of few sources.
AsksAreFew == \A name \in DOMAIN Cases : \A a \in Cases[name].asks :
                FewSources(Len(a.sources))

\* The bounds that are written leave room for a rung.
LEMMA FitsByBounds ==
    ASSUME AsksAreFew, IInv, BoundsInv
    PROVE  RungFits
<1> SUFFICES ASSUME NEW t \in Task, ~Given.live, pc[t] = "solve"
             PROVE  LET seen == Seen(t)
                        units == [c \in Chan |->
                                    Drawable(seen.src[c], rung[t].amount)]
                    IN
                    /\ Packed(rung[t].amount) <= SumFunction(units)
                    /\ rung[t].amount + rung[t].maxfee <= SumFunction(seen.src)
                    /\ rung[t].amount <= SumFunction(seen.dst)
  BY DEF RungFits
<1>0. TypeOK /\ PlanInv /\ RungInv /\ LayerInv
  BY DEF IInv
<1> DEFINE a == ask[t]
           l == snap[t]
           C == Chans(a.sources)
           n == Len(a.sources)
           m == amount[t]
           step == rung[t].step
           x == rung[t].amount
           src == Seen(t).src
           units == [c \in Chan |-> Drawable(src[c], x)]
           f == [c \in C |-> bounds[t][c].bound]
           lost == LossUpTo(m, step) + Loss(x)
<1>1. /\ IsAsk(a) /\ Valid(a) /\ l \in [Chan -> ChanRecord]
      /\ a \in Given.asks /\ case \in DOMAIN Cases
      /\ m = Clamp(a, l) /\ m > 0 /\ m \in Nat
  BY <1>0, GivenType DEF TypeOK, PlanInv, InLayer
<1>2. /\ n \in Nat /\ Cardinality(C) = n /\ C \subseteq Chan
      /\ IsFiniteSet(Chan) /\ IsFiniteSet(C) /\ FewSources(n)
  <2>1. n \in Nat /\ C \subseteq Chan /\ Cardinality(C) = n
    BY <1>1, SpecsType DEF IsAsk, Valid, NoDuplicate
  <2>2. IsFiniteSet(Chan) /\ IsFiniteSet(C)
    BY <2>1, FS_Subset, PlannerAssumption
  <2>3. FewSources(n)
    BY <1>1 DEF AsksAreFew, Given
  <2> QED  BY <2>1, <2>2, <2>3
<1>3. Short(t)
  BY DEF BoundsInv
<1>4. /\ step \in 1..5 /\ x = Portion(m, step) /\ x \in Nat
      /\ \A c \in C :
            /\ bounds[t][c].bound
                    <= bounds[t][c].solverMax + LossUpTo(m, step)
            /\ bounds[t][c].solverMax
                    <= Drawable(bounds[t][c].solverMax, x) + Loss(x)
  BY <1>1, <1>3, Portions DEF Short
<1>5. /\ LossUpTo(m, step) \in Nat /\ Loss(x) \in Nat /\ lost \in Nat
  <2>1. m \in Nat /\ step \in 0..5 /\ x \in Nat
    BY <1>1, <1>4
  <2> HIDE DEF m, step, x
  <2>2. LossUpTo(m, step) \in Nat /\ Loss(x) \in Nat
    BY <2>1, LossType, LossesType
  <2> QED  BY <2>2
<1>6. /\ src \in [Chan -> Nat]
      /\ \A c \in C : src[c] = bounds[t][c].solverMax
      /\ \A c \in Chan \ C : src[c] = 0
      /\ SumFunction(Seen(t).dst) = DstBound(a, l)
  BY <1>0, SeenStill
<1>7. /\ \A c \in C : f[c] \in Nat
      /\ SumFunctionOnSet(f, C) = SrcBound(a, l)
  BY <1>0, BoundsAddUp
<1>8. /\ SrcBound(a, l) \in Nat /\ DstBound(a, l) \in Nat
      /\ m <= DstBound(a, l)
      /\ m + Maxfee(a, m) + UnitHeadroom(n, m) <= SrcBound(a, l)
  BY <1>1, BoundsType, ClampFits DEF Clamp
<1>9. /\ \A c \in Chan : src[c] \in Nat /\ units[c] \in Nat
      /\ \A c \in Chan \ C : units[c] = 0
      /\ \A c \in C : f[c] <= units[c] + lost /\ f[c] <= src[c] + lost
  <2>1. ASSUME NEW c \in Chan PROVE src[c] \in Nat /\ units[c] \in Nat
    BY <1>4, <1>6, PackedType
  <2>2. ASSUME NEW c \in Chan \ C PROVE units[c] = 0
    BY <1>4, <1>6, PackedType
  <2>3. ASSUME NEW c \in C PROVE f[c] <= units[c] + lost /\ f[c] <= src[c] + lost
    <3>1. c \in Chan /\ src[c] \in Nat /\ units[c] \in Nat /\ f[c] \in Nat
      BY <1>2, <1>7, <2>1
    <3>2. f[c] <= src[c] + LossUpTo(m, step) /\ src[c] <= units[c] + Loss(x)
      BY <1>4, <1>6, <3>1
    <3> HIDE DEF f, src, units, x, step, m
    <3> QED  BY <1>5, <3>1, <3>2
  <2> QED  BY <2>1, <2>2, <2>3
<1>10. DOMAIN src = Chan /\ DOMAIN units = Chan
  BY <1>6
<1> HIDE DEF a, l, C, n, m, step, x, src, units, f, lost
<1>11. /\ SumFunction(units) = SumFunctionOnSet(units, C)
       /\ SumFunction(src) = SumFunctionOnSet(src, C)
  <2>1. SumFunctionOnSet(units, Chan) = SumFunctionOnSet(units, C)
    BY <1>2, <1>9, SumWithoutZeros
  <2>2. SumFunctionOnSet(src, Chan) = SumFunctionOnSet(src, C)
    BY <1>2, <1>6, <1>9, SumWithoutZeros
  <2> QED  BY <1>10, <2>1, <2>2 DEF SumFunction
<1>12. /\ SumFunctionOnSet(units, C) \in Nat /\ SumFunctionOnSet(src, C) \in Nat
  BY <1>2, <1>9, SumNat
<1>13. SrcBound(a, l) <= SumFunctionOnSet(units, C) + n * lost
  <2>1. \A c \in C : f[c] \in Nat /\ units[c] \in Nat /\ f[c] <= units[c] + lost
    BY <1>2, <1>7, <1>9
  <2> QED  BY <1>2, <1>5, <1>7, <2>1, SumWithLoss
<1>14. SrcBound(a, l) <= SumFunctionOnSet(src, C) + n * lost
  <2>1. \A c \in C : f[c] \in Nat /\ src[c] \in Nat /\ f[c] <= src[c] + lost
    BY <1>2, <1>7, <1>9
  <2> QED  BY <1>2, <1>5, <1>7, <2>1, SumWithLoss
<1>15. x + Loss(x) + n * lost <= m + UnitHeadroom(n, m)
  BY <1>1, <1>2, <1>4, LossesFit DEF lost
<1>16. n * lost \in Nat /\ UnitHeadroom(n, m) \in Nat
  <2>1. m <= m
    BY <1>1
  <2> QED  BY <1>1, <1>2, <1>5, <2>1, HeadroomMonotone
<1>17. x <= m
  BY <1>0, <1>4, RungAmountType DEF TypeOK, Portion, RungAmount, Ladder, m
<1>18. /\ Packed(x) \in Nat /\ Packed(x) <= x + Loss(x)
  BY <1>4, PackedType
<1>19. /\ Maxfee(a, x) \in Nat /\ Maxfee(a, m) \in Nat
       /\ Maxfee(a, x) <= Maxfee(a, m)
  BY <1>1, <1>4, <1>17, MaxfeeType, MaxfeeMonotone
<1>20. rung[t].maxfee = Maxfee(a, x)
  BY <1>0 DEF RungInv, a, x
<1>21. Packed(x) <= SumFunction(units)
  BY <1>1, <1>4, <1>5, <1>8, <1>11, <1>12, <1>13, <1>15, <1>16, <1>18, <1>19
<1>22. x + Maxfee(a, x) <= SumFunction(src)
  BY <1>1, <1>4, <1>5, <1>8, <1>11, <1>12, <1>14, <1>15, <1>16, <1>19
<1>23. x <= SumFunction(Seen(t).dst)
  BY <1>1, <1>4, <1>6, <1>8, <1>17
<1> QED  BY <1>20, <1>21, <1>22, <1>23 DEF x, src, units

\* Every rung is feasible by local arithmetic (spec.rs:169-176), though the bounds
\* that the rungs before it have lowered are not raised again: for asks of as many
\* sources as FewSources allows.
THEOREM RungsFit ==
    ASSUME AsksAreFew
    PROVE  Spec => []RungFits
<1>1. Init => BoundsInv
  BY DEF Init, BoundsInv
<1>2. IInv /\ IInv' /\ BoundsInv /\ [Next]_vars => BoundsInv'
  BY BoundsStep DEF IInv
<1>3. IInv /\ BoundsInv => RungFits
  BY FitsByBounds
<1> QED  BY <1>1, <1>2, <1>3, Inductive, PTL DEF Spec

=============================================================================
