--------------------------- MODULE RetriesProofs ---------------------------
(***************************************************************************)
(* Why the round loop is not worn down by what it has tried before: every  *)
(* round of liquidity failures makes progress that can be counted, for     *)
(* every set of paths that may share channels, every amount, fragment and  *)
(* number of parts.                                                        *)
(***************************************************************************)
EXTENDS Retries, Sums

-----------------------------------------------------------------------------
(* The inductive invariant.                                                *)

IsPart(part) == part.path \in Path /\ part.msat \in Nat /\ part.msat >= Fragment

TypeInv ==
    /\ pc \in {"top", "execute", "ended"} /\ round \in 0..1
    /\ worn \in Nat /\ lost \in BOOLEAN
    /\ committed \in Nat /\ committed <= Amount
    /\ DOMAIN failed \subseteq Path
    /\ \A p \in DOMAIN failed :
            failed[p] \in Nat /\ Fragment <= failed[p] /\ failed[p] <= Amount
    /\ \A c \in Chan : known[c] \in Nat
    /\ round = 0 => pc = "top" /\ DOMAIN failed = {}

\* What is executed is a plan of what remains and of what the channels are
\* believed to carry, which does not only retry failures.
PlanInv ==
    pc = "execute" =>
        /\ \E n \in 0..MaxParts : DOMAIN plan = 1..n
        /\ \A i \in DOMAIN plan : IsPart(plan[i])
        /\ SumFunction(Msats(plan)) <= Remaining
        /\ \A c \in Chan : LoadOn(plan, c) <= known[c]
        /\ \E i \in DOMAIN plan :
            \/ plan[i].path \notin DOMAIN failed
            \/ plan[i].msat < Less(failed[plan[i].path], Fragment)

\* While nothing is lost, the solver knows of each path that has failed a channel
\* that carries less than what failed.
FailedInv ==
    ~lost => \A p \in DOMAIN failed : \E c \in On[p] : known[c] < failed[p]

\* How far the failure of a path has come down, in steps of more than a fragment.
LevelOf(f, p) ==
    IF p \in DOMAIN f THEN 1 + (Amount - f[p]) \div (Fragment + 1) ELSE 0

Levels(f) == [p \in Path |-> LevelOf(f, p)]

\* The progress of the loop: fragments moved, and steps that paths came down.
Progress(moved, f) == moved \div Fragment + SumFunctionOnSet(Levels(f), Path)

WornInv == worn <= WornBound /\ (~lost => worn <= Progress(committed, failed))

IInv == TypeInv /\ PlanInv /\ FailedInv /\ WornInv

-----------------------------------------------------------------------------
(* Plans and sums.                                                          *)

\* Integer division.
LEMMA Quotient ==
    ASSUME NEW a \in Nat, NEW b \in Nat \ {0}
    PROVE  /\ a \div b \in Nat
           /\ b * (a \div b) <= a
           /\ a < b * (a \div b) + b
  OBVIOUS

\* A quotient grows with its dividend, by one at least when that grows by a divisor.
LEMMA QuotientGrows ==
    ASSUME NEW a \in Nat, NEW b \in Nat, NEW d \in Nat \ {0}, a <= b
    PROVE  /\ a \div d <= b \div d
           /\ a + d <= b => a \div d + 1 <= b \div d
<1> DEFINE x == a \div d
           y == b \div d
<1>1. x \in Nat /\ d * x <= a /\ y \in Nat /\ b < d * y + d
  BY Quotient
<1> HIDE DEF x, y
<1>2. d * x < d * (y + 1)
  BY <1>1
<1>3. x < y + 1
  BY <1>1, <1>2
<1>4. a + d <= b => x + 1 <= y
  <2> SUFFICES ASSUME a + d <= b PROVE x + 1 <= y
    OBVIOUS
  <2>1. d * (x + 1) < d * (y + 1)
    <3>1. d * (x + 1) = d * x + d /\ d * (y + 1) = d * y + d
      BY <1>1
    <3>2. d * x \in Nat /\ d * y \in Nat
      BY <1>1
    <3> QED  BY <1>1, <3>1, <3>2
  <2> QED  BY <1>1, <2>1
<1> QED  BY <1>1, <1>3, <1>4 DEF x, y

\* The parts of the plan that is executed.
LEMMA PlanType ==
    ASSUME TypeInv, PlanInv, pc = "execute"
    PROVE  /\ IsFiniteSet(DOMAIN plan)
           /\ \A T \in SUBSET DOMAIN plan : T # {} =>
                \E i \in T : \A j \in T : j <= i
           /\ \A i \in DOMAIN plan :
                /\ plan[i].path \in Path /\ plan[i].msat \in Nat
                /\ plan[i].msat >= Fragment /\ Msats(plan)[i] = plan[i].msat
<1>1. PICK n \in 0..MaxParts : DOMAIN plan = 1..n
  BY DEF PlanInv
<1>2. n \in Nat /\ n \in Int /\ 1 \in Int
  BY <1>1, RetriesAssumption
<1>3. IsFiniteSet(1..n)
  BY <1>2, FS_Interval
<1>4. \A T \in SUBSET (1..n) : T # {} => \E i \in T : \A j \in T : j <= i
  BY <1>2, Largest
<1>5. \A i \in DOMAIN plan : IsPart(plan[i]) /\ Msats(plan)[i] = plan[i].msat
  BY DEF PlanInv, Msats
<1> QED  BY <1>1, <1>3, <1>4, <1>5 DEF IsPart

\* A part, and two parts together, are no more than a channel of theirs is believed
\* to carry.
LEMMA PartsFit ==
    ASSUME TypeInv, PlanInv, pc = "execute", NEW c \in Chan,
           NEW i \in DOMAIN plan, c \in On[plan[i].path]
    PROVE  /\ plan[i].msat <= known[c]
           /\ \A j \in DOMAIN plan : j # i /\ c \in On[plan[j].path] =>
                plan[i].msat + plan[j].msat <= known[c]
<1> DEFINE S == DOMAIN plan
           f == [k \in S |-> IF c \in On[plan[k].path] THEN plan[k].msat ELSE 0]
<1>1. IsFiniteSet(S) /\ \A k \in S : f[k] \in Nat
  BY PlanType
<1>2. SumFunctionOnSet(f, S) <= known[c]
  BY DEF PlanInv, LoadOn, SumFunction
<1>3. SumFunctionOnSet(f, S) \in Nat /\ known[c] \in Nat
  BY <1>1, SumNat DEF TypeInv
<1>4. f[i] = plan[i].msat /\ plan[i].msat \in Nat
  BY PlanType
<1>5. ASSUME NEW j \in S, j # i, c \in On[plan[j].path]
      PROVE  plan[i].msat + plan[j].msat <= known[c]
  <2>1. f[j] = plan[j].msat /\ plan[j].msat \in Nat
    BY <1>5, PlanType
  <2> HIDE DEF f
  <2>2. f[i] + f[j] <= SumFunctionOnSet(f, S)
    BY <1>1, <1>5, SumOverPair
  <2> QED  BY <1>2, <1>3, <1>4, <2>1, <2>2
<1>6. plan[i].msat <= known[c]
  <2> HIDE DEF f
  <2>1. f[i] <= SumFunctionOnSet(f, S)
    BY <1>1, SumOverOne
  <2> QED  BY <1>2, <1>3, <1>4, <2>1
<1> QED  BY <1>5, <1>6

-----------------------------------------------------------------------------
(* What an execution leaves behind.                                         *)

\* What the request has moved keeps to its amount, and a part that moves is a
\* fragment or more.
LEMMA MovedType ==
    ASSUME TypeInv, PlanInv, pc = "execute", NEW fates
    PROVE  LET moved == SumFunctionOnSet(Msats(plan), Moved(fates)) IN
           /\ moved \in Nat
           /\ committed + moved <= Amount
           /\ \A i \in DOMAIN plan : fates[i] = "moves" => moved >= Fragment
<1> DEFINE S == DOMAIN plan
           M == Moved(fates)
           f == Msats(plan)
           moved == SumFunctionOnSet(f, M)
<1>1. IsFiniteSet(S) /\ \A i \in S : f[i] \in Nat /\ f[i] >= Fragment
  BY PlanType
<1>2. M \in SUBSET S /\ IsFiniteSet(M)
  BY <1>1, FS_Subset DEF Moved
<1>3. DOMAIN f = S
  BY DEF Msats
<1>4. SumFunctionOnSet(f, S) <= Remaining
  BY <1>3 DEF PlanInv, SumFunction
<1> HIDE DEF f
<1>5. moved \in Nat /\ moved <= SumFunctionOnSet(f, S) /\ SumFunctionOnSet(f, S) \in Nat
  BY <1>1, <1>2, SumNat, SumOfPart
<1>6. committed + moved <= Amount
  <2>1. /\ committed \in Nat /\ Amount \in Nat /\ committed <= Amount
        /\ Remaining = IF Amount > committed THEN Amount - committed ELSE 0
    BY RetriesAssumption DEF TypeInv, Remaining, Less
  <2> HIDE DEF moved, M, S
  <2> QED  BY <1>4, <1>5, <2>1
<1>7. ASSUME NEW i \in S, fates[i] = "moves" PROVE moved >= Fragment
  <2>1. i \in M
    BY <1>7 DEF Moved
  <2>2. \A j \in M : f[j] \in Nat
    BY <1>1, <1>2
  <2>3. f[i] <= moved
    BY <1>2, <2>1, <2>2, SumOverOne
  <2>4. f[i] \in Nat /\ f[i] >= Fragment /\ Fragment \in Nat
    BY <1>1, RetriesAssumption
  <2> HIDE DEF moved
  <2> QED  BY <1>5, <2>3, <2>4
<1> QED  BY <1>5, <1>6, <1>7 DEF f

\* The last failure of a path is kept, and the failures of the other paths.
LEMMA FailedAfterType ==
    ASSUME TypeInv, PlanInv, pc = "execute", NEW fates, NEW p
    PROVE  LET after == FailedAfter(fates) IN
           /\ p \in DOMAIN after <=>
                p \in DOMAIN failed \/ \E i \in Starved(fates) : plan[i].path = p
           /\ p \in DOMAIN after =>
                \/ /\ p \in DOMAIN failed /\ after[p] = failed[p]
                   /\ ~\E i \in Starved(fates) : plan[i].path = p
                \/ \E j \in Starved(fates) :
                        plan[j].path = p /\ after[p] = plan[j].msat
<1> DEFINE S == Starved(fates)
           after == FailedAfter(fates)
           now == {i \in S : plan[i].path = p}
           last == CHOOSE i \in now : \A j \in now : j <= i
<1>1. DOMAIN after = DOMAIN failed \cup {plan[i].path : i \in S}
  BY DEF FailedAfter
<1>2. p \in DOMAIN after =>
        after[p] = IF now = {} THEN failed[p] ELSE plan[last].msat
  BY <1>1 DEF FailedAfter
<1>3. now # {} => last \in now
  <2>1. now \in SUBSET DOMAIN plan
    BY DEF Starved
  <2>2. now # {} => \E i \in now : \A j \in now : j <= i
    BY <2>1, PlanType
  <2> HIDE DEF now
  <2> QED  BY <2>2
<1> HIDE DEF after, last
<1> QED  BY <1>1, <1>2, <1>3 DEF after

\* A channel is believed to carry no more than before, and less than what failed
\* there and was taken.
LEMMA BelievedType ==
    ASSUME TypeInv, PlanInv, pc = "execute", NEW fates,
           NEW taken \in SUBSET Starved(fates), NEW c \in Chan
    PROVE  LET now == Believed(fates, taken)[c] IN
           /\ now \in Nat /\ now <= known[c]
           /\ \A j \in taken : fates[j] = c => now < plan[j].msat
<1> DEFINE caps == {Less(plan[i].msat, 1) : i \in {j \in taken : fates[j] = c}}
           T == {known[c]} \cup caps
           now == Believed(fates, taken)[c]
<1>1. \A j \in taken : plan[j].msat \in Nat /\ plan[j].msat > 0
  <2>1. Fragment \in Nat /\ Fragment > 0
    BY RetriesAssumption
  <2> QED  BY <2>1, PlanType DEF Starved
<1>2. T \in SUBSET Nat /\ T # {}
  BY <1>1 DEF Less, TypeInv
<1>3. now = CHOOSE m \in T : \A n \in T : m <= n
  BY DEF Believed
<1>4. known[c] \in T /\ \A j \in taken : fates[j] = c => Less(plan[j].msat, 1) \in T
  OBVIOUS
<1> HIDE DEF T, now
<1>5. now \in T /\ \A n \in T : now <= n
  <2>1. \E m \in T : \A n \in T : m <= n
    BY <1>2, Smallest
  <2> QED  BY <1>3, <2>1
<1>6. ASSUME NEW j \in taken, fates[j] = c PROVE now < plan[j].msat
  <2>1. now <= Less(plan[j].msat, 1) /\ now \in Nat
    BY <1>2, <1>4, <1>5, <1>6
  <2>2. Less(plan[j].msat, 1) = IF plan[j].msat > 1 THEN plan[j].msat - 1 ELSE 0
    BY DEF Less
  <2>3. plan[j].msat \in Nat /\ plan[j].msat > 0
    BY <1>1
  <2> QED  BY <2>1, <2>2, <2>3
<1> QED  BY <1>2, <1>4, <1>5, <1>6 DEF now

-----------------------------------------------------------------------------
(* Progress.                                                                *)

\* A level is a number, which the bound on the rounds counts.
LEMMA LevelType ==
    ASSUME NEW f, NEW p \in Path,
           p \in DOMAIN f => f[p] \in Nat /\ Fragment <= f[p] /\ f[p] <= Amount
    PROVE  /\ LevelOf(f, p) \in Nat
           /\ LevelOf(f, p) <= 1 + Less(Amount, Fragment) \div (Fragment + 1)
<1> DEFINE d == Fragment + 1
           a == Amount - f[p]
           b == Less(Amount, Fragment)
<1>1. d \in Nat \ {0} /\ Amount \in Nat /\ Fragment \in Nat
  BY RetriesAssumption
<1>2. b \in Nat /\ b \div d \in Nat
  <2>1. b \in Nat
    BY <1>1 DEF Less
  <2> HIDE DEF b, d
  <2> QED  BY <1>1, <2>1, Quotient
<1>3. CASE p \in DOMAIN f
  <2>1. a \in Nat /\ a <= b
    BY <1>1, <1>3 DEF Less
  <2>2. LevelOf(f, p) = 1 + a \div d
    BY <1>3 DEF LevelOf
  <2> HIDE DEF a, b, d
  <2>3. a \div d \in Nat /\ a \div d <= b \div d
    BY <1>1, <1>2, <2>1, Quotient, QuotientGrows
  <2> QED  BY <1>2, <2>2, <2>3 DEF b, d
<1>4. CASE p \notin DOMAIN f
  <2>1. LevelOf(f, p) = 0
    BY <1>4 DEF LevelOf
  <2> HIDE DEF b, d
  <2> QED  BY <1>2, <2>1 DEF b, d
<1> QED  BY <1>3, <1>4

\* All the progress there can be is the bound on the rounds.
LEMMA ProgressBounded ==
    ASSUME NEW moved \in Nat, moved <= Amount, NEW f,
           \A p \in DOMAIN f : f[p] \in Nat /\ Fragment <= f[p] /\ f[p] <= Amount
    PROVE  /\ \A p \in Path : Levels(f)[p] \in Nat
           /\ Progress(moved, f) \in Nat
           /\ WornBound \in Nat /\ Progress(moved, f) <= WornBound
<1> DEFINE most == 1 + Less(Amount, Fragment) \div (Fragment + 1)
           g == [p \in Path |-> most]
<1>1. /\ IsFiniteSet(Path) /\ Amount \in Nat /\ Fragment \in Nat \ {0}
      /\ Cardinality(Path) \in Nat
  BY RetriesAssumption, FS_CardinalityType
<1>2. most \in Nat
  <2>1. Less(Amount, Fragment) \in Nat /\ Fragment + 1 \in Nat \ {0}
    BY <1>1 DEF Less
  <2>2. Less(Amount, Fragment) \div (Fragment + 1) \in Nat
    BY <2>1, Quotient
  <2> QED  BY <2>2
<1>3. \A p \in Path : Levels(f)[p] \in Nat /\ Levels(f)[p] <= most
  BY LevelType DEF Levels
<1> HIDE DEF most
<1>4. SumFunctionOnSet(Levels(f), Path) <= SumFunctionOnSet(g, Path)
  <2>1. \A p \in Path : g[p] \in Nat /\ Levels(f)[p] <= g[p]
    BY <1>2, <1>3
  <2> HIDE DEF g
  <2> QED  BY <1>1, <1>3, <2>1, SumMonotone
<1>5. SumFunctionOnSet(g, Path) = Cardinality(Path) * most
  <2>1. \A p \in Path : g[p] = most
    OBVIOUS
  <2> HIDE DEF g
  <2> QED  BY <1>1, <1>2, <2>1, SumOfEqual
<1>6. SumFunctionOnSet(Levels(f), Path) \in Nat
  BY <1>1, <1>3, SumNat
<1>7. /\ moved \div Fragment \in Nat /\ Amount \div Fragment \in Nat
      /\ moved \div Fragment <= Amount \div Fragment
  BY <1>1, Quotient, QuotientGrows
<1>8. Cardinality(Path) * most \in Nat
  BY <1>1, <1>2
<1>9. WornBound = Amount \div Fragment + Cardinality(Path) * most
  BY DEF WornBound, most
<1> QED  BY <1>3, <1>4, <1>5, <1>6, <1>7, <1>8, <1>9 DEF Progress

\* No part is more than the request.
LEMMA PartsBounded ==
    ASSUME TypeInv, PlanInv, pc = "execute", NEW i \in DOMAIN plan
    PROVE  plan[i].msat <= Amount
<1> DEFINE f == Msats(plan)
           S == DOMAIN plan
<1>1. /\ IsFiniteSet(S) /\ \A j \in S : f[j] \in Nat
      /\ f[i] = plan[i].msat
  BY PlanType
<1>2. SumFunctionOnSet(f, S) <= Remaining
  BY DEF PlanInv, SumFunction, Msats
<1>3. Remaining \in Nat /\ Remaining <= Amount
  BY RetriesAssumption DEF TypeInv, Remaining, Less
<1> HIDE DEF f
<1>4. f[i] <= SumFunctionOnSet(f, S) /\ SumFunctionOnSet(f, S) \in Nat
  BY <1>1, SumOverOne, SumNat
<1> QED  BY <1>1, <1>2, <1>3, <1>4, RetriesAssumption

\* What failed is of the type that failures have.
LEMMA FailuresType ==
    ASSUME TypeInv, PlanInv, pc = "execute", NEW fates
    PROVE  LET after == FailedAfter(fates) IN
           /\ DOMAIN after \subseteq Path
           /\ \A p \in DOMAIN after :
                after[p] \in Nat /\ Fragment <= after[p] /\ after[p] <= Amount
<1> DEFINE after == FailedAfter(fates)
<1> SUFFICES ASSUME NEW p \in DOMAIN after
             PROVE  /\ p \in Path
                    /\ after[p] \in Nat /\ Fragment <= after[p] /\ after[p] <= Amount
  OBVIOUS
<1>1. \/ p \in DOMAIN failed /\ after[p] = failed[p]
      \/ \E j \in Starved(fates) : plan[j].path = p /\ after[p] = plan[j].msat
  BY FailedAfterType
<1> HIDE DEF after
<1>2. CASE p \in DOMAIN failed /\ after[p] = failed[p]
  BY <1>2 DEF TypeInv
<1>3. ASSUME NEW j \in Starved(fates), plan[j].path = p, after[p] = plan[j].msat
      PROVE  /\ p \in Path
             /\ after[p] \in Nat /\ Fragment <= after[p] /\ after[p] <= Amount
  <2>1. j \in DOMAIN plan
    BY DEF Starved
  <2>2. plan[j].path \in Path /\ plan[j].msat \in Nat /\ plan[j].msat >= Fragment
    BY <2>1, PlanType
  <2>3. plan[j].msat <= Amount
    BY <2>1, PartsBounded
  <2>4. Fragment \in Nat
    BY RetriesAssumption
  <2> QED  BY <1>3, <2>2, <2>3, <2>4
<1> QED  BY <1>1, <1>2, <1>3

\* While nothing is lost, the failures of a path come down: a part can only fail
\* under what failed before, and one that does not only retry, or another on its
\* path beside it, fails under it by more than a fragment.
LEMMA LevelsRise ==
    ASSUME IInv, ~lost, pc = "execute", NEW fates,
           \A i \in DOMAIN plan : fates[i] \in Fates(plan[i])
    PROVE  LET after == FailedAfter(fates) IN
           /\ \A p \in DOMAIN after : \E c \in On[p] :
                Believed(fates, Starved(fates))[c] < after[p]
           /\ \A p \in Path : LevelOf(failed, p) <= LevelOf(after, p)
           /\ \A i \in Starved(fates) :
                LET p == plan[i].path IN
                \/ p \notin DOMAIN failed
                \/ plan[i].msat < Less(failed[p], Fragment)
                => LevelOf(failed, p) + 1 <= LevelOf(after, p)
<1> DEFINE after == FailedAfter(fates)
           S == Starved(fates)
           d == Fragment + 1
<1>0. TypeInv /\ PlanInv /\ FailedInv
  BY DEF IInv
<1>1. /\ d \in Nat \ {0} /\ Fragment \in Nat \ {0} /\ Amount \in Nat
      /\ On \in [Path -> SUBSET Chan] /\ "moves" \notin Chan /\ "other" \notin Chan
  BY RetriesAssumption
<1>2. ASSUME NEW j \in S
      PROVE  /\ j \in DOMAIN plan /\ fates[j] \in On[plan[j].path]
             /\ plan[j].path \in Path /\ plan[j].msat \in Nat
             /\ plan[j].msat >= Fragment
             /\ plan[j].msat <= Amount
  <2>1. j \in DOMAIN plan /\ fates[j] \in Chan
    BY DEF Starved
  <2>2. fates[j] \in On[plan[j].path]
    BY <1>1, <2>1 DEF Fates
  <2> QED  BY <1>0, <2>1, <2>2, PlanType, PartsBounded
<1>3. \A p \in DOMAIN failed : \E c \in On[p] : known[c] < failed[p]
  BY <1>0 DEF FailedInv
<1>4. /\ DOMAIN failed \subseteq Path
      /\ \A p \in DOMAIN failed :
            failed[p] \in Nat /\ Fragment <= failed[p] /\ failed[p] <= Amount
  BY <1>0 DEF TypeInv
<1>5. /\ DOMAIN after \subseteq Path
      /\ \A p \in DOMAIN after :
            after[p] \in Nat /\ Fragment <= after[p] /\ after[p] <= Amount
  BY <1>0, FailuresType
<1>6. \A p : p \in DOMAIN failed \/ (\E i \in S : plan[i].path = p)
                => p \in DOMAIN after
  BY <1>0, FailedAfterType
<1>7. \A p \in DOMAIN after :
        \/ /\ p \in DOMAIN failed /\ after[p] = failed[p]
           /\ ~\E i \in S : plan[i].path = p
        \/ \E j \in S : plan[j].path = p /\ after[p] = plan[j].msat
  BY <1>0, FailedAfterType
<1> HIDE DEF after, S, d
<1>8. ASSUME NEW p \in DOMAIN after
      PROVE  \E c \in On[p] : Believed(fates, S)[c] < after[p]
  <2>1. CASE p \in DOMAIN failed /\ after[p] = failed[p]
    <3>1. PICK c \in On[p] : known[c] < failed[p]
      BY <1>3, <2>1
    <3>2. c \in Chan
      BY <1>1, <1>5
    <3>3. /\ Believed(fates, S)[c] \in Nat /\ Believed(fates, S)[c] <= known[c]
      BY <1>0, <3>2, BelievedType DEF S
    <3>4. known[c] \in Nat
      BY <1>0, <3>2 DEF TypeInv
    <3> QED  BY <1>5, <2>1, <3>1, <3>3, <3>4
  <2>2. ASSUME NEW j \in S, plan[j].path = p, after[p] = plan[j].msat
        PROVE  \E c \in On[p] : Believed(fates, S)[c] < after[p]
    <3>1. fates[j] \in On[p] /\ fates[j] \in Chan
      BY <1>1, <1>2, <2>2
    <3>2. Believed(fates, S)[fates[j]] < plan[j].msat
      BY <1>0, <3>1, BelievedType DEF S
    <3> QED  BY <2>2, <3>1, <3>2
  <2> QED  BY <1>7, <2>1, <2>2
\* A part of a path that has failed is under what failed, and so are two.
<1>9. ASSUME NEW p \in DOMAIN failed, NEW i \in S, NEW j \in S,
             plan[i].path = p, plan[j].path = p
      PROVE  /\ plan[j].msat < failed[p]
             /\ i # j => plan[i].msat + plan[j].msat < failed[p]
  <2>1. PICK c \in On[p] : known[c] < failed[p]
    BY <1>3
  <2>2. c \in Chan /\ known[c] \in Nat
    BY <1>0, <1>1, <1>4 DEF TypeInv
  <2>3. plan[j].msat <= known[c]
    BY <1>0, <1>2, <1>9, <2>1, <2>2, PartsFit
  <2>4. i # j => plan[i].msat + plan[j].msat <= known[c]
    BY <1>0, <1>2, <1>9, <2>1, <2>2, PartsFit
  <2> QED  BY <1>2, <1>4, <2>1, <2>2, <2>3, <2>4
<1>10. ASSUME NEW p \in Path PROVE LevelOf(failed, p) <= LevelOf(after, p)
  <2>1. CASE p \notin DOMAIN failed
    BY <1>5, <2>1, LevelType DEF LevelOf
  <2>2. CASE p \in DOMAIN failed
    <3>1. p \in DOMAIN after /\ after[p] <= failed[p]
      <4>1. p \in DOMAIN after
        BY <1>6, <2>2
      <4>2. after[p] <= failed[p]
        BY <1>2, <1>4, <1>7, <1>9, <2>2, <4>1
      <4> QED  BY <4>1, <4>2
    <3> DEFINE a == Amount - failed[p]
               b == Amount - after[p]
    <3>2. a \in Nat /\ b \in Nat /\ a <= b
      BY <1>1, <1>4, <1>5, <2>2, <3>1
    <3>3. LevelOf(failed, p) = 1 + a \div d /\ LevelOf(after, p) = 1 + b \div d
      BY <2>2, <3>1 DEF LevelOf, d
    <3> HIDE DEF a, b
    <3>4. a \div d \in Nat /\ b \div d \in Nat /\ a \div d <= b \div d
      BY <1>1, <3>2, Quotient, QuotientGrows
    <3> QED  BY <3>3, <3>4
  <2> QED  BY <2>1, <2>2
<1>11. ASSUME NEW i \in S, NEW p, p = plan[i].path,
              \/ p \notin DOMAIN failed
              \/ plan[i].msat < Less(failed[p], Fragment)
       PROVE  LevelOf(failed, p) + 1 <= LevelOf(after, p)
  <2>1. p \in Path /\ p \in DOMAIN after
    BY <1>2, <1>6, <1>11
  <2> DEFINE b == Amount - after[p]
  <2>2. b \in Nat /\ LevelOf(after, p) = 1 + b \div d
    BY <1>1, <1>5, <2>1 DEF LevelOf, d
  <2>3. CASE p \notin DOMAIN failed
    <3>1. LevelOf(failed, p) = 0
      BY <2>3 DEF LevelOf
    <3> HIDE DEF b
    <3>2. b \div d \in Nat
      BY <1>1, <2>2, Quotient
    <3> QED  BY <2>2, <3>1, <3>2
  <2>4. CASE p \in DOMAIN failed
    <3> DEFINE a == Amount - failed[p]
    <3>1. a \in Nat /\ LevelOf(failed, p) = 1 + a \div d
      BY <1>1, <1>4, <2>4 DEF LevelOf, d
    <3>2. plan[i].msat + Fragment < failed[p]
      BY <1>1, <1>2, <1>4, <1>11, <2>4 DEF Less
    <3>3. PICK j \in S : plan[j].path = p /\ after[p] = plan[j].msat
      BY <1>7, <1>11, <2>1
    <3>4. after[p] + Fragment < failed[p]
      <4>1. CASE j = i
        BY <3>2, <3>3, <4>1
      <4>2. CASE j # i
        <5>1. plan[i].msat + plan[j].msat < failed[p]
          BY <1>9, <1>11, <2>4, <3>3, <4>2
        <5>2. plan[i].msat \in Nat /\ plan[i].msat >= Fragment /\ plan[j].msat \in Nat
          BY <1>2
        <5> QED  BY <1>1, <1>4, <2>4, <3>3, <5>1, <5>2
      <4> QED  BY <4>1, <4>2
    <3>5. a + d <= b
      BY <1>1, <1>4, <1>5, <2>1, <2>4, <3>4 DEF d
    <3> HIDE DEF a, b
    <3>6. a \div d \in Nat /\ b \div d \in Nat
      BY <1>1, <2>2, <3>1, Quotient
    <3>7. a <= b
      BY <1>1, <2>2, <3>1, <3>5
    <3>8. a \div d + 1 <= b \div d
      BY <1>1, <2>2, <3>1, <3>5, <3>7, QuotientGrows
    <3> QED  BY <2>2, <3>1, <3>6, <3>8
  <2> QED  BY <2>3, <2>4
<1> QED  BY <1>8, <1>10, <1>11 DEF after, S

\* A round whose every part moved or failed for liquidity made progress.
LEMMA ProgressGrows ==
    ASSUME IInv, ~lost, pc = "execute", NEW fates,
           \A i \in DOMAIN plan : fates[i] \in Fates(plan[i])
    PROVE  LET moved == SumFunctionOnSet(Msats(plan), Moved(fates))
               after == FailedAfter(fates)
           IN
           /\ Progress(committed, failed) <= Progress(committed + moved, after)
           /\ (\A i \in DOMAIN plan : fates[i] # "other") =>
                Progress(committed, failed) + 1 <= Progress(committed + moved, after)
<1> DEFINE moved == SumFunctionOnSet(Msats(plan), Moved(fates))
           after == FailedAfter(fates)
           f == Levels(failed)
           g == Levels(after)
           x == committed \div Fragment
           y == (committed + moved) \div Fragment
<1>0. TypeInv /\ PlanInv /\ committed \in Nat /\ committed <= Amount
  BY DEF IInv, TypeInv
<1>1. /\ Fragment \in Nat \ {0} /\ Amount \in Nat /\ IsFiniteSet(Path)
      /\ On \in [Path -> SUBSET Chan]
  BY RetriesAssumption
<1>2. /\ moved \in Nat /\ committed + moved <= Amount
      /\ \A i \in DOMAIN plan : fates[i] = "moves" => moved >= Fragment
  BY <1>0, MovedType
<1>3. \A p \in Path : f[p] \in Nat /\ g[p] \in Nat
  BY <1>0, LevelType, FailuresType DEF Levels, TypeInv
<1>4. \A p \in Path : f[p] <= g[p]
  BY LevelsRise DEF Levels
<1>5. /\ Progress(committed, failed) = x + SumFunctionOnSet(f, Path)
      /\ Progress(committed + moved, after) = y + SumFunctionOnSet(g, Path)
  BY DEF Progress
<1> HIDE DEF moved, after, f, g
<1>6. x \in Nat /\ y \in Nat /\ x <= y /\ (moved >= Fragment => x + 1 <= y)
  <2> DEFINE b == committed + moved
  <2>1. b \in Nat /\ committed <= b /\ (moved >= Fragment => committed + Fragment <= b)
    BY <1>0, <1>1, <1>2
  <2> HIDE DEF b
  <2>2. committed \div Fragment \in Nat /\ b \div Fragment \in Nat
    BY <1>0, <1>1, <2>1, Quotient
  <2>3. /\ committed \div Fragment <= b \div Fragment
        /\ committed + Fragment <= b => committed \div Fragment + 1 <= b \div Fragment
    BY <1>0, <1>1, <2>1, QuotientGrows
  <2> QED  BY <2>1, <2>2, <2>3 DEF b
<1>7. /\ SumFunctionOnSet(f, Path) \in Nat /\ SumFunctionOnSet(g, Path) \in Nat
      /\ SumFunctionOnSet(f, Path) <= SumFunctionOnSet(g, Path)
  BY <1>1, <1>3, <1>4, SumNat, SumMonotone
<1> HIDE DEF x, y
<1>8. ASSUME \A i \in DOMAIN plan : fates[i] # "other"
      PROVE  x + SumFunctionOnSet(f, Path) + 1 <= y + SumFunctionOnSet(g, Path)
  <2>1. CASE \E i \in DOMAIN plan : fates[i] = "moves"
    BY <1>2, <1>6, <1>7, <2>1
  <2>2. CASE ~\E i \in DOMAIN plan : fates[i] = "moves"
    <3>1. PICK i \in DOMAIN plan :
            \/ plan[i].path \notin DOMAIN failed
            \/ plan[i].msat < Less(failed[plan[i].path], Fragment)
      BY <1>0 DEF PlanInv
    <3>2. plan[i].path \in Path /\ i \in Starved(fates)
      <4>1. plan[i].path \in Path
        BY <1>0, PlanType
      <4>2. fates[i] \in On[plan[i].path]
        BY <1>8, <2>2 DEF Fates
      <4> QED  BY <1>1, <4>1, <4>2 DEF Starved
    <3>3. LevelOf(failed, plan[i].path) + 1 <= LevelOf(after, plan[i].path)
      BY <3>1, <3>2, LevelsRise DEF after
    <3>4. f[plan[i].path] + 1 <= g[plan[i].path]
      BY <3>2, <3>3 DEF f, g, Levels
    <3>5. SumFunctionOnSet(f, Path) + 1 <= SumFunctionOnSet(g, Path)
      BY <1>1, <1>3, <1>4, <3>2, <3>4, SumGrows
    <3> QED  BY <1>6, <1>7, <3>5
  <2> QED  BY <2>1, <2>2
<1> QED  BY <1>5, <1>6, <1>7, <1>8 DEF after, moved

-----------------------------------------------------------------------------
(* The steps.                                                               *)

\* A round begins with a plan that is worth sending, or ends the loop.
LEMMA InvByRound ==
    ASSUME IInv, Round
    PROVE  IInv'
<1>0. TypeInv /\ PlanInv /\ FailedInv /\ WornInv
  BY DEF IInv
<1>1. /\ pc = "top" /\ UNCHANGED <<worn, lost, committed, failed, known>>
      /\ round' = CountTo(1, round) /\ round' = 1
  BY <1>0 DEF Round, TypeInv, CountTo
<1>2. \/ pc' = "ended"
      \/ \E parts \in Plans : /\ parts # <<>> /\ ~(round >= 1 /\ RetriesFailures(parts))
                              /\ pc' = "execute" /\ plan' = parts
  BY DEF Round
<1>3. TypeInv'
  BY <1>0, <1>1, <1>2 DEF TypeInv
<1>4. FailedInv' /\ WornInv'
  BY <1>0, <1>1 DEF FailedInv, WornInv
<1>5. PlanInv'
  <2>1. CASE pc' = "ended"
    BY <2>1 DEF PlanInv
  <2>2. ASSUME NEW parts \in Plans, parts # <<>>,
               ~(round >= 1 /\ RetriesFailures(parts)),
               pc' = "execute", plan' = parts
        PROVE  PlanInv'
    <3>1. PICK n \in 0..MaxParts :
                parts \in [1..n -> [path : Path, msat : Fragment..Remaining]]
      BY DEF Plans
    <3>2. /\ SumFunction(Msats(parts)) <= Remaining
          /\ \A c \in Chan : LoadOn(parts, c) <= known[c]
      BY DEF Plans
    <3>3. DOMAIN parts = 1..n
      BY <3>1
    <3>4. \A i \in DOMAIN parts : IsPart(parts[i])
      <4>1. Fragment \in Nat /\ Remaining \in Nat
        BY <1>0, RetriesAssumption DEF Remaining, Less, TypeInv
      <4>2. \A m \in Fragment..Remaining : m \in Nat /\ m >= Fragment
        BY <4>1
      <4> QED  BY <3>1, <4>2 DEF IsPart
    <3>5. \E i \in DOMAIN parts :
            \/ parts[i].path \notin DOMAIN failed
            \/ parts[i].msat < Less(failed[parts[i].path], Fragment)
      <4>1. CASE round = 0
        <5>1. DOMAIN failed = {}
          BY <1>0, <4>1 DEF TypeInv
        <5>2. n # 0
          <6> SUFFICES ASSUME n = 0 PROVE FALSE
            OBVIOUS
          <6>1. 1..n = {}
            OBVIOUS
          <6>2. parts \in [{} -> [path : Path, msat : Fragment..Remaining]]
            BY <3>1, <6>1
          <6> QED  BY <2>2, <6>2
        <5>3. 1 \in DOMAIN parts
          BY <3>3, <5>2, RetriesAssumption
        <5> QED  BY <5>1, <5>3
      <4>2. CASE round # 0
        <5>1. ~RetriesFailures(parts)
          BY <1>0, <2>2, <4>2 DEF TypeInv
        <5>2. PICK i \in DOMAIN parts :
                ~(/\ parts[i].path \in DOMAIN failed
                  /\ parts[i].msat >= Less(failed[parts[i].path], Fragment))
          BY <2>2, <5>1 DEF RetriesFailures
        <5>3. parts[i].msat \in Nat
          BY <3>4 DEF IsPart
        <5>4. parts[i].path \in DOMAIN failed =>
                Less(failed[parts[i].path], Fragment) \in Nat
          BY <1>0, RetriesAssumption DEF Less, TypeInv
        <5> QED  BY <5>2, <5>3, <5>4
      <4> QED  BY <4>1, <4>2
    <3>6. Remaining' = Remaining
      BY <1>1 DEF Remaining
    <3> QED  BY <1>1, <2>2, <3>1, <3>2, <3>3, <3>4, <3>5, <3>6
             DEF PlanInv, Msats, LoadOn
  <2> QED  BY <1>2, <2>1, <2>2
<1> QED  BY <1>3, <1>4, <1>5 DEF IInv

\* An execution makes progress, unless something is lost in it or a part fails in
\* another way.
LEMMA InvByExecute ==
    ASSUME IInv, Execute
    PROVE  IInv'
<1>0. TypeInv /\ PlanInv /\ FailedInv /\ WornInv
  BY DEF IInv
<1>1. PICK fates, taken :
        /\ taken \in SUBSET Starved(fates)
        /\ \A i \in DOMAIN plan : fates[i] \in Fates(plan[i])
        /\ committed' = committed + SumFunctionOnSet(Msats(plan), Moved(fates))
        /\ failed' = FailedAfter(fates)
        /\ lost' = (lost \/ taken # Starved(fates))
        /\ worn' = IF ~lost' /\ \A i \in DOMAIN plan : fates[i] # "other"
                   THEN CountTo(WornBound + 1, worn) ELSE worn
        /\ known' = Believed(fates, taken)
        /\ pc' \in {"ended", "top"}
  BY DEF Execute
<1>2. pc = "execute" /\ round' = round
  BY DEF Execute
<1> DEFINE moved == SumFunctionOnSet(Msats(plan), Moved(fates))
           after == FailedAfter(fates)
<1>3. /\ committed \in Nat /\ moved \in Nat /\ committed + moved <= Amount
  BY <1>0, <1>2, MovedType DEF TypeInv
<1>4. /\ DOMAIN after \subseteq Path
      /\ \A p \in DOMAIN after :
            after[p] \in Nat /\ Fragment <= after[p] /\ after[p] <= Amount
  BY <1>0, <1>2, FailuresType
<1>5. \A c \in Chan : known'[c] \in Nat
  BY <1>0, <1>1, <1>2, BelievedType
<1>6. committed' = committed + moved /\ failed' = after
  BY <1>1
<1> HIDE DEF moved, after
<1>7. /\ Progress(committed + moved, after) \in Nat
      /\ WornBound \in Nat /\ Progress(committed + moved, after) <= WornBound
  BY <1>3, <1>4, ProgressBounded
<1>8. worn \in Nat /\ worn <= WornBound /\ lost \in BOOLEAN /\ lost' \in BOOLEAN
  BY <1>0, <1>1 DEF TypeInv, WornInv
<1>9. TypeInv'
  <2>1. worn' \in Nat
    BY <1>1, <1>8 DEF CountTo
  <2>2. round \in 0..1 /\ round # 0
    BY <1>0, <1>2 DEF TypeInv
  <2>3. committed' \in Nat /\ committed' <= Amount
    BY <1>3, <1>6
  <2> QED  BY <1>1, <1>2, <1>4, <1>5, <1>6, <1>8, <2>1, <2>2, <2>3 DEF TypeInv
<1>10. PlanInv'
  BY <1>1 DEF PlanInv
<1>11. FailedInv'
  <2> SUFFICES ASSUME ~lost' PROVE \A p \in DOMAIN after : \E c \in On[p] :
                                        known'[c] < after[p]
    BY <1>6 DEF FailedInv
  <2>1. ~lost /\ taken = Starved(fates)
    BY <1>1, <1>8
  <2> QED  BY <1>1, <1>2, <2>1, LevelsRise DEF after
<1>12. WornInv'
  <2>1. CASE lost'
    <3>1. worn' = worn
      BY <1>1, <2>1
    <3> QED  BY <1>8, <2>1, <3>1 DEF WornInv, WornBound
  <2>2. CASE ~lost'
    <3>1. ~lost
      BY <1>1, <1>8, <2>2
    <3>2. /\ Progress(committed, failed) <= Progress(committed + moved, after)
          /\ (\A i \in DOMAIN plan : fates[i] # "other") =>
                Progress(committed, failed) + 1 <= Progress(committed + moved, after)
      BY <1>1, <1>2, <3>1, ProgressGrows DEF moved, after
    <3>3. worn <= Progress(committed, failed) /\ Progress(committed, failed) \in Nat
      <4>1. Progress(committed, failed) \in Nat
        BY <1>0, ProgressBounded DEF TypeInv
      <4> QED  BY <1>0, <3>1, <4>1 DEF WornInv
    <3>4. worn' <= Progress(committed + moved, after) /\ worn' \in Nat
      <4>1. CASE \A i \in DOMAIN plan : fates[i] # "other"
        <5>1. worn' = worn + 1
          BY <1>1, <1>7, <1>8, <2>2, <4>1 DEF CountTo
        <5> QED  BY <1>7, <1>8, <3>2, <3>3, <4>1, <5>1
      <4>2. CASE ~\A i \in DOMAIN plan : fates[i] # "other"
        <5>1. worn' = worn
          BY <1>1, <4>2
        <5> QED  BY <1>7, <1>8, <3>2, <3>3, <5>1
      <4> QED  BY <4>1, <4>2
    <3>5. worn' <= WornBound
      BY <1>7, <3>4
    <3> QED  BY <1>6, <3>4, <3>5 DEF WornInv, WornBound
  <2> QED  BY <2>1, <2>2
<1> QED  BY <1>9, <1>10, <1>11, <1>12 DEF IInv

\* What others teach, and what is forgotten, leaves the failures alone; to forget
\* is to lose.
LEMMA InvByOthers ==
    ASSUME IInv, OtherFeedback \/ (\E c \in Chan : Forget(c)) \/ UNCHANGED vars
    PROVE  IInv'
<1>0. TypeInv /\ PlanInv /\ FailedInv /\ WornInv
  BY DEF IInv
<1>1. CASE OtherFeedback \/ UNCHANGED vars
  <2>1. UNCHANGED <<pc, round, worn, lost, committed, plan, failed, known>>
    BY <1>1 DEF OtherFeedback, vars
  <2> QED  BY <1>0, <2>1 DEF IInv, TypeInv, PlanInv, FailedInv, WornInv, Remaining
<1>2. ASSUME NEW c \in Chan, Forget(c) PROVE IInv'
  <2>1. /\ pc = "top" /\ lost' = TRUE /\ known' = [known EXCEPT ![c] = Amount]
        /\ UNCHANGED <<pc, round, worn, committed, plan, failed>>
    BY <1>2 DEF Forget
  <2>2. \A b \in Chan : known'[b] \in Nat
    <3>1. ASSUME NEW b \in Chan PROVE known'[b] \in Nat
      <4>1. known'[b] = known[b] \/ known'[b] = Amount \/ known' = known
        BY <2>1
      <4> QED  BY <1>0, <4>1, RetriesAssumption DEF TypeInv
    <3> QED  BY <3>1
  <2>3. TypeInv'
    BY <1>0, <2>1, <2>2 DEF TypeInv
  <2> QED  BY <1>0, <2>1, <2>3 DEF IInv, PlanInv, FailedInv, WornInv
<1> QED  BY <1>1, <1>2

\* What the proof strengthens RoundsBounded by: failures stay above what the solver
\* believes, and rounds of failures below the progress they made.
THEOREM Inductive == Spec => []IInv
<1>1. Init => IInv
  <2> SUFFICES ASSUME Init PROVE IInv
    OBVIOUS
  <2>0. DOMAIN failed = {}
    BY DEF Init
  <2>1. TypeInv
    <3>1. pc \in {"top", "execute", "ended"} /\ round \in 0..1 /\ pc = "top"
      BY DEF Init
    <3>2. worn \in Nat /\ committed \in Nat /\ committed <= Amount
      <4>1. worn = 0 /\ committed = 0
        BY DEF Init
      <4> QED  BY <4>1, RetriesAssumption
    <3>3. \A c \in Chan : known[c] \in Nat
      BY RetriesAssumption DEF Init
    <3>4. lost \in BOOLEAN
      BY DEF Init
    <3> QED  BY <2>0, <3>1, <3>2, <3>3, <3>4 DEF TypeInv
  <2>2. PlanInv /\ FailedInv
    BY <2>0 DEF Init, PlanInv, FailedInv
  <2>3. WornInv
    <3>1. Progress(0, failed) \in Nat /\ WornBound \in Nat
      BY RetriesAssumption, ProgressBounded DEF Init
    <3> QED  BY <3>1 DEF Init, WornInv
  <2> QED  BY <2>1, <2>2, <2>3 DEF IInv
<1>2. IInv /\ [Next]_vars => IInv'
  BY InvByRound, InvByExecute, InvByOthers DEF Next
<1> QED  BY <1>1, <1>2, PTL DEF Spec

\* Liquidity failures alone do not wear the loop down (main.rs:580-586).
THEOREM RoundsAreBounded == Spec => []RoundsBounded
<1>1. IInv => RoundsBounded
  BY DEF IInv, WornInv, RoundsBounded
<1> QED  BY <1>1, Inductive, PTL

=============================================================================
