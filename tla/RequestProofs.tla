--------------------------- MODULE RequestProofs ---------------------------
(***************************************************************************)
(* Proofs about Request, for any number of calls with any parameters, any  *)
(* channels, any ppm base and any fragment floor.                          *)
(***************************************************************************)
EXTENDS Request, SequenceTheorems, TLAPS

USE DEF Pc, Stop

-----------------------------------------------------------------------------
(* The inductive invariant behind the safety properties.                   *)

\* The counters and the money agree, whatever the stragglers do later.
BooksInv(r) ==
    /\ delivered[r] <= moved[r]
    /\ moved[r] + out[r] <= delivered[r] + pending[r]
    /\ fee[r] <= movedFee[r]
    /\ movedFee[r] + outFee[r] <= fee[r] + pendingFee[r]
    /\ \A s \in Source :
            movedSrc[r][s] + outSrc[r][s] <= srcCommitted[r][s]
    /\ \A d \in Dest :
            movedDst[r][d] + outDst[r][d] <= dstCommitted[r][d]

\* What is committed and what the plan may still commit keep within the ask.  A
\* source may be past its cap only through plans without a bound for it, and
\* then a plan with one lets nothing through.
PotsInv(r) ==
    /\ delivered[r] + pending[r] + plan[r].left <= ask[r].amount
    /\ ask[r].budget = "msat" =>
            fee[r] + pendingFee[r] + plan[r].fee <= ask[r].maxfee
    /\ \A s \in DOMAIN ask[r].srcCap :
        /\ s \notin loose[r] => srcCommitted[r][s] <= ask[r].srcCap[s]
        /\ pc[r] = "execute" /\ s \in DOMAIN plan[r].src =>
            \/ plan[r].src[s] = 0
            \/ srcCommitted[r][s] + plan[r].src[s] <= ask[r].srcCap[s]
    /\ \A d \in DOMAIN ask[r].dstCap :
        /\ dstCommitted[r][d] <= ask[r].dstCap[d]
        /\ pc[r] = "execute" =>
            /\ d \in DOMAIN plan[r].dst
            /\ dstCommitted[r][d] + plan[r].dst[d] <= ask[r].dstCap[d]

\* The rate of the plan is the rate of the ask, so what its parts pay keeps it.
RateInv(r) ==
    /\ RateKept(r, movedFee[r], moved[r])
    /\ RateKept(r, outFee[r], out[r])
    /\ pc[r] = "execute" =>
        /\ plan[r].rateAmount > 0
        /\ RateKept(r, plan[r].rateFee, plan[r].rateAmount)

\* Nothing has been sent before the first round executes.
StartInv(r) ==
    /\ pc[r] \in {"idle", "queued"} => round[r] = 0
    /\ pc[r] \in {"plan", "execute"} => round[r] >= 1
    /\ (round[r] <= 1 /\ pc[r] \in {"idle", "queued", "plan", "error"})
            => delivered[r] + pending[r] = 0
    /\ (round[r] = 0 \/ (round[r] <= 1 /\ pc[r] = "execute" /\ ~plan[r].sent))
            => delivered[r] + pending[r] = 0
    /\ pc[r] = "error" => round[r] <= 1

\* The request that runs holds the gate.
GateInv(r) ==
    pc[r] \in {"top", "plan", "execute"} => queue # <<>> /\ Head(queue) = r

RequestInv(r) ==
    BooksInv(r) /\ PotsInv(r) /\ RateInv(r) /\ StartInv(r) /\ GateInv(r)

IInv == TypeOK /\ \A r \in Req : RequestInv(r)

-----------------------------------------------------------------------------
(* Sequences: the gate.                                                    *)

LEMMA GateAppend ==
    ASSUME NEW S, NEW q \in Seq(S), NEW e \in S
    PROVE  /\ Append(q, e) \in Seq(S)
           /\ q # <<>> => Append(q, e) # <<>> /\ Head(Append(q, e)) = Head(q)
BY AppendProperties

LEMMA GateTail ==
    ASSUME NEW S, NEW q \in Seq(S), q # <<>>
    PROVE  Tail(q) \in Seq(S)
BY HeadTailProperties

-----------------------------------------------------------------------------
(* Arithmetic: the rate.                                                   *)

\* Amounts paid at most at a rate are, added up.
LEMMA RateAdds ==
    ASSUME NEW m \in Nat, NEW ppm \in Nat, NEW f \in Nat, NEW a \in Nat,
           NEW y \in Nat, NEW x \in Nat,
           f * m <= ppm * a, y * m <= ppm * x
    PROVE  (f + y) * m <= ppm * (a + x)
<1>1. (f + y) * m = f * m + y * m
    OBVIOUS
<1>2. ppm * (a + x) = ppm * a + ppm * x
    OBVIOUS
<1>3. f * m \in Nat /\ y * m \in Nat /\ ppm * a \in Nat /\ ppm * x \in Nat
    OBVIOUS
<1> QED
    BY <1>1, <1>2, <1>3

\* A part at the plan's rate keeps the rate that the plan's budget keeps.
LEMMA RateOfPart ==
    ASSUME NEW m \in Nat, NEW ppm \in Nat, NEW F \in Nat, NEW A \in Nat \ {0},
           NEW y \in Nat, NEW x \in Nat,
           F * m <= ppm * A, y * A <= F * x
    PROVE  y * m <= ppm * x
<1>1. (y * A) * m <= (F * x) * m
    OBVIOUS
<1>2. (F * m) * x <= (ppm * A) * x
    OBVIOUS
<1>3. (y * m) * A <= (ppm * x) * A
    BY <1>1, <1>2
<1>4. ASSUME y * m > ppm * x PROVE (y * m) * A > (ppm * x) * A
    <2> DEFINE u == y * m
               v == ppm * x
    <2>1. u \in Nat /\ v \in Nat /\ u > v
        BY <1>4
    <2> HIDE DEF u, v
    <2>2. u * A > v * A
        BY <2>1
    <2> QED
        BY <2>2 DEF u, v
<1>5. (y * m) * A \in Nat /\ (ppm * x) * A \in Nat /\ y * m \in Nat /\ ppm * x \in Nat
    OBVIOUS
<1> QED
    BY <1>3, <1>4, <1>5

\* Rounding a budget down keeps the rate.
LEMMA RateOfBudget ==
    ASSUME NEW m \in Nat \ {0}, NEW n \in Nat
    PROVE  /\ n \div m \in Nat
           /\ (n \div m) * m <= n
OBVIOUS

-----------------------------------------------------------------------------
(* What the actions have in common.                                        *)

\* A request whose state a step leaves alone keeps its invariant; the head of
\* the queue is what its gate asks for.
LEMMA Untouched ==
    ASSUME NEW q \in Req, RequestInv(q),
           ask'[q] = ask[q], pc'[q] = pc[q], round'[q] = round[q],
           plan'[q] = plan[q],
           delivered'[q] = delivered[q], fee'[q] = fee[q],
           pending'[q] = pending[q], pendingFee'[q] = pendingFee[q],
           srcCommitted'[q] = srcCommitted[q], loose'[q] = loose[q],
           dstCommitted'[q] = dstCommitted[q],
           moved'[q] = moved[q], movedFee'[q] = movedFee[q],
           movedSrc'[q] = movedSrc[q], movedDst'[q] = movedDst[q],
           out'[q] = out[q], outFee'[q] = outFee[q],
           outSrc'[q] = outSrc[q], outDst'[q] = outDst[q],
           GateInv(q)'
    PROVE  RequestInv(q)'
<1>1. BooksInv(q)'
    BY DEF RequestInv, BooksInv
<1>2. PotsInv(q)'
    BY DEF RequestInv, PotsInv
<1>3. RateInv(q)'
    BY DEF RequestInv, RateInv, RateKept
<1>4. StartInv(q)'
    BY DEF RequestInv, StartInv
<1> QED
    BY <1>1, <1>2, <1>3, <1>4 DEF RequestInv

LEMMA NoPlanIsPlan == IsPlan(NoPlan)
BY DEF IsPlan, NoPlan

\* The types of what belongs to one request.
LEMMA TypesOf ==
    ASSUME TypeOK, NEW r \in Req
    PROVE  /\ ask[r].amount \in Nat \ {0} /\ ask[r].maxfee \in Nat
           /\ ask[r].budget \in {"msat", "ppm"}
           /\ ask[r].rounds \in Nat \ {0}
           /\ IsCap(ask[r].srcCap, Source) /\ IsCap(ask[r].dstCap, Dest)
           /\ round[r] \in Nat
           /\ IsPlan(plan[r])
           /\ plan[r].left \in Nat /\ plan[r].fee \in Nat
           /\ plan[r].rateFee \in Nat /\ plan[r].rateAmount \in Nat
           /\ delivered[r] \in Nat /\ fee[r] \in Nat
           /\ pending[r] \in Nat /\ pendingFee[r] \in Nat
           /\ moved[r] \in Nat /\ movedFee[r] \in Nat
           /\ out[r] \in Nat /\ outFee[r] \in Nat
           /\ srcCommitted[r] \in [Source -> Nat]
           /\ dstCommitted[r] \in [Dest -> Nat]
           /\ loose[r] \in SUBSET Source
           /\ movedSrc[r] \in [Source -> Nat]
           /\ movedDst[r] \in [Dest -> Nat]
           /\ outSrc[r] \in [Source -> Nat]
           /\ outDst[r] \in [Dest -> Nat]
<1>1. IsAsk(ask[r])
    BY RequestAssumption DEF TypeOK
<1>2. IsPlan(plan[r])
    BY DEF TypeOK
<1>3. /\ plan[r].left \in Nat /\ plan[r].fee \in Nat
      /\ plan[r].rateFee \in Nat /\ plan[r].rateAmount \in Nat
    BY <1>2 DEF IsPlan
<1> QED
    BY <1>1, <1>2, <1>3 DEF TypeOK, IsAsk

\* A plan is changed for one request only.
LEMMA PlanTypes ==
    ASSUME TypeOK, NEW r \in Req, NEW p, IsPlan(p),
           plan' = [plan EXCEPT ![r] = p]
    PROVE  /\ plan' = [q \in Req |-> plan'[q]]
           /\ \A q \in Req : IsPlan(plan'[q])
           /\ \A q \in Req : plan'[q] = IF q = r THEN p ELSE plan[q]
<1>1. DOMAIN plan = Req /\ plan = [q \in Req |-> plan[q]]
    BY DEF TypeOK
<1>2. plan' = [q \in Req |-> IF q = r THEN p ELSE plan[q]]
    BY <1>1
<1>3. \A q \in Req : IsPlan(plan[q])
    BY DEF TypeOK
<1>4. \A q \in Req : plan'[q] = IF q = r THEN p ELSE plan[q]
    BY <1>2
<1>5. ASSUME NEW q \in Req PROVE IsPlan(plan'[q])
    BY <1>3, <1>4
<1> QED
    BY <1>2, <1>4, <1>5

\* Nothing is committed at first.
LEMMA InitIInv == Init => IInv
<1> SUFFICES ASSUME Init PROVE IInv
    OBVIOUS
<1>1. TypeOK
    <2>1. plan = [r \in Req |-> plan[r]] /\ \A r \in Req : IsPlan(plan[r])
        BY NoPlanIsPlan DEF Init
    <2>2. <<>> \in Seq(Req)
        OBVIOUS
    <2> QED
        BY <2>1, <2>2 DEF Init, TypeOK, Zero, NoSource, NoDest, False
<1>2. ASSUME NEW r \in Req PROVE RequestInv(r)
    <2>1. IsAsk(ask[r])
        BY RequestAssumption DEF Init
    <2> QED
        BY <2>1, RequestAssumption
           DEF Init, Zero, NoSource, NoDest, NoPlan, IsAsk, IsCap, RateKept,
               RequestInv, BooksInv, PotsInv, RateInv, StartInv, GateInv
<1> QED
    BY <1>1, <1>2 DEF IInv

\* A call queues up behind the holder of the gate.
LEMMA CallIInv ==
    ASSUME IInv, NEW r \in Req, Call(r)
    PROVE  IInv'
<1>1. TypeOK'
    <2>1. queue' \in Seq(Req)
        BY GateAppend DEF IInv, TypeOK, Call
    <2> QED
        BY <2>1 DEF IInv, TypeOK, Call, totals, money, IsPlan
<1>2. ASSUME NEW q \in Req PROVE RequestInv(q)'
    <2>1. RequestInv(q) /\ TypeOK
        BY DEF IInv
    <2>2. GateInv(q)'
        <3>1. queue \in Seq(Req)
            BY <2>1 DEF TypeOK
        <3>2. queue # <<>> => /\ Append(queue, r) # <<>>
                             /\ Head(Append(queue, r)) = Head(queue)
            BY <3>1, GateAppend
        <3>3. pc' = [pc EXCEPT ![r] = "queued"] /\ pc \in [Req -> Pc]
            BY <2>1 DEF TypeOK, Call
        <3> QED
            BY <2>1, <3>2, <3>3 DEF Call, RequestInv, GateInv
    <2>3. CASE q # r
        BY <2>1, <2>2, <2>3, Untouched DEF TypeOK, Call, totals, money
    <2>4. CASE q = r
        BY <2>1, <2>2, <2>4
           DEF TypeOK, Call, totals, money, RateKept, RequestInv, BooksInv,
               PotsInv, RateInv, StartInv
    <2> QED
        BY <2>3, <2>4
<1> QED
    BY <1>1, <1>2 DEF IInv

\* The head of the queue gets the gate.
LEMMA AcquireIInv ==
    ASSUME IInv, NEW r \in Req, Acquire(r)
    PROVE  IInv'
<1>1. TypeOK'
    BY DEF IInv, TypeOK, Acquire, totals, money, IsPlan
<1>2. ASSUME NEW q \in Req PROVE RequestInv(q)'
    <2>1. RequestInv(q) /\ TypeOK
        BY DEF IInv
    <2>2. GateInv(q)'
        BY <2>1 DEF TypeOK, Acquire, RequestInv, GateInv
    <2>3. CASE q # r
        BY <2>1, <2>2, <2>3, Untouched DEF TypeOK, Acquire, totals, money
    <2>4. CASE q = r
        BY <2>1, <2>2, <2>4
           DEF TypeOK, Acquire, totals, money, RateKept, RequestInv, BooksInv,
               PotsInv, RateInv, StartInv
    <2> QED
        BY <2>3, <2>4
<1> QED
    BY <1>1, <1>2 DEF IInv

\* Whoever leaves held the gate, so no other request is running; what is booked
\* and sent stays, and only an unstarted request leaves with an error.
LEMMA LeaveIInv ==
    ASSUME IInv, NEW r \in Req, NEW how \in {"answered", "error"},
           NEW reason \in Stop, Leave(r, how, reason),
           pc[r] \in {"top", "plan", "execute"},
           how = "error" =>
                round[r] <= 1 /\ (pc[r] = "plan"
                                  \/ (pc[r] = "execute" /\ ~plan[r].sent)),
           round' = round \/ (how = "answered" /\ pc[r] = "top"
                                /\ round' = [round EXCEPT ![r] = @ + 1]),
           UNCHANGED <<ask, totals, money>>,
           roundMoved' \in [Req -> BOOLEAN], learned' \in BOOLEAN,
           liqFailed' \in [Req -> BOOLEAN]
    PROVE  IInv'
<1>1. TypeOK'
    <2>1. queue # <<>>
        BY DEF IInv, RequestInv, GateInv
    <2>2. queue' \in Seq(Req)
        BY <2>1, GateTail DEF IInv, TypeOK, Leave
    <2>3. /\ plan' = [q \in Req |-> plan'[q]]
          /\ \A q \in Req : IsPlan(plan'[q])
        BY NoPlanIsPlan, PlanTypes DEF IInv, Leave
    <2>4. round' \in [Req -> Nat]
        <3>1. round \in [Req -> Nat]
            BY DEF IInv, TypeOK
        <3>2. [round EXCEPT ![r] = @ + 1] \in [Req -> Nat]
            BY <3>1
        <3> QED
            BY <3>1, <3>2
    <2> QED
        BY <2>2, <2>3, <2>4 DEF IInv, TypeOK, Leave, totals, money, IsPlan
<1>2. ASSUME NEW q \in Req PROVE RequestInv(q)'
    <2>1. RequestInv(q) /\ RequestInv(r) /\ TypeOK /\ TypeOK'
        BY <1>1 DEF IInv
    <2>2. GateInv(q)'
        BY <2>1 DEF TypeOK, Leave, RequestInv, GateInv
    <2>3. CASE q # r
        BY <2>1, <2>2, <2>3, Untouched DEF TypeOK, Leave, totals, money
    <2>4. CASE q = r
        <3>1. /\ pc'[q] = how /\ plan'[q] = NoPlan
              /\ NoPlan.left = 0 /\ NoPlan.fee = 0
            BY <2>1, <2>4, PlanTypes, NoPlanIsPlan DEF TypeOK, Leave, NoPlan
        <3>3. BooksInv(q)'
            BY <2>1, <2>4 DEF RequestInv, BooksInv, totals, money
        <3>4. PotsInv(q)'
            BY <2>1, <2>4, <3>1, TypesOf, NoPlanIsPlan
               DEF RequestInv, PotsInv, totals, money
        <3>5. RateInv(q)'
            BY <2>1, <2>4, <3>1 DEF RequestInv, RateInv, RateKept, totals, money
        <3>6. StartInv(q)'
            <4>1. StartInv(r) /\ round[r] \in Nat
                BY <2>1, TypesOf DEF RequestInv
            <4>2. /\ delivered' = delivered /\ pending' = pending
                  /\ pc'[r] = how
                BY <2>4, <3>1 DEF totals
            <4>3. round'[r] = round[r] \/ (how = "answered" /\ round'[r] # 0)
                <5>1. round \in [Req -> Nat]
                    BY <2>1 DEF TypeOK
                <5>2. [round EXCEPT ![r] = @ + 1][r] # 0
                    BY <5>1
                <5> QED
                    BY <5>2
            <4>4. CASE how = "answered"
                <5>1. round'[r] = 0 => delivered[r] + pending[r] = 0
                    BY <4>1, <4>3 DEF StartInv
                <5> QED
                    BY <2>4, <4>2, <4>4, <5>1 DEF StartInv
            <4>5. CASE how = "error"
                <5>1. round[r] <= 1 /\ delivered[r] + pending[r] = 0
                    BY <4>1, <4>5 DEF StartInv
                <5> QED
                    BY <2>4, <4>2, <4>3, <4>5, <5>1 DEF StartInv
            <4> QED
                BY <4>4, <4>5
        <3> QED
            BY <2>2, <3>3, <3>4, <3>5, <3>6 DEF RequestInv
    <2> QED
        BY <2>3, <2>4
<1> QED
    BY <1>1, <1>2 DEF IInv

-----------------------------------------------------------------------------
(* The rounds.                                                             *)

\* A round begins with what the earlier ones left.
LEMMA TopIInv ==
    ASSUME IInv, NEW r \in Req, Top(r)
    PROVE  IInv'
<1>1. CASE round[r] >= 1 /\ Remaining(r) < Fragment
    <2> DEFINE reason == IF Remaining(r) = 0 THEN "committed" ELSE "belowFloor"
    <2>1. Leave(r, "answered", reason)
        BY <1>1 DEF Top
    <2>2. reason \in Stop
        OBVIOUS
    <2> HIDE DEF reason
    <2> QED
        BY <1>1, <2>1, <2>2, LeaveIInv DEF Top, IInv, TypeOK
<1>2. CASE ~(round[r] >= 1 /\ Remaining(r) < Fragment)
    <2>1. TypeOK'
        <3>1. TypeOK
            BY DEF IInv
        <3>2. /\ round' \in [Req -> Nat] /\ pc' \in [Req -> Pc]
              /\ roundMoved' \in [Req -> BOOLEAN] /\ learned' \in BOOLEAN
            <4>1. /\ round' = [round EXCEPT ![r] = @ + 1]
                  /\ pc' = [pc EXCEPT ![r] = "plan"]
                  /\ roundMoved' = [roundMoved EXCEPT ![r] = FALSE]
                  /\ learned' = FALSE
                BY <1>2 DEF Top
            <4>2. /\ round \in [Req -> Nat] /\ pc \in [Req -> Pc]
                  /\ roundMoved \in [Req -> BOOLEAN]
                BY <3>1 DEF TypeOK
            <4>3. [round EXCEPT ![r] = @ + 1] \in [Req -> Nat]
                BY <4>2
            <4> QED
                BY <4>1, <4>2, <4>3
        <3>3. UNCHANGED <<ask, queue, plan, totals, liqFailed, stop, money>>
            BY <1>2 DEF Top
        <3> QED
            BY <3>1, <3>2, <3>3 DEF TypeOK, totals, money, IsPlan
    <2>2. ASSUME NEW q \in Req PROVE RequestInv(q)'
        <3>1. RequestInv(q) /\ TypeOK
            BY DEF IInv
        <3>2. GateInv(q)'
            BY <1>2, <3>1 DEF TypeOK, Top, RequestInv, GateInv
        <3>3. CASE q # r
            BY <1>2, <3>1, <3>2, <3>3, Untouched DEF TypeOK, Top, totals, money
        <3>4. CASE q = r
            <4>1. UNCHANGED <<ask, plan, totals, money>>
                BY <1>2 DEF Top
            <4>2. /\ pc[q] = "top" /\ pc'[q] = "plan"
                  /\ round'[q] = round[q] + 1 /\ round[q] \in Nat
                BY <1>2, <3>1, <3>4 DEF TypeOK, Top
            <4>3. BooksInv(q)'
                BY <3>1, <4>1 DEF RequestInv, BooksInv, totals, money
            <4>4. PotsInv(q)'
                BY <3>1, <4>1, <4>2 DEF RequestInv, PotsInv, totals, money
            <4>5. RateInv(q)'
                BY <3>1, <4>1, <4>2
                   DEF RequestInv, RateInv, RateKept, totals, money
            <4>6. StartInv(q)'
                BY <3>1, <4>1, <4>2 DEF RequestInv, StartInv, totals, money
            <4> QED
                BY <3>2, <4>3, <4>4, <4>5, <4>6 DEF RequestInv
        <3> QED
            BY <3>3, <3>4
    <2> QED
        BY <2>1, <2>2 DEF IInv
<1> QED
    BY <1>1, <1>2

\* A plan is made of what is left of the amount, the budget and the caps.
LEMMA PlanIInv ==
    ASSUME IInv, NEW r \in Req, Plan(r)
    PROVE  IInv'
<1> DEFINE Src(bound) ==
               [s \in bound |-> DrawDown(ask[r].srcCap, srcCommitted[r])[s]]
           dst == DrawDown(ask[r].dstCap, dstCommitted[r])
           P(rung, bound) ==
               [left |-> rung, fee |-> FeeBudget(r, rung),
                rateFee |-> FeeBudget(r, rung), rateAmount |-> rung,
                src |-> Src(bound), dst |-> dst, sent |-> FALSE]
<1>1. TypeOK /\ RequestInv(r)
    BY DEF IInv
<1>2. PICK rung \in 1..Remaining(r), bound \in SUBSET DOMAIN ask[r].srcCap :
            plan' = [plan EXCEPT ![r] = P(rung, bound)]
    BY DEF Plan
<1> DEFINE src == Src(bound)
<1>3. /\ delivered[r] + pending[r] <= ask[r].amount
      /\ ask[r].budget = "msat" => fee[r] + pendingFee[r] <= ask[r].maxfee
    BY <1>1, TypesOf DEF RequestInv, PotsInv
<1>4. Remaining(r) = ask[r].amount - (delivered[r] + pending[r])
    BY <1>1, <1>3, TypesOf DEF Remaining, Less
<1>5. /\ rung \in Nat \ {0}
      /\ delivered[r] + pending[r] + rung <= ask[r].amount
    BY <1>1, <1>2, <1>3, <1>4, TypesOf
<1>6. /\ FeeBudget(r, rung) \in Nat
      /\ ask[r].budget = "msat" =>
            fee[r] + pendingFee[r] + FeeBudget(r, rung) <= ask[r].maxfee
      /\ ask[r].budget = "ppm" =>
            FeeBudget(r, rung) * Million <= ask[r].maxfee * rung
    <2>1. CASE ask[r].budget = "msat"
        BY <1>1, <1>3, <2>1, TypesOf DEF FeeBudget, Less
    <2>2. CASE ask[r].budget = "ppm"
        <3>1. rung * ask[r].maxfee \in Nat
            BY <1>1, <1>5, TypesOf
        <3>2. FeeBudget(r, rung) = (rung * ask[r].maxfee) \div Million
            BY <2>2 DEF FeeBudget
        <3>3. /\ FeeBudget(r, rung) \in Nat
              /\ FeeBudget(r, rung) * Million <= rung * ask[r].maxfee
            BY <3>1, <3>2, RateOfBudget, RequestAssumption
        <3>4. rung * ask[r].maxfee = ask[r].maxfee * rung
            BY <1>1, <1>5, TypesOf
        <3> QED
            BY <2>2, <3>3, <3>4
    <2> QED
        BY <1>1, <2>1, <2>2, TypesOf
<1>7. /\ src \in [bound -> Nat]
      /\ \A s \in bound :
            src[s] = 0 \/ srcCommitted[r][s] + src[s] <= ask[r].srcCap[s]
    BY <1>1, TypesOf DEF DrawDown, Less, IsCap, RequestInv, PotsInv
<1>8. /\ dst \in [DOMAIN ask[r].dstCap -> Nat]
      /\ \A d \in DOMAIN ask[r].dstCap :
            dstCommitted[r][d] + dst[d] <= ask[r].dstCap[d]
    BY <1>1, TypesOf DEF DrawDown, Less, IsCap, RequestInv, PotsInv
<1>9. IsPlan(P(rung, bound))
    <2>1. P(rung, bound) = [left |-> rung, fee |-> FeeBudget(r, rung),
                     rateFee |-> FeeBudget(r, rung), rateAmount |-> rung,
                     src |-> src, dst |-> dst, sent |-> FALSE]
        OBVIOUS
    <2> HIDE DEF Src, P, src, dst
    <2>2. src \in [DOMAIN src -> Nat] /\ dst \in [DOMAIN dst -> Nat]
        BY <1>7, <1>8
    <2> QED
        BY <1>5, <1>6, <2>1, <2>2 DEF IsPlan
<1> DEFINE new == P(rung, bound)
<1>10. /\ new.left = rung /\ new.fee = FeeBudget(r, rung)
       /\ new.rateFee = FeeBudget(r, rung) /\ new.rateAmount = rung
       /\ new.src = src /\ new.dst = dst
       /\ new.sent = FALSE
    OBVIOUS
<1>11. IsPlan(new) /\ plan' = [plan EXCEPT ![r] = new]
    BY <1>2, <1>9
<1> HIDE DEF Src, P, new, src, dst
<1>12. /\ plan' = [q \in Req |-> plan'[q]]
       /\ \A q \in Req : IsPlan(plan'[q])
       /\ \A q \in Req : plan'[q] = IF q = r THEN new ELSE plan[q]
    BY <1>1, <1>11, PlanTypes
<1>13. TypeOK'
    BY <1>1, <1>12 DEF TypeOK, Plan, totals, money
<1>14. ASSUME NEW q \in Req PROVE RequestInv(q)'
    <2>1. RequestInv(q)
        BY DEF IInv
    <2>2. GateInv(q)'
        BY <1>1, <2>1 DEF TypeOK, Plan, RequestInv, GateInv
    <2>3. CASE q # r
        BY <1>1, <1>12, <2>1, <2>2, <2>3, Untouched
           DEF TypeOK, Plan, totals, money
    <2>4. CASE q = r
        <3>1. plan'[q] = new /\ pc'[q] = "execute" /\ pc[q] = "plan"
            BY <1>1, <1>12, <2>4 DEF TypeOK, Plan
        <3>2. BooksInv(q)'
            BY <2>1 DEF RequestInv, BooksInv, Plan, totals, money
        <3>3. PotsInv(q)'
            BY <2>1, <2>4, <3>1, <1>5, <1>6, <1>7, <1>8, <1>10
               DEF RequestInv, PotsInv, Plan, totals, money
        <3>4. RateInv(q)'
            BY <2>1, <2>4, <3>1, <1>5, <1>6, <1>10
               DEF RequestInv, RateInv, RateKept, Plan, totals, money
        <3>5. StartInv(q)'
            BY <2>1, <2>4, <3>1 DEF RequestInv, StartInv, Plan, totals, money
        <3> QED
            BY <2>2, <3>2, <3>3, <3>4, <3>5 DEF RequestInv
    <2> QED
        BY <2>3, <2>4
<1> QED
    BY <1>13, <1>14 DEF IInv

\* A failure in the first round is an error, and nothing has been sent.
LEMMA FailedIInv ==
    ASSUME IInv, NEW r \in Req, NEW reason \in Stop, LeaveFailed(r, reason),
           pc[r] = "plan" \/ (pc[r] = "execute" /\ ~plan[r].sent),
           UNCHANGED <<ask, round, totals, liqFailed, roundMoved, learned,
                       money>>
    PROVE  IInv'
<1> DEFINE how == IF round[r] > 1 THEN "answered" ELSE "error"
<1>1. Leave(r, how, reason) /\ how \in {"answered", "error"}
    BY DEF LeaveFailed
<1>2. how = "error" => round[r] <= 1
    BY TypesOf DEF IInv
<1>3. pc[r] \in {"top", "plan", "execute"}
    OBVIOUS
<1>4. /\ roundMoved \in [Req -> BOOLEAN] /\ learned \in BOOLEAN
      /\ liqFailed \in [Req -> BOOLEAN]
    BY DEF IInv, TypeOK
<1>5. /\ roundMoved' \in [Req -> BOOLEAN] /\ learned' \in BOOLEAN
      /\ liqFailed' \in [Req -> BOOLEAN]
    BY <1>4
<1>6. round' = round /\ UNCHANGED <<ask, totals, money>>
    OBVIOUS
<1> HIDE DEF how
<1> QED
    BY <1>1, <1>2, <1>3, <1>5, <1>6, LeaveIInv

LEMMA PlanFailsIInv ==
    ASSUME IInv, NEW r \in Req, PlanFails(r)
    PROVE  IInv'
BY FailedIInv DEF PlanFails

LEMMA ExecuteFailsIInv ==
    ASSUME IInv, NEW r \in Req, ExecuteFails(r)
    PROVE  IInv'
BY FailedIInv DEF ExecuteFails

LEMMA RetriesOnlyIInv ==
    ASSUME IInv, NEW r \in Req, RetriesOnly(r)
    PROVE  IInv'
BY LeaveIInv DEF RetriesOnly, IInv, TypeOK

\* The last round's plan goes with it; the totals stay.
LEMMA EndRoundIInv ==
    ASSUME IInv, NEW r \in Req, EndRound(r)
    PROVE  IInv'
<1>1. CASE \E reason \in {"noRoutes", "roundLimit", "stalled"} :
                Leave(r, "answered", reason)
    <2>1. PICK reason \in {"noRoutes", "roundLimit", "stalled"} :
                Leave(r, "answered", reason)
        BY <1>1
    <2>2. reason \in Stop
        OBVIOUS
    <2>3. pc[r] = "execute"
        BY DEF EndRound
    <2>4. UNCHANGED <<ask, round, totals, liqFailed, roundMoved, learned, money>>
        BY DEF EndRound
    <2> QED
        BY <2>1, <2>2, <2>3, <2>4, LeaveIInv DEF IInv, TypeOK
<1>2. CASE /\ plan[r].sent
           /\ pc' = [pc EXCEPT ![r] = "top"]
           /\ plan' = [plan EXCEPT ![r] = NoPlan]
           /\ UNCHANGED <<queue, stop>>
    <2>1. TypeOK /\ RequestInv(r)
        BY DEF IInv
    <2>2. /\ plan' = [q \in Req |-> plan'[q]]
          /\ \A q \in Req : IsPlan(plan'[q])
          /\ \A q \in Req : plan'[q] = IF q = r THEN NoPlan ELSE plan[q]
        BY <1>2, <2>1, NoPlanIsPlan, PlanTypes
    <2>3. TypeOK'
        BY <1>2, <2>1, <2>2 DEF TypeOK, EndRound, totals, money
    <2>4. ASSUME NEW q \in Req PROVE RequestInv(q)'
        <3>1. RequestInv(q)
            BY DEF IInv
        <3>2. GateInv(q)'
            BY <1>2, <2>1, <3>1 DEF TypeOK, EndRound, RequestInv, GateInv
        <3>3. CASE q # r
            BY <1>2, <2>1, <2>2, <3>1, <3>2, <3>3, Untouched
               DEF TypeOK, EndRound, totals, money
        <3>4. CASE q = r
            <4>1. /\ pc'[q] = "top" /\ pc[q] = "execute" /\ plan'[q] = NoPlan
                  /\ NoPlan.left = 0 /\ NoPlan.fee = 0
                BY <1>2, <2>1, <2>2, <3>4 DEF TypeOK, EndRound, NoPlan
            <4>2. BooksInv(q)'
                BY <3>1 DEF RequestInv, BooksInv, EndRound, totals, money
            <4>3. PotsInv(q)'
                BY <2>1, <3>1, <4>1, TypesOf
                   DEF RequestInv, PotsInv, EndRound, totals, money
            <4>4. RateInv(q)'
                BY <3>1, <4>1
                   DEF RequestInv, RateInv, RateKept, EndRound, totals, money
            <4>5. StartInv(q)'
                BY <2>1, <3>1, <4>1, TypesOf
                   DEF RequestInv, StartInv, EndRound, totals, money
            <4> QED
                BY <3>2, <4>2, <4>3, <4>4, <4>5 DEF RequestInv
        <3> QED
            BY <3>3, <3>4
    <2> QED
        BY <2>3, <2>4 DEF IInv
<1> QED
    BY <1>1, <1>2 DEF EndRound

-----------------------------------------------------------------------------
(* Parts and stragglers.                                                   *)

\* Adding to, and taking from, the account of one channel of one request.
LEMMA NestedSum ==
    ASSUME NEW S, NEW T, NEW f \in [S -> [T -> Nat]],
           NEW s \in S, NEW t \in T, NEW n \in Nat
    PROVE  /\ [f EXCEPT ![s][t] = @ + n] \in [S -> [T -> Nat]]
           /\ \A x \in S, y \in T :
                [f EXCEPT ![s][t] = @ + n][x][y] =
                    IF x = s /\ y = t THEN f[x][y] + n ELSE f[x][y]
           /\ \A x \in S : x # s => [f EXCEPT ![s][t] = @ + n][x] = f[x]
<1> DEFINE g == [f[s] EXCEPT ![t] = @ + n]
<1>1. g \in [T -> Nat] /\ \A y \in T : g[y] = IF y = t THEN f[s][y] + n
                                                     ELSE f[s][y]
    OBVIOUS
<1>2. [f EXCEPT ![s][t] = @ + n] = [f EXCEPT ![s] = g]
    OBVIOUS
<1> HIDE DEF g
<1>3. [f EXCEPT ![s] = g] \in [S -> [T -> Nat]]
    BY <1>1
<1> QED
    BY <1>1, <1>2, <1>3

\* The same when nothing may be added: the type, the account, the others.
LEMMA AccountType ==
    ASSUME NEW S, NEW T, NEW f \in [S -> [T -> Nat]], NEW g,
           NEW s \in S, NEW t \in T, NEW n \in Nat,
           (n = 0 /\ g = f) \/ g = [f EXCEPT ![s][t] = @ + n]
    PROVE  g \in [S -> [T -> Nat]]
BY NestedSum

LEMMA AccountOf ==
    ASSUME NEW S, NEW T, NEW f \in [S -> [T -> Nat]], NEW g,
           NEW s \in S, NEW t \in T, NEW n \in Nat,
           (n = 0 /\ g = f) \/ g = [f EXCEPT ![s][t] = @ + n],
           NEW y \in T
    PROVE  g[s][y] = IF y = t THEN f[s][y] + n ELSE f[s][y]
<1>1. f[s][y] \in Nat
    OBVIOUS
<1> QED
    BY <1>1, NestedSum

LEMMA AccountOfOthers ==
    ASSUME NEW S, NEW T, NEW f \in [S -> [T -> Nat]], NEW g,
           NEW s \in S, NEW t \in T, NEW n \in Nat,
           (n = 0 /\ g = f) \/ g = [f EXCEPT ![s][t] = @ + n],
           NEW x \in S, x # s
    PROVE  g[x] = f[x]
BY NestedSum

LEMMA NestedDifference ==
    ASSUME NEW S, NEW T, NEW f \in [S -> [T -> Nat]],
           NEW s \in S, NEW t \in T, NEW n \in Nat, n <= f[s][t]
    PROVE  /\ [f EXCEPT ![s][t] = @ - n] \in [S -> [T -> Nat]]
           /\ \A x \in S, y \in T :
                [f EXCEPT ![s][t] = @ - n][x][y] =
                    IF x = s /\ y = t THEN f[x][y] - n ELSE f[x][y]
           /\ \A x \in S : x # s => [f EXCEPT ![s][t] = @ - n][x] = f[x]
<1> DEFINE g == [f[s] EXCEPT ![t] = @ - n]
<1>1. g \in [T -> Nat] /\ \A y \in T : g[y] = IF y = t THEN f[s][y] - n
                                                     ELSE f[s][y]
    OBVIOUS
<1>2. [f EXCEPT ![s][t] = @ - n] = [f EXCEPT ![s] = g]
    OBVIOUS
<1> HIDE DEF g
<1>3. [f EXCEPT ![s] = g] \in [S -> [T -> Nat]]
    BY <1>1
<1> QED
    BY <1>1, <1>2, <1>3

\* What becomes of the stragglers when a portion of them ends.
Resolved(r, x, y, s, d) ==
    /\ out' \in [Req -> Nat] /\ outFee' \in [Req -> Nat]
    /\ outSrc' \in [Req -> [Source -> Nat]]
    /\ outDst' \in [Req -> [Dest -> Nat]]
    /\ out'[r] = out[r] - x /\ outFee'[r] = outFee[r] - y
    /\ \A c \in Source : outSrc'[r][c] =
             IF c = s THEN outSrc[r][c] - (x + y) ELSE outSrc[r][c]
    /\ \A c \in Dest : outDst'[r][c] =
             IF c = d THEN outDst[r][c] - x ELSE outDst[r][c]
    /\ \A q \in Req : q # r => /\ out'[q] = out[q]
                               /\ outFee'[q] = outFee[q]
                               /\ outSrc'[q] = outSrc[q]
                               /\ outDst'[q] = outDst[q]
    /\ learned' \in BOOLEAN

\* A straggler leaves `out`.
LEMMA ResolveOut ==
    ASSUME TypeOK, NEW r \in Req, NEW s \in Source, NEW d \in Dest,
           NEW x \in Nat, NEW y \in Nat, Resolve(r, x, y, s, d)
    PROVE  Resolved(r, x, y, s, d)
<1>1. /\ out \in [Req -> Nat] /\ outFee \in [Req -> Nat]
      /\ outSrc \in [Req -> [Source -> Nat]]
      /\ outDst \in [Req -> [Dest -> Nat]]
      /\ learned \in BOOLEAN
    BY DEF TypeOK
<1>2. /\ x <= out[r] /\ y <= outFee[r]
      /\ x + y <= outSrc[r][s] /\ x <= outDst[r][d]
      /\ out' = [out EXCEPT ![r] = @ - x]
      /\ outFee' = [outFee EXCEPT ![r] = @ - y]
      /\ outSrc' = [outSrc EXCEPT ![r][s] = @ - (x + y)]
      /\ outDst' = [outDst EXCEPT ![r][d] = @ - x]
      /\ learned' \in {learned, TRUE}
    BY DEF Resolve
<1>3. /\ out' \in [Req -> Nat] /\ outFee' \in [Req -> Nat]
      /\ out'[r] = out[r] - x /\ outFee'[r] = outFee[r] - y
      /\ \A q \in Req : q # r => out'[q] = out[q] /\ outFee'[q] = outFee[q]
    BY <1>1, <1>2
<1>4. /\ outSrc' \in [Req -> [Source -> Nat]]
      /\ \A q \in Req, c \in Source : outSrc'[q][c] =
            IF q = r /\ c = s THEN outSrc[q][c] - (x + y) ELSE outSrc[q][c]
      /\ \A q \in Req : q # r => outSrc'[q] = outSrc[q]
    <2>1. x + y \in Nat
        OBVIOUS
    <2> QED
        BY <1>1, <1>2, <2>1, NestedDifference
<1>5. /\ outDst' \in [Req -> [Dest -> Nat]]
      /\ \A q \in Req, c \in Dest : outDst'[q][c] =
            IF q = r /\ c = d THEN outDst[q][c] - x ELSE outDst[q][c]
      /\ \A q \in Req : q # r => outDst'[q] = outDst[q]
    BY <1>1, <1>2, NestedDifference
<1>6. \A c \in Source : outSrc'[r][c] =
            IF c = s THEN outSrc[r][c] - (x + y) ELSE outSrc[r][c]
    BY <1>4
<1>7. \A c \in Dest : outDst'[r][c] =
            IF c = d THEN outDst[r][c] - x ELSE outDst[r][c]
    BY <1>5
<1>8. learned' \in BOOLEAN
    BY <1>1, <1>2
<1> QED
    BY <1>3, <1>4, <1>5, <1>6, <1>7, <1>8 DEF Resolved

\* What a request spends is already booked as pending, so a straggler that
\* returns only leaves room.
LEMMA ReturnIInv ==
    ASSUME IInv, NEW r \in Req, NEW s \in Source, NEW d \in Dest,
           NEW x \in Nat, NEW y \in Nat, Return(r, x, y, s, d)
    PROVE  IInv'
<1>1. TypeOK /\ Resolve(r, x, y, s, d)
    BY DEF IInv, Return
<1>r. Resolved(r, x, y, s, d)
    BY <1>1, ResolveOut
<1>2. /\ UNCHANGED <<ask, pc, queue, round, plan, totals, liqFailed,
                     roundMoved, stop>>
      /\ UNCHANGED <<moved, movedFee, movedSrc, movedDst>>
    BY DEF Return, Resolve
<1>3. TypeOK'
    BY <1>1, <1>2, <1>r DEF TypeOK, totals, IsPlan, Resolved
<1>4. ASSUME NEW q \in Req PROVE RequestInv(q)'
    <2>1. RequestInv(q)
        BY DEF IInv
    <2>2. GateInv(q)'
        BY <1>2, <2>1 DEF RequestInv, GateInv
    <2>3. CASE q # r
        BY <1>1, <1>2, <2>1, <2>2, <2>3, <1>r, Untouched
           DEF totals, Resolved
    <2>4. CASE q = r
        <3>1. BooksInv(q)'
            <4>1. BooksInv(r)
                BY <2>1, <2>4 DEF RequestInv
            <4>2. /\ moved'[r] + out'[r] <= delivered'[r] + pending'[r]
                  /\ movedFee'[r] + outFee'[r] <= fee'[r] + pendingFee'[r]
                <5>1. /\ pending[r] \in Nat /\ pendingFee[r] \in Nat
                      /\ delivered[r] \in Nat /\ fee[r] \in Nat
                      /\ moved[r] \in Nat /\ movedFee[r] \in Nat
                      /\ out[r] \in Nat /\ outFee[r] \in Nat
                    BY <1>1, TypesOf
                <5>2. out'[r] = out[r] - x /\ outFee'[r] = outFee[r] - y
                    BY <1>r DEF Resolved
                <5> QED
                    BY <1>2, <4>1, <5>1, <5>2 DEF BooksInv, totals
            <4>3. ASSUME NEW c \in Source
                  PROVE  movedSrc'[r][c] + outSrc'[r][c] <= srcCommitted'[r][c]
                <5>1. /\ movedSrc[r][c] \in Nat /\ outSrc[r][c] \in Nat
                      /\ srcCommitted[r][c] \in Nat
                    BY <1>1, TypesOf
                <5>2. outSrc'[r][c] <= outSrc[r][c] /\ outSrc'[r][c] \in Int
                    BY <5>1, <1>r, SMTT(30) DEF Resolved
                <5>3. /\ movedSrc' = movedSrc
                      /\ srcCommitted' = srcCommitted
                    BY <1>2 DEF totals
                <5> QED
                    BY <4>1, <5>1, <5>2, <5>3 DEF BooksInv
            <4>4. ASSUME NEW c \in Dest
                  PROVE  movedDst'[r][c] + outDst'[r][c] <= dstCommitted'[r][c]
                <5>1. /\ movedDst[r][c] \in Nat /\ outDst[r][c] \in Nat
                      /\ dstCommitted[r][c] \in Nat
                    BY <1>1, TypesOf
                <5>2. outDst'[r][c] <= outDst[r][c] /\ outDst'[r][c] \in Int
                    BY <5>1, <1>r, SMTT(30) DEF Resolved
                <5>3. /\ movedDst' = movedDst
                      /\ dstCommitted' = dstCommitted
                    BY <1>2 DEF totals
                <5> QED
                    BY <4>1, <5>1, <5>2, <5>3 DEF BooksInv
            <4> QED
                BY <1>2, <2>4, <4>1, <4>2, <4>3, <4>4 DEF BooksInv, totals
        <3>2. PotsInv(q)'
            BY <1>2, <2>1 DEF RequestInv, PotsInv, totals
        <3>3. RateKept(r, outFee[r] - y, out[r] - x)
            BY <1>1 DEF Resolve
        <3>4. RateInv(q)'
            BY <1>1, <1>2, <2>1, <2>4, <3>3, <1>r
               DEF RequestInv, RateInv, RateKept, Resolved
        <3>5. StartInv(q)'
            BY <1>2, <2>1 DEF RequestInv, StartInv, totals
        <3> QED
            BY <2>2, <3>1, <3>2, <3>4, <3>5 DEF RequestInv
    <2> QED
        BY <2>3, <2>4
<1> QED
    BY <1>3, <1>4 DEF IInv

\* A straggler that settles moves from one side of the books to the other.
LEMMA SettleIInv ==
    ASSUME IInv, NEW r \in Req, NEW s \in Source, NEW d \in Dest,
           NEW x \in Nat, NEW y \in Nat, Settle(r, x, y, s, d)
    PROVE  IInv'
<1>1. TypeOK /\ Resolve(r, x, y, s, d)
    BY DEF IInv, Settle
<1>r. Resolved(r, x, y, s, d)
    BY <1>1, ResolveOut
<1>2. UNCHANGED <<ask, pc, queue, round, plan, totals, liqFailed,
                  roundMoved, stop>>
    BY DEF Settle, Resolve
<1>3. /\ moved' \in [Req -> Nat] /\ movedFee' \in [Req -> Nat]
      /\ moved'[r] = moved[r] + x /\ movedFee'[r] = movedFee[r] + y
      /\ \A q \in Req : q # r => /\ moved'[q] = moved[q]
                                 /\ movedFee'[q] = movedFee[q]
    <2>1. moved \in [Req -> Nat] /\ movedFee \in [Req -> Nat]
        BY <1>1 DEF TypeOK
    <2> QED
        BY <2>1 DEF Settle
<1>4. /\ movedSrc' \in [Req -> [Source -> Nat]]
      /\ \A q \in Req, c \in Source : movedSrc'[q][c] =
            IF q = r /\ c = s THEN movedSrc[q][c] + (x + y) ELSE movedSrc[q][c]
      /\ \A q \in Req : q # r => movedSrc'[q] = movedSrc[q]
    <2>1. movedSrc \in [Req -> [Source -> Nat]]
        BY <1>1 DEF TypeOK
    <2>2. x + y \in Nat
        OBVIOUS
    <2> QED
        BY <2>1, <2>2, NestedSum DEF Settle
<1>5. /\ movedDst' \in [Req -> [Dest -> Nat]]
      /\ \A q \in Req, c \in Dest : movedDst'[q][c] =
            IF q = r /\ c = d THEN movedDst[q][c] + x ELSE movedDst[q][c]
      /\ \A q \in Req : q # r => movedDst'[q] = movedDst[q]
    <2>1. movedDst \in [Req -> [Dest -> Nat]]
        BY <1>1 DEF TypeOK
    <2> QED
        BY <2>1, NestedSum DEF Settle
<1>6. TypeOK'
    BY <1>1, <1>2, <1>3, <1>4, <1>5, <1>r
       DEF TypeOK, totals, IsPlan, Resolved
<1>7. ASSUME NEW q \in Req PROVE RequestInv(q)'
    <2>1. RequestInv(q)
        BY DEF IInv
    <2>2. GateInv(q)'
        BY <1>2, <2>1 DEF RequestInv, GateInv
    <2>3. CASE q # r
        BY <1>1, <1>2, <1>3, <1>4, <1>5, <2>1, <2>2, <2>3, <1>r,
           Untouched DEF totals, Resolved
    <2>4. CASE q = r
        <3>1. BooksInv(q)'
            <4>1. BooksInv(r)
                BY <2>1, <2>4 DEF RequestInv
            <4>2. /\ delivered' = delivered /\ fee' = fee
                  /\ pending' = pending /\ pendingFee' = pendingFee
                  /\ srcCommitted' = srcCommitted
                  /\ dstCommitted' = dstCommitted
                BY <1>2 DEF totals
            <4>3. /\ delivered'[r] <= moved'[r] /\ fee'[r] <= movedFee'[r]
                  /\ moved'[r] + out'[r] <= delivered'[r] + pending'[r]
                  /\ movedFee'[r] + outFee'[r] <= fee'[r] + pendingFee'[r]
                <5>1. /\ delivered[r] \in Nat /\ fee[r] \in Nat
                      /\ pending[r] \in Nat /\ pendingFee[r] \in Nat
                      /\ moved[r] \in Nat /\ movedFee[r] \in Nat
                      /\ out[r] \in Nat /\ outFee[r] \in Nat
                    BY <1>1, TypesOf
                <5>2. out'[r] = out[r] - x /\ outFee'[r] = outFee[r] - y
                    BY <1>r DEF Resolved
                <5> QED
                    BY <1>3, <4>1, <4>2, <5>1, <5>2 DEF BooksInv
            <4>4. ASSUME NEW c \in Source
                  PROVE  movedSrc'[r][c] + outSrc'[r][c] <= srcCommitted'[r][c]
                <5>1. /\ movedSrc[r][c] \in Nat /\ outSrc[r][c] \in Nat
                      /\ srcCommitted[r][c] \in Nat
                    BY <1>1, TypesOf
                <5>2. outSrc'[r][c] =
                        IF c = s THEN outSrc[r][c] - (x + y) ELSE outSrc[r][c]
                    BY <1>r DEF Resolved
                <5> QED
                    BY <1>4, <4>1, <4>2, <5>1, <5>2 DEF BooksInv
            <4>5. ASSUME NEW c \in Dest
                  PROVE  movedDst'[r][c] + outDst'[r][c] <= dstCommitted'[r][c]
                <5>1. /\ movedDst[r][c] \in Nat /\ outDst[r][c] \in Nat
                      /\ dstCommitted[r][c] \in Nat
                    BY <1>1, TypesOf
                <5>2. outDst'[r][c] =
                        IF c = d THEN outDst[r][c] - x ELSE outDst[r][c]
                    BY <1>r DEF Resolved
                <5> QED
                    BY <1>5, <4>1, <4>2, <5>1, <5>2 DEF BooksInv
            <4> QED
                BY <2>4, <4>3, <4>4, <4>5 DEF BooksInv
        <3>2. PotsInv(q)'
            BY <1>2, <2>1 DEF RequestInv, PotsInv, totals
        <3>3. RateKept(r, y, x) /\ RateKept(r, outFee[r] - y, out[r] - x)
            BY <1>1 DEF Resolve
        <3>4. RateKept(r, movedFee[r] + y, moved[r] + x)
            BY <1>1, <2>1, <2>4, <3>3, RateAdds, TypesOf, RequestAssumption
               DEF RequestInv, RateInv, RateKept
        <3>5. RateInv(q)'
            BY <1>1, <1>2, <1>3, <2>1, <2>4, <3>3, <3>4, <1>r
               DEF RequestInv, RateInv, RateKept, Resolved
        <3>6. StartInv(q)'
            BY <1>2, <2>1 DEF RequestInv, StartInv, totals
        <3> QED
            BY <2>2, <3>1, <3>2, <3>5, <3>6 DEF RequestInv
    <2> QED
        BY <2>3, <2>4
<1> QED
    BY <1>6, <1>7 DEF IInv

\* What a part takes from the plan, the plan had.
LEMMA AfterIsPlan ==
    ASSUME NEW p, IsPlan(p), NEW s, NEW d, NEW x \in Nat, NEW sent \in Nat,
           x <= sent, Fits(p, x, sent - x, s, d),
           NEW new, new = After(p, x, sent, s, d)
    PROVE  /\ IsPlan(new)
           /\ new.left = p.left - x /\ new.fee = p.fee - (sent - x)
           /\ new.rateFee = p.rateFee /\ new.rateAmount = p.rateAmount
           /\ new.src = [c \in DOMAIN p.src |-> IF c = s THEN p.src[c] - sent
                                                ELSE p.src[c]]
           /\ new.dst = [c \in DOMAIN p.dst |-> IF c = d THEN p.dst[c] - x
                                                ELSE p.dst[c]]
           /\ new.sent = TRUE
<1> DEFINE src == [c \in DOMAIN p.src |-> IF c = s THEN p.src[c] - sent
                                          ELSE p.src[c]]
           dst == [c \in DOMAIN p.dst |-> IF c = d THEN p.dst[c] - x
                                          ELSE p.dst[c]]
<1>1. /\ p.left \in Nat /\ p.fee \in Nat /\ p.rateFee \in Nat
      /\ p.rateAmount \in Nat
      /\ p.src \in [DOMAIN p.src -> Nat] /\ p.dst \in [DOMAIN p.dst -> Nat]
    BY DEF IsPlan
<1>2. /\ x <= p.left /\ sent - x <= p.fee
      /\ s \in DOMAIN p.src => sent <= p.src[s]
      /\ d \in DOMAIN p.dst => x <= p.dst[d]
    <2>1. x + (sent - x) = sent
        OBVIOUS
    <2> QED
        BY <2>1 DEF Fits
<1>3. /\ src \in [DOMAIN p.src -> Nat] /\ dst \in [DOMAIN p.dst -> Nat]
      /\ DOMAIN src = DOMAIN p.src /\ DOMAIN dst = DOMAIN p.dst
    BY <1>1, <1>2
<1>4. After(p, x, sent, s, d) =
        [left |-> p.left - x, fee |-> p.fee - (sent - x),
         rateFee |-> p.rateFee, rateAmount |-> p.rateAmount,
         src |-> src, dst |-> dst, sent |-> TRUE]
    BY DEF After
<1>5. p.left - x \in Nat /\ p.fee - (sent - x) \in Nat
    BY <1>1, <1>2
<1>6. IsPlan(After(p, x, sent, s, d))
    <2> HIDE DEF src, dst
    <2> QED
        BY <1>1, <1>3, <1>4, <1>5 DEF IsPlan
<1> QED
    BY <1>4, <1>6

\* A part takes from what the plan had left what it adds to the totals, and
\* what it may cost keeps to the rate; a failed part gives nothing back.
LEMMA ExecuteIInv ==
    ASSUME IInv, NEW r \in Req, NEW s \in Source, NEW d \in Dest,
           NEW status \in {"complete", "pending", "failed"},
           NEW x \in Nat \ {0}, NEW sent \in Nat, x <= sent,
           Execute(r, status, x, sent, s, d)
    PROVE  IInv'
<1> DEFINE y == sent - x
           new == After(plan[r], x, sent, s, d)
<1>1. TypeOK /\ RequestInv(r) /\ IsPlan(plan[r])
    BY TypesOf DEF IInv
<1>2. /\ pc[r] = "execute" /\ Fits(plan[r], x, y, s, d)
      /\ plan' = [plan EXCEPT ![r] = new]
      /\ UNCHANGED <<ask, pc, queue, round, stop>>
    BY DEF Execute
<1>3. y \in Nat /\ x + y = sent /\ FeeOf(sent, x) = y
    BY DEF FeeOf, Less
<1>4. /\ IsPlan(new)
      /\ new.left = plan[r].left - x /\ new.fee = plan[r].fee - y
      /\ new.rateFee = plan[r].rateFee /\ new.rateAmount = plan[r].rateAmount
      /\ new.src = [c \in DOMAIN plan[r].src |->
                        IF c = s THEN plan[r].src[c] - sent ELSE plan[r].src[c]]
      /\ new.dst = [c \in DOMAIN plan[r].dst |->
                        IF c = d THEN plan[r].dst[c] - x ELSE plan[r].dst[c]]
      /\ new.sent = TRUE
    BY <1>1, <1>2, AfterIsPlan
<1>5. RateKept(r, y, x)
    <2>1. y * plan[r].rateAmount <= plan[r].rateFee * x
        BY <1>2 DEF Fits, WithinRate
    <2>2. plan[r].rateAmount \in Nat \ {0} /\ plan[r].rateFee \in Nat
        BY <1>1, <1>2, TypesOf DEF RequestInv, RateInv
    <2>3. RateKept(r, plan[r].rateFee, plan[r].rateAmount)
        BY <1>1, <1>2 DEF RequestInv, RateInv
    <2>4. ask[r].maxfee \in Nat /\ Million \in Nat
        BY <1>1, TypesOf, RequestAssumption
    <2> DEFINE F == plan[r].rateFee
               A == plan[r].rateAmount
               ppm == ask[r].maxfee
    <2>5. /\ F \in Nat /\ A \in Nat \ {0} /\ ppm \in Nat /\ y * A <= F * x
          /\ ask[r].budget = "ppm" => F * Million <= ppm * A
        BY <2>1, <2>2, <2>3, <2>4 DEF RateKept
    <2> HIDE DEF y, F, A, ppm
    <2>6. ask[r].budget = "ppm" => y * Million <= ppm * x
        BY <1>3, <2>4, <2>5, RateOfPart
    <2> QED
        BY <2>6 DEF RateKept, ppm
<1> DEFINE okx == IF status = "complete" THEN x ELSE 0
           oky == IF status = "complete" THEN y ELSE 0
           latex == IF status = "pending" THEN x ELSE 0
           latey == IF status = "pending" THEN y ELSE 0
           keptx == IF status = "failed" THEN 0 ELSE x
           kepts == IF status = "failed" THEN 0 ELSE sent
           oks == IF status = "complete" THEN sent ELSE 0
           lates == IF status = "pending" THEN sent ELSE 0
<1> HIDE DEF new, y
<1>6. /\ okx \in Nat /\ oky \in Nat /\ latex \in Nat /\ latey \in Nat
      /\ keptx \in Nat /\ kepts \in Nat /\ oks \in Nat /\ lates \in Nat
      /\ keptx = okx + latex /\ kepts = oks + lates
      /\ okx + latex <= x /\ oky + latey <= y /\ kepts <= sent
    BY <1>3
<1>7. /\ delivered' = [delivered EXCEPT ![r] = @ + okx]
      /\ fee' = [fee EXCEPT ![r] = @ + oky]
      /\ pending' = [pending EXCEPT ![r] = @ + latex]
      /\ pendingFee' = [pendingFee EXCEPT ![r] = @ + latey]
    BY <1>3 DEF Execute, DeliveredOf, PendingOf
<1>8. /\ moved' = [moved EXCEPT ![r] = @ + okx]
      /\ movedFee' = [movedFee EXCEPT ![r] = @ + oky]
      /\ out' = [out EXCEPT ![r] = @ + latex]
      /\ outFee' = [outFee EXCEPT ![r] = @ + latey]
    <2>1. /\ moved \in [Req -> Nat] /\ movedFee \in [Req -> Nat]
          /\ out \in [Req -> Nat] /\ outFee \in [Req -> Nat]
        BY <1>1 DEF TypeOK
    <2> QED
        BY <2>1 DEF Execute, money, y
<1> HIDE DEF okx, oky, latex, latey, keptx, kepts, oks, lates
<1>9. /\ srcCommitted' \in [Req -> [Source -> Nat]]
      /\ \A c \in Source : srcCommitted'[r][c] =
            IF c = s THEN srcCommitted[r][c] + kepts ELSE srcCommitted[r][c]
      /\ \A q \in Req : q # r => srcCommitted'[q] = srcCommitted[q]
    <2>1. srcCommitted \in [Req -> [Source -> Nat]]
        BY <1>1 DEF TypeOK
    <2>2. \/ kepts = 0 /\ srcCommitted' = srcCommitted
          \/ srcCommitted' = [srcCommitted EXCEPT ![r][s] = @ + kepts]
        BY DEF Execute, money, kepts
    <2> QED
        BY <1>6, <2>1, <2>2, AccountType, AccountOf, AccountOfOthers
<1>10. /\ dstCommitted' \in [Req -> [Dest -> Nat]]
       /\ \A c \in Dest : dstCommitted'[r][c] =
             IF c = d THEN dstCommitted[r][c] + keptx ELSE dstCommitted[r][c]
       /\ \A q \in Req : q # r => dstCommitted'[q] = dstCommitted[q]
    <2>1. dstCommitted \in [Req -> [Dest -> Nat]]
        BY <1>1 DEF TypeOK
    <2>2. \/ keptx = 0 /\ dstCommitted' = dstCommitted
          \/ dstCommitted' = [dstCommitted EXCEPT ![r][d] = @ + keptx]
        BY DEF Execute, money, keptx
    <2> QED
        BY <1>6, <2>1, <2>2, AccountType, AccountOf, AccountOfOthers
<1>11. /\ movedSrc' \in [Req -> [Source -> Nat]]
       /\ \A c \in Source : movedSrc'[r][c] =
             IF c = s THEN movedSrc[r][c] + oks ELSE movedSrc[r][c]
       /\ \A q \in Req : q # r => movedSrc'[q] = movedSrc[q]
    <2>1. movedSrc \in [Req -> [Source -> Nat]]
        BY <1>1 DEF TypeOK
    <2>2. \/ oks = 0 /\ movedSrc' = movedSrc
          \/ movedSrc' = [movedSrc EXCEPT ![r][s] = @ + oks]
        BY DEF Execute, money, oks
    <2> QED
        BY <1>6, <2>1, <2>2, AccountType, AccountOf, AccountOfOthers
<1>12. /\ movedDst' \in [Req -> [Dest -> Nat]]
       /\ \A c \in Dest : movedDst'[r][c] =
             IF c = d THEN movedDst[r][c] + okx ELSE movedDst[r][c]
       /\ \A q \in Req : q # r => movedDst'[q] = movedDst[q]
    <2>1. movedDst \in [Req -> [Dest -> Nat]]
        BY <1>1 DEF TypeOK
    <2>2. \/ okx = 0 /\ movedDst' = movedDst
          \/ movedDst' = [movedDst EXCEPT ![r][d] = @ + okx]
        BY DEF Execute, money, okx
    <2> QED
        BY <1>6, <2>1, <2>2, AccountType, AccountOf, AccountOfOthers
<1>13. /\ outSrc' \in [Req -> [Source -> Nat]]
       /\ \A c \in Source : outSrc'[r][c] =
             IF c = s THEN outSrc[r][c] + lates ELSE outSrc[r][c]
       /\ \A q \in Req : q # r => outSrc'[q] = outSrc[q]
    <2>1. outSrc \in [Req -> [Source -> Nat]]
        BY <1>1 DEF TypeOK
    <2>2. \/ lates = 0 /\ outSrc' = outSrc
          \/ outSrc' = [outSrc EXCEPT ![r][s] = @ + lates]
        BY DEF Execute, money, lates
    <2> QED
        BY <1>6, <2>1, <2>2, AccountType, AccountOf, AccountOfOthers
<1>14. /\ outDst' \in [Req -> [Dest -> Nat]]
       /\ \A c \in Dest : outDst'[r][c] =
             IF c = d THEN outDst[r][c] + latex ELSE outDst[r][c]
       /\ \A q \in Req : q # r => outDst'[q] = outDst[q]
    <2>1. outDst \in [Req -> [Dest -> Nat]]
        BY <1>1 DEF TypeOK
    <2>2. \/ latex = 0 /\ outDst' = outDst
          \/ outDst' = [outDst EXCEPT ![r][d] = @ + latex]
        BY DEF Execute, money, latex
    <2> QED
        BY <1>6, <2>1, <2>2, AccountType, AccountOf, AccountOfOthers
<1>15. /\ \A q \in Req : q # r =>
            /\ delivered'[q] = delivered[q] /\ fee'[q] = fee[q]
            /\ pending'[q] = pending[q] /\ pendingFee'[q] = pendingFee[q]
            /\ moved'[q] = moved[q] /\ movedFee'[q] = movedFee[q]
            /\ out'[q] = out[q] /\ outFee'[q] = outFee[q]
       /\ delivered'[r] = delivered[r] + okx /\ fee'[r] = fee[r] + oky
       /\ pending'[r] = pending[r] + latex
       /\ pendingFee'[r] = pendingFee[r] + latey
       /\ moved'[r] = moved[r] + okx /\ movedFee'[r] = movedFee[r] + oky
       /\ out'[r] = out[r] + latex /\ outFee'[r] = outFee[r] + latey
       /\ delivered' \in [Req -> Nat] /\ fee' \in [Req -> Nat]
       /\ pending' \in [Req -> Nat] /\ pendingFee' \in [Req -> Nat]
       /\ moved' \in [Req -> Nat] /\ movedFee' \in [Req -> Nat]
       /\ out' \in [Req -> Nat] /\ outFee' \in [Req -> Nat]
    <2>1. /\ delivered \in [Req -> Nat] /\ fee \in [Req -> Nat]
          /\ pending \in [Req -> Nat] /\ pendingFee \in [Req -> Nat]
          /\ moved \in [Req -> Nat] /\ movedFee \in [Req -> Nat]
          /\ out \in [Req -> Nat] /\ outFee \in [Req -> Nat]
        BY <1>1 DEF TypeOK
    <2> QED
        BY <1>6, <1>7, <1>8, <2>1
<1>16. /\ plan' = [q \in Req |-> plan'[q]]
       /\ \A q \in Req : IsPlan(plan'[q])
       /\ \A q \in Req : plan'[q] = IF q = r THEN new ELSE plan[q]
    BY <1>1, <1>2, <1>4, PlanTypes
<1>17. /\ learned' \in BOOLEAN /\ liqFailed' \in [Req -> BOOLEAN]
       /\ roundMoved' \in [Req -> BOOLEAN]
    <2>1. /\ learned \in BOOLEAN /\ liqFailed \in [Req -> BOOLEAN]
          /\ roundMoved \in [Req -> BOOLEAN]
        BY <1>1 DEF TypeOK
    <2>2. /\ learned' \in {learned, TRUE}
          /\ liqFailed' \in {liqFailed, [liqFailed EXCEPT ![r] = TRUE]}
          /\ roundMoved' \in {roundMoved, [roundMoved EXCEPT ![r] = TRUE]}
        BY DEF Execute
    <2> QED
        BY <2>1, <2>2
<1>18. /\ loose' \in [Req -> SUBSET Source]
       /\ \A c \in Source : c # s => (c \in loose'[r] <=> c \in loose[r])
       /\ status = "failed" => loose'[r] = loose[r]
       /\ status # "failed" =>
            (s \in loose'[r] <=> s \in DOMAIN ask[r].srcCap \ DOMAIN plan[r].src)
       /\ \A q \in Req : q # r => loose'[q] = loose[q]
    <2>1. loose \in [Req -> SUBSET Source]
        BY <1>1 DEF TypeOK
    <2>2. CASE status = "failed"
        <3>1. loose' = loose
            BY <2>2 DEF Execute
        <3> QED
            BY <2>1, <2>2, <3>1
    <2>3. CASE status # "failed"
        <3>1. loose' = [loose EXCEPT ![r] =
                    IF s \in DOMAIN ask[r].srcCap \ DOMAIN plan[r].src
                    THEN @ \cup {s} ELSE @ \ {s}]
            BY <2>3 DEF Execute, Unbounded
        <3> QED
            BY <2>1, <2>3, <3>1
    <2> QED
        BY <2>2, <2>3
<1>19. TypeOK'
    BY <1>1, <1>2, <1>9, <1>10, <1>11, <1>12, <1>13, <1>14, <1>15, <1>16, <1>17,
       <1>18 DEF TypeOK
<1>20. ASSUME NEW q \in Req PROVE RequestInv(q)'
    <2>1. RequestInv(q)
        BY DEF IInv
    <2>2. GateInv(q)'
        BY <1>2, <2>1 DEF RequestInv, GateInv
    <2>3. CASE q # r
        BY <1>2, <1>9, <1>10, <1>11, <1>12, <1>13, <1>14, <1>15, <1>16, <1>18,
           <2>1, <2>2, <2>3, Untouched
    <2>4. CASE q = r
        <3>1. BooksInv(r)'
            <4>1. BooksInv(r)
                BY <1>1 DEF RequestInv
            <4>2. /\ delivered'[r] <= moved'[r] /\ fee'[r] <= movedFee'[r]
                  /\ moved'[r] + out'[r] <= delivered'[r] + pending'[r]
                  /\ movedFee'[r] + outFee'[r] <= fee'[r] + pendingFee'[r]
                BY <1>1, <1>6, <1>15, <4>1, TypesOf DEF BooksInv
            <4>3. ASSUME NEW c \in Source
                  PROVE  movedSrc'[r][c] + outSrc'[r][c] <= srcCommitted'[r][c]
                <5>1. /\ movedSrc[r][c] \in Nat /\ outSrc[r][c] \in Nat
                      /\ srcCommitted[r][c] \in Nat
                    BY <1>1, TypesOf
                <5> QED
                    BY <1>6, <1>9, <1>11, <1>13, <4>1, <5>1 DEF BooksInv
            <4>4. ASSUME NEW c \in Dest
                  PROVE  movedDst'[r][c] + outDst'[r][c] <= dstCommitted'[r][c]
                <5>1. /\ movedDst[r][c] \in Nat /\ outDst[r][c] \in Nat
                      /\ dstCommitted[r][c] \in Nat
                    BY <1>1, TypesOf
                <5> QED
                    BY <1>6, <1>10, <1>12, <1>14, <4>1, <5>1 DEF BooksInv
            <4> QED
                BY <4>2, <4>3, <4>4 DEF BooksInv
        <3>2. PotsInv(r)'
            <4>1. PotsInv(r) /\ ask' = ask /\ pc'[r] = "execute"
                  /\ plan'[r] = new
                BY <1>1, <1>2, <1>16 DEF RequestInv
            <4>2. /\ delivered'[r] + pending'[r] + new.left <= ask[r].amount
                  /\ ask[r].budget = "msat" =>
                        fee'[r] + pendingFee'[r] + new.fee <= ask[r].maxfee
                BY <1>1, <1>3, <1>4, <1>6, <1>15, <4>1, TypesOf DEF PotsInv
            <4>3. ASSUME NEW c \in DOMAIN ask[r].srcCap
                  PROVE  /\ c \notin loose'[r] =>
                                srcCommitted'[r][c] <= ask[r].srcCap[c]
                         /\ c \in DOMAIN new.src =>
                                \/ new.src[c] = 0
                                \/ srcCommitted'[r][c] + new.src[c]
                                        <= ask[r].srcCap[c]
                <5>1. /\ c \in Source /\ ask[r].srcCap[c] \in Nat
                      /\ srcCommitted[r][c] \in Nat
                    BY <1>1, TypesOf DEF IsCap
                <5>2. /\ c \notin loose[r] =>
                            srcCommitted[r][c] <= ask[r].srcCap[c]
                      /\ c \in DOMAIN plan[r].src =>
                            /\ plan[r].src[c] \in Nat
                            /\ \/ plan[r].src[c] = 0
                               \/ srcCommitted[r][c] + plan[r].src[c]
                                    <= ask[r].srcCap[c]
                    BY <1>1, <1>2, <4>1 DEF PotsInv, IsPlan
                <5>3. /\ c \in DOMAIN new.src <=> c \in DOMAIN plan[r].src
                      /\ c \in DOMAIN plan[r].src => new.src[c] =
                            IF c = s THEN plan[r].src[c] - sent
                            ELSE plan[r].src[c]
                    BY <1>4
                <5>4. (c = s /\ c \in DOMAIN plan[r].src)
                            => 1 <= sent /\ sent <= plan[r].src[c]
                    BY <1>2, <1>3 DEF Fits
                <5>5. srcCommitted'[r][c] = IF c = s
                            THEN srcCommitted[r][c] + kepts
                            ELSE srcCommitted[r][c]
                    BY <1>9, <5>1
                <5>6. CASE c # s
                    BY <1>18, <5>1, <5>2, <5>3, <5>5, <5>6
                <5>7. CASE c = s /\ c \in DOMAIN plan[r].src
                    <6>1. srcCommitted[r][c] + plan[r].src[c] <= ask[r].srcCap[c]
                        BY <5>1, <5>2, <5>4, <5>7
                    <6> QED
                        BY <1>6, <5>1, <5>2, <5>3, <5>4, <5>5, <5>7, <6>1
                <5>8. CASE c = s /\ c \notin DOMAIN plan[r].src
                    <6>1. CASE status = "failed"
                        <7>1. kepts = 0
                            BY <6>1 DEF kepts
                        <7> QED
                            BY <1>18, <5>1, <5>2, <5>3, <5>5, <5>8, <6>1, <7>1
                    <6>2. CASE status # "failed"
                        BY <1>18, <5>3, <5>8, <6>2
                    <6> QED
                        BY <6>1, <6>2
                <5> QED
                    BY <5>6, <5>7, <5>8
            <4>4. ASSUME NEW c \in DOMAIN ask[r].dstCap
                  PROVE  /\ dstCommitted'[r][c] <= ask[r].dstCap[c]
                         /\ c \in DOMAIN new.dst
                         /\ dstCommitted'[r][c] + new.dst[c] <= ask[r].dstCap[c]
                <5>1. /\ c \in Dest /\ ask[r].dstCap[c] \in Nat
                      /\ dstCommitted[r][c] \in Nat
                    BY <1>1, TypesOf DEF IsCap
                <5>2. /\ c \in DOMAIN plan[r].dst /\ plan[r].dst[c] \in Nat
                      /\ dstCommitted[r][c] + plan[r].dst[c] <= ask[r].dstCap[c]
                    BY <1>1, <1>2, <4>1 DEF PotsInv, IsPlan
                <5>3. /\ c \in DOMAIN new.dst
                      /\ new.dst[c] = IF c = d THEN plan[r].dst[c] - x
                                      ELSE plan[r].dst[c]
                    BY <1>4, <5>2
                <5>4. c = d => x <= plan[r].dst[c]
                    BY <1>2, <5>2 DEF Fits
                <5>5. dstCommitted'[r][c] = IF c = d
                            THEN dstCommitted[r][c] + keptx
                            ELSE dstCommitted[r][c]
                    BY <1>10, <5>1
                <5> QED
                    BY <1>6, <5>1, <5>2, <5>3, <5>4, <5>5
            <4> QED
                BY <4>1, <4>2, <4>3, <4>4 DEF PotsInv
        <3>3. RateInv(r)'
            <4>1. /\ RateKept(r, movedFee[r], moved[r])
                  /\ RateKept(r, outFee[r], out[r])
                  /\ plan[r].rateAmount > 0
                  /\ RateKept(r, plan[r].rateFee, plan[r].rateAmount)
                BY <1>1, <1>2 DEF RequestInv, RateInv
            <4>2. /\ RateKept(r, oky, okx) /\ RateKept(r, latey, latex)
                <5>1. RateKept(r, 0, 0)
                    BY <1>1, TypesOf, RequestAssumption DEF RateKept
                <5> QED
                    BY <1>5, <5>1 DEF okx, oky, latex, latey
            <4>3. RateKept(r, movedFee[r] + oky, moved[r] + okx)
                BY <1>1, <1>6, <4>1, <4>2, RateAdds, TypesOf, RequestAssumption
                   DEF RateKept
            <4>4. RateKept(r, outFee[r] + latey, out[r] + latex)
                BY <1>1, <1>6, <4>1, <4>2, RateAdds, TypesOf, RequestAssumption
                   DEF RateKept
            <4>5. ask' = ask /\ plan'[r] = new
                BY <1>2, <1>16
            <4> QED
                BY <1>4, <1>15, <4>1, <4>3, <4>4, <4>5 DEF RateInv, RateKept
        <3>4. StartInv(r)'
            <4>1. /\ pc'[r] = "execute" /\ plan'[r].sent = TRUE
                  /\ round'[r] = round[r] /\ pc' = pc
                BY <1>2, <1>4, <1>16
            <4>2. round[r] >= 1 \/ round[r] = 0
                BY <1>1, TypesOf
            <4>3. round[r] # 0
                BY <1>1, <1>2 DEF RequestInv, StartInv
            <4> QED
                BY <1>1, <4>1, <4>2, <4>3, TypesOf DEF StartInv
        <3> QED
            BY <2>2, <2>4, <3>1, <3>2, <3>3, <3>4 DEF RequestInv
    <2> QED
        BY <2>3, <2>4
<1> QED
    BY <1>19, <1>20 DEF IInv

-----------------------------------------------------------------------------
(* The theorems.                                                           *)

LEMMA StepIInv == IInv /\ [Next]_vars => IInv'
<1> SUFFICES ASSUME IInv, [Next]_vars PROVE IInv'
    OBVIOUS
<1>1. CASE UNCHANGED vars
    <2>1. TypeOK'
        BY <1>1 DEF IInv, TypeOK, vars, totals, money, IsPlan
    <2>2. ASSUME NEW q \in Req PROVE RequestInv(q)'
        <3>1. RequestInv(q)
            BY DEF IInv
        <3>2. GateInv(q)'
            BY <1>1, <3>1 DEF vars, RequestInv, GateInv
        <3> QED
            BY <1>1, <3>1, <3>2, Untouched DEF vars, totals, money
    <2> QED
        BY <2>1, <2>2 DEF IInv
<1>2. ASSUME NEW r \in Req, Call(r) PROVE IInv'
    BY <1>2, CallIInv
<1>3. ASSUME NEW r \in Req, Running(r) PROVE IInv'
    <2>1. CASE ExecuteStep(r)
        <3>1. PICK status \in {"complete", "pending", "failed"},
                   s \in Source, d \in Dest :
                    \E x \in 1..plan[r].left : \E sent \in x..(x + plan[r].fee) :
                        Execute(r, status, x, sent, s, d)
            BY <2>1 DEF ExecuteStep
        <3>2. PICK x \in 1..plan[r].left : \E sent \in x..(x + plan[r].fee) :
                        Execute(r, status, x, sent, s, d)
            BY <3>1
        <3>3. x \in Nat /\ plan[r].fee \in Nat
            BY TypesOf DEF IInv
        <3>4. PICK sent \in x..(x + plan[r].fee) :
                        Execute(r, status, x, sent, s, d)
            BY <3>2
        <3>5. sent \in Nat /\ x <= sent
            BY <3>3
        <3> QED
            BY <3>3, <3>4, <3>5, ExecuteIInv
    <2> QED
        BY <1>3, <2>1, AcquireIInv, TopIInv, PlanIInv, PlanFailsIInv,
           RetriesOnlyIInv, ExecuteFailsIInv, EndRoundIInv DEF Running
<1>4. ASSUME NEW r \in Req, StragglerStep(r) PROVE IInv'
    <2>1. PICK s \in Source, d \in Dest, x \in 1..out[r], y \in 0..outFee[r] :
                Settle(r, x, y, s, d) \/ Return(r, x, y, s, d)
        BY <1>4 DEF StragglerStep
    <2>2. x \in Nat /\ y \in Nat
        BY TypesOf DEF IInv
    <2> QED
        BY <2>1, <2>2, SettleIInv, ReturnIInv
<1> QED
    BY <1>1, <1>2, <1>3, <1>4 DEF Next

\* The books, the pots, the rate and the gate are kept by every step.
THEOREM Inductive == Spec => []IInv
<1>1. Init => IInv
    BY InitIInv
<1>2. IInv /\ [Next]_vars => IInv'
    BY StepIInv
<1> QED
    BY <1>1, <1>2, PTL DEF Spec

\* Every variable keeps its type: the envelope of a plan is never drawn below
\* zero, and no counter runs ahead of what it is taken from.
THEOREM TypeCorrect == Spec => []TypeOK
<1>1. IInv => TypeOK
    BY DEF IInv
<1> QED
    BY <1>1, Inductive, PTL

\* A request never moves more than its amount, over any number of rounds and
\* whatever becomes of its stragglers.
THEOREM MovesAtMostTheAmount == Spec => []NeverMovesTooMuch
<1>1. IInv => NeverMovesTooMuch
    <2> SUFFICES ASSUME IInv, NEW r \in Req
                 PROVE  moved[r] + out[r] <= ask[r].amount
        BY DEF NeverMovesTooMuch
    <2>1. BooksInv(r) /\ PotsInv(r) /\ TypeOK
        BY DEF IInv, RequestInv
    <2> QED
        BY <2>1, TypesOf DEF BooksInv, PotsInv
<1> QED
    BY <1>1, Inductive, PTL

\* An absolute fee budget is kept by the whole request.
THEOREM PaysWithinThePot == Spec => []FeePotKept
<1>1. IInv => FeePotKept
    <2> SUFFICES ASSUME IInv, NEW r \in Req, ask[r].budget = "msat"
                 PROVE  movedFee[r] + outFee[r] <= ask[r].maxfee
        BY DEF FeePotKept
    <2>1. BooksInv(r) /\ PotsInv(r) /\ TypeOK
        BY DEF IInv, RequestInv
    <2> QED
        BY <2>1, TypesOf DEF BooksInv, PotsInv
<1> QED
    BY <1>1, Inductive, PTL

\* A fee rate is kept by what has settled, whichever parts failed.
THEOREM PaysWithinTheRate == Spec => []FeeRateKept
<1>1. IInv => FeeRateKept
    BY DEF IInv, RequestInv, RateInv, FeeRateKept
<1> QED
    BY <1>1, Inductive, PTL

\* A destination's cap is kept by the whole request, and so is a source's
\* unless the last part it carried was of a plan that wrote no bound for it.
THEOREM StaysWithinTheCaps == Spec => []CapsKept
<1>1. IInv => CapsKept
    <2> SUFFICES ASSUME IInv, NEW r \in Req
                 PROVE  /\ \A s \in DOMAIN ask[r].srcCap \ loose[r] :
                            movedSrc[r][s] + outSrc[r][s] <= ask[r].srcCap[s]
                        /\ \A d \in DOMAIN ask[r].dstCap :
                            movedDst[r][d] + outDst[r][d] <= ask[r].dstCap[d]
        BY DEF CapsKept
    <2>1. BooksInv(r) /\ PotsInv(r) /\ TypeOK
        BY DEF IInv, RequestInv
    <2>2. ASSUME NEW s \in DOMAIN ask[r].srcCap \ loose[r]
          PROVE  movedSrc[r][s] + outSrc[r][s] <= ask[r].srcCap[s]
        <3>1. s \in Source /\ ask[r].srcCap[s] \in Nat
            BY <2>1, TypesOf DEF IsCap
        <3>2. /\ movedSrc[r][s] \in Nat /\ outSrc[r][s] \in Nat
              /\ srcCommitted[r][s] \in Nat
            BY <2>1, <3>1, TypesOf
        <3> QED
            BY <2>1, <3>1, <3>2 DEF BooksInv, PotsInv
    <2>3. ASSUME NEW d \in DOMAIN ask[r].dstCap
          PROVE  movedDst[r][d] + outDst[r][d] <= ask[r].dstCap[d]
        <3>1. d \in Dest /\ ask[r].dstCap[d] \in Nat
            BY <2>1, TypesOf DEF IsCap
        <3>2. /\ movedDst[r][d] \in Nat /\ outDst[r][d] \in Nat
              /\ dstCommitted[r][d] \in Nat
            BY <2>1, <3>1, TypesOf
        <3> QED
            BY <2>1, <3>1, <3>2 DEF BooksInv, PotsInv
    <2> QED
        BY <2>2, <2>3
<1> QED
    BY <1>1, Inductive, PTL

\* The totals of a response bracket what has moved and what may still move.
THEOREM TotalsAreTrue == Spec => []TotalsBracketTheTruth
<1>1. IInv => TotalsBracketTheTruth
    BY DEF IInv, RequestInv, BooksInv, TotalsBracketTheTruth
<1> QED
    BY <1>1, Inductive, PTL

\* A request answered with an error has sent nothing.
THEOREM ErrorsCostNothing == Spec => []ErrorMovedNothing
<1>1. IInv => ErrorMovedNothing
    <2> SUFFICES ASSUME IInv, NEW r \in Req, pc[r] = "error"
                 PROVE  moved[r] + out[r] = 0
        BY DEF ErrorMovedNothing
    <2>1. BooksInv(r) /\ StartInv(r) /\ TypeOK
        BY DEF IInv, RequestInv
    <2>2. delivered[r] + pending[r] = 0
        BY <2>1, TypesOf DEF StartInv
    <2>3. moved[r] + out[r] <= 0
        BY <2>1, <2>2 DEF BooksInv
    <2>4. moved[r] \in Nat /\ out[r] \in Nat
        BY <2>1, TypesOf
    <2> QED
        BY <2>3, <2>4
<1> QED
    BY <1>1, Inductive, PTL

=============================================================================
