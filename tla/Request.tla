------------------------------ MODULE Request ------------------------------
(***************************************************************************)
(* Requests: the round loop of xrebalance (main.rs) with the accounting of  *)
(* ExecOutcome (exec.rs), for several requests that queue on the gate and  *)
(* whose parts still in flight (stragglers) resolve at any later time.     *)
(*                                                                         *)
(* A plan is what plan.rs and askrene make of a round's parameters: its    *)
(* parts keep, added up, within these parameters, the caps of sources that *)
(* plan.rs does not write apart, and each of them keeps to the fee rate    *)
(* (module Planner).  Here the parts are drawn one at a time from what the *)
(* plan leaves.  Executing a part is what module Parts shows it to be: a   *)
(* part booked as delivered has moved its amount, one booked as neither    *)
(* delivered nor pending never does, and a pending one ends either way.    *)
(***************************************************************************)
EXTENDS Naturals, Sequences

CONSTANTS
    Req,        \* concurrent calls of the xrebalance method
    Source,     \* our channels to drain
    Dest,       \* our channels to fill
    Ask,        \* the parameters a call may have
    Million,    \* what a maxfee_ppm is a fraction of
    Fragment    \* fragment_msat

\* The caps of some of the channels.
IsCap(cap, channels) ==
    DOMAIN cap \subseteq channels /\ cap \in [DOMAIN cap -> Nat]

\* The parameters of a call that passed the checks: the budget is one of
\* maxfee_msat and maxfee_ppm, a cap is there for capped channels only.
IsAsk(a) ==
    /\ a.amount \in Nat \ {0}
    /\ a.budget \in {"msat", "ppm"} /\ a.maxfee \in Nat
    /\ IsCap(a.srcCap, Source) /\ IsCap(a.dstCap, Dest)
    /\ a.rounds \in Nat \ {0}

ASSUME RequestAssumption ==
    /\ \A a \in Ask : IsAsk(a)
    /\ Million \in Nat \ {0}
    /\ Fragment \in Nat \ {0}

VARIABLES
    ask,        \* the parameters of each call
    pc,         \* where each call is
    queue,      \* State.request_gate: the head holds it, the rest wait
    round,
    plan,       \* what is left to draw parts from in this round
    delivered, fee, pending, pendingFee,  \* the _total counters
    srcCommitted, dstCommitted,           \* source_ and dest_committed
    loose,      \* history: the capped sources whose last part that was not lost
                \* was of a plan without a bound for them
    liqFailed,  \* liquidity_failed is not empty
    roundMoved, \* the round's outcome has delivered or pending msat
    learned,    \* feedback_writes has moved since the round began
    stop,       \* stop_reason
    \* what becomes of the money: settled for good, or with stragglers
    moved, movedFee, movedSrc, movedDst,
    out, outFee, outSrc, outDst

totals == <<delivered, fee, pending, pendingFee, srcCommitted, dstCommitted,
            loose>>
money == <<moved, movedFee, movedSrc, movedDst, out, outFee, outSrc, outDst>>
vars == <<ask, pc, queue, round, plan, totals, liqFailed, roundMoved, learned,
          stop, money>>

Pc == {"idle", "queued", "top", "plan", "execute", "answered", "error"}
Stop == {"none", "committed", "belowFloor", "planningFailed", "retriesOnly",
         "executionFailed", "noRoutes", "roundLimit", "stalled"}

\* What a plan has left: msat to deliver, msat of fee, msat by channel that it
\* bounds, the rate its parts keep to, and whether a part of it was sent.
IsPlan(p) ==
    p \in [left : Nat, fee : Nat, rateFee : Nat, rateAmount : Nat,
          src : [DOMAIN p.src -> Nat], dst : [DOMAIN p.dst -> Nat],
          sent : BOOLEAN]

NoPlan == [left |-> 0, fee |-> 0, rateFee |-> 0, rateAmount |-> 0,
           src |-> [s \in {} |-> 0], dst |-> [d \in {} |-> 0], sent |-> FALSE]

TypeOK ==
    /\ ask \in [Req -> Ask]
    /\ pc \in [Req -> Pc]
    /\ queue \in Seq(Req)
    /\ round \in [Req -> Nat]
    /\ plan = [r \in Req |-> plan[r]] /\ \A r \in Req : IsPlan(plan[r])
    /\ delivered \in [Req -> Nat] /\ fee \in [Req -> Nat]
    /\ pending \in [Req -> Nat] /\ pendingFee \in [Req -> Nat]
    /\ srcCommitted \in [Req -> [Source -> Nat]]
    /\ dstCommitted \in [Req -> [Dest -> Nat]]
    /\ loose \in [Req -> SUBSET Source]
    /\ liqFailed \in [Req -> BOOLEAN]
    /\ roundMoved \in [Req -> BOOLEAN]
    /\ learned \in BOOLEAN
    /\ stop \in [Req -> Stop]
    /\ moved \in [Req -> Nat] /\ movedFee \in [Req -> Nat]
    /\ out \in [Req -> Nat] /\ outFee \in [Req -> Nat]
    /\ movedSrc \in [Req -> [Source -> Nat]]
    /\ movedDst \in [Req -> [Dest -> Nat]]
    /\ outSrc \in [Req -> [Source -> Nat]]
    /\ outDst \in [Req -> [Dest -> Nat]]

Zero == [r \in Req |-> 0]
NoSource == [r \in Req |-> [s \in Source |-> 0]]
NoDest == [r \in Req |-> [d \in Dest |-> 0]]
False == [r \in Req |-> FALSE]

Init ==
    /\ ask \in [Req -> Ask]
    /\ pc = [r \in Req |-> "idle"]
    /\ queue = <<>>
    /\ round = Zero
    /\ plan = [r \in Req |-> NoPlan]
    /\ delivered = Zero /\ fee = Zero /\ pending = Zero /\ pendingFee = Zero
    /\ srcCommitted = NoSource /\ dstCommitted = NoDest
    /\ loose = [r \in Req |-> {}]
    /\ liqFailed = False /\ roundMoved = False /\ learned = FALSE
    /\ stop = [r \in Req |-> "none"]
    /\ moved = Zero /\ movedFee = Zero
    /\ movedSrc = NoSource /\ movedDst = NoDest
    /\ out = Zero /\ outFee = Zero /\ outSrc = NoSource /\ outDst = NoDest

-----------------------------------------------------------------------------
(* What a round may plan.                                                  *)

\* saturating_sub
Less(a, b) == IF a >= b THEN a - b ELSE 0

\* Mutant: only what has been delivered counts as committed.
RemainingIgnoresPending(r) == Less(ask[r].amount, delivered[r])

\* Amounts still in flight count as committed.
Remaining(r) == Less(ask[r].amount, delivered[r] + pending[r])

\* Mutant: the fees of parts in flight are not reserved.
FeeBudgetIgnoresPending(r, amount) ==
    IF ask[r].budget = "msat" THEN Less(ask[r].maxfee, fee[r])
    ELSE (amount * ask[r].maxfee) \div Million

\* The round's fee budget for a ladder rung: an absolute budget is one pot
\* across the rounds, a rate is derived again from the rung.
FeeBudget(r, amount) ==
    IF ask[r].budget = "msat"
    THEN Less(ask[r].maxfee, fee[r] + pendingFee[r])
    ELSE (amount * ask[r].maxfee) \div Million

\* Mutant: each round has the whole cap.
DrawDownNothing(cap, committed) == cap

\* A cap is one pot across the rounds too.
DrawDown(cap, committed) ==
    [c \in DOMAIN cap |-> Less(cap[c], committed[c])]

\* Mutant: any fee that the plan's total allows.
WithinRateOfPlan(y, x, p) == y <= p.fee

\* part_within_rate: each part keeps to the rate of the whole.
WithinRate(y, x, p) == y * p.rateAmount <= p.rateFee * x

\* The plan has room for a part that delivers x msat for a fee of y msat, from
\* channel s to channel d.
Fits(p, x, y, s, d) ==
    /\ x <= p.left
    /\ y <= p.fee
    /\ WithinRate(y, x, p)
    /\ s \in DOMAIN p.src => x + y <= p.src[s]
    /\ d \in DOMAIN p.dst => x <= p.dst[d]

\* What a part that sends `sent` msat leaves of the plan.
After(p, x, sent, s, d) ==
    [left |-> p.left - x, fee |-> p.fee - (sent - x),
     rateFee |-> p.rateFee, rateAmount |-> p.rateAmount,
     src |-> [c \in DOMAIN p.src |-> IF c = s THEN p.src[c] - sent
                                     ELSE p.src[c]],
     dst |-> [c \in DOMAIN p.dst |-> IF c = d THEN p.dst[c] - x
                                     ELSE p.dst[c]],
     sent |-> TRUE]

-----------------------------------------------------------------------------
(* The request.                                                            *)

Call(r) ==
    /\ pc[r] = "idle"
    /\ pc' = [pc EXCEPT ![r] = "queued"]
    /\ queue' = Append(queue, r)
    /\ UNCHANGED <<ask, round, plan, totals, liqFailed, roundMoved, learned,
                   stop, money>>

\* request_gate.lock() returns: the mutex is fair, first come first served.
Acquire(r) ==
    /\ pc[r] = "queued" /\ queue # <<>> /\ Head(queue) = r
    /\ pc' = [pc EXCEPT ![r] = "top"]
    /\ UNCHANGED <<ask, queue, round, plan, totals, liqFailed, roundMoved,
                   learned, stop, money>>

\* Mutant: the gate is not given back.
LeaveKeepingGate(r, how, reason) ==
    /\ pc' = [pc EXCEPT ![r] = how]
    /\ stop' = [stop EXCEPT ![r] = reason]
    /\ plan' = [plan EXCEPT ![r] = NoPlan]
    /\ UNCHANGED queue

\* The request ends, with a response or an error, and drops the gate.
Leave(r, how, reason) ==
    /\ pc' = [pc EXCEPT ![r] = how]
    /\ stop' = [stop EXCEPT ![r] = reason]
    /\ plan' = [plan EXCEPT ![r] = NoPlan]
    /\ queue' = Tail(queue)

\* Mutant: a failure of any round is an RPC error.
LeaveFailedAlways(r, reason) == Leave(r, "error", reason)

\* A failure of the first round is an RPC error; one of a later round must not
\* turn work already done into one.
LeaveFailed(r, reason) ==
    Leave(r, IF round[r] > 1 THEN "answered" ELSE "error", reason)

\* The top of the loop: stop, or read feedback_writes and go on to plan.
Top(r) ==
    /\ pc[r] = "top"
    /\ round' = [round EXCEPT ![r] = @ + 1]
    /\ IF round[r] >= 1 /\ Remaining(r) < Fragment
       THEN /\ Leave(r, "answered",
                     IF Remaining(r) = 0 THEN "committed" ELSE "belowFloor")
            /\ UNCHANGED <<roundMoved, learned>>
       ELSE /\ pc' = [pc EXCEPT ![r] = "plan"]
            /\ roundMoved' = [roundMoved EXCEPT ![r] = FALSE]
            /\ learned' = FALSE
            /\ UNCHANGED <<queue, plan, stop>>
    /\ UNCHANGED <<ask, totals, liqFailed, money>>

\* plan() succeeds on a rung of its ladder, at most what the round asked for.
\* (The round's parameters depend on the request's own counters alone, so they
\* are derived here from what they were at the top.)  What is left of a
\* source's cap bounds the plan if it is below what the source can send when
\* the plan looks; if not, no bound is written (plan.rs:850), and the source
\* may carry more by the time getroutes looks.  A destination's cap is the
\* capacity of its mirror and always binds (plan.rs:676).
Plan(r) ==
    /\ pc[r] = "plan"
    /\ pc' = [pc EXCEPT ![r] = "execute"]
    /\ \E rung \in 1..Remaining(r), bound \in SUBSET DOMAIN ask[r].srcCap :
        plan' = [plan EXCEPT ![r] =
            [left |-> rung, fee |-> FeeBudget(r, rung),
             rateFee |-> FeeBudget(r, rung), rateAmount |-> rung,
             src |-> [s \in bound |->
                        DrawDown(ask[r].srcCap, srcCommitted[r])[s]],
             dst |-> DrawDown(ask[r].dstCap, dstCommitted[r]),
             sent |-> FALSE]]
    /\ UNCHANGED <<ask, queue, round, totals, liqFailed, roundMoved, learned,
                   stop, money>>

PlanFails(r) ==
    /\ pc[r] = "plan"
    /\ LeaveFailed(r, "planningFailed")
    /\ UNCHANGED <<ask, round, totals, liqFailed, roundMoved, learned, money>>

\* Every route of the plan retries a path that failed for liquidity.
RetriesOnly(r) ==
    /\ pc[r] = "execute" /\ ~plan[r].sent
    /\ round[r] > 1 /\ liqFailed[r]
    /\ Leave(r, "answered", "retriesOnly")
    /\ UNCHANGED <<ask, round, totals, liqFailed, roundMoved, learned, money>>

\* execute() cannot connect, before it sends the first part.  (Its other early
\* returns, exec.rs:817-823, may come after a part was sent: they need a route
\* without a field, and module Reports shows that there is none.)
ExecuteFails(r) ==
    /\ pc[r] = "execute" /\ ~plan[r].sent
    /\ LeaveFailed(r, "executionFailed")
    /\ UNCHANGED <<ask, round, totals, liqFailed, roundMoved, learned, money>>

\* Mutant: what is pending is taken for delivered.
DeliveredOfUnfailed(status, x) == IF status = "failed" THEN 0 ELSE x

\* Part::delivered_msat, and the sum of pending_msat
DeliveredOf(status, x) == IF status = "complete" THEN x ELSE 0
PendingOf(status, x) == IF status = "pending" THEN x ELSE 0

\* Mutant: the difference the wrong way round.
FeeOfSwapped(sent, x) == x - sent

\* Part::fee_msat
FeeOf(sent, x) == Less(sent, x)

\* The source has a cap, and the plan wrote no bound for it.
Unbounded(r, s) == s \in DOMAIN ask[r].srcCap \ DOMAIN plan[r].src

\* A part of the plan is sent, and is complete, failed or still pending when
\* execute() returns; ExecOutcome's sums go into the totals.
Execute(r, status, x, sent, s, d) ==
    LET y == FeeOf(sent, x)
        ok == DeliveredOf(status, x)
        okFee == DeliveredOf(status, y)
        late == PendingOf(status, x)
        lateFee == PendingOf(status, y)
    IN
    /\ pc[r] = "execute" /\ Fits(plan[r], x, sent - x, s, d)
    /\ plan' = [plan EXCEPT ![r] = After(@, x, sent, s, d)]
    /\ delivered' = [delivered EXCEPT ![r] = @ + ok]
    /\ fee' = [fee EXCEPT ![r] = @ + okFee]
    /\ pending' = [pending EXCEPT ![r] = @ + late]
    /\ pendingFee' = [pendingFee EXCEPT ![r] = @ + lateFee]
    /\ IF status = "failed"
       THEN UNCHANGED <<srcCommitted, dstCommitted, loose, roundMoved, money>>
       ELSE /\ srcCommitted' = [srcCommitted EXCEPT ![r][s] = @ + sent]
            /\ dstCommitted' = [dstCommitted EXCEPT ![r][d] = @ + x]
            /\ loose' = [loose EXCEPT ![r] =
                            IF Unbounded(r, s) THEN @ \cup {s} ELSE @ \ {s}]
            /\ roundMoved' = [roundMoved EXCEPT ![r] = TRUE]
            /\ IF status = "complete"
               THEN /\ moved' = [moved EXCEPT ![r] = @ + x]
                    /\ movedFee' = [movedFee EXCEPT ![r] = @ + (sent - x)]
                    /\ movedSrc' = [movedSrc EXCEPT ![r][s] = @ + sent]
                    /\ movedDst' = [movedDst EXCEPT ![r][d] = @ + x]
                    /\ UNCHANGED <<out, outFee, outSrc, outDst>>
               ELSE /\ out' = [out EXCEPT ![r] = @ + x]
                    /\ outFee' = [outFee EXCEPT ![r] = @ + (sent - x)]
                    /\ outSrc' = [outSrc EXCEPT ![r][s] = @ + sent]
                    /\ outDst' = [outDst EXCEPT ![r][d] = @ + x]
                    /\ UNCHANGED <<moved, movedFee, movedSrc, movedDst>>
    \* feedback, and the failures for liquidity, of a part that ended
    /\ \/ UNCHANGED <<learned, liqFailed>>
       \/ /\ status # "pending"
          /\ learned' = TRUE
          /\ \/ UNCHANGED liqFailed
             \/ /\ status = "failed"
                /\ liqFailed' = [liqFailed EXCEPT ![r] = TRUE]
    /\ UNCHANGED <<ask, pc, queue, round, stop>>

\* The end of a round.
EndRound(r) ==
    /\ pc[r] = "execute"
    /\ \/ ~plan[r].sent /\ Leave(r, "answered", "noRoutes")
       \/ /\ plan[r].sent /\ round[r] >= ask[r].rounds
          /\ Leave(r, "answered", "roundLimit")
       \/ /\ plan[r].sent /\ round[r] < ask[r].rounds
          /\ ~roundMoved[r] /\ ~learned
          /\ Leave(r, "answered", "stalled")
       \/ /\ plan[r].sent /\ round[r] < ask[r].rounds
          /\ roundMoved[r] \/ learned
          /\ pc' = [pc EXCEPT ![r] = "top"]
          /\ plan' = [plan EXCEPT ![r] = NoPlan]
          /\ UNCHANGED <<queue, stop>>
    /\ UNCHANGED <<ask, round, totals, liqFailed, roundMoved, learned, money>>

-----------------------------------------------------------------------------
(* Stragglers: parts booked as pending, followed by background_watch.  One  *)
(* is a portion of what is out, within the rate as the rest of it is.      *)

RateKept(r, f, amount) ==
    ask[r].budget = "ppm" => f * Million <= ask[r].maxfee * amount

Resolve(r, x, y, s, d) ==
    /\ x <= out[r] /\ y <= outFee[r]
    /\ x + y <= outSrc[r][s] /\ x <= outDst[r][d]
    /\ RateKept(r, y, x) /\ RateKept(r, outFee[r] - y, out[r] - x)
    /\ out' = [out EXCEPT ![r] = @ - x]
    /\ outFee' = [outFee EXCEPT ![r] = @ - y]
    /\ outSrc' = [outSrc EXCEPT ![r][s] = @ - (x + y)]
    /\ outDst' = [outDst EXCEPT ![r][d] = @ - x]
    /\ learned' \in {learned, TRUE}
    /\ UNCHANGED <<ask, pc, queue, round, plan, totals, liqFailed, roundMoved,
                   stop>>

Settle(r, x, y, s, d) ==
    /\ Resolve(r, x, y, s, d)
    /\ moved' = [moved EXCEPT ![r] = @ + x]
    /\ movedFee' = [movedFee EXCEPT ![r] = @ + y]
    /\ movedSrc' = [movedSrc EXCEPT ![r][s] = @ + (x + y)]
    /\ movedDst' = [movedDst EXCEPT ![r][d] = @ + x]

Return(r, x, y, s, d) ==
    /\ Resolve(r, x, y, s, d)
    /\ UNCHANGED <<moved, movedFee, movedSrc, movedDst>>

-----------------------------------------------------------------------------
ExecuteStep(r) ==
    \E status \in {"complete", "pending", "failed"}, s \in Source, d \in Dest :
        \E x \in 1..plan[r].left : \E sent \in x..(x + plan[r].fee) :
            Execute(r, status, x, sent, s, d)

StragglerStep(r) ==
    \E s \in Source, d \in Dest, x \in 1..out[r], y \in 0..outFee[r] :
        Settle(r, x, y, s, d) \/ Return(r, x, y, s, d)

Running(r) ==
    \/ Acquire(r) \/ Top(r) \/ Plan(r) \/ PlanFails(r) \/ RetriesOnly(r)
    \/ ExecuteFails(r) \/ ExecuteStep(r) \/ EndRound(r)

Next == \E r \in Req : Call(r) \/ Running(r) \/ StragglerStep(r)

Spec == Init /\ [][Next]_vars

(***************************************************************************)
(* Fairness: a call that has the gate, or gets it, goes on: plan() and      *)
(* execute() return (Parts: ExecuteReturns), and the runtime polls the      *)
(* task.  Stragglers need not resolve.                                     *)
(***************************************************************************)
FairSpec == Spec /\ \A r \in Req : WF_vars(Running(r))

-----------------------------------------------------------------------------
(* Properties.                                                             *)

\* A request never moves more than it was asked to, over all its rounds and
\* with every part that is still in flight counted ("this request
\* under-delivers rather than double-spending its liquidity", main.rs:535-537).
NeverMovesTooMuch == \A r \in Req : moved[r] + out[r] <= ask[r].amount

\* An absolute budget is one pot for the whole request: what was paid and what
\* parts in flight may still cost stay within it (main.rs:551-552).
FeePotKept ==
    \A r \in Req : ask[r].budget = "msat" =>
        movedFee[r] + outFee[r] <= ask[r].maxfee

\* A rate holds for what was really moved, whichever parts failed: a cheap
\* part that fails cannot have subsidised a dear one that settled (plan.rs:129).
FeeRateKept == \A r \in Req : RateKept(r, movedFee[r], moved[r])

\* A cap on a channel bounds the whole request and not each round: what left
\* through a source, fees included, and what came in through a destination,
\* with the parts in flight (spec.rs:4-12; draw_down, main.rs:410).  A plan
\* that writes no bound for a source, because it can send no more than its cap
\* at the time (plan.rs:850), may pass the cap if the source has more by the
\* time getroutes looks.  A plan with a bound never takes its source past the
\* cap, whatever plans without one sent through it before.
CapsKept ==
    \A r \in Req :
        /\ \A s \in DOMAIN ask[r].srcCap \ loose[r] :
                movedSrc[r][s] + outSrc[r][s] <= ask[r].srcCap[s]
        /\ \A d \in DOMAIN ask[r].dstCap :
                movedDst[r][d] + outDst[r][d] <= ask[r].dstCap[d]

\* The totals of the response bracket the truth for ever: at least what it
\* calls delivered has moved and at most the pending msat more will, for the
\* fees alike (ExecOutcome, exec.rs:709).
TotalsBracketTheTruth ==
    \A r \in Req :
        /\ delivered[r] <= moved[r]
        /\ moved[r] + out[r] <= delivered[r] + pending[r]
        /\ fee[r] <= movedFee[r]
        /\ movedFee[r] + outFee[r] <= fee[r] + pendingFee[r]

\* A request answered with an error has moved nothing and never will ("a later
\* round must not turn work already done into an RPC error", main.rs:562).
ErrorMovedNothing ==
    \A r \in Req : pc[r] = "error" => moved[r] + out[r] = 0

\* Every call is answered: the gate is passed on however a request ends, and
\* rounds do not go on for ever (main.rs:511).
EveryCallAnswered ==
    \A r \in Req : (pc[r] = "queued") ~> (pc[r] \in {"answered", "error"})

=============================================================================
