------------------------------ MODULE Planner ------------------------------
(***************************************************************************)
(* Planning (plan.rs): what one round, or one dry run, makes of its        *)
(* parameters.  A plan takes a snapshot of our channels, clamps the amount *)
(* to what they carry, builds a layer of its own in askrene, asks askrene  *)
(* for routes at ever smaller amounts, and prunes the parts it gets.       *)
(*                                                                         *)
(* Dry runs do not wait for the request gate, so plans run concurrently.   *)
(* lightningd and askrene are not in this repository: the solver is        *)
(* modelled from what plan.rs says of it, and is free in everything else.  *)
(* Overrides and the aging of the persistent layer are modules Feedback    *)
(* and Inform; module Request takes the plans from here.                   *)
(***************************************************************************)
EXTENDS FlowUnits, FiniteSets, SequencesExt

CONSTANTS
    Task,         \* plans that are made, concurrently or not
    Chan,         \* our channels
    NoCap,        \* u64::MAX
    Million,      \* what a maxfee_ppm is a fraction of
    Cases         \* by name: what is asked for, and what the environment may do

\* A channel: its state, what we can send and receive over it, the HTLC slots
\* that are free, and whether the peer's channel_update is known.
ChanRecord == [state : {"absent", "normal", "other"}, spend : 0..NoCap,
               recv : 0..NoCap, slots : Nat, known : BOOLEAN]

IsSpecs(specs) == specs \in Seq([chan : Chan, max : 0..NoCap])

\* The parameters of a plan.
IsAsk(a) ==
    /\ a.amount \in Nat
    /\ a.budget \in {"msat", "ppm"} /\ a.maxfee \in Nat
    /\ IsSpecs(a.sources) /\ IsSpecs(a.dests)

\* The tasks that plan and what they ask for; what our channels may be, and
\* whether they change while a plan is made (live); what getroutes may answer, and
\* the largest fee of a part; whether an RPC call may fail, or its answer be lost;
\* how often the plugin or the node may restart.
IsCase(c) ==
    /\ c.tasks \subseteq Task /\ \A a \in c.asks : IsAsk(a)
    /\ \A l \in c.ledgers : l \in [Chan -> ChanRecord]
    /\ c.live \in BOOLEAN /\ c.answers \subseteq {"routes", "205", "other"}
    /\ c.partFee \in Nat /\ c.rpcFails \in BOOLEAN /\ c.restarts \in Nat

ASSUME PlannerAssumption ==
    /\ IsFiniteSet(Chan) /\ NoCap \in Nat /\ Million \in Nat \ {0}
    /\ \A name \in DOMAIN Cases : IsCase(Cases[name])

VARIABLES
    case,      \* the name of the case at hand, which stays
    ledger,    \* our channels as lightningd has them (external)
    layers,    \* the request layers askrene holds (external)
    run, seq,  \* the plugin's process, and REQ_SEQ in it
    leaked,    \* layers whose plan has ended without removing them
    ask, pc,
    snap,      \* the answer of listpeerchannels
    amount,    \* amount_msat after the clamp
    layer,     \* the name of the split layer
    bounds,    \* src_bounds
    rung,      \* the step of the ladder
    draw,      \* what the solution has left to make parts of
    kept,      \* the parts that survive the prunes, added up
    outcome

world == <<case, ledger, layers, run, seq, leaked>>
vars == <<world, ask, pc, snap, amount, layer, bounds, rung, draw, kept,
          outcome>>

Given == Cases[case]

Pc == {"idle", "snapshot", "prepare", "build", "ladder", "solve", "parts",
       "remove", "done", "gone"}
InLayer == {"build", "ladder", "solve", "parts", "remove"}
Outcome == {"none", "nothing", "planned", "infeasible", "overBudget", "error"}

Name == Nat \X Nat
NoName == <<0, 0>>
Content == [mirrors : Seq(Nat), outOff : SUBSET Chan, inOff : SUBSET Chan,
            max : [Chan -> Nat]]
EmptyLayer == [mirrors |-> <<>>, outOff |-> {}, inOff |-> {},
               max |-> [c \in Chan |-> NoCap]]

NoAsk == [amount |-> 0, budget |-> "msat", maxfee |-> 0, sources |-> <<>>,
          dests |-> <<>>]
NoRung == [step |-> 0, amount |-> 0, maxfee |-> 0]
NoBounds == [c \in {} |-> [bound |-> 0, solverMax |-> 0]]
NoDraw == [left |-> 0, src |-> [c \in Chan |-> 0], dst |-> <<>>, enter |-> {}]
NoParts == [delivered |-> 0, sent |-> 0,
            out |-> [c \in Chan |-> 0], in |-> [c \in Chan |-> 0],
            parts |-> [c \in Chan |-> 0], noSlot |-> {}, entered |-> {}]

BoundRecord == [bound : Nat, solverMax : Nat]
RungRecord == [step : 0..5, amount : Nat, maxfee : Nat]
DrawRecord == [left : Nat, src : [Chan -> Nat], dst : Seq(Nat),
               enter : SUBSET Chan]
PartsRecord == [delivered : Nat, sent : Nat,
                out : [Chan -> Nat], in : [Chan -> Nat],
                parts : [Chan -> Nat], noSlot : SUBSET Chan,
                entered : SUBSET Chan]

TypeOK ==
    /\ case \in DOMAIN Cases /\ ledger \in Given.ledgers
    /\ DOMAIN layers \subseteq Name
    /\ \A n \in DOMAIN layers : layers[n] \in Content
    /\ run \in Nat /\ seq \in Nat
    /\ leaked \subseteq Name
    /\ ask \in [Task -> Given.asks \cup {NoAsk}]
    /\ pc \in [Task -> Pc]
    /\ snap \in [Task -> Given.ledgers]
    /\ amount \in [Task -> Nat]
    /\ layer \in [Task -> Name]
    /\ DOMAIN bounds = Task
    /\ \A t \in Task : /\ DOMAIN bounds[t] \subseteq Chan
                       /\ bounds[t] \in [DOMAIN bounds[t] -> BoundRecord]
    /\ rung \in [Task -> RungRecord]
    /\ draw \in [Task -> DrawRecord]
    /\ kept \in [Task -> PartsRecord]
    /\ outcome \in [Task -> Outcome]

Init ==
    /\ case \in DOMAIN Cases /\ ledger \in Given.ledgers
    /\ layers = [n \in {} |-> EmptyLayer]
    /\ run = 0 /\ seq = 0 /\ leaked = {}
    /\ ask = [t \in Task |-> NoAsk]
    /\ pc = [t \in Task |-> "idle"]
    /\ snap = [t \in Task |-> ledger]
    /\ amount = [t \in Task |-> 0]
    /\ layer = [t \in Task |-> NoName]
    /\ bounds = [t \in Task |-> NoBounds]
    /\ rung = [t \in Task |-> NoRung]
    /\ draw = [t \in Task |-> NoDraw]
    /\ kept = [t \in Task |-> NoParts]
    /\ outcome = [t \in Task |-> "none"]

-----------------------------------------------------------------------------
(* The parameters and the clamp.                                           *)

Chans(specs) == {specs[i].chan : i \in DOMAIN specs}

\* find_duplicate
NoDuplicate(specs) == Cardinality(Chans(specs)) = Len(specs)

\* The checks of xrebalance on the parameters that matter here.
Valid(a) ==
    /\ a.sources # <<>> /\ a.dests # <<>>
    /\ NoDuplicate(a.sources) /\ NoDuplicate(a.dests)
    /\ a.amount > 0

Usable(l) == {c \in Chan : l[c].state = "normal"}
Ours(l) == {c \in Chan : l[c].state # "absent"}

\* What listpeerchannels must show of the channels a request names.
Plannable(a, l) ==
    /\ Chans(a.sources) \cup Chans(a.dests) \subseteq Usable(l)
    /\ \A c \in Chans(a.dests) : l[c].known

Capped(spec, avail) == Least(avail, spec.max)

SrcBound(a, l) ==
    SumFunction([i \in DOMAIN a.sources |->
                    Capped(a.sources[i], l[a.sources[i].chan].spend)])
DstBound(a, l) ==
    SumFunction([i \in DOMAIN a.dests |->
                    Capped(a.dests[i], l[a.dests[i].chan].recv)])

\* Mutant: the budget may be more than the sources carry.
AfterFeesRaw(a, bound) ==
    IF a.budget = "msat" THEN bound - a.maxfee
    ELSE (bound * Million) \div (Million + a.maxfee)

\* The source bound carries the fees too.
AfterFees(a, bound) ==
    IF a.budget = "msat" THEN Less(bound, a.maxfee)
    ELSE (bound * Million) \div (Million + a.maxfee)

\* The amount that local arithmetic leaves of the ask when sources and
\* destinations carry so much.
ClampTo(a, src, dst) ==
    LET headroom == UnitHeadroom(Len(a.sources),
                        Least(Least(a.amount, AfterFees(a, src)), dst))
    IN Least(Least(a.amount, AfterFees(a, Less(src, headroom))), dst)

Clamp(a, l) == ClampTo(a, SrcBound(a, l), DstBound(a, l))

\* Mutant: a rate is taken of the whole ask on every rung.
MaxfeeOfAsk(a, msat) ==
    IF a.budget = "msat" THEN a.maxfee ELSE (a.amount * a.maxfee) \div Million

\* The fee budget for an amount.
Maxfee(a, msat) ==
    IF a.budget = "msat" THEN a.maxfee ELSE (msat * a.maxfee) \div Million

-----------------------------------------------------------------------------
(* The steps of plan() outside its layer.                                  *)

\* A new call, refused when its parameters do not make sense.
Call(t) ==
    /\ t \in Given.tasks /\ pc[t] = "idle"
    /\ \E a \in Given.asks :
        /\ ask' = [ask EXCEPT ![t] = a]
        /\ IF Valid(a)
           THEN /\ pc' = [pc EXCEPT ![t] = "snapshot"]
                /\ UNCHANGED outcome
           ELSE /\ pc' = [pc EXCEPT ![t] = "done"]
                /\ outcome' = [outcome EXCEPT ![t] = "error"]
    /\ UNCHANGED <<world, snap, amount, layer, bounds, rung, draw, kept>>

\* plan() ends before it has a layer.
Stop(t, result) ==
    /\ pc' = [pc EXCEPT ![t] = "done"]
    /\ outcome' = [outcome EXCEPT ![t] = result]

\* local_channels, the checks on them and the clamp.
Snapshot(t) ==
    /\ pc[t] = "snapshot"
    /\ snap' = [snap EXCEPT ![t] = ledger]
    /\ IF ~Plannable(ask[t], ledger)
       THEN Stop(t, "error") /\ UNCHANGED amount
       ELSE /\ amount' = [amount EXCEPT ![t] = Clamp(ask[t], ledger)]
            /\ IF Clamp(ask[t], ledger) = 0 THEN Stop(t, "nothing")
               ELSE /\ pc' = [pc EXCEPT ![t] = "prepare"]
                    /\ UNCHANGED outcome
    /\ UNCHANGED <<world, ask, layer, bounds, rung, draw, kept>>

\* A call fails while there is no layer: connecting, getinfo,
\* listpeerchannels, askrene-listlayers, askrene-age.
FailEarly(t) ==
    /\ Given.rpcFails /\ pc[t] \in {"snapshot", "prepare"}
    /\ Stop(t, "error")
    /\ UNCHANGED <<world, ask, snap, amount, layer, bounds, rung, draw, kept>>

\* The name of the next request layer.  The time and the pid in it tell the
\* processes apart.
LayerName == <<run, seq>>

\* askrene-create-layer: the layer is there and the plan goes on, or the
\* answer is lost, the plan ends with an error and nobody removes the layer.
\* A name that existed would be shared.
CreateLayer(t) ==
    /\ pc[t] = "prepare"
    /\ seq' = seq + 1
    /\ layers' = [n \in DOMAIN layers \cup {LayerName} |->
            IF n \in DOMAIN layers THEN layers[n] ELSE EmptyLayer]
    /\ \/ /\ layer' = [layer EXCEPT ![t] = LayerName]
          /\ pc' = [pc EXCEPT ![t] = "build"]
          /\ UNCHANGED <<leaked, outcome>>
       \/ /\ Given.rpcFails
          /\ leaked' = leaked \cup {LayerName}
          /\ Stop(t, "error")
          /\ UNCHANGED layer
    /\ UNCHANGED <<case, ledger, run, ask, snap, amount, bounds, rung, draw, kept>>

\* Mutant: an error leaves by the early return, past the removal.
LeaveLayerByError(t, result) ==
    /\ pc' = [pc EXCEPT ![t] = IF result = "error" THEN "done" ELSE "remove"]
    /\ outcome' = [outcome EXCEPT ![t] = result]

\* plan_in_layer returns, with a plan or an error: the layer goes either way.
LeaveLayer(t, result) ==
    /\ pc' = [pc EXCEPT ![t] = "remove"]
    /\ outcome' = [outcome EXCEPT ![t] = result]

\* The removal is best effort.
RemoveLayer(t) ==
    /\ pc[t] = "remove"
    /\ pc' = [pc EXCEPT ![t] = "done"]
    /\ \/ /\ layers' = [n \in DOMAIN layers \ {layer[t]} |-> layers[n]]
          /\ UNCHANGED leaked
       \/ /\ Given.rpcFails
          /\ leaked' = leaked \cup {layer[t]}
          /\ UNCHANGED layers
    /\ UNCHANGED <<case, ledger, run, seq, ask, snap, amount, layer, bounds, rung,
                   draw, kept, outcome>>

-----------------------------------------------------------------------------
(* plan_in_layer: the layer.                                               *)

\* The cap of a source: with src_caps, a later spec of a channel wins.
CapOf(a, c) ==
    LET last == CHOOSE i \in DOMAIN a.sources :
            /\ a.sources[i].chan = c
            /\ \A j \in DOMAIN a.sources : a.sources[j].chan = c => j <= i
    IN a.sources[last].max

\* Mutant: the fence takes the usable channels only.
FenceUsable(l) == Usable(l)

\* The fence takes every channel of ours, whatever its state.
Fence(l) == Ours(l)

\* What a mirror can carry.
Mirror(spec, l) == Capped(spec, l[spec.chan].recv)

\* Mutant: the bound is what the channel can send.
SourceBoundUncapped(a, c, l) ==
    [bound |-> l[c].spend, solverMax |-> l[c].spend]

\* What the request may draw through a source, and what the solver sees.
SourceBound(a, c, l) ==
    [bound |-> Least(CapOf(a, c), l[c].spend), solverMax |-> l[c].spend]

\* Mirrors, masks and fence are written into the layer.
BuildLayer(t) ==
    LET a == ask[t]
        l == snap[t]
        targets == Chans(a.sources) \cap Fence(l)
    IN
    /\ pc[t] = "build" /\ layer[t] \in DOMAIN layers
    /\ pc' = [pc EXCEPT ![t] = "ladder"]
    /\ layers' = [layers EXCEPT ![layer[t]] =
            [mirrors |-> [i \in DOMAIN a.dests |-> Mirror(a.dests[i], l)],
             outOff |-> Fence(l) \ Chans(a.sources), inOff |-> Fence(l),
             max |-> [c \in Chan |-> NoCap]]]
    /\ bounds' = [bounds EXCEPT ![t] =
            [c \in targets |-> SourceBound(a, c, l)]]
    /\ UNCHANGED <<case, ledger, run, seq, leaked, ask, snap, amount, layer, rung,
                   draw, kept, outcome>>

\* A call fails in plan_in_layer.  (What an abandoned layer holds is not told
\* apart: nothing reads it again.)
FailInLayer(t) ==
    /\ pc[t] \in {"build", "ladder"}
    /\ Given.rpcFails
    /\ LeaveLayer(t, "error")
    /\ UNCHANGED <<world, ask, snap, amount, layer, bounds, rung, draw, kept>>

-----------------------------------------------------------------------------
(* plan_in_layer: the ladder.                                              *)

Ladder == <<<<1, 1>>, <<3, 4>>, <<1, 2>>, <<1, 4>>, <<1, 8>>>>

RungAmount(t, step) == (amount[t] * Ladder[step][1]) \div Ladder[step][2]

\* Mutant: the ladder never gets off its first rung.
NextStepFirst(t) == 1

NextStep(t) == rung[t].step + 1

\* The value a rung writes for a source: it only ever lowers what the solver
\* sees.
Lowered(b, msat) ==
    Least(BoundWithUnitSlack(Least(b.bound, b.solverMax), msat), b.solverMax)

\* The next rung: its budget, and the bounds of the sources.
Descend(t) ==
    LET step == NextStep(t)
        msat == RungAmount(t, step)
        lower == [c \in DOMAIN bounds[t] |-> Lowered(bounds[t][c], msat)]
        written == {c \in DOMAIN lower : lower[c] < bounds[t][c].solverMax}
    IN
    /\ pc[t] = "ladder" /\ step <= Len(Ladder) /\ layer[t] \in DOMAIN layers
    /\ msat # 0 /\ (step > 1 => msat # rung[t].amount)
    /\ rung' = [rung EXCEPT ![t] = [step |-> step, amount |-> msat,
                                    maxfee |-> Maxfee(ask[t], msat)]]
    /\ bounds' = [bounds EXCEPT ![t] = [c \in DOMAIN lower |->
            [bounds[t][c] EXCEPT !.solverMax = lower[c]]]]
    /\ layers' = [layers EXCEPT ![layer[t]].max = [c \in Chan |->
            IF c \in written THEN lower[c] ELSE @[c]]]
    /\ pc' = [pc EXCEPT ![t] = "solve"]
    /\ UNCHANGED <<case, ledger, run, seq, leaked, ask, snap, amount, layer, draw,
                   kept, outcome>>

\* No rung is left, or none that differs: nothing could be routed.
EndLadder(t) ==
    LET step == NextStep(t) IN
    /\ pc[t] = "ladder"
    /\ \/ step > Len(Ladder)
       \/ /\ step <= Len(Ladder)
          /\ \/ RungAmount(t, step) = 0
             \/ step > 1 /\ RungAmount(t, step) = rung[t].amount
    /\ LeaveLayer(t, "infeasible")
    /\ UNCHANGED <<world, ask, snap, amount, layer, bounds, rung, draw, kept>>

\* What the solver may use: our channels as they are now, under the masks and
\* bounds of the layer (external).
Seen(t) ==
    LET content == layers[layer[t]] IN
    [left |-> rung[t].amount,
     src |-> [c \in Chan |->
                IF c \in Ours(ledger) \ content.outOff
                THEN Least(ledger[c].spend, content.max[c]) ELSE 0],
     dst |-> content.mirrors,
     enter |-> Ours(ledger) \ content.inOff]

\* Both sides have room for the rest.
Solvable(d) ==
    d.left <= SumFunction(d.src) /\ d.left <= SumFunction(d.dst)

\* getroutes answers.  205 (no route) is the only failure that goes on.
Solve(t) ==
    /\ pc[t] = "solve"
    /\ \/ /\ "routes" \in Given.answers /\ layer[t] \in DOMAIN layers
          /\ Solvable(Seen(t))
          /\ draw' = [draw EXCEPT ![t] = Seen(t)]
          /\ pc' = [pc EXCEPT ![t] = "parts"]
          /\ UNCHANGED outcome
       \/ /\ "205" \in Given.answers
          /\ pc' = [pc EXCEPT ![t] = "ladder"]
          /\ UNCHANGED <<draw, outcome>>
       \/ /\ "other" \in Given.answers
          /\ LeaveLayer(t, "infeasible")
          /\ UNCHANGED draw
    /\ UNCHANGED <<world, ask, snap, amount, layer, bounds, rung, kept>>

-----------------------------------------------------------------------------
(* plan_in_layer: the parts of the solution.                               *)

\* What the solver takes for a part of x msat delivered and `sent` msat sent,
\* from channel c over mirror i.
Take(d, x, sent, c, i) ==
    [d EXCEPT !.left = @ - x, !.src[c] = @ - sent, !.dst[i] = @ - x]

\* part_within_rate
WithinRate(t, fee, x) == fee * rung[t].amount <= rung[t].maxfee * x

Flaw == {"none", "tooLong", "improbable"}

\* HtlcSlots::take finds a slot: the channels of the snapshot have a limit.
HasSlot(t, c) ==
    c \in Usable(snap[t]) => kept[t].parts[c] < snap[t][c].slots

\* Mutant: a part takes its slot before its probability is looked at.
PrunedLate(t, x, sent, c, i, entry, flaw) ==
    IF flaw = "tooLong" \/ ~WithinRate(t, sent - x, x) THEN kept[t]
    ELSE IF ~HasSlot(t, c)
         THEN [kept[t] EXCEPT !.noSlot = @ \cup {c}]
    ELSE IF flaw = "improbable" THEN [kept[t] EXCEPT !.parts[c] = @ + 1]
    ELSE [kept[t] EXCEPT !.delivered = @ + x, !.sent = @ + sent,
            !.out[c] = @ + sent, !.in[ask[t].dests[i].chan] = @ + x,
            !.parts[c] = @ + 1, !.entered = @ \cup entry]

\* The prunes in their order; the final hop is translated from the mirror to
\* the channel it stands for.
Pruned(t, x, sent, c, i, entry, flaw) ==
    IF flaw # "none" \/ ~WithinRate(t, sent - x, x) THEN kept[t]
    ELSE IF ~HasSlot(t, c)
         THEN [kept[t] EXCEPT !.noSlot = @ \cup {c}]
    ELSE [kept[t] EXCEPT !.delivered = @ + x, !.sent = @ + sent,
            !.out[c] = @ + sent, !.in[ask[t].dests[i].chan] = @ + x,
            !.parts[c] = @ + 1, !.entered = @ \cup entry]

\* A part of the solution is looked at.  (The errors of plan.rs:1033-1041, for a
\* route that ends elsewhere or on an unknown mirror, are in Hops.TranslateRoute.)
\* A route may pass through us by a
\* channel whose inbound direction is not masked.
Part(t, x, sent, c, i) ==
    /\ pc[t] = "parts"
    /\ x <= draw[t].left /\ x <= draw[t].dst[i] /\ sent <= draw[t].src[c]
    /\ Solvable(Take(draw[t], x, sent, c, i))
    /\ draw' = [draw EXCEPT ![t] = Take(@, x, sent, c, i)]
    /\ \E flaw \in Flaw, entry \in {{}} \cup {{e} : e \in draw[t].enter} :
            kept' = [kept EXCEPT ![t] = Pruned(t, x, sent, c, i, entry, flaw)]
    /\ UNCHANGED <<world, ask, pc, snap, amount, layer, bounds, rung, outcome>>

\* The check of the total fee, and the plan.
Finish(t) ==
    /\ pc[t] = "parts" /\ draw[t].left = 0
    /\ LeaveLayer(t, IF Less(kept[t].sent, kept[t].delivered) > rung[t].maxfee
                     THEN "overBudget" ELSE "planned")
    /\ UNCHANGED <<world, ask, snap, amount, layer, bounds, rung, draw, kept>>

-----------------------------------------------------------------------------
(* The environment.                                                        *)

\* Our channels change: payments resolve, channels open, splice or close.
Traffic ==
    /\ Given.live
    /\ ledger' \in Given.ledgers \ {ledger}
    /\ UNCHANGED <<case, layers, run, seq, leaked, ask, pc, snap, amount, layer,
                   bounds, rung, draw, kept, outcome>>

\* The plugin stops and starts again, alone or with lightningd: its plans are
\* gone, and askrene keeps the request layers only while lightningd runs.
Restart ==
    /\ run < Given.restarts
    /\ run' = run + 1 /\ seq' = 0
    /\ pc' = [t \in Task |->
                IF pc[t] \in {"idle", "done"} THEN pc[t] ELSE "gone"]
    /\ \/ leaked' = DOMAIN layers /\ UNCHANGED layers
       \/ leaked' = {} /\ layers' = [n \in {} |-> EmptyLayer]
    /\ UNCHANGED <<case, ledger, ask, snap, amount, layer, bounds, rung, draw, kept,
                   outcome>>

-----------------------------------------------------------------------------
PartStep(t) ==
    \E x \in 1..draw[t].left, fee \in 0..Given.partFee, c \in Chan,
       i \in DOMAIN draw[t].dst :
        Part(t, x, x + fee, c, i)

Running(t) ==
    \/ Snapshot(t) \/ FailEarly(t) \/ CreateLayer(t)
    \/ BuildLayer(t) \/ FailInLayer(t) \/ Descend(t) \/ EndLadder(t)
    \/ Solve(t) \/ PartStep(t) \/ Finish(t) \/ RemoveLayer(t)

Next == (\E t \in Task : Call(t) \/ Running(t)) \/ Traffic \/ Restart

Spec == Init /\ [][Next]_vars

\* Fairness: lightningd answers, or fails, every call, and the runtime polls
\* the plan that waits for it.
FairSpec == Spec /\ \A t \in Task : WF_vars(Running(t))

-----------------------------------------------------------------------------
(* Properties.                                                             *)

Holds(t) == pc[t] \in InLayer

\* Every layer askrene holds is the layer of a plan being made, which it
\* shares with no other, or was left behind by a plan that could not remove it
\* (plan.rs:458-487): masks neither meet nor pile up.
LayersAccounted ==
    /\ \A t \in Task : Holds(t) =>
        /\ layer[t] \in DOMAIN layers
        /\ \A u \in Task \ {t} : Holds(u) => layer[u] # layer[t]
    /\ DOMAIN layers \subseteq leaked \cup {layer[t] : t \in {u \in Task : Holds(u)}}

\* A plan's parts, added up, keep within the caps: what comes in through a
\* destination, and what leaves a source, fees included (spec.rs:4-13).  The cap of
\* a source is a bound that the solver sees only if the source could send more than
\* its cap when the plan looked; if not, and it can send more by the time getroutes
\* looks, the cap may be exceeded (plan.rs:850).
CapsKept ==
    \A t \in Task :
        /\ \A i \in DOMAIN ask[t].dests :
            kept[t].in[ask[t].dests[i].chan] <= ask[t].dests[i].max
        /\ \A i \in DOMAIN ask[t].sources :
            LET s == ask[t].sources[i] IN
            ~Given.live \/ s.max < snap[t][s.chan].spend
                => kept[t].out[s.chan] <= s.max

\* Of the channels that we had when the plan looked, whatever their state then and
\* since, only the named sources carry a part away from us, and none carries one
\* through us (plan.rs:15-19).
SourcesPinned ==
    \A t \in Task : \A c \in Ours(snap[t]) :
        /\ kept[t].out[c] > 0 => c \in Chans(ask[t].sources)
        /\ c \notin kept[t].entered

\* What module Request takes a plan to be: at most the amount asked for, within
\* the budget, and within the fee rate of the ask whatever rung it is on.  That
\* holds by the rate of each part, though the solver's quote may be over the
\* budget: the last check of the fee never throws a plan away (plan.rs:1191-1197).
PlanKeepsTheEnvelope ==
    \A t \in Task :
        LET fee == kept[t].sent - kept[t].delivered IN
        /\ kept[t].delivered <= rung[t].amount
        /\ rung[t].amount <= ask[t].amount
        /\ ask[t].budget = "msat" => fee <= ask[t].maxfee
        /\ ask[t].budget = "ppm" =>
                fee * Million <= ask[t].maxfee * kept[t].delivered
        /\ outcome[t] # "overBudget"

\* No more parts than a channel has HTLC slots, and a part is dropped for want
\* of one only when parts that are really sent fill them (plan.rs:1087-1093).
SlotsWellUsed ==
    \A t \in Task : \A c \in Usable(snap[t]) :
        /\ kept[t].parts[c] <= snap[t][c].slots
        /\ kept[t].parts[c] <= kept[t].out[c]
        /\ c \in kept[t].noSlot => kept[t].parts[c] = snap[t][c].slots

\* While our channels stand still, no rung is infeasible by local arithmetic:
\* the bounds written leave room for the amount in whole units, and for the
\* fees on top, and the mirrors for the amount (spec.rs:169-176).
RungFits ==
    \A t \in Task : ~Given.live /\ pc[t] = "solve" =>
        LET seen == Seen(t)
            units == [c \in Chan |-> Drawable(seen.src[c], rung[t].amount)]
        IN
        /\ Packed(rung[t].amount) <= SumFunction(units)
        /\ rung[t].amount + rung[t].maxfee <= SumFunction(seen.src)
        /\ rung[t].amount <= SumFunction(seen.dst)

\* Every plan comes to an end unless the process does: the ladder is finite,
\* and whatever fails leads out of it (plan.rs:801).
PlanReturns ==
    \A t \in Task : (pc[t] = "snapshot") ~> (pc[t] \in {"done", "gone"})

=============================================================================
