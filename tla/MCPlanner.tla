----------------------------- MODULE MCPlanner -----------------------------
(* Small instances of Planner for TLC.                                     *)
EXTENDS Planner

CONSTANTS t1, t2, s1, s2, d1, d2, o1

MCTask == {t1, t2}
MCChan == {s1, s2, d1, d2, o1}

Record(state, spend, recv, slots) ==
    [state |-> state, spend |-> spend, recv |-> recv, slots |-> slots,
     known |-> TRUE]

\* Two sources, two destinations, and a channel that waits for a splice.
Channels(a, b, slots, d, e) ==
    (s1 :> Record("normal", a, 0, slots)) @@
    (s2 :> Record("normal", b, 0, 1)) @@
    (d1 :> Record("normal", 2, d, 1)) @@
    (d2 :> Record("normal", 0, e, 1)) @@
    (o1 :> Record("other", 9, 9, 9))

Cap(chan, max) == [chan |-> chan, max |-> max]

Plan(amount_, budget, maxfee, sources, dests) ==
    [amount |-> amount_, budget |-> budget, maxfee |-> maxfee,
     sources |-> sources, dests |-> dests]

-----------------------------------------------------------------------------
(* Parts: amounts of five flow units on the first rung, and ones that local *)
(* arithmetic clamps.                                                      *)
PartsLedger == {Channels(10, 9, 2, 4, 5), Channels(7, 4, 1, 2, 6),
                [Channels(9, 9, 2, 4, 5) EXCEPT ![s1].state = "other"],
                [Channels(9, 9, 2, 4, 5) EXCEPT ![d1].known = FALSE]}

PartsAsk == {
    Plan(5, "msat", 2, <<Cap(s1, 9), Cap(s2, 99)>>,
         <<Cap(d1, 3), Cap(d2, 99)>>),
    Plan(5, "ppm", 1, <<Cap(s1, 99), Cap(s2, 99)>>,
         <<Cap(d1, 99), Cap(d2, 2)>>),
    Plan(4, "ppm", 2, <<Cap(s1, 7)>>, <<Cap(d1, 99)>>),
    Plan(3, "msat", 1, <<Cap(s1, 2), Cap(s2, 99)>>, <<Cap(d2, 99)>>),
    Plan(2, "msat", 4, <<Cap(s2, 3)>>, <<Cap(d2, 1)>>)}

-----------------------------------------------------------------------------
(* The ladder: pairs of what two sources can send, against caps, fee        *)
(* budgets, and amounts on both sides of the threshold.                    *)
LadderLedger == {Channels(a, b, 1, d, 9) : a \in 4..24, b \in {4, 9, 13, 22},
                 d \in {6, 20}}

TwoSources(c1, c2) == <<Cap(s1, c1), Cap(s2, c2)>>

LadderAsk == {
    Plan(99, "msat", 0, TwoSources(99, 99), <<Cap(d1, 99)>>),
    Plan(13, "msat", 3, TwoSources(11, 99), <<Cap(d1, 99)>>),
    Plan(99, "ppm", 1, TwoSources(99, 17), <<Cap(d1, 9), Cap(d2, 8)>>),
    Plan(7, "ppm", 2, <<Cap(s2, 99)>>, <<Cap(d2, 99), Cap(d1, 0)>>),
    Plan(9, "msat", 1, TwoSources(99, 0), <<Cap(d1, 99)>>),
    Plan(9, "msat", 1, <<Cap(s1, 5), Cap(s1, 9)>>, <<Cap(d1, 99)>>)}

-----------------------------------------------------------------------------
(* Layers: a request and a dry run with little to plan.                    *)
SmallLedger == {Channels(2, 2, 1, 2, 1)}
SmallAsk == {Plan(1, "msat", 0, <<Cap(s1, 99)>>, <<Cap(d1, 99)>>)}

-----------------------------------------------------------------------------
(* Traffic: what our channels carry changes, and a channel opens.           *)
MovingLedger == {Channels(4, 2, 3, 2, 3), Channels(6, 2, 3, 3, 3),
                 Channels(4, 5, 3, 3, 3)}
MovingAsk == {Plan(3, "msat", 1, <<Cap(s1, 3), Cap(s2, 99)>>,
                   <<Cap(d1, 1), Cap(d2, 99)>>),
              Plan(6, "ppm", 2, <<Cap(s1, 5), Cap(s2, 1)>>,
                   <<Cap(d1, 2), Cap(d2, 99)>>)}

OpeningLedger == {Channels(4, 2, 3, 4, 4),
                  [Channels(4, 2, 3, 4, 4) EXCEPT ![o1].state = "absent"],
                  [Channels(4, 2, 3, 4, 4) EXCEPT ![o1].state = "normal"]}
OpeningAsk == {Plan(3, "msat", 0, <<Cap(s1, 2), Cap(s2, 99)>>, <<Cap(d1, 99)>>)}

-----------------------------------------------------------------------------
Quiet(tasks, ledgers, asks, answers, partFee) ==
    [tasks |-> tasks, ledgers |-> ledgers, asks |-> asks, answers |-> answers,
     partFee |-> partFee, live |-> FALSE, rpcFails |-> FALSE, restarts |-> 0]

MCCases == [
    parts |-> Quiet({t1}, PartsLedger, PartsAsk, {"routes", "205"}, 2),
    ladder |-> Quiet({t1}, LadderLedger, LadderAsk, {"205"}, 0),
    layers |-> [Quiet({t1, t2}, SmallLedger, SmallAsk, {"routes", "205", "other"}, 0)
        EXCEPT !.rpcFails = TRUE, !.restarts = 2],
    moving |-> [Quiet({t1}, MovingLedger, MovingAsk, {"routes", "205"}, 1)
        EXCEPT !.live = TRUE],
    opening |-> [Quiet({t1}, OpeningLedger, OpeningAsk, {"routes"}, 0)
        EXCEPT !.live = TRUE]]

=============================================================================
