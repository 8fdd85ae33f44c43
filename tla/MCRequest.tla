----------------------------- MODULE MCRequest -----------------------------
(* A small instance of Request for TLC.                                    *)
EXTENDS Request

CONSTANTS r1, r2, s1, s2, d1, d2

MCReq == {r1, r2}
MCSource == {s1, s2}
MCDest == {d1, d2}

\* An absolute fee budget, a channel of each side capped, three rounds.
PotAsk == [amount |-> 4, budget |-> "msat", maxfee |-> 1,
           srcCap |-> [s \in {s1} |-> 2], dstCap |-> [d \in {d1} |-> 1],
           rounds |-> 3]

\* A fee rate of one half, two rounds, no caps.
RateAsk == [amount |-> 4, budget |-> "ppm", maxfee |-> 1,
            srcCap |-> [s \in {} |-> 0], dstCap |-> [d \in {} |-> 0],
            rounds |-> 2]

\* A request of a single round, against which others queue.
SmallAsk == [amount |-> 1, budget |-> "msat", maxfee |-> 0,
             srcCap |-> [s \in {} |-> 0], dstCap |-> [d \in {d1} |-> 1],
             rounds |-> 1]

MCAsk == {PotAsk, RateAsk}
MCQueue == {SmallAsk, [PotAsk EXCEPT !.amount = 2, !.srcCap = RateAsk.srcCap]}

OneRequest == {r1}
OneSource == {s1}
OneDest == {d1}

=============================================================================
