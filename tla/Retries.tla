------------------------------ MODULE Retries ------------------------------
(***************************************************************************)
(* The round loop of xrebalance (main.rs) without its round limit: what    *)
(* ends it when parts fail for liquidity.  A failure teaches the solver    *)
(* that a channel carries less than the amount that failed, a msat less is *)
(* enough to plan the path again, and every failure counts as something    *)
(* learned.  The loop remembers what failed on which path, and does not    *)
(* send a plan that only retries it (retries_liquidity_failures, plan.rs). *)
(*                                                                         *)
(* Here a route is a path of channels that are not ours, and amounts are   *)
(* the same on all of its hops; module Request has the books of a round.   *)
(***************************************************************************)
EXTENDS Naturals, FiniteSets, SequencesExt

CONSTANTS
    Path,         \* the paths from the sources to the destinations
    Chan,         \* the channels of other nodes
    On,           \* the channels of each path
    Amount,       \* what the request is to move
    Fragment,     \* fragment_msat, which the mirrors put on every part
    MaxParts,     \* bound on the parts of a plan
    MaxOther,     \* bound on the feedback of other kinds and other requests
    MaxForgets    \* bound on how often learned constraints are aged out

ASSUME RetriesAssumption ==
    /\ IsFiniteSet(Path) /\ On \in [Path -> SUBSET Chan]
    /\ Chan \cap {"moves", "other"} = {}
    /\ Amount \in Nat \ {0} /\ Fragment \in Nat \ {0}
    /\ MaxParts \in Nat /\ MaxOther \in Nat /\ MaxForgets \in Nat

VARIABLES
    pc,        \* "top", "execute" or "ended"
    round,     \* rounds begun: none (0) or some (1)
    worn,      \* history: rounds whose every part moved or failed for liquidity
               \* while nothing was lost, counted to one more than they may be
    lost,      \* history: a write was refused or a constraint aged out
    committed, \* delivered and pending msat
    plan,      \* the parts of the round: [path, msat]
    failed,    \* liquidity_failed: what failed, by path
    known,     \* the most the solver believes of a channel (external)
    learned,   \* feedback_writes has moved since the round began
    others, forgets

vars == <<pc, round, worn, lost, committed, plan, failed, known, learned,
          others, forgets>>

\* saturating_sub
Less(a, b) == IF a > b THEN a - b ELSE 0

\* The most such rounds there may be: one for each fragment moved, and for each
\* path one for its first failure and for each time that can fall by more than a
\* fragment.
WornBound ==
    Amount \div Fragment
      + Cardinality(Path) * (1 + Less(Amount, Fragment) \div (Fragment + 1))

Init ==
    /\ pc = "top" /\ round = 0 /\ worn = 0 /\ lost = FALSE /\ committed = 0 /\ plan = <<>>
    /\ failed = [p \in {} |-> 0]
    /\ known = [c \in Chan |-> Amount]
    /\ learned = FALSE /\ others = 0 /\ forgets = 0

-----------------------------------------------------------------------------
(* A plan, and what the loop makes of it.                                  *)

\* What the parts put on a channel.
LoadOn(parts, c) ==
    SumFunction([i \in DOMAIN parts |->
                    IF c \in On[parts[i].path] THEN parts[i].msat ELSE 0])

Msats(parts) == [i \in DOMAIN parts |-> parts[i].msat]

\* What is left to move.
Remaining == Less(Amount, committed)

\* The solver's plans for what remains: each part delivers a fragment or more,
\* and the parts keep to what is believed of the channels (external).
Plans ==
    {parts \in UNION {[1..n -> [path : Path, msat : Fragment..Remaining]] :
                        n \in 0..MaxParts} :
        /\ SumFunction(Msats(parts)) <= Remaining
        /\ \A c \in Chan : LoadOn(parts, c) <= known[c]}

\* Mutant: a msat less is worth another try.
RetriesByAMsat(parts) ==
    /\ parts # <<>>
    /\ \A i \in DOMAIN parts :
        /\ parts[i].path \in DOMAIN failed
        /\ parts[i].msat >= failed[parts[i].path]

\* retries_liquidity_failures
RetriesFailures(parts) ==
    /\ parts # <<>>
    /\ \A i \in DOMAIN parts :
        /\ parts[i].path \in DOMAIN failed
        /\ parts[i].msat >= Less(failed[parts[i].path], Fragment)

CountTo(bound, n) == IF n < bound THEN n + 1 ELSE n

\* A round begins: it ends the loop, or its plan is sent.
Round ==
    /\ pc = "top"
    /\ round' = CountTo(1, round)
    /\ learned' = FALSE
    /\ IF round >= 1 /\ Remaining < Fragment
       THEN pc' = "ended" /\ UNCHANGED plan
       ELSE \E parts \in Plans :
            IF parts = <<>> \/ (round >= 1 /\ RetriesFailures(parts))
            THEN pc' = "ended" /\ UNCHANGED plan
            ELSE pc' = "execute" /\ plan' = parts
    /\ UNCHANGED <<worn, lost, committed, failed, known, others, forgets>>

-----------------------------------------------------------------------------
(* What becomes of the parts.                                              *)

\* How a part may end: it completes or is still pending, it fails for liquidity
\* at one of the channels of its path, or it fails in another way.
Fates(p) == {"moves", "other"} \cup On[p.path]

Moved(fates) ==
    {i \in DOMAIN plan : fates[i] = "moves"}
Starved(fates) ==
    {i \in DOMAIN plan : fates[i] \in Chan}

\* liquidity_failed_by_path, and the extension of liquidity_failed: of several
\* failures on a path the last one is kept.
FailedAfter(fates) ==
    [p \in DOMAIN failed \cup {plan[i].path : i \in Starved(fates)} |->
        LET now == {i \in Starved(fates) : plan[i].path = p} IN
        IF now = {} THEN failed[p]
        ELSE plan[CHOOSE i \in now : \A j \in now : j <= i].msat]

\* What the solver believes after the failures whose writes it took (external):
\* a channel carries a msat less than what failed there.
Believed(fates, taken) ==
    [c \in Chan |->
        LET caps == {Less(plan[i].msat, 1) : i \in {j \in taken : fates[j] = c}}
        IN CHOOSE m \in {known[c]} \cup caps :
            \A n \in {known[c]} \cup caps : m <= n]

\* Mutant: a round that learned nothing is taken for one that did.
StalledNever(moved, news) == FALSE

\* The stall check.
Stalled(moved, news) == ~moved /\ ~news

\* The parts of the round end, and the round with them.
Execute ==
    /\ pc = "execute"
    /\ \E fates \in [DOMAIN plan -> {"moves", "other"} \cup Chan] :
        LET moved == SumFunctionOnSet(Msats(plan), Moved(fates))
        IN
        /\ \A i \in DOMAIN plan : fates[i] \in Fates(plan[i])
        /\ committed' = committed + moved
        /\ failed' = FailedAfter(fates)
        /\ \E taken \in SUBSET Starved(fates) :
            \* a failure may have taught something of another kind too: of the
            \* hops ahead of it, or where it was not for liquidity
            \E news \in {0} \cup (IF others < MaxOther /\ \E i \in DOMAIN plan :
                                        fates[i] # "moves" THEN {1} ELSE {}) :
                /\ lost' = (lost \/ taken # Starved(fates))
                /\ worn' = IF ~lost' /\ \A i \in DOMAIN plan : fates[i] # "other"
                           THEN CountTo(WornBound + 1, worn) ELSE worn
                /\ known' = Believed(fates, taken)
                /\ others' = others + news
                /\ pc' = IF Stalled(moved > 0, learned \/ news = 1
                                               \/ taken # {})
                         THEN "ended" ELSE "top"
    /\ plan' = <<>>
    /\ UNCHANGED <<round, learned, forgets>>

\* A straggler of another request, or an inbound fee, teaches something.
OtherFeedback ==
    /\ pc # "ended" /\ others < MaxOther
    /\ others' = others + 1 /\ learned' = TRUE
    /\ UNCHANGED <<pc, round, worn, lost, committed, plan, failed, known,
                   forgets>>

\* The constraints of a channel are aged out (askrene-age).
Forget(c) ==
    /\ pc = "top" /\ forgets < MaxForgets /\ known[c] < Amount
    /\ forgets' = forgets + 1 /\ lost' = TRUE
    /\ known' = [known EXCEPT ![c] = Amount]
    /\ UNCHANGED <<pc, round, worn, committed, plan, failed, learned, others>>

Next == Round \/ Execute \/ OtherFeedback \/ \E c \in Chan : Forget(c)

Spec == Init /\ [][Next]_vars

\* Fairness: a round that can go on does (Request, Parts).
FairSpec == Spec /\ WF_vars(Round \/ Execute)

-----------------------------------------------------------------------------
(* Properties.                                                             *)

\* While nothing learned is lost, liquidity failures alone do not wear the loop
\* down msat by msat: a round they make up tries a path for the first time or more
\* than a fragment under its failure, unless it moves a fragment
\* (main.rs:580-586).  A round with a part that failed in another way may, since
\* its plan was not only of retries.
RoundsBounded == worn <= WornBound

\* The loop ends without the round limit, which is "a backstop for feedback
\* bugs, not the usual exit" (main.rs:138): whatever writes of these failures
\* askrene refuses, while the rest that is learned (MaxOther) and the agings that
\* drop something (MaxForgets) are bounded.  Without such a bound only the round
\* limit ends it.
LoopEnds == <>(pc = "ended")

=============================================================================
