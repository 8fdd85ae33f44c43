------------------------------ MODULE Reports ------------------------------
(***************************************************************************)
(* A failure on its way back (exec.rs): a part goes out over the hops of a *)
(* solved route (module Hops), a forwarder refuses it with a message that  *)
(* carries a policy, the parser reads the message (module Onion), and      *)
(* apply_feedback finds the hop in the part's record and holds a channel   *)
(* responsible.  Here one part fails, for a fee or for another policy; the *)
(* other failures, and what the stores make of them, are in Feedback.      *)
(***************************************************************************)
EXTENDS Hops, Onion

CONSTANT
    Failures   \* the plans askrene may find, each with what one of its parts may
               \* come back with: [quote, class, msg]

\* A route over the layers of the plan: the amount falls from hop to hop, no channel
\* is used twice, and our channels into us, which the planner disables, only at the
\* end, where their mirrors are.  An alias is the name of no other channel (external).
IsRoute(q) ==
    LET n == Len(q.hops) IN
    /\ n \in Nat \ {0} /\ DOMAIN q.hops = 1..n /\ q.dest \in DOMAIN Dest
    /\ q.amounts \in Seq(0..MaxAmount) /\ Len(q.amounts) = n + 1
    /\ q.cltvs \in Seq(Nat) /\ Len(q.cltvs) = n + 1
    /\ \A i \in 1..n : q.amounts[i + 1] <= q.amounts[i]
    /\ \A i \in 1..n - 1 :
        /\ q.hops[i].to # Us
        /\ \A d \in DOMAIN Dest : TrueScidd(q, i) # RealScidd(d)
    /\ \A i, j \in 1..n :
        i # j => TrueScidd(q, i).scid \notin {TrueScidd(q, j).scid, TrueName(q, j)}

\* The cells of an update (external).
Serialized(u) == u.sig \o <<u.ts, IF u.enabled THEN 0 ELSE 1, u.base, u.prop>>

\* The cells behind the length, as many as it says, are an update and its records,
\* with the type prefix or without it.
IsWhole(m) ==
    LET u == m.update
        start == Header[m.code] + 1
        len == m.data[start]
        slice == SubSeq(m.data, start + 1, start + len)
    IN
    /\ u.sig \in Seq(0..Base - 1) /\ Len(u.sig) = SigCells /\ u.enabled \in BOOLEAN
    /\ {u.ts, u.base, u.prop} \subseteq 0..Base - 1 /\ m.tail \in Seq(0..Base - 1)
    /\ start <= Len(m.data) /\ start + len <= Len(m.data)
    /\ \/ slice = TypePrefix \o (Serialized(u) \o m.tail) /\ ~m.ambiguous
       \/ slice = Serialized(u) \o m.tail /\ (m.ambiguous <=> u.sig = TypePrefix)

\* A message: behind the length of the update there are bytes, and they are an
\* update, or too few for one, the type prefix apart, or fewer than the length says
\* (external).
IsMessage(m) ==
    /\ m.data \in Seq(0..Word - 1)
    /\ m.code \in DOMAIN Header =>
        \A i \in DOMAIN m.data : i > Header[m.code] + 1 => m.data[i] < Base
    /\ m.arrives => m.code \in DOMAIN Header /\ IsWhole(m)
    /\ ~m.arrives /\ m.code \in DOMAIN Header =>
        LET start == Header[m.code] + 1
            len == Cell(m.data, Header[m.code])
            slice == SubSeq(m.data, start + 1, start + len)
        IN
        \/ Len(m.data) < start + len \/ len < BodyLen
        \/ IsPrefix(TypePrefix, slice) /\ len < Len(TypePrefix) + BodyLen

ASSUME ReportsAssumption ==
    \A f \in Failures :
        /\ f.class \in {"fee", "policy"} /\ IsMessage(f.msg)
        /\ f.quote.server \in {"v26.04", "v26.06", "v27.06"}
        /\ f.quote.routes \in Seq({f.quote.routes[r] : r \in DOMAIN f.quote.routes})
        /\ \A r \in DOMAIN f.quote.routes : IsRoute(f.quote.routes[r])

VARIABLES
    class,     \* "fee" (fee_insufficient) or "policy" (the other failcodes that
               \* carry the policy of the outgoing channel)
    report,    \* erring_channel and erring_direction, and (history) the part and
               \* the hop of its route that failed
    verdict,   \* "open", "unlocated" or "judged"
    excluded,  \* the channels excluded for the failure
    refreshed  \* the channels whose policy is stored, or escalated

blame == <<class, report, verdict, excluded, refreshed>>
vars == <<hopsVars, onionVars, blame>>

NoReport == [part |-> 0, hop |-> 0, erring |-> Null]

Init ==
    /\ \E f \in Failures :
        HopsInit(f.quote) /\ OnionInit(f.msg) /\ class = f.class
    /\ report = NoReport /\ verdict = "open"
    /\ excluded = {} /\ refreshed = {}

\* erring_hop_index: the first hop that has the name, as we know it or as the
\* onion does.
ErringHop(part, erring) ==
    LET named == {i \in DOMAIN part.hops :
            \/ part.hops[i].scidd = erring
            \/ [erring EXCEPT !.scid = part.hops[i].onion_scid] = erring}
    IN {i \in named : \A j \in named : i <= j}

\* A part fails at a hop: the report has the name of its channel from the onion
\* (external).
Fails(k, i) ==
    /\ stage = "done" /\ report = NoReport
    /\ LET hop == sent[k].route[i] IN
       report' = [part |-> k, hop |-> i,
                  erring |-> [scid |-> hop.channel, dir |-> hop.direction]]
    /\ UNCHANGED <<hopsVars, onionVars, class, verdict, excluded, refreshed>>

\* The hop is looked up, and its message parsed; without the hop nothing is learned.
Locate ==
    /\ report # NoReport /\ parse = "idle" /\ verdict = "open"
    /\ IF ErringHop(sent[report.part], report.erring) = {}
       THEN verdict' = "unlocated" /\ UNCHANGED parse
       ELSE parse' = "frame" /\ UNCHANGED verdict
    /\ UNCHANGED <<hopsVars, msg, cu, pos, policy, inbound, reads, class, report,
                   excluded, refreshed>>

\* saturating_sub
Less(a, b) == IF a >= b THEN a - b ELSE 0

\* The fee the route allocated at a hop (alloc_msat).
Allocated(part, i) ==
    IF i = 1 THEN 0
    ELSE Less(part.hops[i - 1].amount_msat, part.hops[i].amount_msat)

\* The channels of these hops, those of ours apart.
Network(part, hops) ==
    {part.hops[i].scidd :
        i \in {j \in hops \cap DOMAIN part.hops : ~part.hops[j].ours}}

\* apply_fee_insufficient and apply_policy_refresh.  Without an update neither side
\* of a fee failure can be cleared.
Judge ==
    /\ parse \in {"parsed", "none"} /\ verdict = "open"
    /\ verdict' = "judged"
    /\ \E i \in ErringHop(sent[report.part], report.erring) :
        LET part == sent[report.part]
            inboundFee == /\ class = "fee"
                          /\ Fault(policy, Allocated(part, i),
                                   part.hops[i].amount_msat) = "inbound"
        IN
        \/ /\ parse = "none"
           /\ excluded' = Network(part, IF class = "fee" THEN {i - 1, i} ELSE {i})
           /\ UNCHANGED refreshed
        \/ /\ parse = "parsed" /\ inboundFee
           /\ excluded' = Network(part, {i - 1})
           /\ UNCHANGED refreshed
        \/ /\ parse = "parsed" /\ ~inboundFee
           /\ refreshed' = Network(part, {i})
           /\ UNCHANGED excluded
    /\ UNCHANGED <<hopsVars, onionVars, class, report>>

Plugin ==
    \/ HopsNext /\ UNCHANGED <<onionVars, blame>>
    \/ OnionNext /\ UNCHANGED <<hopsVars, blame>>
    \/ Locate \/ Judge

Next ==
    \/ Plugin
    \/ \E k \in DOMAIN sent : \E i \in DOMAIN sent[k].route : Fails(k, i)

Spec == Init /\ [][Next]_vars

\* Fairness: the plugin goes on; a part need not fail.
FairSpec == Spec /\ WF_vars(Plugin)

-----------------------------------------------------------------------------
(* Properties.                                                             *)

\* The channels of the quote at these hops, those of ours apart.
Foreign(q, hops) ==
    {TrueScidd(q, i) : i \in {j \in hops \cap DOMAIN q.hops :
                                From(q, j) # Us /\ TrueTo(q, j) # Us}}

\* A failure is charged to the channels that it speaks of: of the hop that failed
\* and of the one before, by their real names, whatever name the onion had, and
\* never to ours.  A fee failure is held against the incoming channel alone exactly
\* when the fee that askrene's quote pays the forwarder covers the policy it
\* returned, in numbers that do not wrap, and otherwise the policy is believed
\* (exec.rs:210-233, 469-516, onion_error.rs:97-124).
BlameIsFair ==
    /\ verdict # "unlocated"
    /\ verdict = "judged" =>
        LET q == quote.routes[kept[report.part]]
            i == report.hop
            paid == IF i = 1 THEN 0 ELSE q.amounts[i] - q.amounts[i + 1]
            covered == /\ class = "fee" /\ parse = "parsed"
                       /\ paid * Whole + Whole > policy.base * Whole
                                                + policy.prop * q.amounts[i + 1]
        IN
        /\ excluded = Foreign(q,
              CASE parse = "none" /\ class = "fee" -> {i - 1, i}
                [] parse = "none" /\ class # "fee" -> {i}
                [] covered -> {i - 1}
                [] OTHER -> {})
        /\ refreshed = Foreign(q, IF parse = "none" \/ covered THEN {} ELSE {i})

\* A solve is planned and sent to its last part: no version's hops make the plan
\* refused, or stop execute between two parts (exec.rs:817).  And a failure is read
\* to its end, though a record may be empty and lengths may be anything.
NothingGetsStuck ==
    /\ <>(stage = "done" /\ Len(sent) = Len(kept))
    /\ (report # NoReport) ~> (verdict # "open")

=============================================================================
