------------------------------ MODULE Feedback ------------------------------
(***************************************************************************)
(* What a failed part teaches the next plan: the attribution of a failure  *)
(* to a channel or a node (exec.rs, apply_feedback and the functions it    *)
(* calls; onion_error.rs, classify_fee_insufficient) and the store of      *)
(* learned overrides (overrides.rs), which each plan snapshots and writes  *)
(* into its own request layer (plan.rs, apply_overrides).                  *)
(*                                                                         *)
(* The parts of a round are planned on one snapshot and fail one by one,   *)
(* and a part that outlives its request reports from a watcher, possibly   *)
(* after newer plans: a report meets a store that is not the one its part  *)
(* was planned on.  Each report changes the store in one critical section. *)
(***************************************************************************)
EXTENDS Naturals, Sequences

CONSTANTS
    Chan,        \* channel directions
    Ours,        \* those of our own channels
    Node,        \* nodes
    Self,        \* our node
    Source,      \* the node a channel direction leaves from
    Path,        \* the routes the solver may return: sequences of Chan
    Policy,      \* channel policies
    Fee,         \* the fee a policy asks for
    Advertised,  \* the policy a forwarder signs for a channel (external)
    Gossiped,    \* the policy gossip has for a channel at the start
    NoPolicy,    \* no policy: none stored, or the update was blanked
    Part,        \* parts
    MaxAges,     \* the values xrebalance-override-age is given
    MaxTime,     \* bound on the clock
    MaxRestarts  \* bound on the plugin restarts

ASSUME FeedbackAssumption ==
    /\ Ours \subseteq Chan
    /\ Self \in Node
    /\ Source \in [Chan -> Node]
    /\ Path \subseteq Seq(Chan)
    /\ Fee \in [Policy -> Nat]
    /\ Advertised \in [Chan -> Policy]
    /\ Gossiped \in [Chan -> Policy]
    /\ NoPolicy \notin Policy
    /\ MaxAges \subseteq Nat
    /\ MaxTime \in Nat \ {0}
    /\ MaxRestarts \in Nat

VARIABLES
    now,         \* now_secs(); 0 stands for no time at all
    maxAge,      \* Overrides.max_age
    policies,    \* Overrides.policies
    policyAt,    \* when they were stored
    disabledAt,  \* Overrides.disabled_nodes: when, 0 if not
    excludedAt,  \* Overrides.exclusions: when, 0 if not
    gossip,      \* what gossip has for a channel (external)
    part,        \* the parts, with the feedback they gave
    restarts

storeVars == <<policies, policyAt, disabledAt, excludedAt>>
vars == <<now, maxAge, policies, policyAt, disabledAt, excludedAt, gossip,
          part, restarts>>

Class == {"liquidity", "fee", "policy", "node", "next_peer", "expiry"}

\* "refused": a failure that wrote to the store, which has not been seen
\* expired since; "over": any other end.
Status == {"unused", "flying", "refused", "over"}

TypeOK ==
    /\ now \in 1 .. MaxTime
    /\ maxAge \in MaxAges
    /\ policies \in [Chan -> Policy \cup {NoPolicy}]
    /\ policyAt \in [Chan -> Nat]
    /\ \A c \in Chan : policies[c] = NoPolicy <=> policyAt[c] = 0
    /\ disabledAt \in [Node -> Nat]
    /\ excludedAt \in [Chan -> Nat]
    /\ gossip \in [Chan -> Policy]
    /\ restarts \in 0 .. MaxRestarts
    /\ part \in [Part -> [status : Status,
                         path : Path \cup {<<>>},
                         beliefs : [Chan -> Policy] \cup {<<>>},
                         hop : Nat,
                         at : Nat]]

Blank(status) ==
    [status |-> status, path |-> <<>>, beliefs |-> <<>>, hop |-> 0, at |-> 0]
Unused == Blank("unused")
Over == Blank("over")

Init ==
    /\ now = 1
    /\ maxAge \in MaxAges
    /\ policies = [c \in Chan |-> NoPolicy]
    /\ policyAt = [c \in Chan |-> 0]
    /\ disabledAt = [n \in Node |-> 0]
    /\ excludedAt = [c \in Chan |-> 0]
    /\ gossip = Gossiped
    /\ part = [p \in Part |-> Unused]
    /\ restarts = 0

-----------------------------------------------------------------------------
(* The store.                                                              *)

Young(at) == at # 0 /\ at + maxAge >= now

\* A forwarder returned the very policy we hold as a young override.
IsRepeat(c, u) == Young(policyAt[c]) /\ policies[c] = u

\* What the solver goes by for a channel: the override, or gossip.
Belief(c) == IF Young(policyAt[c]) THEN policies[c] ELSE gossip[c]
Beliefs == [c \in Chan |-> Belief(c)]

\* No young exclusion or node disable stands in the way of a route.
Usable(path) ==
    \A i \in DOMAIN path : /\ ~Young(excludedAt[path[i]])
                           /\ ~Young(disabledAt[Source[path[i]]])

\* snapshot drops what has expired, for good.
Prune ==
    /\ policies' = [c \in Chan |->
                      IF Young(policyAt[c]) THEN policies[c] ELSE NoPolicy]
    /\ policyAt' = [c \in Chan |-> IF Young(policyAt[c]) THEN policyAt[c] ELSE 0]
    /\ disabledAt' = [n \in Node |->
                        IF Young(disabledAt[n]) THEN disabledAt[n] ELSE 0]
    /\ excludedAt' = [c \in Chan |->
                        IF Young(excludedAt[c]) THEN excludedAt[c] ELSE 0]

\* The history follows the store: what is seen expired is forgotten.
Remembered(p) ==
    IF part[p].status = "refused" /\ ~Young(part[p].at)
    THEN Over
    ELSE part[p]

-----------------------------------------------------------------------------
(* Planning.                                                               *)

\* A round: a snapshot, and the parts the solver returns on the layer it
\* makes (external: any routes it leaves usable).  Every override reaches the
\* layer: a write that askrene refuses is only logged (plan.rs:489-559), and what
\* it refuses is a channel gone from the gossip, which no route has either.
Plan(parts) ==
    /\ \A p \in parts : part[p].status = "unused"
    /\ Prune
    /\ \E route \in [parts -> {path \in Path : Usable(path)}] :
         part' = [p \in Part |->
           IF p \in parts
           THEN [Unused EXCEPT !.status = "flying", !.path = route[p],
                               !.beliefs = Beliefs]
           ELSE Remembered(p)]
    /\ UNCHANGED <<now, maxAge, gossip, restarts>>

-----------------------------------------------------------------------------
(* apply_feedback, for a failure of some class at hop i with update u.     *)

NetworkHops(path, hops) ==
    {j \in hops \cap DOMAIN path : path[j] \notin Ours}

\* Mutant: the sweep of a fee failure reaches the incoming hop.
CarriedToTheErringHop(path, i, class) ==
    NetworkHops(path, {j \in DOMAIN path : j < i})

\* The hops reported unconstrained.  One hop fewer for a fee failure: the
\* incoming hop may be the one to blame.
Carried(path, i, class) ==
    NetworkHops(path, {j \in DOMAIN path :
                         IF class = "fee" THEN j + 1 < i ELSE j < i})

\* The fee the route allocated at the erring node covers what the update
\* asks for.  Nothing is allocated at our own node.
Allocated(b, path, i) == IF i = 1 THEN 0 ELSE Fee[b[path[i]]]
Covers(b, path, i, u) == Allocated(b, path, i) >= Fee[u]

\* Mutant: a blanked update is stored as a policy.
RefreshesBlanked(b, path, i, class, u) ==
    /\ path[i] \notin Ours
    /\ \/ class = "policy"
       \/ (class = "fee" /\ u # NoPolicy /\ ~Covers(b, path, i, u))

\* Whether the update is stored, or, if it repeats what we hold, escalated.
Refreshes(b, path, i, class, u) ==
    /\ u # NoPolicy
    /\ path[i] \notin Ours
    /\ \/ class = "policy"
       \/ (class = "fee" /\ ~Covers(b, path, i, u))

Escalates(b, path, i, class, u) ==
    Refreshes(b, path, i, class, u) /\ IsRepeat(path[i], u)

\* Mutant: our own channels may be excluded with the erring one.
ExcludedOursToo(b, path, i, class, u) ==
    CASE class = "fee" /\ u = NoPolicy -> {i, i - 1} \cap DOMAIN path
      [] class = "fee" /\ u # NoPolicy /\ Covers(b, path, i, u) ->
           NetworkHops(path, {i - 1})
      [] class = "expiry" \/ (class = "policy" /\ u = NoPolicy) ->
           NetworkHops(path, {i})
      [] Escalates(b, path, i, class, u) -> {i}
      [] OTHER -> {}

\* The hops excluded for an override age.
Excluded(b, path, i, class, u) ==
    CASE class = "fee" /\ u = NoPolicy -> NetworkHops(path, {i, i - 1})
      [] class = "fee" /\ u # NoPolicy /\ Covers(b, path, i, u) ->
           NetworkHops(path, {i - 1})
      [] class = "expiry" \/ (class = "policy" /\ u = NoPolicy) ->
           NetworkHops(path, {i})
      [] Escalates(b, path, i, class, u) -> {i}
      [] OTHER -> {}

\* The hops constrained in the persistent layer.
Constrained(path, i, class) ==
    IF class \in {"liquidity", "next_peer"} THEN NetworkHops(path, {i}) ELSE {}

\* Mutant: a repeated policy is stored again and never escalated.
RecordAlways(b, path, i, class, u) ==
    LET c == path[i] IN
    IF Refreshes(b, path, i, class, u)
    THEN /\ policies' = [policies EXCEPT ![c] = u]
         /\ policyAt' = [policyAt EXCEPT ![c] = now]
         /\ UNCHANGED excludedAt
    ELSE /\ excludedAt' = [x \in Chan |->
              IF \E j \in Excluded(b, path, i, class, u) : path[j] = x
              THEN now ELSE excludedAt[x]]
         /\ UNCHANGED <<policies, policyAt>>

\* record_policy and record_exclusion.
Record(b, path, i, class, u) ==
    LET c == path[i]
        stores == /\ Refreshes(b, path, i, class, u)
                  /\ ~Escalates(b, path, i, class, u)
    IN /\ policies' = IF stores THEN [policies EXCEPT ![c] = u] ELSE policies
       /\ policyAt' = IF stores THEN [policyAt EXCEPT ![c] = now] ELSE policyAt
       /\ excludedAt' = [x \in Chan |->
            IF \E j \in Excluded(b, path, i, class, u) : path[j] = x
            THEN now ELSE excludedAt[x]]

\* record_disabled_node: the erring forwarder, never ourselves.
Disable(path, i, class) ==
    LET n == Source[path[i]] IN
    disabledAt' = IF class = "node" /\ n # Self
                  THEN [disabledAt EXCEPT ![n] = now] ELSE disabledAt

\* Whether note_feedback counts a write to the store.
Noted(b, path, i, class, u) ==
    \/ Refreshes(b, path, i, class, u)
    \/ Excluded(b, path, i, class, u) # {}
    \/ class = "node" /\ Source[path[i]] # Self

\* A failure is reported.  The forwarder returns the policy it signs or
\* blanks it (external).
Fail(p, i, class, u) ==
    LET r == part[p] IN
    /\ r.status = "flying"
    /\ i \in DOMAIN r.path
    /\ u \in {NoPolicy, Advertised[r.path[i]]}
    /\ Record(r.beliefs, r.path, i, class, u)
    /\ Disable(r.path, i, class)
    /\ part' = [q \in Part |->
         IF q # p THEN Remembered(q)
         ELSE IF Noted(r.beliefs, r.path, i, class, u)
         THEN [r EXCEPT !.status = "refused", !.hop = i, !.at = now]
         ELSE Over]
    /\ UNCHANGED <<now, maxAge, gossip, restarts>>

\* The part delivered, or failed in a way that teaches nothing, or the
\* connection for the report could not be made.
End(p) ==
    /\ part[p].status = "flying"
    /\ part' = [part EXCEPT ![p] = Over]
    /\ UNCHANGED <<now, maxAge, storeVars, gossip, restarts>>

-----------------------------------------------------------------------------
SetMaxAge(age) ==
    /\ age # maxAge
    /\ maxAge' = age
    /\ UNCHANGED <<now, storeVars, gossip, part, restarts>>

\* Gossip catches up with what a forwarder signs (external).
Gossip(c) ==
    /\ gossip[c] # Advertised[c]
    /\ gossip' = [gossip EXCEPT ![c] = Advertised[c]]
    /\ UNCHANGED <<now, maxAge, storeVars, part, restarts>>

\* A restart loses the store, and the parts that would report to it.
Restart ==
    /\ restarts < MaxRestarts
    /\ restarts' = restarts + 1
    /\ maxAge' \in MaxAges
    /\ policies' = [c \in Chan |-> NoPolicy]
    /\ policyAt' = [c \in Chan |-> 0]
    /\ disabledAt' = [n \in Node |-> 0]
    /\ excludedAt' = [c \in Chan |-> 0]
    /\ part' = [p \in Part |->
         IF part[p].status = "unused" THEN Unused ELSE Over]
    /\ UNCHANGED <<now, gossip>>

Tick ==
    /\ now < MaxTime
    /\ now' = now + 1
    /\ UNCHANGED <<maxAge, storeVars, gossip, part, restarts>>

Next ==
    \/ \E parts \in (SUBSET Part) \ {{}} : Plan(parts)
    \/ \E p \in Part, class \in Class :
         \E i \in DOMAIN part[p].path :
           \E u \in {NoPolicy, Advertised[part[p].path[i]]} : Fail(p, i, class, u)
    \/ \E p \in Part : End(p)
    \/ \E age \in MaxAges : SetMaxAge(age)
    \/ \E c \in Chan : Gossip(c)
    \/ Restart
    \/ Tick

Spec == Init /\ [][Next]_vars

-----------------------------------------------------------------------------
(* What the module promises.                                               *)

Refused == {p \in Part : part[p].status = "refused" /\ Young(part[p].at)}

\* Two failures at the same hop of the same route, planned on the same
\* policies for its channels.
Alike(p, q) ==
    /\ part[p].path = part[q].path
    /\ part[p].hop = part[q].hop
    /\ \A i \in DOMAIN part[p].path :
         part[p].beliefs[part[p].path[i]] = part[q].beliefs[part[p].path[i]]

\* A plan made now may return the route of part p on the same policies.
MayRepeat(p) ==
    /\ Usable(part[p].path)
    /\ \A i \in DOMAIN part[p].path :
         Belief(part[p].path[i]) = part[p].beliefs[part[p].path[i]]

(***************************************************************************)
(* "Not blocking the true offender costs a failed part per request,        *)
(* indefinitely" (exec.rs:465-468).  Once a route has been refused twice   *)
(* at the same hop under the same policies, within the override age, no    *)
(* plan returns it under those policies: its channel or forwarder is out   *)
(* of consideration, or a policy on it has been refreshed.  Whatever the   *)
(* order in which parts planned on older snapshots report.                 *)
(***************************************************************************)
RefusedTwiceIsBlocked ==
    \A p, q \in Refused : p # q /\ Alike(p, q) => ~MayRepeat(p)

(***************************************************************************)
(* One part never claims both "carried fine" and "excluded" about the same *)
(* hop (exec.rs:298-302).                                                  *)
(***************************************************************************)
OneVerdictPerHop ==
    \A p \in Part : part[p].status = "flying" =>
        \A i \in DOMAIN part[p].path, class \in Class, u \in Policy \cup {NoPolicy} :
            LET b == part[p].beliefs
                path == part[p].path
            IN Carried(path, i, class)
                 \cap (Constrained(path, i, class)
                         \cup Excluded(b, path, i, class, u)) = {}

(***************************************************************************)
(* No override ever names one of our own channels or our own node: local   *)
(* truth is auto.localchans', and disabling ourselves would take every     *)
(* channel we have out of consideration (exec.rs:311-314, 447-449).        *)
(***************************************************************************)
OwnChannelsSpared ==
    /\ \A c \in Ours : policyAt[c] = 0 /\ excludedAt[c] = 0
    /\ disabledAt[Self] = 0

(***************************************************************************)
(* A channel is excluded for a repeated policy only if that policy was     *)
(* applied to the failing attempt: "the identical policy we already        *)
(* applied" (exec.rs:521-526), "it was not applied to the failing attempt, *)
(* so an identical return is not evidence of divergence"                   *)
(* (overrides.rs:181-183).                                                 *)
(***************************************************************************)
EscalationIsEarned ==
    \A p \in Part : part[p].status = "flying" =>
        \A i \in DOMAIN part[p].path, class \in Class :
            LET b == part[p].beliefs
                path == part[p].path
                u == Advertised[path[i]]
            IN Escalates(b, path, i, class, u) => b[path[i]] = u

=============================================================================
