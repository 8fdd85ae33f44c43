--------------------------- MODULE FeedbackProofs ---------------------------
(* Proofs about Feedback: its type invariant, that our own channels are    *)
(* spared, that a hop gets one verdict, and that a route refused twice is  *)
(* blocked, for any channels, routes, policies and override ages.          *)
EXTENDS Feedback, TLAPS

-----------------------------------------------------------------------------
(***************************************************************************)
(* Why RefusedTwiceIsBlocked holds: the inductive invariant.  What a       *)
(* refusal wrote is at least as young as the refusal, so it is in force as *)
(* long as the refusal counts.                                             *)
(***************************************************************************)

\* A failure that a forwarder reported belongs to a hop of the route.
PartInv ==
    \A p \in Part :
        /\ part[p].status \in {"flying", "refused"} =>
                part[p].path \in Path /\ part[p].beliefs \in [Chan -> Policy]
        /\ part[p].status = "refused" =>
                part[p].hop \in DOMAIN part[p].path /\ part[p].at \in 1 .. now

\* A channel or a forwarder of the route was written off at the refusal or since.
BlockedSince(p) ==
    \E i \in DOMAIN part[p].path :
        \/ excludedAt[part[p].path[i]] >= part[p].at
        \/ disabledAt[Source[part[p].path[i]]] >= part[p].at

ErringChan(p) == part[p].path[part[p].hop]

\* The erring channel has the policy its forwarder signs since then.
RefreshedSince(p) ==
    /\ policyAt[ErringChan(p)] >= part[p].at
    /\ policies[ErringChan(p)] = Advertised[ErringChan(p)]

RefusalInv ==
    \A p \in Part : part[p].status = "refused" =>
        BlockedSince(p) \/ RefreshedSince(p)

\* A route refused twice under the policy that its forwarder signs is blocked.
PairInv ==
    \A p, q \in Part :
        /\ part[p].status = "refused" /\ part[q].status = "refused"
        /\ p # q /\ Alike(p, q)
        /\ part[p].beliefs[ErringChan(p)] = Advertised[ErringChan(p)]
        => BlockedSince(p) \/ BlockedSince(q)

IInv == TypeOK /\ OwnChannelsSpared /\ PartInv /\ RefusalInv /\ PairInv

-----------------------------------------------------------------------------
(* Routes, beliefs and what a report writes.                               *)

\* A hop of a route is a channel, with a node that it leaves from.
LEMMA HopIsChan ==
    ASSUME NEW path \in Path, NEW i \in DOMAIN path
    PROVE  /\ i \in Nat /\ path[i] \in Chan
           /\ Source[path[i]] \in Node
           /\ Advertised[path[i]] \in Policy
<1>1. path \in Seq(Chan)
  BY FeedbackAssumption
<1>2. i \in Nat /\ path[i] \in Chan
  BY <1>1
<1> QED  BY <1>2, FeedbackAssumption

\* A young override is a policy.
LEMMA BeliefIsPolicy ==
    ASSUME TypeOK
    PROVE  Beliefs \in [Chan -> Policy]
<1> SUFFICES ASSUME NEW c \in Chan PROVE Belief(c) \in Policy
  BY DEF Beliefs
<1>1. gossip[c] \in Policy
  BY DEF TypeOK
<1>2. ASSUME Young(policyAt[c]) PROVE policies[c] \in Policy
  BY <1>2 DEF TypeOK, Young
<1> QED  BY <1>1, <1>2 DEF Belief

\* The hops that a report excludes: forwarders' channels, at the failure or just
\* before it, and before it only if it is about the fee.
LEMMA ExcludedHops ==
    ASSUME NEW b, NEW path \in Path, NEW i \in DOMAIN path, NEW class \in Class,
           NEW u, NEW j \in Excluded(b, path, i, class, u)
    PROVE  /\ j \in DOMAIN path /\ path[j] \notin Ours
           /\ j = i \/ (class = "fee" /\ j = i - 1)
<1>1. i \in DOMAIN path /\ i \in Nat
  BY HopIsChan
<1>2. CASE class = "fee" /\ u = NoPolicy
  <2>1. j \in NetworkHops(path, {i, i - 1})
    BY <1>2 DEF Excluded, Escalates, Refreshes
  <2> QED  BY <1>2, <2>1 DEF NetworkHops
<1>3. CASE class = "fee" /\ u # NoPolicy /\ Covers(b, path, i, u)
  <2>1. j \in NetworkHops(path, {i - 1})
    BY <1>3 DEF Excluded, Escalates, Refreshes
  <2> QED  BY <1>3, <2>1 DEF NetworkHops
<1>4. CASE class = "expiry" \/ (class = "policy" /\ u = NoPolicy)
  <2>1. j \in NetworkHops(path, {i})
    BY <1>4 DEF Excluded, Escalates, Refreshes
  <2> QED  BY <2>1 DEF NetworkHops
<1>5. CASE Escalates(b, path, i, class, u)
  <2>1. j \in {i} /\ path[i] \notin Ours
    BY <1>5 DEF Excluded, Escalates, Refreshes
  <2> QED  BY <1>1, <2>1
<1> QED  BY <1>2, <1>3, <1>4, <1>5 DEF Excluded

\* What a report writes: now, and for a channel of a forwarder or for a node
\* other than ours; a policy is the one that the forwarder signs.
LEMMA ReportWrites ==
    ASSUME TypeOK, PartInv, NEW p \in Part, NEW i, NEW class \in Class, NEW u,
           Fail(p, i, class, u)
    PROVE  /\ part[p].path \in Path /\ i \in DOMAIN part[p].path
           /\ part[p].beliefs \in [Chan -> Policy]
           /\ policies' \in [Chan -> Policy \cup {NoPolicy}]
           /\ policyAt' \in [Chan -> Nat] /\ excludedAt' \in [Chan -> Nat]
           /\ disabledAt' \in [Node -> Nat]
           /\ \A c \in Chan :
                \/ policies'[c] = policies[c] /\ policyAt'[c] = policyAt[c]
                \/ /\ c \notin Ours
                   /\ policies'[c] = Advertised[c] /\ policyAt'[c] = now
           /\ \A c \in Chan : \/ excludedAt'[c] = excludedAt[c]
                              \/ c \notin Ours /\ excludedAt'[c] = now
           /\ \A n \in Node : \/ disabledAt'[n] = disabledAt[n]
                              \/ n # Self /\ disabledAt'[n] = now
<1> DEFINE path == part[p].path
           b == part[p].beliefs
           c0 == path[i]
<1>1. path \in Path /\ i \in DOMAIN path /\ b \in [Chan -> Policy]
  BY DEF Fail, PartInv
<1>2. /\ c0 \in Chan /\ Source[c0] \in Node /\ Advertised[c0] \in Policy
      /\ now \in Nat
  BY <1>1, HopIsChan, FeedbackAssumption DEF TypeOK
<1>3. u \in {NoPolicy, Advertised[c0]}
  BY DEF Fail
<1>4. Record(b, path, i, class, u) /\ Disable(path, i, class)
  BY DEF Fail
<1>5. /\ policies' \in [Chan -> Policy \cup {NoPolicy}]
      /\ policyAt' \in [Chan -> Nat]
      /\ \A c \in Chan :
                \/ policies'[c] = policies[c] /\ policyAt'[c] = policyAt[c]
                \/ /\ c \notin Ours
                   /\ policies'[c] = Advertised[c] /\ policyAt'[c] = now
  <2>1. CASE Refreshes(b, path, i, class, u) /\ ~Escalates(b, path, i, class, u)
    <3>1. /\ policies' = [policies EXCEPT ![c0] = u]
          /\ policyAt' = [policyAt EXCEPT ![c0] = now]
      BY <1>4, <2>1 DEF Record
    <3>2. u = Advertised[c0] /\ c0 \notin Ours
      BY <1>3, <2>1 DEF Refreshes
    <3> HIDE DEF c0
    <3> QED  BY <1>2, <3>1, <3>2 DEF TypeOK
  <2>2. CASE ~(Refreshes(b, path, i, class, u) /\ ~Escalates(b, path, i, class, u))
    <3>1. policies' = policies /\ policyAt' = policyAt
      BY <1>4, <2>2 DEF Record
    <3> QED  BY <3>1 DEF TypeOK
  <2> QED  BY <2>1, <2>2
<1>6. /\ excludedAt' \in [Chan -> Nat]
      /\ \A c \in Chan : \/ excludedAt'[c] = excludedAt[c]
                         \/ c \notin Ours /\ excludedAt'[c] = now
  <2>1. excludedAt' = [x \in Chan |->
            IF \E j \in Excluded(b, path, i, class, u) : path[j] = x
            THEN now ELSE excludedAt[x]]
    BY <1>4 DEF Record
  <2>2. \A j \in Excluded(b, path, i, class, u) : path[j] \notin Ours
    BY <1>1, ExcludedHops
  <2> QED  BY <1>2, <2>1, <2>2 DEF TypeOK
<1>7. /\ disabledAt' \in [Node -> Nat]
      /\ \A n \in Node : \/ disabledAt'[n] = disabledAt[n]
                         \/ n # Self /\ disabledAt'[n] = now
  BY <1>2, <1>4 DEF Disable, TypeOK
<1> QED  BY <1>1, <1>5, <1>6, <1>7

\* A report that is noted as a write has excluded a channel of the route or
\* disabled the node, or it has stored the policy.
LEMMA NotedWrites ==
    ASSUME TypeOK, PartInv, NEW p \in Part, NEW i, NEW class \in Class, NEW u,
           Fail(p, i, class, u),
           Noted(part[p].beliefs, part[p].path, i, class, u)
    PROVE  LET path == part[p].path IN
           \/ \E j \in DOMAIN path : excludedAt'[path[j]] = now
           \/ disabledAt'[Source[path[i]]] = now
           \/ /\ policyAt'[path[i]] = now
              /\ policies'[path[i]] = Advertised[path[i]]
              /\ ~IsRepeat(path[i], Advertised[path[i]])
<1> DEFINE path == part[p].path
           b == part[p].beliefs
           c0 == path[i]
<1>1. path \in Path /\ i \in DOMAIN path /\ b \in [Chan -> Policy]
  BY DEF Fail, PartInv
<1>2. /\ c0 \in Chan /\ Source[c0] \in Node /\ Advertised[c0] \in Policy
      /\ \A j \in DOMAIN path : path[j] \in Chan
  BY <1>1, HopIsChan
<1>3. /\ u \in {NoPolicy, Advertised[c0]}
      /\ Record(b, path, i, class, u) /\ Disable(path, i, class)
  BY DEF Fail
<1>4. ASSUME Excluded(b, path, i, class, u) # {}
      PROVE  \E j \in DOMAIN path : excludedAt'[path[j]] = now
  <2>1. PICK j \in Excluded(b, path, i, class, u) : TRUE
    BY <1>4
  <2>2. j \in DOMAIN path /\ path[j] \in Chan
    BY <1>1, <1>2, ExcludedHops
  <2>3. excludedAt'[path[j]] = now
    BY <1>3, <2>2 DEF Record
  <2> QED  BY <2>2, <2>3
<1>5. CASE class = "node" /\ Source[c0] # Self
  <2>1. disabledAt'[Source[c0]] = now
    BY <1>2, <1>3, <1>5 DEF Disable, TypeOK
  <2> QED  BY <2>1
<1>6. CASE Escalates(b, path, i, class, u)
  <2>1. Excluded(b, path, i, class, u) = {i}
    BY <1>6 DEF Excluded, Escalates, Refreshes
  <2> QED  BY <1>4, <2>1
<1>7. CASE Refreshes(b, path, i, class, u) /\ ~Escalates(b, path, i, class, u)
  <2>1. u = Advertised[c0]
    BY <1>3, <1>7 DEF Refreshes
  <2>2. policyAt'[c0] = now /\ policies'[c0] = u
    BY <1>2, <1>3, <1>7 DEF Record, TypeOK
  <2>3. ~IsRepeat(c0, u)
    BY <1>7 DEF Escalates
  <2> QED  BY <2>1, <2>2, <2>3
<1> QED  BY <1>4, <1>5, <1>6, <1>7 DEF Noted

-----------------------------------------------------------------------------
(* Types.                                                                  *)

\* The record of a part.
PartType == [status : Status, path : Path \cup {<<>>},
             beliefs : [Chan -> Policy] \cup {<<>>}, hop : Nat, at : Nat]

LEMMA BlankTypes ==
    Unused \in PartType /\ Over \in PartType
  BY DEF Unused, Over, Blank, PartType, Status

\* A part that goes on, or is forgotten.
LEMMA RememberedType ==
    ASSUME TypeOK, NEW p \in Part
    PROVE  /\ Remembered(p) \in PartType
           /\ Remembered(p) \in {part[p], Over}
  BY BlankTypes DEF Remembered, TypeOK, PartType

LEMMA InitTypeOK == Init => TypeOK
<1> SUFFICES ASSUME Init PROVE TypeOK
  OBVIOUS
<1>1. part \in [Part -> PartType]
  BY BlankTypes DEF Init
<1>2. now \in 1 .. MaxTime /\ restarts \in 0 .. MaxRestarts
  BY FeedbackAssumption DEF Init
<1>3. gossip \in [Chan -> Policy]
  BY FeedbackAssumption DEF Init
<1> QED  BY <1>1, <1>2, <1>3 DEF Init, TypeOK, PartType

LEMMA StepTypeOK == TypeOK /\ PartInv /\ [Next]_vars => TypeOK'
<1> SUFFICES ASSUME TypeOK, PartInv, [Next]_vars PROVE TypeOK'
  OBVIOUS
<1>0. now \in Nat \ {0} /\ part \in [Part -> PartType]
  BY FeedbackAssumption DEF TypeOK, PartType
<1>1. ASSUME NEW parts \in SUBSET Part, Plan(parts) PROVE TypeOK'
  <2>1. PICK route \in [parts -> {path \in Path : Usable(path)}] :
          part' = [p \in Part |->
            IF p \in parts
            THEN [Unused EXCEPT !.status = "flying", !.path = route[p],
                                !.beliefs = Beliefs]
            ELSE Remembered(p)]
    BY <1>1 DEF Plan
  <2>2. ASSUME NEW p \in parts
        PROVE  [Unused EXCEPT !.status = "flying", !.path = route[p],
                              !.beliefs = Beliefs] \in PartType
    <3>1. route[p] \in Path /\ Beliefs \in [Chan -> Policy]
      BY BeliefIsPolicy
    <3> QED  BY <3>1 DEF Unused, Blank, PartType, Status
  <2>3. part' \in [Part -> PartType]
    BY <2>1, <2>2, RememberedType
  <2>4. /\ policies' \in [Chan -> Policy \cup {NoPolicy}]
        /\ policyAt' \in [Chan -> Nat]
        /\ \A c \in Chan : policies'[c] = NoPolicy <=> policyAt'[c] = 0
    BY <1>1 DEF Plan, Prune, TypeOK, Young
  <2>5. disabledAt' \in [Node -> Nat] /\ excludedAt' \in [Chan -> Nat]
    BY <1>1 DEF Plan, Prune, TypeOK
  <2> QED  BY <1>1, <2>3, <2>4, <2>5 DEF Plan, TypeOK, PartType
<1>2. ASSUME NEW p \in Part, NEW class \in Class, NEW i \in DOMAIN part[p].path,
             NEW u \in {NoPolicy, Advertised[part[p].path[i]]},
             Fail(p, i, class, u)
      PROVE  TypeOK'
  <2>1. /\ part[p].path \in Path /\ i \in Nat
        /\ policies' \in [Chan -> Policy \cup {NoPolicy}]
        /\ policyAt' \in [Chan -> Nat] /\ excludedAt' \in [Chan -> Nat]
        /\ disabledAt' \in [Node -> Nat]
    BY <1>2, ReportWrites, HopIsChan
  <2>2. \A c \in Chan : policies'[c] = NoPolicy <=> policyAt'[c] = 0
    <3>1. \A c \in Chan : Advertised[c] # NoPolicy
      BY FeedbackAssumption
    <3>2. \A c \in Chan :
            \/ policies'[c] = policies[c] /\ policyAt'[c] = policyAt[c]
            \/ policies'[c] = Advertised[c] /\ policyAt'[c] = now
      BY <1>2, ReportWrites
    <3> QED  BY <1>0, <3>1, <3>2 DEF TypeOK
  <2>3. part' \in [Part -> PartType]
    <3>1. \A q \in Part : Remembered(q) \in PartType
      BY RememberedType
    <3>2. [part[p] EXCEPT !.status = "refused", !.hop = i, !.at = now] \in PartType
      <4>1. part[p] \in PartType /\ i \in Nat /\ now \in Nat
        BY <1>0, <2>1
      <4> QED  BY <4>1 DEF PartType, Status
    <3> QED  BY <1>2, <3>1, <3>2, BlankTypes DEF Fail
  <2> QED  BY <1>2, <2>1, <2>2, <2>3 DEF Fail, TypeOK, PartType
<1>3. ASSUME NEW p \in Part, End(p) PROVE TypeOK'
  <2>1. part' \in [Part -> PartType]
    BY <1>0, <1>3, BlankTypes DEF End
  <2> QED  BY <1>3, <2>1 DEF End, TypeOK, storeVars, PartType
<1>4. ASSUME NEW age \in MaxAges, SetMaxAge(age) PROVE TypeOK'
  BY <1>4 DEF SetMaxAge, TypeOK, storeVars
<1>5. ASSUME NEW c \in Chan, Gossip(c) PROVE TypeOK'
  BY <1>5, FeedbackAssumption DEF Gossip, TypeOK, storeVars
<1>6. CASE Restart
  <2>1. part' \in [Part -> PartType]
    BY <1>6, BlankTypes DEF Restart
  <2>2. restarts' \in 0 .. MaxRestarts
    BY <1>6, FeedbackAssumption DEF Restart, TypeOK
  <2> QED  BY <1>6, <2>1, <2>2 DEF Restart, TypeOK, PartType
<1>7. CASE Tick
  BY <1>7, FeedbackAssumption DEF Tick, TypeOK, storeVars
<1>8. CASE UNCHANGED vars
  BY <1>8 DEF vars, TypeOK
<1> QED  BY <1>1, <1>2, <1>3, <1>4, <1>5, <1>6, <1>7, <1>8 DEF Next

-----------------------------------------------------------------------------
(* Our own channels and our own node.                                      *)

LEMMA StepOwnChannels ==
    TypeOK /\ PartInv /\ OwnChannelsSpared /\ [Next]_vars => OwnChannelsSpared'
<1> SUFFICES ASSUME TypeOK, PartInv, OwnChannelsSpared, [Next]_vars
             PROVE  OwnChannelsSpared'
  OBVIOUS
<1>0. Ours \subseteq Chan /\ Self \in Node
  BY FeedbackAssumption
<1>1. ASSUME NEW parts \in SUBSET Part, Plan(parts) PROVE OwnChannelsSpared'
  BY <1>0, <1>1 DEF Plan, Prune, OwnChannelsSpared
<1>2. ASSUME NEW p \in Part, NEW class \in Class, NEW i, NEW u,
             Fail(p, i, class, u)
      PROVE  OwnChannelsSpared'
  <2>1. /\ \A c \in Chan : policyAt'[c] = policyAt[c] \/ c \notin Ours
        /\ \A c \in Chan : excludedAt'[c] = excludedAt[c] \/ c \notin Ours
        /\ \A n \in Node : disabledAt'[n] = disabledAt[n] \/ n # Self
    BY <1>2, ReportWrites
  <2> QED  BY <1>0, <2>1 DEF OwnChannelsSpared
<1>3. CASE UNCHANGED storeVars
  BY <1>3 DEF storeVars, OwnChannelsSpared
<1>4. CASE Restart
  BY <1>0, <1>4 DEF Restart, OwnChannelsSpared
<1> QED
  BY <1>1, <1>2, <1>3, <1>4
  DEF Next, End, SetMaxAge, Gossip, Tick, vars, storeVars

-----------------------------------------------------------------------------
(* Refusals.                                                               *)

\* After a round, whatever counted as young before still stands.
LEMMA PlanKeeps ==
    ASSUME TypeOK, NEW parts, Plan(parts), NEW at \in Nat, Young(at)
    PROVE  /\ \A c \in Chan : policyAt[c] >= at =>
                policyAt'[c] = policyAt[c] /\ policies'[c] = policies[c]
           /\ \A c \in Chan : excludedAt[c] >= at => excludedAt'[c] = excludedAt[c]
           /\ \A n \in Node : disabledAt[n] >= at => disabledAt'[n] = disabledAt[n]
<1>1. now \in Nat /\ maxAge \in Nat
  BY FeedbackAssumption DEF TypeOK
<1>2. \A x \in Nat : x >= at => Young(x)
  BY <1>1 DEF Young
<1> QED  BY <1>2 DEF Plan, Prune, TypeOK

\* What a step leaves of a refusal: the part itself, while the override age or a
\* report does not forget it, or the refusal of this step.
LEMMA StepRefused ==
    ASSUME TypeOK, PartInv, [Next]_vars, NEW p \in Part,
           part'[p].status = "refused"
    PROVE  \/ part'[p] = part[p]
           \/ \E class \in Class : \E i \in DOMAIN part[p].path :
                \E u \in {NoPolicy, Advertised[part[p].path[i]]} :
                /\ Fail(p, i, class, u)
                /\ Noted(part[p].beliefs, part[p].path, i, class, u)
                /\ part'[p].path = part[p].path
                /\ part'[p].beliefs = part[p].beliefs
                /\ part'[p].hop = i /\ part'[p].at = now
<1>0. part \in [Part -> PartType] /\ Remembered(p) \in {part[p], Over}
      /\ Over.status # "refused" /\ Unused.status # "refused"
  BY RememberedType DEF TypeOK, PartType, Over, Unused, Blank
<1>1. ASSUME NEW parts \in SUBSET Part, Plan(parts)
      PROVE  part'[p] = part[p]
  <2>1. PICK route \in [parts -> {path \in Path : Usable(path)}] :
          part' = [q \in Part |->
            IF q \in parts
            THEN [Unused EXCEPT !.status = "flying", !.path = route[q],
                                !.beliefs = Beliefs]
            ELSE Remembered(q)]
    BY <1>1 DEF Plan
  <2>2. p \notin parts
    <3>1. [Unused EXCEPT !.status = "flying", !.path = route[p],
                         !.beliefs = Beliefs].status = "flying"
      BY DEF Unused, Blank
    <3> QED  BY <2>1, <3>1
  <2> QED  BY <1>0, <2>1, <2>2
<1>2. ASSUME NEW r \in Part, NEW class \in Class, NEW i \in DOMAIN part[r].path,
             NEW u \in {NoPolicy, Advertised[part[r].path[i]]},
             Fail(r, i, class, u), part'[p] # part[p]
      PROVE  \E k \in Class : \E j \in DOMAIN part[p].path :
                \E v \in {NoPolicy, Advertised[part[p].path[j]]} :
                /\ Fail(p, j, k, v)
                /\ Noted(part[p].beliefs, part[p].path, j, k, v)
                /\ part'[p].path = part[p].path
                /\ part'[p].beliefs = part[p].beliefs
                /\ part'[p].hop = j /\ part'[p].at = now
  <2>1. part[p] \in PartType
    BY <1>0
  <2>2. /\ p = r
        /\ Noted(part[p].beliefs, part[p].path, i, class, u)
        /\ part'[p] = [part[p] EXCEPT !.status = "refused", !.hop = i, !.at = now]
    BY <1>0, <1>2 DEF Fail
  <2>3. /\ part'[p].path = part[p].path /\ part'[p].beliefs = part[p].beliefs
        /\ part'[p].hop = i /\ part'[p].at = now
    BY <2>1, <2>2 DEF PartType
  <2>4. Fail(p, i, class, u)
    BY <1>2, <2>2
  <2> QED  BY <2>2, <2>3, <2>4
<1>3. ASSUME NEW r \in Part, End(r) PROVE part'[p] = part[p]
  BY <1>0, <1>3 DEF End
<1>4. CASE Restart
  BY <1>0, <1>4 DEF Restart
<1> QED
  BY <1>1, <1>2, <1>3, <1>4
  DEF Next, SetMaxAge, Gossip, Tick, vars

\* A part of which a refusal is left was young if the step was a round or a report.
LEMMA StepYoung ==
    ASSUME TypeOK, PartInv, [Next]_vars, NEW p \in Part,
           part[p].status = "refused", part'[p] = part[p]
    PROVE  \/ UNCHANGED storeVars
           \/ /\ Young(part[p].at)
              /\ \/ \E parts \in SUBSET Part : Plan(parts)
                 \/ \E r \in Part, class \in Class :
                      \E i \in DOMAIN part[r].path :
                        \E u \in {NoPolicy, Advertised[part[r].path[i]]} :
                          r # p /\ Fail(r, i, class, u)
<1>0. part \in [Part -> PartType] /\ Over.status # "refused"
  BY DEF TypeOK, PartType, Over, Blank
<1>1. ASSUME NEW parts \in SUBSET Part, Plan(parts)
      PROVE  Young(part[p].at)
  <2>1. p \notin parts
    BY <1>1 DEF Plan
  <2>2. part'[p] = Remembered(p)
    BY <1>1, <2>1 DEF Plan
  <2> QED  BY <1>0, <2>2 DEF Remembered
<1>2. ASSUME NEW r \in Part, NEW class \in Class, NEW i, NEW u,
             Fail(r, i, class, u)
      PROVE  Young(part[p].at) /\ r # p
  <2>1. r # p
    BY <1>2 DEF Fail
  <2>2. part'[p] = Remembered(p)
    BY <1>2, <2>1 DEF Fail
  <2> QED  BY <1>0, <2>1, <2>2 DEF Remembered
<1>3. ~Restart
  BY <1>0 DEF Restart
<1> QED
  BY <1>1, <1>2, <1>3
  DEF Next, End, SetMaxAge, Gossip, Tick, vars, storeVars

LEMMA StepPartInv == TypeOK /\ PartInv /\ [Next]_vars => PartInv'
<1> SUFFICES ASSUME TypeOK, PartInv, [Next]_vars,
                    NEW p \in Part
             PROVE  /\ part'[p].status \in {"flying", "refused"} =>
                        /\ part'[p].path \in Path
                        /\ part'[p].beliefs \in [Chan -> Policy]
                    /\ part'[p].status = "refused" =>
                        /\ part'[p].hop \in DOMAIN part'[p].path
                        /\ part'[p].at \in 1 .. now'
  BY DEF PartInv
<1>0. /\ part \in [Part -> PartType]
      /\ Over.status \notin {"flying", "refused"}
      /\ Unused.status \notin {"flying", "refused"}
      /\ now \in Nat \ {0} /\ now' \in {now, now + 1}
  <2>1. part \in [Part -> PartType] /\ now \in Nat \ {0}
    BY FeedbackAssumption DEF TypeOK, PartType
  <2>2. now' \in {now, now + 1}
    BY DEF Next, Plan, Fail, End, SetMaxAge, Gossip, Restart, Tick, vars
  <2> QED  BY <2>1, <2>2 DEF Over, Unused, Blank
<1>1. CASE part'[p].status = "refused"
  <2>1. CASE part'[p] = part[p]
    BY <1>0, <1>1, <2>1 DEF PartInv
  <2>2. CASE part'[p] # part[p]
    <3>1. PICK class \in Class : \E i \in DOMAIN part[p].path :
            \E u \in {NoPolicy, Advertised[part[p].path[i]]} :
                /\ Fail(p, i, class, u)
                /\ part'[p].path = part[p].path
                /\ part'[p].beliefs = part[p].beliefs
                /\ part'[p].hop = i /\ part'[p].at = now
      BY <1>1, <2>2, StepRefused
    <3>2. part[p].status = "flying"
      BY <3>1 DEF Fail
    <3> QED  BY <1>0, <3>1, <3>2 DEF PartInv
  <2> QED  BY <2>1, <2>2
<1>2. CASE part'[p].status = "flying"
  <2>1. ASSUME NEW parts \in SUBSET Part, Plan(parts), p \in parts
        PROVE  part'[p].path \in Path /\ part'[p].beliefs \in [Chan -> Policy]
    <3>1. PICK route \in [parts -> {path \in Path : Usable(path)}] :
            part'[p] = [Unused EXCEPT !.status = "flying", !.path = route[p],
                                      !.beliefs = Beliefs]
      BY <2>1 DEF Plan
    <3>2. part'[p].path = route[p] /\ part'[p].beliefs = Beliefs
      BY <3>1 DEF Unused, Blank
    <3> QED  BY <2>1, <3>2, BeliefIsPolicy
  <2>2. ASSUME NEW parts \in SUBSET Part, Plan(parts), p \notin parts
        PROVE  part'[p] = part[p]
    BY <1>0, <1>2, <2>2 DEF Plan, Remembered
  <2>3. ASSUME NEW r \in Part, NEW class \in Class, NEW i, NEW u,
               Fail(r, i, class, u)
        PROVE  part'[p] = part[p]
    <3>1. part[r] \in PartType
      BY <1>0
    <3>2. [part[r] EXCEPT !.status = "refused", !.hop = i, !.at = now].status
            = "refused"
      BY <3>1 DEF PartType
    <3> QED  BY <1>0, <1>2, <2>3, <3>2 DEF Fail, Remembered
  <2>4. ASSUME NEW r \in Part, End(r) PROVE part'[p] = part[p]
    BY <1>0, <1>2, <2>4 DEF End
  <2>5. ~Restart
    BY <1>0, <1>2 DEF Restart
  <2>6. \/ part'[p] = part[p]
        \/ part'[p].path \in Path /\ part'[p].beliefs \in [Chan -> Policy]
    BY <2>1, <2>2, <2>3, <2>4, <2>5 DEF Next, SetMaxAge, Gossip, Tick, vars
  <2> QED  BY <1>2, <2>6 DEF PartInv
<1> QED  BY <1>1, <1>2

\* What was written at a refusal or since stays as long as the refusal counts.
LEMMA StepKeeps ==
    ASSUME TypeOK, PartInv, [Next]_vars, NEW p \in Part,
           part[p].status = "refused", part'[p] = part[p]
    PROVE  /\ BlockedSince(p) => BlockedSince(p)'
           /\ RefreshedSince(p) => RefreshedSince(p)'
<1> DEFINE path == part[p].path
           at == part[p].at
           c0 == path[part[p].hop]
<1>0. /\ path \in Path /\ at \in Nat /\ now \in Nat /\ at <= now
      /\ c0 \in Chan
      /\ \A i \in DOMAIN path : path[i] \in Chan /\ Source[path[i]] \in Node
  BY HopIsChan, FeedbackAssumption DEF PartInv, TypeOK
<1>1. /\ BlockedSince(p) <=>
            \E i \in DOMAIN path : \/ excludedAt[path[i]] >= at
                                   \/ disabledAt[Source[path[i]]] >= at
      /\ RefreshedSince(p) <=>
            policyAt[c0] >= at /\ policies[c0] = Advertised[c0]
      /\ BlockedSince(p)' <=>
            \E i \in DOMAIN path : \/ excludedAt'[path[i]] >= at
                                   \/ disabledAt'[Source[path[i]]] >= at
      /\ RefreshedSince(p)' <=>
            policyAt'[c0] >= at /\ policies'[c0] = Advertised[c0]
  BY DEF BlockedSince, RefreshedSince, ErringChan
<1> HIDE DEF path, at, c0
<1>2. CASE UNCHANGED storeVars
  BY <1>1, <1>2 DEF storeVars
<1>3. ASSUME NEW parts \in SUBSET Part, Plan(parts), Young(at)
      PROVE  /\ BlockedSince(p) => BlockedSince(p)'
             /\ RefreshedSince(p) => RefreshedSince(p)'
  BY <1>0, <1>1, <1>3, PlanKeeps
<1>4. ASSUME NEW r \in Part, NEW class \in Class, NEW i, NEW u,
             Fail(r, i, class, u)
      PROVE  /\ BlockedSince(p) => BlockedSince(p)'
             /\ RefreshedSince(p) => RefreshedSince(p)'
  <2>1. /\ \A c \in Chan : \/ policies'[c] = policies[c] /\ policyAt'[c] = policyAt[c]
                           \/ policies'[c] = Advertised[c] /\ policyAt'[c] = now
        /\ \A c \in Chan : excludedAt'[c] = excludedAt[c] \/ excludedAt'[c] = now
        /\ \A n \in Node : disabledAt'[n] = disabledAt[n] \/ disabledAt'[n] = now
    BY <1>4, ReportWrites
  <2> QED  BY <1>0, <1>1, <2>1
<1> QED
  BY <1>2, <1>3, <1>4, StepYoung DEF at

\* A report that writes blocks its part's route, or refreshes the erring channel
\* with a policy that the store did not hold.
LEMMA RefusalWrites ==
    ASSUME TypeOK, PartInv, [Next]_vars, NEW p \in Part, NEW i,
           NEW class \in Class, NEW u, Fail(p, i, class, u),
           Noted(part[p].beliefs, part[p].path, i, class, u),
           part'[p].path = part[p].path, part'[p].hop = i, part'[p].at = now
    PROVE  \/ BlockedSince(p)'
           \/ /\ RefreshedSince(p)'
              /\ ~IsRepeat(part[p].path[i], Advertised[part[p].path[i]])
<1>1. now \in Nat /\ i \in DOMAIN part[p].path
  BY FeedbackAssumption DEF TypeOK, Fail
<1>2. now >= now
  BY <1>1
<1>3. CASE \E j \in DOMAIN part[p].path : excludedAt'[part[p].path[j]] = now
  BY <1>2, <1>3 DEF BlockedSince
<1>4. CASE disabledAt'[Source[part[p].path[i]]] = now
  BY <1>1, <1>2, <1>4 DEF BlockedSince
<1>5. CASE /\ policyAt'[part[p].path[i]] = now
           /\ policies'[part[p].path[i]] = Advertised[part[p].path[i]]
           /\ ~IsRepeat(part[p].path[i], Advertised[part[p].path[i]])
  BY <1>2, <1>5 DEF RefreshedSince, ErringChan
<1> QED  BY <1>3, <1>4, <1>5, NotedWrites

LEMMA StepRefusalInv == TypeOK /\ PartInv /\ RefusalInv /\ [Next]_vars => RefusalInv'
<1> SUFFICES ASSUME TypeOK, PartInv, RefusalInv, [Next]_vars,
                    NEW p \in Part, part'[p].status = "refused"
             PROVE  BlockedSince(p)' \/ RefreshedSince(p)'
  BY DEF RefusalInv
<1>1. CASE part'[p] = part[p]
  BY <1>1, StepKeeps DEF RefusalInv
<1>2. CASE part'[p] # part[p]
  BY <1>2, StepRefused, RefusalWrites
<1> QED  BY <1>1, <1>2

\* The second of two reports that are alike finds the policy of the first.
LEMMA SecondReport ==
    ASSUME TypeOK, PartInv, RefusalInv, [Next]_vars,
           NEW p \in Part, NEW q \in Part, p # q,
           part'[p].status = "refused", part'[q].status = "refused",
           part'[p] # part[p], Alike(p, q)'
    PROVE  BlockedSince(p)' \/ BlockedSince(q)'
<1>1. PICK class \in Class : \E i \in DOMAIN part[p].path :
        \E u \in {NoPolicy, Advertised[part[p].path[i]]} :
            /\ Fail(p, i, class, u)
            /\ Noted(part[p].beliefs, part[p].path, i, class, u)
            /\ part'[p].path = part[p].path
            /\ part'[p].beliefs = part[p].beliefs
            /\ part'[p].hop = i /\ part'[p].at = now
  BY StepRefused
<1>2. PICK i \in DOMAIN part[p].path :
        \E u \in {NoPolicy, Advertised[part[p].path[i]]} :
            /\ Fail(p, i, class, u)
            /\ Noted(part[p].beliefs, part[p].path, i, class, u)
            /\ part'[p].path = part[p].path
            /\ part'[p].hop = i /\ part'[p].at = now
  BY <1>1
<1>3. PICK u \in {NoPolicy, Advertised[part[p].path[i]]} :
            /\ Fail(p, i, class, u)
            /\ Noted(part[p].beliefs, part[p].path, i, class, u)
            /\ part'[p].path = part[p].path
            /\ part'[p].hop = i /\ part'[p].at = now
  BY <1>2
<1>4. /\ part'[q] = part[q] /\ part[q].status = "refused"
      /\ Young(part[q].at)
  <2>1. part'[q] = Remembered(q)
    BY <1>3 DEF Fail, TypeOK
  <2>2. Over.status # "refused"
    BY DEF Over, Blank
  <2> QED  BY <2>1, <2>2 DEF Remembered
<1>5. CASE BlockedSince(q)
  BY <1>4, <1>5, StepKeeps
<1>6. CASE RefreshedSince(q)
  <2>1. ErringChan(q) = part[p].path[i]
    BY <1>3, <1>4 DEF Alike, ErringChan
  <2>2. /\ policyAt[part[p].path[i]] >= part[q].at
        /\ policies[part[p].path[i]] = Advertised[part[p].path[i]]
    BY <1>6, <2>1 DEF RefreshedSince
  <2>3. /\ part[p].path[i] \in Chan /\ part[q].at \in Nat \ {0}
        /\ now \in Nat /\ maxAge \in Nat
        /\ policyAt \in [Chan -> Nat]
    <3>1. part[p].path \in Path
      BY <1>3 DEF Fail, PartInv
    <3>2. part[p].path[i] \in Chan
      BY <3>1, HopIsChan
    <3>3. now \in Nat /\ maxAge \in Nat /\ policyAt \in [Chan -> Nat]
      BY FeedbackAssumption DEF TypeOK
    <3>4. part[q].at \in 1 .. now
      BY <1>4 DEF PartInv
    <3> QED  BY <3>2, <3>3, <3>4
  <2>4. IsRepeat(part[p].path[i], Advertised[part[p].path[i]])
    BY <1>4, <2>2, <2>3 DEF IsRepeat, Young
  <2> QED  BY <1>3, <2>4, RefusalWrites
<1> QED  BY <1>4, <1>5, <1>6 DEF RefusalInv

LEMMA StepPairInv ==
    TypeOK /\ PartInv /\ RefusalInv /\ PairInv /\ [Next]_vars => PairInv'
<1> SUFFICES ASSUME TypeOK, PartInv, RefusalInv, PairInv, [Next]_vars,
                    NEW p \in Part, NEW q \in Part, p # q,
                    part'[p].status = "refused", part'[q].status = "refused",
                    Alike(p, q)',
                    part'[p].beliefs[ErringChan(p)'] = Advertised[ErringChan(p)']
             PROVE  BlockedSince(p)' \/ BlockedSince(q)'
  BY DEF PairInv
<1>1. CASE part'[p] # part[p]
  BY <1>1, SecondReport
<1>2. CASE part'[q] # part[q]
  <2>1. Alike(q, p)'
    BY DEF Alike
  <2> QED  BY <1>2, <2>1, SecondReport
<1>3. CASE part'[p] = part[p] /\ part'[q] = part[q]
  <2>1. Alike(p, q) /\ ErringChan(p)' = ErringChan(p)
    BY <1>3 DEF Alike, ErringChan
  <2>2. BlockedSince(p) \/ BlockedSince(q)
    BY <1>3, <2>1 DEF PairInv
  <2> QED  BY <1>3, <2>2, StepKeeps
<1> QED  BY <1>1, <1>2, <1>3

-----------------------------------------------------------------------------
(* The theorems.                                                           *)

(***************************************************************************)
(* The type invariant, that our own channels are spared, and what is known *)
(* of the store for every refusal and for every two that are alike, hold   *)
(* throughout: for any channels, routes, policies and override ages, and   *)
(* any order of the reports.                                               *)
(***************************************************************************)
THEOREM Inductive == Spec => []IInv
<1>1. Init => IInv
  <2> SUFFICES ASSUME Init PROVE IInv
    OBVIOUS
  <2>1. TypeOK
    BY InitTypeOK
  <2>2. OwnChannelsSpared
    BY FeedbackAssumption DEF Init, OwnChannelsSpared
  <2>3. \A p \in Part : part[p].status = "unused"
    BY DEF Init, Unused, Blank
  <2> QED  BY <2>1, <2>2, <2>3 DEF IInv, PartInv, RefusalInv, PairInv
<1>2. IInv /\ [Next]_vars => IInv'
  <2> SUFFICES ASSUME IInv, [Next]_vars PROVE IInv'
    OBVIOUS
  <2> QED
    BY StepTypeOK, StepOwnChannels, StepPartInv, StepRefusalInv, StepPairInv
    DEF IInv
<1> QED  BY <1>1, <1>2, PTL DEF Spec

(***************************************************************************)
(* Every variable keeps its type; a policy is stored exactly when it has a *)
(* time.                                                                   *)
(***************************************************************************)
THEOREM TypeCorrect == Spec => []TypeOK
<1>1. IInv => TypeOK
  BY DEF IInv
<1> QED  BY <1>1, Inductive, PTL

(***************************************************************************)
(* No override ever names one of our own channels or our own node          *)
(* (exec.rs:311-314, 447-449).                                             *)
(***************************************************************************)
THEOREM OwnSpared == Spec => []OwnChannelsSpared
<1>1. IInv => OwnChannelsSpared
  BY DEF IInv
<1> QED  BY <1>1, Inductive, PTL

(***************************************************************************)
(* One part never claims both "carried fine" and "excluded" or             *)
(* "constrained" about the same hop (exec.rs:298-302), whatever its class, *)
(* its update and the policies it was planned on.                          *)
(***************************************************************************)
THEOREM OneVerdict == Spec => []OneVerdictPerHop
<1>1. IInv => OneVerdictPerHop
  <2> SUFFICES ASSUME IInv, NEW p \in Part, part[p].status = "flying",
                      NEW i \in DOMAIN part[p].path, NEW class \in Class,
                      NEW u \in Policy \cup {NoPolicy},
                      NEW j \in Carried(part[p].path, i, class),
                      j \in Constrained(part[p].path, i, class)
                        \cup Excluded(part[p].beliefs, part[p].path, i, class, u)
               PROVE  FALSE
    BY DEF OneVerdictPerHop
  <2>1. part[p].path \in Path /\ i \in Nat
    BY HopIsChan DEF IInv, PartInv
  <2>2. /\ j \in DOMAIN part[p].path
        /\ IF class = "fee" THEN j + 1 < i ELSE j < i
    BY DEF Carried, NetworkHops
  <2>3. j \in Nat
    BY <2>1, <2>2, HopIsChan
  <2>4. j = i \/ (class = "fee" /\ j = i - 1)
    <3>1. CASE j \in Constrained(part[p].path, i, class)
      BY <3>1 DEF Constrained, NetworkHops
    <3>2. CASE j \in Excluded(part[p].beliefs, part[p].path, i, class, u)
      BY <2>1, <3>2, ExcludedHops
    <3> QED  BY <3>1, <3>2
  <2> QED  BY <2>1, <2>2, <2>3, <2>4
<1> QED  BY <1>1, Inductive, PTL

(***************************************************************************)
(* A route refused twice at the same hop under the same policies, within   *)
(* the override age, is not planned under those policies: the true         *)
(* offender does not cost "a failed part per request, indefinitely"        *)
(* (exec.rs:465-468).  The first refusal may only refresh the policy of    *)
(* the erring channel; the second finds it, or the first had another       *)
(* belief than the policy that is in force now.                            *)
(***************************************************************************)
THEOREM OffenderIsBlocked == Spec => []RefusedTwiceIsBlocked
<1>1. IInv => RefusedTwiceIsBlocked
  <2> SUFFICES ASSUME IInv, NEW p \in Refused, NEW q \in Refused, p # q,
                      Alike(p, q), MayRepeat(p)
               PROVE  FALSE
    BY DEF RefusedTwiceIsBlocked
  <2>1. /\ p \in Part /\ part[p].status = "refused" /\ Young(part[p].at)
        /\ q \in Part /\ part[q].status = "refused" /\ Young(part[q].at)
        /\ part[p].path = part[q].path
        /\ part[p].path \in Path /\ part[p].hop \in DOMAIN part[p].path
        /\ part[p].at \in Nat \ {0} /\ part[q].at \in Nat \ {0}
        /\ now \in Nat /\ maxAge \in Nat
    <3>1. now \in Nat /\ maxAge \in Nat
      BY FeedbackAssumption DEF IInv, TypeOK
    <3>2. \A r \in Refused : /\ r \in Part /\ part[r].status = "refused"
                            /\ Young(part[r].at)
      BY DEF Refused
    <3>3. \A r \in Refused : /\ part[r].path \in Path
                            /\ part[r].hop \in DOMAIN part[r].path
                            /\ part[r].at \in 1 .. now
      BY <3>2 DEF IInv, PartInv
    <3>4. \A x \in 1 .. now : x \in Nat \ {0}
      BY <3>1
    <3> QED  BY <3>1, <3>2, <3>3, <3>4 DEF Alike
  <2>2. \A i \in DOMAIN part[p].path :
            part[p].path[i] \in Chan /\ Source[part[p].path[i]] \in Node
    BY <2>1, HopIsChan
  <2>3. ASSUME NEW r \in {p, q} PROVE ~BlockedSince(r)
    <3>1. \A x \in Nat : x >= part[r].at => Young(x)
      BY <2>1, <2>3 DEF Young
    <3>2. part[r].path = part[p].path
      BY <2>1, <2>3
    <3> QED
      BY <2>2, <3>1, <3>2 DEF BlockedSince, MayRepeat, Usable, IInv, TypeOK
  <2>4. RefreshedSince(p)
    BY <2>1, <2>3 DEF IInv, RefusalInv
  <2>5. Belief(ErringChan(p)) = Advertised[ErringChan(p)]
    <3>1. policyAt[ErringChan(p)] \in Nat
      BY <2>1, <2>2 DEF ErringChan, IInv, TypeOK
    <3> QED  BY <2>1, <2>4, <3>1 DEF RefreshedSince, Belief, Young
  <2>6. part[p].beliefs[ErringChan(p)] = Advertised[ErringChan(p)]
    BY <2>1, <2>5 DEF MayRepeat, ErringChan
  <2>7. BlockedSince(p) \/ BlockedSince(q)
    BY <2>1, <2>6 DEF IInv, PairInv
  <2> QED  BY <2>3, <2>7
<1> QED  BY <1>1, Inductive, PTL

=============================================================================
