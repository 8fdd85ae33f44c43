---------------------------- MODULE PartsProofs ----------------------------
(***************************************************************************)
(* Proofs about Parts, for any number of parts, HTLCs, restarts, any clock *)
(* bound and maximum age, with and without failing connections and         *)
(* breaking RPC calls.                                                     *)
(***************************************************************************)
EXTENDS Parts, TLAPS

-----------------------------------------------------------------------------
(* The inductive invariant behind the safety properties.                   *)

\* The executor holds its batch: no part of it is elsewhere, every part it
\* holds is of its batch, and none is left to send once the wait has begun.
BatchInv(p) ==
    /\ p \in batch => stage[p] \in {"queued", "sending", "pending", "complete",
                                    "failed"}
    /\ stage[p] \in {"queued", "sending", "pending"} => p \in batch
    /\ exec \in {"idle", "wait", "collect"} =>
            stage[p] \notin {"queued", "sending"}
    /\ exec = "idle" => p \notin batch
    /\ p \in batch => booked[p] = "none"

\* A part that is not sent has left no trace.
UnsentInv(p) ==
    stage[p] \in {"unused", "queued"} =>
        /\ pay[p] = "none"
        /\ p \notin claims
        /\ booked[p] = "none"

\* An answer the executor has not acted on agrees with lightningd.
ReplyInv(p) ==
    /\ reply[p] # "none" => stage[p] \in {"sending", "pending"}
    /\ stage[p] = "sending" =>
        /\ reply[p] \in {"none", "ok", "error"}
        /\ reply[p] = "none" => pay[p] = "none"
        /\ reply[p] = "ok" => pay[p] # "none"
        /\ reply[p] = "error" /\ ~LossyRpc => pay[p] = "none"
    /\ stage[p] = "pending" =>
        /\ reply[p] \in {"none", "complete", "failed", "timeout", "unreachable"}
        /\ reply[p] = "complete" => pay[p] = "complete"
        /\ reply[p] = "failed" /\ ~LossyRpc => pay[p] = "failed"
    /\ stage[p] \in {"pending", "watched"} => pay[p] # "none"

\* lightningd's record of a payment and the HTLCs that arrive agree.
NetworkInv(p) ==
    /\ pay[p] = "none" => \A o \in Offer : htlc[p][o] = "none"
    /\ pay[p] = "complete" => \E o \in Offer : htlc[p][o] = "settled"
    /\ pay[p] = "failed" => \A o \in Offer : htlc[p][o] \in {"none", "refused"}

\* An entry of the claim table is unused and in use: none of the part's HTLCs
\* is being paid, and the part is in flight.
ClaimInv(p) ==
    p \in claims => /\ \A o \in Offer : htlc[p][o] \notin Paying
                    /\ stage[p] \in InFlightStage

\* A part that may still be paid has its claim, from before sendpay's answer.
HeldInv(p) ==
    (/\ pay[p] \in {"none", "pending"}
     /\ stage[p] \in {"sending", "pending", "watched"}
     /\ created[p] + MaxAge >= now
     /\ \A o \in Offer : htlc[p][o] \notin Paying)
    => p \in claims

\* What was reported and booked agrees with lightningd.
ReportInv(p) ==
    /\ stage[p] = "complete" => pay[p] = "complete"
    /\ stage[p] = "failed" /\ ~LossyRpc => pay[p] \in {"none", "failed"}
    /\ events[p] = IF stage[p] \in Terminal THEN 1 ELSE 0
    /\ booked[p] = "nothing" => stage[p] = "failed"

PaidInv(p) ==
    \A o, q \in Offer :
        htlc[p][o] \in Paying =>
            /\ kind[p][o] = "whole"
            /\ (q # o => htlc[p][q] \notin Paying)

PartInv(p) ==
    /\ BatchInv(p) /\ UnsentInv(p) /\ ReplyInv(p) /\ NetworkInv(p)
    /\ ClaimInv(p) /\ HeldInv(p) /\ ReportInv(p) /\ PaidInv(p)

IInv == TypeOK /\ \A p \in Part : PartInv(p)

\* The value sets are unfolded everywhere below.
USE DEF Stage, Reply, Booked, Kind, Htlc, Terminal, InFlightStage, Live, Paying

-----------------------------------------------------------------------------
(* A lemma about a function of functions.                                  *)

LEMMA NestedExcept ==
    ASSUME NEW S, NEW T, NEW V, NEW f \in [S -> [T -> V]],
           NEW s \in S, NEW t \in T, NEW v \in V
    PROVE  /\ [f EXCEPT ![s][t] = v] \in [S -> [T -> V]]
           /\ \A x \in S, y \in T :
                [f EXCEPT ![s][t] = v][x][y] =
                    IF x = s /\ y = t THEN v ELSE f[x][y]
<1>1. f[s] \in [T -> V]
    OBVIOUS
<1>2. [f[s] EXCEPT ![t] = v] \in [T -> V]
    BY <1>1
<1>3. [f EXCEPT ![s][t] = v] = [f EXCEPT ![s] = [f[s] EXCEPT ![t] = v]]
    OBVIOUS
<1>4. [f EXCEPT ![s] = [f[s] EXCEPT ![t] = v]] \in [S -> [T -> V]]
    BY <1>2
<1>5. ASSUME NEW x \in S, NEW y \in T
      PROVE  [f EXCEPT ![s] = [f[s] EXCEPT ![t] = v]][x][y] =
                    IF x = s /\ y = t THEN v ELSE f[x][y]
    BY <1>1
<1> QED
    BY <1>3, <1>4, <1>5

\* Finish changes the status, the claim and the event count of one part.
LEMMA FinishType ==
    ASSUME TypeOK, NEW p \in Part, NEW status \in Terminal, Finish(p, status)
    PROVE  /\ stage' \in [Part -> Stage]
           /\ claims' \in SUBSET Part
           /\ events' \in [Part -> Nat]
BY DEF TypeOK, Finish

-----------------------------------------------------------------------------
(* The initial state, and each action, keep the inductive invariant.       *)

LEMMA InitIInv == Init => IInv
BY PartsAssumption
   DEF Init, IInv, TypeOK, PartInv, BatchInv, UnsentInv, ReplyInv, NetworkInv,
       ClaimInv, HeldInv, ReportInv, PaidInv

\* The prune only drops entries past the age; the batch was unsent.
LEMMA ExecuteStartIInv ==
    ASSUME IInv, NEW b \in SUBSET Part, ExecuteStart(b)
    PROVE  IInv'
<1>1. TypeOK'
    BY PartsAssumption DEF IInv, TypeOK, ExecuteStart, Prune, lnVars
<1>2. ASSUME NEW q \in Part PROVE PartInv(q)'
    <2>1. TypeOK /\ PartInv(q)
        BY DEF IInv
    <2> QED
        BY <2>1, PartsAssumption
           DEF TypeOK, ExecuteStart, Prune, lnVars,
               PartInv, BatchInv, UnsentInv, ReplyInv, NetworkInv, ClaimInv,
               HeldInv, ReportInv, PaidInv
<1> QED
    BY <1>1, <1>2 DEF IInv

\* As above, without a batch.
LEMMA ExecuteNoConnectionIInv ==
    ASSUME IInv, ExecuteNoConnection
    PROVE  IInv'
<1>1. TypeOK'
    BY PartsAssumption DEF IInv, TypeOK, ExecuteNoConnection, Prune, lnVars
<1>2. ASSUME NEW q \in Part PROVE PartInv(q)'
    <2>1. TypeOK /\ PartInv(q)
        BY DEF IInv
    <2> QED
        BY <2>1, PartsAssumption
           DEF TypeOK, ExecuteNoConnection, Prune, lnVars,
               PartInv, BatchInv, UnsentInv, ReplyInv, NetworkInv, ClaimInv,
               HeldInv, ReportInv, PaidInv
<1> QED
    BY <1>1, <1>2 DEF IInv

\* The part gets its claim before it can have an HTLC.
LEMMA RegisterIInv ==
    ASSUME IInv, NEW p \in Part, Register(p)
    PROVE  IInv'
<1>1. TypeOK'
    BY PartsAssumption DEF IInv, TypeOK, Register, lnVars
<1>2. ASSUME NEW q \in Part PROVE PartInv(q)'
    <2>1. TypeOK /\ PartInv(q)
        BY DEF IInv
    <2> QED
        BY <2>1, PartsAssumption
           DEF TypeOK, Register, lnVars,
               PartInv, BatchInv, UnsentInv, ReplyInv, NetworkInv, ClaimInv,
               HeldInv, ReportInv, PaidInv
<1> QED
    BY <1>1, <1>2 DEF IInv

\* A refused part has no payment, and no claim afterwards.
LEMMA SendpayReturnIInv ==
    ASSUME IInv, NEW p \in Part, SendpayReturn(p)
    PROVE  IInv'
<1>1. TypeOK'
    <2>1. TypeOK
        BY DEF IInv
    <2>2. CASE reply[p] = "ok"
        BY <2>1, <2>2 DEF TypeOK, SendpayReturn, Finish, lnVars
    <2>3. CASE reply[p] = "error"
        <3>1. Finish(p, "failed")
            BY <2>3 DEF SendpayReturn
        <3> QED
            BY <2>1, <2>3, <3>1, FinishType DEF TypeOK, SendpayReturn, lnVars
    <2> QED
        BY <2>2, <2>3 DEF SendpayReturn
<1>2. ASSUME NEW q \in Part PROVE PartInv(q)'
    <2>1. TypeOK /\ PartInv(q)
        BY DEF IInv
    <2> QED
        BY <2>1, PartsAssumption
           DEF TypeOK, SendpayReturn, Finish, lnVars,
               PartInv, BatchInv, UnsentInv, ReplyInv, NetworkInv, ClaimInv,
               HeldInv, ReportInv, PaidInv
<1> QED
    BY <1>1, <1>2 DEF IInv

\* Only the phase of `execute` changes.
LEMMA SnapshotWindowIInv ==
    ASSUME IInv, NEW wait \in BOOLEAN, SnapshotWindow(wait)
    PROVE  IInv'
<1>1. TypeOK'
    BY PartsAssumption DEF IInv, TypeOK, SnapshotWindow, lnVars
<1>2. ASSUME NEW q \in Part PROVE PartInv(q)'
    <2>1. TypeOK /\ PartInv(q)
        BY DEF IInv
    <2> QED
        BY <2>1, PartsAssumption
           DEF TypeOK, SnapshotWindow, lnVars,
               PartInv, BatchInv, UnsentInv, ReplyInv, NetworkInv, ClaimInv,
               HeldInv, ReportInv, PaidInv
<1> QED
    BY <1>1, <1>2 DEF IInv

\* Only the phase of `execute` changes.
LEMMA JoinWaitsIInv ==
    ASSUME IInv, JoinWaits
    PROVE  IInv'
<1>1. TypeOK'
    BY PartsAssumption DEF IInv, TypeOK, JoinWaits, lnVars
<1>2. ASSUME NEW q \in Part PROVE PartInv(q)'
    <2>1. TypeOK /\ PartInv(q)
        BY DEF IInv
    <2> QED
        BY <2>1, PartsAssumption
           DEF TypeOK, JoinWaits, lnVars,
               PartInv, BatchInv, UnsentInv, ReplyInv, NetworkInv, ClaimInv,
               HeldInv, ReportInv, PaidInv
<1> QED
    BY <1>1, <1>2 DEF IInv

\* A terminal answer agrees with lightningd (ReplyInv).
LEMMA CollectIInv ==
    ASSUME IInv, NEW p \in Part, Collect(p)
    PROVE  IInv'
<1>1. TypeOK'
    <2>1. TypeOK
        BY DEF IInv
    <2>2. CASE reply[p] \in Terminal
        <3>1. Finish(p, reply[p])
            BY <2>2 DEF Collect
        <3> QED
            BY <2>1, <2>2, <3>1, FinishType DEF TypeOK, Collect, lnVars
    <2>3. CASE reply[p] \notin Terminal
        BY <2>1, <2>3 DEF TypeOK, Collect, Finish, lnVars
    <2> QED
        BY <2>2, <2>3 DEF Collect
<1>2. ASSUME NEW q \in Part PROVE PartInv(q)'
    <2>1. TypeOK /\ PartInv(q)
        BY DEF IInv
    <2> QED
        BY <2>1, PartsAssumption
           DEF TypeOK, Collect, Finish, lnVars,
               PartInv, BatchInv, UnsentInv, ReplyInv, NetworkInv, ClaimInv,
               HeldInv, ReportInv, PaidInv
<1> QED
    BY <1>1, <1>2 DEF IInv

\* Parts still pending move to a watcher and are booked as pending.
LEMMA ExecuteReturnIInv ==
    ASSUME IInv, ExecuteReturn
    PROVE  IInv'
<1>1. TypeOK'
    BY PartsAssumption DEF IInv, TypeOK, ExecuteReturn, BookedAs, lnVars
<1>2. ASSUME NEW q \in Part PROVE PartInv(q)'
    <2>1. TypeOK /\ PartInv(q)
        BY DEF IInv
    <2> QED
        BY <2>1, PartsAssumption
           DEF TypeOK, ExecuteReturn, BookedAs, lnVars,
               PartInv, BatchInv, UnsentInv, ReplyInv, NetworkInv, ClaimInv,
               HeldInv, ReportInv, PaidInv
<1> QED
    BY <1>1, <1>2 DEF IInv

\* A watcher reports what lightningd answers.
LEMMA WatchReturnIInv ==
    ASSUME IInv, NEW p \in Part, WatchReturn(p)
    PROVE  IInv'
<1>1. TypeOK'
    BY PartsAssumption DEF IInv, TypeOK, WatchReturn, Finish, lnVars
<1>2. ASSUME NEW q \in Part PROVE PartInv(q)'
    <2>1. TypeOK /\ PartInv(q)
        BY DEF IInv
    <2> QED
        BY <2>1, PartsAssumption
           DEF TypeOK, WatchReturn, Finish, lnVars,
               PartInv, BatchInv, UnsentInv, ReplyInv, NetworkInv, ClaimInv,
               HeldInv, ReportInv, PaidInv
<1> QED
    BY <1>1, <1>2 DEF IInv

\* A lost part keeps its claim.
LEMMA WatchLostIInv ==
    ASSUME IInv, NEW p \in Part, WatchLost(p)
    PROVE  IInv'
<1>1. TypeOK'
    BY PartsAssumption DEF IInv, TypeOK, WatchLost, lnVars
<1>2. ASSUME NEW q \in Part PROVE PartInv(q)'
    <2>1. TypeOK /\ PartInv(q)
        BY DEF IInv
    <2> QED
        BY <2>1, PartsAssumption
           DEF TypeOK, WatchLost, lnVars,
               PartInv, BatchInv, UnsentInv, ReplyInv, NetworkInv, ClaimInv,
               HeldInv, ReportInv, PaidInv
<1> QED
    BY <1>1, <1>2 DEF IInv

\* A payment starts only for a part whose claim is registered.
LEMMA LnSendpayIInv ==
    ASSUME IInv, NEW p \in Part, LnSendpay(p)
    PROVE  IInv'
<1>1. TypeOK'
    BY PartsAssumption DEF IInv, TypeOK, LnSendpay
<1>2. ASSUME NEW q \in Part PROVE PartInv(q)'
    <2>1. TypeOK /\ PartInv(q)
        BY DEF IInv
    <2> QED
        BY <2>1, PartsAssumption
           DEF TypeOK, LnSendpay,
               PartInv, BatchInv, UnsentInv, ReplyInv, NetworkInv, ClaimInv,
               HeldInv, ReportInv, PaidInv
<1> QED
    BY <1>1, <1>2 DEF IInv

\* The answer is lightningd's record at that moment.
LEMMA LnWaitIInv ==
    ASSUME IInv, NEW p \in Part, LnWait(p)
    PROVE  IInv'
<1>1. TypeOK'
    BY PartsAssumption DEF IInv, TypeOK, LnWait, lnVars
<1>2. ASSUME NEW q \in Part PROVE PartInv(q)'
    <2>1. TypeOK /\ PartInv(q)
        BY DEF IInv
    <2> QED
        BY <2>1, PartsAssumption
           DEF TypeOK, LnWait, lnVars,
               PartInv, BatchInv, UnsentInv, ReplyInv, NetworkInv, ClaimInv,
               HeldInv, ReportInv, PaidInv
<1> QED
    BY <1>1, <1>2 DEF IInv

\* A payment completes after an HTLC was settled.
LEMMA LnCompleteIInv ==
    ASSUME IInv, NEW p \in Part, LnComplete(p)
    PROVE  IInv'
<1>1. TypeOK'
    BY PartsAssumption DEF IInv, TypeOK, LnComplete, pluginVars
<1>2. ASSUME NEW q \in Part PROVE PartInv(q)'
    <2>1. TypeOK /\ PartInv(q)
        BY DEF IInv
    <2> QED
        BY <2>1, PartsAssumption
           DEF TypeOK, LnComplete, pluginVars,
               PartInv, BatchInv, UnsentInv, ReplyInv, NetworkInv, ClaimInv,
               HeldInv, ReportInv, PaidInv
<1> QED
    BY <1>1, <1>2 DEF IInv

\* A payment fails when no HTLC can be paid any more.
LEMMA LnFailIInv ==
    ASSUME IInv, NEW p \in Part, LnFail(p)
    PROVE  IInv'
<1>1. TypeOK'
    BY PartsAssumption DEF IInv, TypeOK, LnFail, pluginVars
<1>2. ASSUME NEW q \in Part PROVE PartInv(q)'
    <2>1. TypeOK /\ PartInv(q)
        BY DEF IInv
    <2> QED
        BY <2>1, PartsAssumption
           DEF TypeOK, LnFail, pluginVars,
               PartInv, BatchInv, UnsentInv, ReplyInv, NetworkInv, ClaimInv,
               HeldInv, ReportInv, PaidInv
<1> QED
    BY <1>1, <1>2 DEF IInv

\* Time only shortens what HeldInv asks.
LEMMA TickIInv ==
    ASSUME IInv, Tick
    PROVE  IInv'
<1>1. TypeOK'
    BY PartsAssumption DEF IInv, TypeOK, Tick, pluginVars, lnVars
<1>2. ASSUME NEW q \in Part PROVE PartInv(q)'
    <2>1. TypeOK /\ PartInv(q)
        BY DEF IInv
    <2> QED
        BY <2>1, PartsAssumption
           DEF TypeOK, Tick, pluginVars, lnVars,
               PartInv, BatchInv, UnsentInv, ReplyInv, NetworkInv, ClaimInv,
               HeldInv, ReportInv, PaidInv
<1> QED
    BY <1>1, <1>2 DEF IInv

\* A claimed HTLC is whole and the first of its hash to be paid (ClaimInv).
LEMMA HtlcAcceptedIInv ==
    ASSUME IInv, NEW p \in Part, NEW o \in Offer, HtlcAccepted(p, o)
    PROVE  IInv'
<1> DEFINE resolved == TryClaim(p, kind[p][o]) = "Resolve"
           st == IF resolved THEN "resolving" ELSE "refused"
           kd == IF resolved THEN kind[p][o] ELSE "stranger"
<1>1. TypeOK
    BY DEF IInv
<1>2. /\ htlc[p][o] = "offered"
      /\ htlc' = [htlc EXCEPT ![p][o] = st]
      /\ kind' = [kind EXCEPT ![p][o] = kd]
      /\ claims' = IF resolved THEN claims \ {p} ELSE claims
      /\ UNCHANGED <<created, exec, batch, stage, reply, events, booked, now,
                     restarts, pay>>
    BY <1>1 DEF HtlcAccepted, ClaimsAfter, TypeOK
<1>3. resolved => p \in claims /\ kind[p][o] = "whole"
    BY <1>1 DEF TypeOK, TryClaim
<1>4. st \in Htlc /\ kd \in Kind /\ (st = "resolving" <=> resolved)
      /\ (st = "refused" <=> ~resolved) /\ (resolved => kd = "whole")
    BY <1>1, <1>3 DEF TypeOK
<1> HIDE DEF resolved, st, kd
<1>5. /\ htlc' \in [Part -> [Offer -> Htlc]]
      /\ \A q \in Part, r \in Offer :
            htlc'[q][r] = IF q = p /\ r = o THEN st ELSE htlc[q][r]
    BY <1>1, <1>2, <1>4, NestedExcept DEF TypeOK
<1>6. /\ kind' \in [Part -> [Offer -> Kind]]
      /\ \A q \in Part, r \in Offer :
            kind'[q][r] = IF q = p /\ r = o THEN kd ELSE kind[q][r]
    BY <1>1, <1>2, <1>4, NestedExcept DEF TypeOK
<1>7. TypeOK'
    BY <1>1, <1>2, <1>5, <1>6 DEF TypeOK
<1>8. ASSUME NEW q \in Part PROVE PartInv(q)'
    <2>1. PartInv(q)
        BY DEF IInv
    <2> QED
        BY <2>1, <1>1, <1>2, <1>3, <1>4, <1>5, <1>6, PartsAssumption
           DEF TypeOK, PartInv, BatchInv, UnsentInv, ReplyInv, NetworkInv, ClaimInv,
               HeldInv, ReportInv, PaidInv
<1> QED
    BY <1>7, <1>8 DEF IInv

\* An HTLC arrives only for a payment that has left.
LEMMA LnOfferIInv ==
    ASSUME IInv, NEW p \in Part, NEW o \in Offer, NEW k \in Kind,
           LnOffer(p, o, k)
    PROVE  IInv'
<1>1. TypeOK
    BY DEF IInv
<1>2. /\ htlc' \in [Part -> [Offer -> Htlc]]
      /\ \A q \in Part, r \in Offer :
            htlc'[q][r] = IF q = p /\ r = o THEN "offered" ELSE htlc[q][r]
    BY <1>1, NestedExcept DEF TypeOK, LnOffer
<1>3. /\ kind' \in [Part -> [Offer -> Kind]]
      /\ \A q \in Part, r \in Offer :
            kind'[q][r] = IF q = p /\ r = o THEN k ELSE kind[q][r]
    BY <1>1, NestedExcept DEF TypeOK, LnOffer
<1>4. /\ pay[p] \in {"pending", "complete"}
      /\ htlc[p][o] = "none"
      /\ UNCHANGED <<pluginVars, now, restarts, pay>>
    BY DEF LnOffer
<1>5. TypeOK'
    BY <1>1, <1>2, <1>3, <1>4 DEF TypeOK, pluginVars
<1>6. ASSUME NEW q \in Part PROVE PartInv(q)'
    <2>1. PartInv(q)
        BY DEF IInv
    <2>2. \A r \in Offer : htlc'[q][r] = IF q = p /\ r = o THEN "offered"
                                          ELSE htlc[q][r]
        BY <1>2
    <2>3. BatchInv(q)' /\ UnsentInv(q)' /\ ReplyInv(q)' /\ ReportInv(q)'
        BY <2>1, <1>1, <1>3, <1>4
           DEF pluginVars, PartInv, BatchInv, UnsentInv, ReplyInv, ReportInv
    <2>4. NetworkInv(q)'
        BY <2>1, <2>2, <1>1, <1>3, <1>4 DEF pluginVars, PartInv, NetworkInv
    <2>5. ClaimInv(q)'
        BY <2>1, <2>2, <1>1, <1>3, <1>4 DEF pluginVars, PartInv, ClaimInv
    <2>6. HeldInv(q)'
        BY <2>1, <2>2, <1>1, <1>3, <1>4
           DEF pluginVars, PartInv, HeldInv
    <2>7. PaidInv(q)'
        BY <2>1, <2>2, <1>1, <1>3, <1>4
           DEF pluginVars, PartInv, PaidInv, NetworkInv, ClaimInv
    <2> QED
        BY <2>3, <2>4, <2>5, <2>6, <2>7 DEF PartInv
<1> QED
    BY <1>5, <1>6 DEF IInv

\* Settling an HTLC that is being resolved pays no other one.
LEMMA LnFulfilIInv ==
    ASSUME IInv, NEW p \in Part, NEW o \in Offer, LnFulfil(p, o)
    PROVE  IInv'
<1>1. TypeOK
    BY DEF IInv
<1>2. /\ htlc' \in [Part -> [Offer -> Htlc]]
      /\ \A q \in Part, r \in Offer :
            htlc'[q][r] = IF q = p /\ r = o THEN "settled" ELSE htlc[q][r]
    BY <1>1, NestedExcept DEF TypeOK, LnFulfil
<1>3. /\ htlc[p][o] = "resolving"
      /\ UNCHANGED <<pluginVars, now, restarts, pay, kind>>
    BY DEF LnFulfil
<1>4. TypeOK'
    BY <1>1, <1>2, <1>3 DEF TypeOK, pluginVars
<1>5. ASSUME NEW q \in Part PROVE PartInv(q)'
    <2>1. PartInv(q)
        BY DEF IInv
    <2>2. \A r \in Offer : htlc'[q][r] = IF q = p /\ r = o THEN "settled"
                                          ELSE htlc[q][r]
        BY <1>2
    <2>3. BatchInv(q)' /\ UnsentInv(q)' /\ ReplyInv(q)' /\ ReportInv(q)'
        BY <2>1, <1>1, <1>3
           DEF pluginVars, PartInv, BatchInv, UnsentInv, ReplyInv, ReportInv
    <2>4. NetworkInv(q)'
        BY <2>1, <2>2, <1>1, <1>3 DEF pluginVars, PartInv, NetworkInv
    <2>5. ClaimInv(q)'
        BY <2>1, <2>2, <1>1, <1>3 DEF pluginVars, PartInv, ClaimInv
    <2>6. HeldInv(q)'
        BY <2>1, <2>2, <1>1, <1>3
           DEF pluginVars, PartInv, HeldInv
    <2>7. PaidInv(q)'
        BY <2>1, <2>2, <1>1, <1>3
           DEF pluginVars, PartInv, PaidInv, NetworkInv, ClaimInv
    <2> QED
        BY <2>3, <2>4, <2>5, <2>6, <2>7 DEF PartInv
<1> QED
    BY <1>4, <1>5 DEF IInv

\* A restart leaves no claim to settle with, and no task to report.
LEMMA RestartIInv ==
    ASSUME IInv, NEW resolveLost \in BOOLEAN, Restart(resolveLost)
    PROVE  IInv'
<1>1. TypeOK
    BY DEF IInv
<1>2. /\ htlc' \in [Part -> [Offer -> Htlc]]
      /\ \A q \in Part, r \in Offer :
            htlc'[q][r] = IF resolveLost /\ htlc[q][r] = "resolving"
                          THEN "offered" ELSE htlc[q][r]
    BY <1>1 DEF TypeOK, Restart
<1>3. /\ restarts' = restarts + 1
      /\ claims' = {} /\ exec' = "idle" /\ batch' = {}
      /\ reply' = [q \in Part |-> "none"]
      /\ stage' = [q \in Part |-> IF stage[q] = "queued" THEN "unused"
                                  ELSE IF stage[q] \in InFlightStage THEN "lost"
                                  ELSE stage[q]]
      /\ UNCHANGED <<created, events, booked, now, pay, kind>>
    BY DEF Restart
<1>4. TypeOK'
    BY <1>1, <1>2, <1>3 DEF TypeOK
<1>5. ASSUME NEW q \in Part PROVE PartInv(q)'
    <2>1. PartInv(q)
        BY DEF IInv
    <2>2. \A r \in Offer : htlc'[q][r] = IF resolveLost /\ htlc[q][r] = "resolving"
                                  THEN "offered" ELSE htlc[q][r]
        BY <1>2
    <2>3. BatchInv(q)' /\ UnsentInv(q)' /\ ReplyInv(q)' /\ ReportInv(q)'
        BY <2>1, <1>1, <1>3
           DEF TypeOK, PartInv, BatchInv, UnsentInv, ReplyInv, ReportInv
    <2>4. NetworkInv(q)'
        BY <2>1, <2>2, <1>1, <1>3 DEF TypeOK, PartInv, NetworkInv
    <2>5. ClaimInv(q)'
        BY <2>1, <2>2, <1>1, <1>3 DEF TypeOK, PartInv, ClaimInv
    <2>6. HeldInv(q)'
        BY <2>1, <2>2, <1>1, <1>3, PartsAssumption
           DEF TypeOK, PartInv, HeldInv
    <2>7. PaidInv(q)'
        BY <2>1, <2>2, <1>1, <1>3
           DEF TypeOK, PartInv, PaidInv, NetworkInv, ClaimInv
    <2> QED
        BY <2>3, <2>4, <2>5, <2>6, <2>7 DEF PartInv
<1> QED
    BY <1>4, <1>5 DEF IInv

-----------------------------------------------------------------------------
(* The theorems.                                                           *)

LEMMA StepIInv == IInv /\ [Next]_vars => IInv'
<1> SUFFICES ASSUME IInv, [Next]_vars PROVE IInv'
    OBVIOUS
<1>1. CASE UNCHANGED vars
    BY <1>1 DEF vars, IInv, TypeOK, PartInv, BatchInv, UnsentInv, ReplyInv,
                NetworkInv, ClaimInv, HeldInv, ReportInv, PaidInv
<1>2. CASE \E b \in SUBSET Part : ExecuteStart(b)
    BY <1>2, ExecuteStartIInv
<1>3. CASE ExecuteNoConnection
    BY <1>3, ExecuteNoConnectionIInv
<1>4. CASE \E wait \in BOOLEAN : SnapshotWindow(wait)
    BY <1>4, SnapshotWindowIInv
<1>5. CASE JoinWaits
    BY <1>5, JoinWaitsIInv
<1>6. CASE ExecuteReturn
    BY <1>6, ExecuteReturnIInv
<1>7. ASSUME NEW p \in Part, PartStep(p) PROVE IInv'
    <2>1. CASE Register(p)
        BY <2>1, RegisterIInv
    <2>2. CASE SendpayReturn(p)
        BY <2>2, SendpayReturnIInv
    <2>3. CASE Collect(p)
        BY <2>3, CollectIInv
    <2>4. CASE WatchReturn(p) \/ WatchLost(p)
        BY <2>4, WatchReturnIInv, WatchLostIInv
    <2>5. CASE LnSendpay(p) \/ LnWait(p)
        BY <2>5, LnSendpayIInv, LnWaitIInv
    <2>6. CASE LnComplete(p) \/ LnFail(p)
        BY <2>6, LnCompleteIInv, LnFailIInv
    <2>7. ASSUME NEW o \in Offer, HtlcAccepted(p, o) \/ LnFulfil(p, o)
          PROVE  IInv'
        BY <2>7, HtlcAcceptedIInv, LnFulfilIInv
    <2>8. ASSUME NEW o \in Offer, NEW k \in Kind, LnOffer(p, o, k)
          PROVE  IInv'
        BY <2>8, LnOfferIInv
    <2> QED
        BY <1>7, <2>1, <2>2, <2>3, <2>4, <2>5, <2>6, <2>7, <2>8 DEF PartStep
<1>8. CASE \E resolveLost \in BOOLEAN : Restart(resolveLost)
    BY <1>8, RestartIInv
<1>9. CASE Tick
    BY <1>9, TickIInv
<1> QED
    BY <1>1, <1>2, <1>3, <1>4, <1>5, <1>6, <1>7, <1>8, <1>9 DEF Next

\* The inductive invariant holds in every reachable state of Parts.
THEOREM Inductive == Spec => []IInv
<1>1. Init => IInv
    BY InitIInv
<1>2. IInv /\ [Next]_vars => IInv'
    BY StepIInv
<1> QED
    BY <1>1, <1>2, PTL DEF Spec

\* Every variable keeps its type.
THEOREM TypeCorrect == Spec => []TypeOK
<1>1. IInv => TypeOK
    BY DEF IInv
<1> QED
    BY <1>1, Inductive, PTL

\* However the hook calls of one hash, the retries of the peer and the restarts
\* interleave, one HTLC at most is paid per part, and only a whole one.
THEOREM PaidOnce == Spec => []SettledOnceAndWhole
<1>1. IInv => SettledOnceAndWhole
    BY DEF IInv, PartInv, PaidInv, SettledOnceAndWhole
<1> QED
    BY <1>1, Inductive, PTL

\* A part reported failed was not and will not be paid, and a part reported
\* complete was, whichever task reports it.
THEOREM TrueReports == Spec => []ReportsAreTrue
<1>1. IInv => ReportsAreTrue
    BY DEF IInv, PartInv, ReportInv, NetworkInv, ReportsAreTrue, TypeOK
<1> QED
    BY <1>1, Inductive, PTL

\* An amount the request loop may spend again never moves after all.
THEOREM NeverSpentTwice == Spec => []NothingBookedNeverPaid
<1>1. IInv => NothingBookedNeverPaid
    BY DEF IInv, PartInv, ReportInv, NetworkInv, NothingBookedNeverPaid, TypeOK
<1> QED
    BY <1>1, Inductive, PTL

\* A part in flight and unpaid finds its claim, from before sendpay's answer.
THEOREM ClaimHeld == Spec => []ClaimWhileInFlight
<1>1. IInv => ClaimWhileInFlight
    BY DEF IInv, PartInv, HeldInv, ClaimWhileInFlight
<1> QED
    BY <1>1, Inductive, PTL

\* The claim table holds no entry of a part that has ended or was not sent.
THEOREM NoLeak == Spec => []NoStrayClaim
<1>1. IInv => NoStrayClaim
    BY DEF IInv, TypeOK, PartInv, ClaimInv, NoStrayClaim
<1> QED
    BY <1>1, Inductive, PTL

\* The snapshot and the watchers together emit one event per terminal part.
THEOREM EventOnce == Spec => []OneEventEach
<1>1. IInv => OneEventEach
    BY DEF IInv, PartInv, ReportInv, OneEventEach
<1> QED
    BY <1>1, Inductive, PTL

\* No step revises what was reported of a part or booked for it.
LEMMA StepFinal ==
    IInv /\ [Next]_vars =>
        [\A p \in Part :
            /\ stage[p] \in Terminal => stage'[p] = stage[p]
            /\ booked[p] # "none" => booked'[p] = booked[p]]_vars
<1> SUFFICES ASSUME IInv, Next, NEW q \in Part
             PROVE  /\ stage[q] \in Terminal => stage'[q] = stage[q]
                    /\ booked[q] # "none" => booked'[q] = booked[q]
    OBVIOUS
<1>1. TypeOK /\ BatchInv(q)
    BY DEF IInv, PartInv
<1>2. CASE \E b \in SUBSET Part : ExecuteStart(b)
    BY <1>1, <1>2 DEF ExecuteStart, TypeOK
<1>3. CASE ExecuteReturn
    BY <1>1, <1>3 DEF ExecuteReturn, TypeOK, BatchInv
<1>4. CASE \E resolveLost \in BOOLEAN : Restart(resolveLost)
    BY <1>1, <1>4 DEF Restart, TypeOK
<1>5. CASE \/ ExecuteNoConnection \/ JoinWaits \/ Tick
           \/ \E wait \in BOOLEAN : SnapshotWindow(wait)
    BY <1>5 DEF ExecuteNoConnection, JoinWaits, Tick, SnapshotWindow, pluginVars
<1>6. ASSUME NEW p \in Part, PartStep(p)
      PROVE  /\ stage[q] \in Terminal => stage'[q] = stage[q]
             /\ booked[q] # "none" => booked'[q] = booked[q]
    <2>1. CASE Register(p) \/ WatchLost(p)
        BY <1>1, <2>1 DEF Register, WatchLost, TypeOK
    <2>2. CASE SendpayReturn(p) \/ Collect(p)
        BY <1>1, <2>2 DEF SendpayReturn, Collect, Finish, TypeOK
    <2>3. CASE WatchReturn(p)
        BY <1>1, <2>3 DEF WatchReturn, Finish, TypeOK
    <2>4. CASE LnSendpay(p) \/ LnWait(p) \/ LnComplete(p) \/ LnFail(p)
        BY <2>4 DEF LnSendpay, LnWait, LnComplete, LnFail, pluginVars
    <2>5. CASE \E o \in Offer : \/ HtlcAccepted(p, o) \/ LnFulfil(p, o)
                                \/ \E k \in Kind : LnOffer(p, o, k)
        BY <2>5 DEF HtlcAccepted, LnFulfil, LnOffer, pluginVars
    <2> QED
        BY <1>6, <2>1, <2>2, <2>3, <2>4, <2>5 DEF PartStep
<1> QED
    BY <1>2, <1>3, <1>4, <1>5, <1>6 DEF Next

\* Reports and bookings are final.
THEOREM FinalReports == Spec => ReportsAreFinal
<1>1. IInv /\ [Next]_vars =>
        [\A p \in Part :
            /\ stage[p] \in Terminal => stage'[p] = stage[p]
            /\ booked[p] # "none" => booked'[p] = booked[p]]_vars
    BY StepFinal
<1> QED
    BY <1>1, Inductive, PTL DEF Spec, ReportsAreFinal

\* An entry that leaves the claim table has been used, or cannot be used.
LEMMA StepLeaves ==
    ASSUME ~LossyRpc, IInv, Next, NEW q \in claims \ claims'
    PROVE  \/ \E o \in Offer : htlc'[q][o] = "resolving"
           \/ pay[q] \in {"none", "failed"}
           \/ created[q] + MaxAge < now
           \/ restarts' # restarts
<1>1. TypeOK /\ q \in Part /\ q \in claims /\ q \notin claims'
    BY DEF IInv, TypeOK
<1>2. PartInv(q)
    BY <1>1 DEF IInv
<1>3. CASE ExecuteNoConnection \/ \E b \in SUBSET Part : ExecuteStart(b)
    BY <1>1, <1>3, PartsAssumption
       DEF ExecuteStart, ExecuteNoConnection, Prune, TypeOK
<1>4. CASE JoinWaits \/ ExecuteReturn \/ \E wait \in BOOLEAN : SnapshotWindow(wait)
    BY <1>1, <1>4 DEF JoinWaits, ExecuteReturn, SnapshotWindow
<1>5. CASE Tick
    BY <1>1, <1>5 DEF Tick, pluginVars
<1>6. CASE \E resolveLost \in BOOLEAN : Restart(resolveLost)
    BY <1>1, <1>6 DEF Restart, TypeOK
<1>7. ASSUME NEW p \in Part, PartStep(p)
      PROVE  \/ \E o \in Offer : htlc'[q][o] = "resolving"
             \/ pay[q] \in {"none", "failed"}
    <2>1. CASE Register(p) \/ WatchLost(p)
        BY <1>1, <2>1 DEF Register, WatchLost
    <2>2. CASE LnSendpay(p) \/ LnWait(p) \/ LnComplete(p) \/ LnFail(p)
        BY <1>1, <2>2 DEF LnSendpay, LnWait, LnComplete, LnFail, pluginVars
    <2>3. CASE SendpayReturn(p)
        BY <1>1, <1>2, <2>3 DEF SendpayReturn, Finish, PartInv, ReplyInv
    <2>4. CASE Collect(p)
        BY <1>1, <1>2, <2>4 DEF Collect, Finish, PartInv, ReplyInv
    <2>5. CASE WatchReturn(p)
        BY <1>1, <1>2, <2>5 DEF WatchReturn, Finish, PartInv
    <2>6. ASSUME NEW o \in Offer, HtlcAccepted(p, o)
          PROVE  \E r \in Offer : htlc'[q][r] = "resolving"
        <3>1. q = p /\ TryClaim(p, kind[p][o]) = "Resolve"
            BY <1>1, <2>6 DEF HtlcAccepted, ClaimsAfter
        <3>2. htlc' = [htlc EXCEPT ![p][o] = "resolving"]
            BY <2>6, <3>1 DEF HtlcAccepted
        <3>3. htlc'[p][o] = "resolving"
            BY <1>1, <3>2 DEF TypeOK
        <3> QED
            BY <3>1, <3>3
    <2>7. CASE \E o \in Offer : LnFulfil(p, o) \/ \E k \in Kind : LnOffer(p, o, k)
        BY <1>1, <2>7 DEF LnFulfil, LnOffer, pluginVars
    <2> QED
        BY <1>7, <2>1, <2>2, <2>3, <2>4, <2>5, <2>6, <2>7 DEF PartStep
<1> QED
    BY <1>3, <1>4, <1>5, <1>6, <1>7 DEF Next

\* A claim is dropped only when it is used, cannot be used, is too old, or goes
\* with the process -- while no RPC call breaks.
THEOREM ClaimsLeave ==
    ASSUME ~LossyRpc
    PROVE  Spec => ClaimsLeaveForAReason
<1>1. IInv /\ [Next]_vars =>
        [\A p \in claims \ claims' :
            \/ \E o \in Offer : htlc'[p][o] = "resolving"
            \/ pay[p] \in {"none", "failed"}
            \/ created[p] + MaxAge < now
            \/ restarts' # restarts]_vars
    BY StepLeaves
<1> QED
    BY <1>1, Inductive, PTL DEF Spec, ClaimsLeaveForAReason

-----------------------------------------------------------------------------
(* Parts implements IdealParts while no RPC call breaks.                   *)

\* One case of the abstract value of one part.
LEMMA MoneyCases ==
    ASSUME NEW p \in Part
    PROVE  /\ (\E o \in Offer : htlc[p][o] = "settled") => moneyOf[p] = "moved"
           /\ (~ \E o \in Offer : htlc[p][o] = "settled") =>
                /\ pay[p] = "none" => moneyOf[p] = "home"
                /\ pay[p] = "failed" => moneyOf[p] = "returned"
                /\ pay[p] \notin {"none", "failed"} => moneyOf[p] = "inflight"
BY DEF moneyOf

\* A report is the step Tell of IdealParts.
LEMMA FinishIsTell ==
    ASSUME IInv, NEW p \in Part, NEW status \in Terminal, Finish(p, status),
           stage[p] \notin Terminal, UNCHANGED <<pay, htlc>>,
           status = "complete" => pay[p] = "complete",
           status = "failed" => pay[p] \in {"none", "failed"}
    PROVE  Ideal!Tell(p)
<1>1. TypeOK /\ NetworkInv(p)
    BY DEF IInv, PartInv
<1>2. moneyOf' = moneyOf
    BY DEF moneyOf
<1>3. reportOf' = [reportOf EXCEPT ![p] = status]
    BY <1>1 DEF reportOf, Finish, TypeOK
<1>4. reportOf[p] = "none"
    BY DEF reportOf
<1>5. CASE status = "complete"
    <2>1. moneyOf[p] = "moved"
        BY <1>1, <1>5, MoneyCases DEF NetworkInv
    <2> QED
        BY <1>2, <1>3, <1>4, <1>5, <2>1 DEF Ideal!Tell
<1>6. CASE status = "failed"
    <2>1. moneyOf[p] \in {"home", "returned"}
        <3>1. ~ \E o \in Offer : htlc[p][o] = "settled"
            BY <1>1, <1>6 DEF NetworkInv
        <3> QED
            BY <1>6, <3>1, MoneyCases
    <2> QED
        BY <1>2, <1>3, <1>4, <1>6, <2>1 DEF Ideal!Tell
<1> QED
    BY <1>5, <1>6

\* Nothing has moved initially.
LEMMA InitIdeal == Init => Ideal!Init
BY DEF Init, Ideal!Init, moneyOf, reportOf

\* An acceptance is Launch, a settlement or a failure Arrive, a report Tell;
\* every other step changes neither the money nor the reports.
LEMMA StepIdeal ==
    ASSUME ~LossyRpc
    PROVE  IInv /\ [Next]_vars => [Ideal!Next]_<<moneyOf, reportOf>>
<1> SUFFICES ASSUME IInv, [Next]_vars
             PROVE  Ideal!Next \/ UNCHANGED <<moneyOf, reportOf>>
    OBVIOUS
<1>0. TypeOK
    BY DEF IInv
<1>1. CASE UNCHANGED vars
    BY <1>1 DEF vars, moneyOf, reportOf
<1>2. CASE \E b \in SUBSET Part : ExecuteStart(b)
    BY <1>0, <1>2 DEF ExecuteStart, lnVars, moneyOf, reportOf, TypeOK
<1>3. CASE \/ ExecuteNoConnection \/ JoinWaits \/ Tick
           \/ \E wait \in BOOLEAN : SnapshotWindow(wait)
    BY <1>3 DEF ExecuteNoConnection, JoinWaits, Tick, SnapshotWindow, lnVars,
                pluginVars, moneyOf, reportOf
<1>4. CASE ExecuteReturn
    BY <1>0, <1>4 DEF ExecuteReturn, lnVars, moneyOf, reportOf, TypeOK
<1>5. CASE \E resolveLost \in BOOLEAN : Restart(resolveLost)
    BY <1>0, <1>5 DEF Restart, moneyOf, reportOf, TypeOK
<1>6. ASSUME NEW p \in Part, PartStep(p)
      PROVE  Ideal!Next \/ UNCHANGED <<moneyOf, reportOf>>
    <2>0. PartInv(p)
        BY DEF IInv
    <2>1. CASE Register(p) \/ WatchLost(p)
        BY <1>0, <2>1 DEF Register, WatchLost, lnVars, moneyOf, reportOf, TypeOK
    <2>2. CASE SendpayReturn(p)
        <3>1. CASE reply[p] = "ok"
            BY <1>0, <2>2, <3>1
               DEF SendpayReturn, lnVars, moneyOf, reportOf, TypeOK
        <3>2. CASE reply[p] = "error"
            <4>1. Finish(p, "failed") /\ UNCHANGED <<pay, htlc>>
                BY <2>2, <3>2 DEF SendpayReturn, lnVars
            <4>2. stage[p] = "sending" /\ pay[p] = "none"
                BY <2>0, <2>2, <3>2 DEF SendpayReturn, PartInv, ReplyInv
            <4> QED
                BY <4>1, <4>2, FinishIsTell DEF Ideal!Next
        <3> QED
            BY <2>2, <3>1, <3>2 DEF SendpayReturn
    <2>3. CASE Collect(p)
        <3>1. CASE reply[p] \notin Terminal
            BY <1>0, <2>3, <3>1 DEF Collect, lnVars, moneyOf, reportOf, TypeOK
        <3>2. CASE reply[p] \in Terminal
            <4>1. Finish(p, reply[p]) /\ UNCHANGED <<pay, htlc>>
                BY <2>3, <3>2 DEF Collect, lnVars
            <4>2. stage[p] = "pending" /\ reply[p] = pay[p]
                BY <2>0, <2>3, <3>2 DEF Collect, PartInv, ReplyInv
            <4> QED
                BY <3>2, <4>1, <4>2, FinishIsTell DEF Ideal!Next
        <3> QED
            BY <3>1, <3>2
    <2>4. CASE WatchReturn(p)
        <3>1. PICK status \in Terminal : pay[p] = status /\ Finish(p, status)
            BY <2>4 DEF WatchReturn
        <3>2. stage[p] = "watched" /\ UNCHANGED <<pay, htlc>>
            BY <2>4 DEF WatchReturn, lnVars
        <3> QED
            BY <3>1, <3>2, FinishIsTell DEF Ideal!Next
    <2>5. CASE LnSendpay(p)
        <3>1. /\ stage[p] = "sending" /\ pay[p] = "none"
              /\ UNCHANGED <<stage, htlc>>
            BY <2>5 DEF LnSendpay
        <3>2. reportOf' = reportOf /\ reportOf[p] = "none"
            BY <3>1 DEF reportOf
        <3>3. ~ \E o \in Offer : htlc[p][o] = "settled"
            BY <2>0, <3>1 DEF PartInv, NetworkInv
        <3>4. CASE UNCHANGED pay
            BY <3>1, <3>2, <3>4 DEF moneyOf
        <3>5. CASE pay' = [pay EXCEPT ![p] = "pending"]
            <4>1. moneyOf[p] = "home"
                BY <3>1, <3>3, MoneyCases
            <4>2. moneyOf' = [moneyOf EXCEPT ![p] = "inflight"]
                BY <1>0, <3>1, <3>3, <3>5 DEF moneyOf, TypeOK
            <4> QED
                BY <3>2, <4>1, <4>2 DEF Ideal!Next, Ideal!Launch
        <3> QED
            BY <2>5, <3>4, <3>5 DEF LnSendpay
    <2>6. CASE LnWait(p)
        BY <2>6 DEF LnWait, lnVars, moneyOf, reportOf
    <2>7. CASE LnComplete(p)
        BY <1>0, <2>7 DEF LnComplete, pluginVars, moneyOf, reportOf, TypeOK
    <2>8. CASE LnFail(p)
        <3>1. /\ pay[p] = "pending" /\ pay' = [pay EXCEPT ![p] = "failed"]
              /\ UNCHANGED <<stage, htlc>>
              /\ ~ \E o \in Offer : htlc[p][o] = "settled"
            BY <2>8 DEF LnFail, pluginVars
        <3>2. moneyOf[p] = "inflight" /\ reportOf' = reportOf
            BY <3>1, MoneyCases DEF reportOf
        <3>3. moneyOf' = [moneyOf EXCEPT ![p] = "returned"]
            BY <1>0, <3>1 DEF moneyOf, TypeOK
        <3> QED
            BY <3>2, <3>3 DEF Ideal!Next, Ideal!Arrive
    <2>9. ASSUME NEW o \in Offer, LnFulfil(p, o)
          PROVE  Ideal!Next \/ UNCHANGED <<moneyOf, reportOf>>
        <3>1. /\ htlc[p][o] = "resolving"
              /\ htlc' = [htlc EXCEPT ![p][o] = "settled"]
              /\ UNCHANGED <<stage, pay>>
            BY <2>9 DEF LnFulfil, pluginVars
        <3>2. ~ \E q \in Offer : htlc[p][q] = "settled"
            BY <2>0, <3>1 DEF PartInv, PaidInv
        <3>3. pay[p] = "pending"
            BY <1>0, <2>0, <3>1, <3>2 DEF PartInv, NetworkInv, TypeOK
        <3>4. moneyOf[p] = "inflight" /\ reportOf' = reportOf
            BY <3>1, <3>2, <3>3, MoneyCases DEF reportOf
        <3>5. htlc'[p][o] = "settled"
            BY <1>0, <3>1 DEF TypeOK
        <3>6. moneyOf' = [moneyOf EXCEPT ![p] = "moved"]
            BY <1>0, <3>1, <3>5 DEF moneyOf, TypeOK
        <3> QED
            BY <3>4, <3>6 DEF Ideal!Next, Ideal!Arrive
    <2>10. ASSUME NEW o \in Offer,
                  HtlcAccepted(p, o) \/ \E k \in Kind : LnOffer(p, o, k)
           PROVE  UNCHANGED <<moneyOf, reportOf>>
        <3>1. htlc[p][o] # "settled" /\ UNCHANGED <<stage, pay>>
            BY <2>10 DEF HtlcAccepted, LnOffer, pluginVars
        <3>2. \A q \in Part, r \in Offer :
                htlc'[q][r] = "settled" <=> htlc[q][r] = "settled"
            <4>1. PICK st \in {"resolving", "refused", "offered"} :
                    htlc' = [htlc EXCEPT ![p][o] = st]
                BY <2>10 DEF HtlcAccepted, LnOffer
            <4>2. \A q \in Part, r \in Offer :
                    htlc'[q][r] = IF q = p /\ r = o THEN st ELSE htlc[q][r]
                BY <1>0, <4>1, NestedExcept DEF TypeOK
            <4> QED
                BY <3>1, <4>2
        <3> QED
            BY <3>1, <3>2 DEF moneyOf, reportOf
    <2> QED
        BY <1>6, <2>1, <2>2, <2>3, <2>4, <2>5, <2>6, <2>7, <2>8, <2>9, <2>10
           DEF PartStep
<1> QED
    BY <1>1, <1>2, <1>3, <1>4, <1>5, <1>6 DEF Next

\* Parts implements IdealParts: a part's money leaves once, ends on one side,
\* and is reported once, after it has ended and as it has ended.
THEOREM Refinement ==
    ASSUME ~LossyRpc
    PROVE  Spec => ImplementsIdeal
<1>1. Init => Ideal!Init
    BY InitIdeal
<1>2. IInv /\ [Next]_vars => [Ideal!Next]_<<moneyOf, reportOf>>
    BY StepIdeal
<1> QED
    BY <1>1, <1>2, Inductive, PTL DEF Spec, ImplementsIdeal, Ideal!Spec

=============================================================================
