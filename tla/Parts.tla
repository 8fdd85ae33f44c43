------------------------------- MODULE Parts -------------------------------
(***************************************************************************)
(* The life of the self-payment parts of the plugin: exec.rs (execute,     *)
(* background_watch, drop_claim, notify_part) and the claim table of       *)
(* main.rs (Claim, try_claim, htlc_accepted).                              *)
(*                                                                         *)
(* A part is one payment to ourselves with a hash of its own.  The process *)
(* that holds the request gate runs `execute`: it registers a claim and    *)
(* calls sendpay for each part, waits for the parts for a bounded time,    *)
(* and leaves what is still in flight to detached watchers.  Meanwhile     *)
(* lightningd moves the HTLCs and calls the htlc_accepted hook when one    *)
(* arrives, at any moment relative to the tasks above.                     *)
(*                                                                         *)
(* lightningd and the peers are not in this repository: their actions are  *)
(* modelled from how the plugin uses them.                                 *)
(***************************************************************************)
EXTENDS Naturals, FiniteSets

CONSTANTS
    Part,         \* the parts of all requests and rounds (a part = its hash)
    Offer,        \* the HTLCs that may arrive at us with one part's hash
    MaxAge,       \* CLAIM_MAX_AGE_SECS
    MaxTime,      \* bound on the clock
    MaxRestarts,  \* bound on the number of plugin or node restarts
    ConnectFails, \* TRUE: opening a new RPC connection may fail
    LossyRpc      \* TRUE: an RPC call may end in a transport error, which
                  \* cln_rpc returns as an error without a code

ASSUME PartsAssumption ==
    /\ MaxAge \in Nat
    /\ MaxTime \in Nat
    /\ MaxRestarts \in Nat
    /\ ConnectFails \in BOOLEAN
    /\ LossyRpc \in BOOLEAN

VARIABLES
    \* the plugin
    claims,    \* State.claims: the hashes with an entry
    created,   \* Claim.created of the entries
    exec,      \* where `execute` is
    batch,     \* the parts of the plan being executed
    stage,     \* Part.status and the task that holds the part
    reply,     \* the RPC answer the executor has not acted on yet
    events,    \* how many xrebalance_part events the part has had
    booked,    \* how ExecOutcome reported the part to the request loop
    now,       \* now_secs()
    restarts,
    \* lightningd and the peers (external)
    pay,       \* lightningd's record of the part's sendpay
    htlc,      \* the HTLCs that arrive at us with the part's hash
    kind       \* what such an HTLC offers

pluginVars == <<claims, created, exec, batch, stage, reply, events, booked>>
lnVars == <<pay, htlc, kind>>
vars == <<claims, created, exec, batch, stage, reply, events, booked, now,
          restarts, pay, htlc, kind>>

(***************************************************************************)
(* Stages of a part.  Part.status is "pending" from "sending" to "lost".   *)
(***************************************************************************)
Stage == {"unused",    \* not planned yet
          "queued",    \* a route of the plan, its turn has not come
          "sending",   \* claim registered, sendpay called
          "pending",   \* sendpay returned, `execute` holds the part
          "watched",   \* background_watch holds the part
          "lost",      \* nobody holds the part any more
          "complete", "failed"}
Terminal == {"complete", "failed"}
InFlightStage == {"sending", "pending", "watched", "lost"}

Reply == {"none", "ok", "error", "complete", "failed", "timeout",
          "unreachable"}
Booked == {"none", "delivered", "pending", "nothing"}

\* What an arriving HTLC with a part's hash offers: the secret and at least
\* the part's amount, the secret but less than the amount, or another secret.
Kind == {"whole", "short", "stranger"}
Htlc == {"none", "offered", "resolving", "refused", "settled"}
Live == {"offered", "resolving", "settled"}
Paying == {"resolving", "settled"}

TypeOK ==
    /\ claims \in SUBSET Part
    /\ created \in [Part -> Nat]
    /\ exec \in {"idle", "send", "wait", "collect"}
    /\ batch \in SUBSET Part
    /\ stage \in [Part -> Stage]
    /\ reply \in [Part -> Reply]
    /\ events \in [Part -> Nat]
    /\ booked \in [Part -> Booked]
    /\ now \in Nat
    /\ restarts \in Nat
    /\ pay \in [Part -> {"none", "pending", "complete", "failed"}]
    /\ htlc \in [Part -> [Offer -> Htlc]]
    /\ kind \in [Part -> [Offer -> Kind]]

Init ==
    /\ claims = {}
    /\ created = [p \in Part |-> 0]
    /\ exec = "idle"
    /\ batch = {}
    /\ stage = [p \in Part |-> "unused"]
    /\ reply = [p \in Part |-> "none"]
    /\ events = [p \in Part |-> 0]
    /\ booked = [p \in Part |-> "none"]
    /\ now = 0
    /\ restarts = 0
    /\ pay = [p \in Part |-> "none"]
    /\ htlc = [p \in Part |-> [o \in Offer |-> "none"]]
    /\ kind = [p \in Part |-> [o \in Offer |-> "stranger"]]

-----------------------------------------------------------------------------
(* The claim table.                                                        *)

\* Mutant: the age bound is off by one.
PruneAtMaxAge == {p \in claims : created[p] + MaxAge > now}

\* `execute` prunes the entries older than the maximum age; the subtraction
\* saturates, so nothing is old before the clock has reached it.
Prune == {p \in claims : created[p] + MaxAge >= now}

\* ClaimVerdict of an arriving HTLC: hash AND secret AND amount.
TryClaim(p, k) ==
    IF p \notin claims \/ k = "stranger" THEN "Pass"
    ELSE IF k = "short" THEN "Underpaid"
    ELSE "Resolve"

\* Mutants: the entry survives its use; a short HTLC consumes it too.
ClaimsAfterKept(p, verdict) == claims
ClaimsAfterAnyMatch(p, verdict) ==
    IF verdict = "Pass" THEN claims ELSE claims \ {p}

\* The claim table after a verdict: only a settled claim is consumed.
ClaimsAfter(p, verdict) ==
    IF verdict = "Resolve" THEN claims \ {p} ELSE claims

\* Mutant: a failed part keeps its claim.
FinishKeepingClaim(p, status) ==
    /\ stage' = [stage EXCEPT ![p] = status]
    /\ events' = [events EXCEPT ![p] = @ + 1]
    /\ UNCHANGED claims

\* A part reaches a terminal status: a failed one drops its claim, and either
\* is notified.  (A complete one has lost its claim to the hook.)
Finish(p, status) ==
    /\ stage' = [stage EXCEPT ![p] = status]
    /\ claims' = IF status = "failed" THEN claims \ {p} ELSE claims
    /\ events' = [events EXCEPT ![p] = @ + 1]

-----------------------------------------------------------------------------
(* execute: the holder of the request gate, so there is one at a time.     *)

\* The plan has routes: stale claims are pruned, then the connection opened.
ExecuteStart(b) ==
    /\ exec = "idle"
    /\ b # {} /\ \A p \in b : stage[p] = "unused"
    /\ claims' = Prune
    /\ exec' = "send"
    /\ batch' = b
    /\ stage' = [p \in Part |-> IF p \in b THEN "queued" ELSE stage[p]]
    /\ UNCHANGED <<created, reply, events, booked, now, restarts, lnVars>>

\* ... or the connection fails and `execute` returns an error.
ExecuteNoConnection ==
    /\ exec = "idle" /\ ConnectFails
    /\ \E p \in Part : stage[p] = "unused"
    /\ claims' = Prune
    /\ UNCHANGED <<created, exec, batch, stage, reply, events, booked, now,
                   restarts, lnVars>>

\* The claim is in the table before sendpay is called.  (The `?` returns of
\* exec.rs:817-823, ahead of it, need a route or hop without a field: module
\* Reports shows that a plan has none.)
Register(p) ==
    /\ exec = "send" /\ stage[p] = "queued"
    /\ \A q \in batch : stage[q] # "sending"
    /\ claims' = claims \union {p}
    /\ created' = [created EXCEPT ![p] = now]
    /\ stage' = [stage EXCEPT ![p] = "sending"]
    /\ UNCHANGED <<exec, batch, reply, events, booked, now, restarts, lnVars>>

\* The answer of sendpay: an error fails the part at once.
SendpayReturn(p) ==
    /\ stage[p] = "sending" /\ reply[p] # "none"
    /\ reply' = [reply EXCEPT ![p] = "none"]
    /\ \/ /\ reply[p] = "ok"
          /\ stage' = [stage EXCEPT ![p] = "pending"]
          /\ UNCHANGED <<claims, events>>
       \/ /\ reply[p] = "error"
          /\ Finish(p, "failed")
    /\ UNCHANGED <<created, exec, batch, booked, now, restarts, lnVars>>

\* Every part is sent.  With part_wait = 0 the snapshot window is skipped.
SnapshotWindow(wait) ==
    /\ exec = "send"
    /\ \A p \in batch : stage[p] \notin {"queued", "sending"}
    /\ exec' = IF wait THEN "wait" ELSE "collect"
    /\ UNCHANGED <<claims, created, batch, stage, reply, events, booked, now,
                   restarts, lnVars>>

\* Mutant: join_all over every part of the plan, the failed ones included.
JoinWaitsOfAll ==
    /\ exec = "wait"
    /\ \A p \in batch : reply[p] # "none"
    /\ exec' = "collect"
    /\ UNCHANGED <<claims, created, batch, stage, reply, events, booked, now,
                   restarts, lnVars>>

\* join_all: no outcome is looked at before every wait has ended.
JoinWaits ==
    /\ exec = "wait"
    /\ \A p \in batch : stage[p] = "pending" => reply[p] # "none"
    /\ exec' = "collect"
    /\ UNCHANGED <<claims, created, batch, stage, reply, events, booked, now,
                   restarts, lnVars>>

\* Mutant: a part that timed out is taken for a failed one.
CollectTimeoutFails(p) ==
    /\ exec = "collect" /\ p \in batch
    /\ stage[p] = "pending" /\ reply[p] # "none"
    /\ reply' = [reply EXCEPT ![p] = "none"]
    /\ Finish(p, IF reply[p] = "complete" THEN "complete" ELSE "failed")
    /\ UNCHANGED <<created, exec, batch, booked, now, restarts, lnVars>>

\* One outcome of the snapshot window.
Collect(p) ==
    /\ exec = "collect" /\ p \in batch
    /\ stage[p] = "pending" /\ reply[p] # "none"
    /\ reply' = [reply EXCEPT ![p] = "none"]
    /\ \/ reply[p] \in Terminal /\ Finish(p, reply[p])
       \/ reply[p] \notin Terminal /\ UNCHANGED <<stage, claims, events>>
    /\ UNCHANGED <<created, exec, batch, booked, now, restarts, lnVars>>

\* Mutants: only completed parts are counted; the raw status is handed on.
BookedOnlyComplete(s) == IF s = "complete" THEN "delivered" ELSE "nothing"
BookedRaw(s) == s

\* How ExecOutcome counts a part: delivered_msat, pending_msat or neither.
BookedAs(s) ==
    CASE s = "complete" -> "delivered"
      [] s = "failed"   -> "nothing"
      [] OTHER          -> "pending"

\* Mutants: every part of the batch is watched, whatever its status; nobody
\* watches the parts that are still pending.
ExecuteReturnWatchesAll ==
    /\ exec = "collect"
    /\ \A p \in batch : reply[p] = "none"
    /\ exec' = "idle"
    /\ batch' = {}
    /\ stage' = [p \in Part |-> IF p \in batch THEN "watched" ELSE stage[p]]
    /\ booked' = [p \in Part |-> IF p \in batch THEN BookedAs(stage[p])
                                 ELSE booked[p]]
    /\ UNCHANGED <<claims, created, reply, events, now, restarts, lnVars>>
ExecuteReturnUnwatched ==
    /\ exec = "collect"
    /\ \A p \in batch : reply[p] = "none"
    /\ exec' = "idle"
    /\ batch' = {}
    /\ booked' = [p \in Part |-> IF p \in batch THEN BookedAs(stage[p])
                                 ELSE booked[p]]
    /\ UNCHANGED <<claims, created, stage, reply, events, now, restarts, lnVars>>

\* Every part still pending is handed to a watcher; `execute` returns.
ExecuteReturn ==
    /\ exec = "collect"
    /\ \A p \in batch : reply[p] = "none"
    /\ exec' = "idle"
    /\ batch' = {}
    /\ stage' = [p \in Part |-> IF p \in batch /\ stage[p] = "pending"
                                THEN "watched" ELSE stage[p]]
    /\ booked' = [p \in Part |-> IF p \in batch THEN BookedAs(stage[p])
                                 ELSE booked[p]]
    /\ UNCHANGED <<claims, created, reply, events, now, restarts, lnVars>>

\* background_watch: waitsendpay without a timeout has answered.  Its answer
\* does not change, so answer and reaction are one step.
WatchReturn(p) ==
    /\ stage[p] = "watched"
    /\ \E status \in Terminal :
        /\ pay[p] = status \/ (LossyRpc /\ status = "failed")
        /\ Finish(p, status)
    /\ UNCHANGED <<created, exec, batch, reply, booked, now, restarts, lnVars>>

\* background_watch cannot connect: it logs a lost watcher and returns.
WatchLost(p) ==
    /\ stage[p] = "watched" /\ ConnectFails
    /\ stage' = [stage EXCEPT ![p] = "lost"]
    /\ UNCHANGED <<claims, created, exec, batch, reply, events, booked, now,
                   restarts, lnVars>>

-----------------------------------------------------------------------------
(* htlc_accepted.                                                          *)

HtlcAccepted(p, o) ==
    /\ htlc[p][o] = "offered"
    /\ LET verdict == TryClaim(p, kind[p][o]) IN
        /\ claims' = ClaimsAfter(p, verdict)
        /\ IF verdict = "Resolve"
           THEN /\ htlc' = [htlc EXCEPT ![p][o] = "resolving"]
                /\ UNCHANGED kind
           ELSE /\ htlc' = [htlc EXCEPT ![p][o] = "refused"]
                /\ kind' = [kind EXCEPT ![p][o] = "stranger"]  \* forgotten
    /\ UNCHANGED <<created, exec, batch, stage, reply, events, booked, now,
                   restarts, pay>>

-----------------------------------------------------------------------------
(* lightningd, the channel peers and the clock (external).                 *)

\* sendpay is accepted and the HTLC leaves, or it is refused.
LnSendpay(p) ==
    /\ stage[p] = "sending" /\ reply[p] = "none" /\ pay[p] = "none"
    /\ \/ /\ pay' = [pay EXCEPT ![p] = "pending"]
          /\ \/ reply' = [reply EXCEPT ![p] = "ok"]
             \/ LossyRpc /\ reply' = [reply EXCEPT ![p] = "error"]
       \/ /\ reply' = [reply EXCEPT ![p] = "error"]
          /\ pay' = pay
    /\ UNCHANGED <<claims, created, exec, batch, stage, events, booked, now,
                   restarts, htlc, kind>>

\* waitsendpay answers inside the snapshot window: with the part's terminal
\* state, or with a time-out while it has none; or no connection was made.
LnWait(p) ==
    /\ exec = "wait" /\ p \in batch
    /\ stage[p] = "pending" /\ reply[p] = "none"
    /\ \E r \in {"complete", "failed", "timeout", "unreachable"} :
        /\ \/ r = pay[p]
           \/ r = "timeout" /\ pay[p] = "pending"
           \/ r = "unreachable" /\ ConnectFails
           \/ r = "failed" /\ LossyRpc
        /\ reply' = [reply EXCEPT ![p] = r]
    /\ UNCHANGED <<claims, created, exec, batch, stage, events, booked, now,
                   restarts, lnVars>>

\* The last peer of the route offers us an HTLC with the part's hash: one at
\* a time while the payment is in flight, another one after we refused it (the
\* peer retries), or one more after the preimage is known (a replay).
LnOffer(p, o, k) ==
    /\ pay[p] \in {"pending", "complete"}
    /\ htlc[p][o] = "none"
    /\ \A q \in Offer : htlc[p][q] \in {"none", "refused", "settled"}
    /\ htlc' = [htlc EXCEPT ![p][o] = "offered"]
    /\ kind' = [kind EXCEPT ![p][o] = k]
    /\ UNCHANGED <<pluginVars, now, restarts, pay>>

\* lightningd acts on the hook's resolve: the HTLC is settled.
LnFulfil(p, o) ==
    /\ htlc[p][o] = "resolving"
    /\ htlc' = [htlc EXCEPT ![p][o] = "settled"]
    /\ UNCHANGED <<pluginVars, now, restarts, pay, kind>>

\* The preimage has travelled back along the route.
LnComplete(p) ==
    /\ pay[p] = "pending"
    /\ \E o \in Offer : htlc[p][o] = "settled"
    /\ pay' = [pay EXCEPT ![p] = "complete"]
    /\ UNCHANGED <<pluginVars, now, restarts, htlc, kind>>

\* The payment has failed along the route, or at us when an HTLC was refused
\* (no invoice exists); every HTLC of the route has unwound.
LnFail(p) ==
    /\ pay[p] = "pending"
    /\ \A o \in Offer : htlc[p][o] \in {"none", "refused"}
    /\ pay' = [pay EXCEPT ![p] = "failed"]
    /\ UNCHANGED <<pluginVars, now, restarts, htlc, kind>>

\* The plugin (or lightningd and with it the plugin) restarts: the claim table
\* and every task are gone; lightningd's payments and HTLCs are not.  A resolve
\* lightningd had not committed is lost with it, and the hook called again.
Restart(resolveLost) ==
    /\ restarts < MaxRestarts
    /\ restarts' = restarts + 1
    /\ claims' = {}
    /\ exec' = "idle"
    /\ batch' = {}
    /\ reply' = [p \in Part |-> "none"]
    /\ stage' = [p \in Part |-> IF stage[p] = "queued" THEN "unused"
                                ELSE IF stage[p] \in InFlightStage THEN "lost"
                                ELSE stage[p]]
    /\ htlc' = [p \in Part |-> [o \in Offer |->
                    IF resolveLost /\ htlc[p][o] = "resolving"
                    THEN "offered" ELSE htlc[p][o]]]
    /\ UNCHANGED <<created, events, booked, now, pay, kind>>

Tick ==
    /\ now < MaxTime
    /\ now' = now + 1
    /\ UNCHANGED <<pluginVars, restarts, lnVars>>

-----------------------------------------------------------------------------
PartStep(p) ==
    \/ Register(p) \/ SendpayReturn(p) \/ Collect(p)
    \/ WatchReturn(p) \/ WatchLost(p)
    \/ LnSendpay(p) \/ LnWait(p) \/ LnComplete(p) \/ LnFail(p)
    \/ \E o \in Offer :
        \/ HtlcAccepted(p, o) \/ LnFulfil(p, o)
        \/ \E k \in Kind : LnOffer(p, o, k)

Next ==
    \/ \E b \in SUBSET Part : ExecuteStart(b)
    \/ ExecuteNoConnection
    \/ \E wait \in BOOLEAN : SnapshotWindow(wait)
    \/ JoinWaits
    \/ ExecuteReturn
    \/ \E p \in Part : PartStep(p)
    \/ \E resolveLost \in BOOLEAN : Restart(resolveLost)
    \/ Tick

Spec == Init /\ [][Next]_vars

(***************************************************************************)
(* Fairness: the async runtime polls every ready task; lightningd answers   *)
(* every RPC call and calls every hook; and an HTLC does not stay in flight *)
(* for ever, its timelock ends it.  Nothing is asked of the request that    *)
(* would start a batch, of the clock, or of peers that would offer an HTLC. *)
(***************************************************************************)
Fairness ==
    /\ WF_vars(\E wait \in BOOLEAN : SnapshotWindow(wait))
    /\ WF_vars(JoinWaits)
    /\ WF_vars(ExecuteReturn)
    /\ \A p \in Part :
        /\ WF_vars(Register(p))
        /\ WF_vars(SendpayReturn(p))
        /\ WF_vars(Collect(p))
        /\ WF_vars(WatchReturn(p))
        /\ WF_vars(LnSendpay(p))
        /\ WF_vars(LnWait(p))
        /\ WF_vars(LnComplete(p) \/ LnFail(p))
        /\ \A o \in Offer : /\ WF_vars(HtlcAccepted(p, o))
                            /\ WF_vars(LnFulfil(p, o))

FairSpec == Spec /\ Fairness

-----------------------------------------------------------------------------
(* Refinement.                                                             *)

\* Where the money of a part is.
moneyOf == [p \in Part |->
    IF \E o \in Offer : htlc[p][o] = "settled" THEN "moved"
    ELSE IF pay[p] = "none" THEN "home"
    ELSE IF pay[p] = "failed" THEN "returned"
    ELSE "inflight"]

\* What the xrebalance_part event of a part has said.
reportOf == [p \in Part |-> IF stage[p] \in Terminal THEN stage[p]
                            ELSE "none"]

Ideal == INSTANCE IdealParts WITH money <- moneyOf, report <- reportOf

\* The claim table, the hook, the snapshot, the watchers and the restarts
\* together keep the promise of IdealParts (while no RPC call breaks).
ImplementsIdeal == Ideal!Spec

-----------------------------------------------------------------------------
(* Properties.                                                             *)

\* One part's preimage is given for one HTLC at most, and only for one that
\* offers the whole part: neither a short HTLC, a replay after settlement, nor
\* a hook call repeated after a restart is paid (try_claim, main.rs:938).
SettledOnceAndWhole ==
    \A p \in Part : \A o, q \in Offer :
        htlc[p][o] \in Paying =>
            /\ kind[p][o] = "whole"
            /\ (q # o => htlc[p][q] \notin Paying)

\* What the plugin says of a part is what happened to its money: a part
\* reported failed was never paid and cannot be paid any more, and one
\* reported complete has been paid -- whichever of the hook, the snapshot and
\* the watcher came first.  An RPC that breaks voids the first half.
ReportsAreTrue ==
    \A p \in Part :
        /\ stage[p] = "complete" => pay[p] = "complete"
        /\ (stage[p] = "failed" /\ ~LossyRpc) =>
                /\ pay[p] \in {"none", "failed"}
                /\ \A o \in Offer : htlc[p][o] \notin Live

\* The request loop spends a part's amount again only if `execute` booked it as
\* neither delivered nor pending: such a part never moves money, then or later.
NothingBookedNeverPaid ==
    \A p \in Part :
        (booked[p] = "nothing" /\ ~LossyRpc) =>
            \A o \in Offer : htlc[p][o] \notin Paying

\* While a part is in flight and not yet paid its claim is in the table, so an
\* HTLC that arrives whole is settled and not bounced -- from before sendpay's
\* answer to after the snapshot window.  Excepted are a restart (the stage is
\* then "lost"), and an entry older than the 24 hours of the prune.
ClaimWhileInFlight ==
    \A p \in Part :
        (/\ pay[p] = "pending"
         /\ stage[p] \in {"sending", "pending", "watched"}
         /\ created[p] + MaxAge >= now
         /\ \A o \in Offer : htlc[p][o] \notin Paying)
        => p \in claims

\* Claims do not pile up: a part without a task to follow it has no entry, but
\* for lost parts, which are the prune's business ("the 24h prune ... is the
\* backstop for parts whose watcher was lost", main.rs:184).
NoStrayClaim ==
    \A p \in claims : stage[p] \in InFlightStage

\* A part has its xrebalance_part event exactly when its status is terminal,
\* and never a second one, although the snapshot and a watcher both emit it.
OneEventEach ==
    \A p \in Part : events[p] = IF stage[p] \in Terminal THEN 1 ELSE 0

\* A terminal status is final, and so is what the request was told: no later
\* step revises a part that was reported (execute, background_watch).
ReportsAreFinal ==
    [][\A p \in Part :
        /\ stage[p] \in Terminal => stage'[p] = stage[p]
        /\ booked[p] # "none" => booked'[p] = booked[p]]_vars

\* An entry leaves the claim table only when an HTLC is settled with it, when
\* its payment cannot arrive any more, by age, or with the process ("Drop a
\* part's claim once it can no longer arrive", exec.rs:92).
ClaimsLeaveForAReason ==
    [][\A p \in claims \ claims' :
        \/ \E o \in Offer : htlc'[p][o] = "resolving"
        \/ pay[p] \in {"none", "failed"}
        \/ created[p] + MaxAge < now
        \/ restarts' # restarts]_vars

\* Every part that was sent gets its event, whether it resolves inside the
\* snapshot window or long after (exec.rs:18-22).
EventAlwaysEmitted ==
    \A p \in Part : (pay[p] # "none") ~> (events[p] = 1)

\* The gate is given back: an `execute` that started returns, whatever the
\* parts do, since the snapshot window is bounded (execute, exec.rs:914).
ExecuteReturns == (exec # "idle") ~> (exec = "idle")

=============================================================================
