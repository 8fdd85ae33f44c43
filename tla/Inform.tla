------------------------------- MODULE Inform -------------------------------
(***************************************************************************)
(* Liquidity facts on their way into askrene: the coalescer (coalesce.rs), *)
(* the one function that uses it (exec.rs, inform), the aging call of the  *)
(* planner (plan.rs) and the dynamic aging option (main.rs, setconfig).    *)
(*                                                                         *)
(* Each part that ends reports bounds on the channels it crossed.  inform  *)
(* asks the coalescer under its lock, releases the lock, awaits            *)
(* askrene-inform-channel, and takes the lock again to record the bound    *)
(* only if askrene accepted it.  Watchers and the request loop run inform  *)
(* at the same time, so everything may happen between the two locks.       *)
(***************************************************************************)
EXTENDS Naturals

CONSTANTS
    Key,         \* the cache keys: a channel direction and a kind of bound
    Lower,       \* the keys whose bounds are lower bounds (unconstrained)
    Bound,       \* the amounts that parts report
    Task,        \* the tasks that may be inside inform
    Agings,      \* the values xrebalance-constraint-age is given
    Divisor,     \* WINDOW_DIVISOR
    KeepBuckets, \* KEEP_BUCKETS
    SweepEvery,  \* emits between two sweeps of the cache
    Slack,       \* the longest bucket the agings give
    Start,       \* the clock when the plugin starts
    MaxTime,     \* bound on the clock
    MaxRestarts  \* bound on the plugin restarts

\* The length of a bucket.
WidthOf(aging) == IF aging \div Divisor = 0 THEN 1 ELSE aging \div Divisor

ASSUME InformAssumption ==
    /\ Lower \subseteq Key
    /\ Bound \subseteq Nat
    /\ Agings \subseteq Nat
    /\ Divisor \in Nat \ {0}
    /\ KeepBuckets \in Nat
    /\ SweepEvery \in Nat \ {0}
    /\ Slack \in Nat \ {0}
    /\ \A aging \in Agings : aging < (Slack + 1) * Divisor
    /\ Start \in Nat
    /\ Slack <= Start
    /\ MaxTime \in Nat
    /\ Start <= MaxTime
    /\ MaxRestarts \in Nat

(***************************************************************************)
(* A bucket number says nothing of the width it was computed with.  Within *)
(* the time the cache is used, buckets of two widths have no number in     *)
(* common: true of the program while it runs for less time than it takes   *)
(* the quotients of the Unix time by the two widths to meet (with the      *)
(* default aging of six hours, an aging longer by twelve seconds, the      *)
(* least that changes the width, reaches an old number after eleven days). *)
(***************************************************************************)
ASSUME NoSharedBucket ==
    \A a, b \in Agings, s, t \in Start .. MaxTime :
        s \div WidthOf(a) = t \div WidthOf(b) => WidthOf(a) = WidthOf(b)

VARIABLES
    now,       \* now_secs()
    age,       \* State.constraint_age
    width,     \* Coalescer.bucket_secs
    cache,     \* Coalescer.cache
    emits,     \* Coalescer.emits, modulo SweepEvery
    task,      \* where each task is in inform
    restarts,
    layer,     \* the persistent layer: when askrene last accepted each
               \* bound and still holds it, 0 if it does not (external)
    aged,      \* history: the highest cutoff askrene has applied
    seen       \* history: when each bound was last observed and either
               \* accepted by askrene or suppressed

cacheVars == <<width, cache, emits>>
layerVars == <<layer, aged>>
vars == <<now, age, width, cache, emits, task, restarts, layer, aged,
          seen>>

Time == Start .. MaxTime
Obs == [bucket : Nat, bound : Nat]
NoObs == [bucket |-> 0, bound |-> 0]  \* no entry; no bucket in use is 0

\* "sent": between the two locks, askrene has not acted on the write;
\* "accepted": it has, and record has not run.
Idle == [at |-> "idle"]
InInform == [at : {"sent", "accepted"}, key : Key, bound : Bound, bucket : Nat]

TypeOK ==
    /\ now \in Time
    /\ age \in Agings
    /\ width \in {WidthOf(aging) : aging \in Agings}
    /\ cache \in [Key -> Obs]
    /\ emits \in 0 .. (SweepEvery - 1)
    /\ task \in [Task -> InInform \cup {Idle}]
    /\ restarts \in 0 .. MaxRestarts
    /\ layer \in [Key -> [Bound -> Nat]]
    /\ aged \in Nat
    /\ seen \in [Key -> [Bound -> Nat]]

Init ==
    /\ now = Start
    /\ age \in Agings
    /\ width = WidthOf(age)
    /\ cache = [k \in Key |-> NoObs]
    /\ emits = 0
    /\ task = [t \in Task |-> Idle]
    /\ restarts = 0
    /\ layer = [k \in Key |-> [b \in Bound |-> 0]]
    /\ aged = 0
    /\ seen = [k \in Key |-> [b \in Bound |-> 0]]

-----------------------------------------------------------------------------
(* The coalescer.                                                          *)

\* Does bound a say more than bound b?
Tighter(k, a, b) == IF k \in Lower THEN a > b ELSE a < b

Bucket == now \div width

\* Mutant: no keep-alive, only a tightening is worth a write.
ShouldEmitTighterOnly(k, a) ==
    cache[k] = NoObs \/ Tighter(k, a, cache[k].bound)

ShouldEmit(k, a) ==
    \/ cache[k] = NoObs
    \/ cache[k].bucket # Bucket
    \/ Tighter(k, a, cache[k].bound)

\* The sweep: the entries of recent buckets stay.
Swept ==
    [k \in Key |-> IF cache[k].bucket + KeepBuckets >= Bucket
                   THEN cache[k] ELSE NoObs]

-----------------------------------------------------------------------------
(* inform.                                                                 *)

\* check says no: the bound is taken to be known already.
Suppress(k, a) ==
    /\ ~ShouldEmit(k, a)
    /\ seen' = [seen EXCEPT ![k][a] = now]
    /\ UNCHANGED <<now, age, cacheVars, task, restarts, layerVars>>

\* Mutant: check records the bound at once.
EmitAndRecord(t, k, a) ==
    /\ task[t] = Idle
    /\ ShouldEmit(k, a)
    /\ emits' = (emits + 1) % SweepEvery
    /\ cache' = [cache EXCEPT ![k] = [bucket |-> Bucket, bound |-> a]]
    /\ task' = [task EXCEPT ![t] =
                  [at |-> "sent", key |-> k, bound |-> a, bucket |-> Bucket]]
    /\ UNCHANGED <<now, age, width, restarts, layerVars, seen>>

\* check says yes, with a sweep when its turn comes, and the write goes out.
Emit(t, k, a) ==
    /\ task[t] = Idle
    /\ ShouldEmit(k, a)
    /\ emits' = (emits + 1) % SweepEvery
    /\ cache' = IF emits' = 0 THEN Swept ELSE cache
    /\ task' = [task EXCEPT ![t] =
                  [at |-> "sent", key |-> k, bound |-> a, bucket |-> Bucket]]
    /\ UNCHANGED <<now, age, width, restarts, layerVars, seen>>

\* askrene takes the bound into the layer, stamped with its own clock
\* (external; the two processes read the same clock).
Accept(t) ==
    LET f == task[t] IN
    /\ f.at = "sent"
    /\ task' = [task EXCEPT ![t].at = "accepted"]
    /\ layer' = [layer EXCEPT ![f.key][f.bound] = now]
    /\ seen' = [seen EXCEPT ![f.key][f.bound] = now]
    /\ UNCHANGED <<now, age, cacheVars, restarts, aged>>

\* The answer is back: record, whatever the cache holds by now.
Record(t) ==
    LET f == task[t] IN
    /\ f.at = "accepted"
    /\ cache' = [cache EXCEPT ![f.key] =
                   [bucket |-> f.bucket, bound |-> f.bound]]
    /\ task' = [task EXCEPT ![t] = Idle]
    /\ UNCHANGED <<now, age, width, emits, restarts, layerVars, seen>>

\* An error: askrene refused the write, or took it and the answer was lost.
InformFails(t) ==
    /\ task[t] # Idle
    /\ task' = [task EXCEPT ![t] = Idle]
    /\ UNCHANGED <<now, age, cacheVars, restarts, layerVars, seen>>

-----------------------------------------------------------------------------
(* Aging, its option, and the process.                                     *)

Minus(m, n) == IF m > n THEN m - n ELSE 0  \* saturating_sub

\* plan computes a cutoff and calls askrene-age, which drops the constraints
\* older than it (external).  One step: whatever askrene accepts while the
\* call is on its way is younger than the cutoff.
Age ==
    LET cutoff == Minus(now, age) IN
    /\ layer' = [k \in Key |-> [b \in Bound |->
                   IF layer[k][b] < cutoff THEN 0 ELSE layer[k][b]]]
    /\ aged' = IF aged < cutoff THEN cutoff ELSE aged
    /\ UNCHANGED <<now, age, cacheVars, task, restarts, seen>>

\* Mutant: the bucket is as long as the aging window.
SetAgingUndivided(aging) ==
    /\ age' = aging
    /\ width' = aging
    /\ UNCHANGED <<now, cache, emits, task, restarts, layerVars, seen>>

\* setconfig: the aging for the planner, the bucket length for the coalescer.
\* The cache stays.
SetAging(aging) ==
    /\ age' = aging
    /\ width' = WidthOf(aging)
    /\ UNCHANGED <<now, cache, emits, task, restarts, layerVars, seen>>

\* The plugin starts again with an empty cache; the layer is persistent.
Restart ==
    /\ restarts < MaxRestarts
    /\ restarts' = restarts + 1
    /\ age' \in Agings
    /\ width' = WidthOf(age')
    /\ cache' = [k \in Key |-> NoObs]
    /\ emits' = 0
    /\ task' = [t \in Task |-> Idle]
    /\ UNCHANGED <<now, layerVars, seen>>

Tick ==
    /\ now < MaxTime
    /\ now' = now + 1
    /\ UNCHANGED <<age, cacheVars, task, restarts, layerVars, seen>>

InformStep ==
    \E t \in Task :
        \/ \E k \in Key, a \in Bound : Emit(t, k, a)
        \/ Accept(t)
        \/ Record(t)
        \/ InformFails(t)

Next ==
    \/ \E k \in Key, a \in Bound : Suppress(k, a)
    \/ InformStep
    \/ Age
    \/ \E aging \in Agings : SetAging(aging)
    \/ Restart
    \/ Tick

Spec == Init /\ [][Next]_vars

-----------------------------------------------------------------------------
(* What the module promises.                                               *)

(***************************************************************************)
(* Dropping a dominated write is lossless and the once-per-bucket write    *)
(* keeps a constraint alive (coalesce.rs:1-15).  Whatever the races, lost  *)
(* answers, restarts and changes of the aging: an observation the plugin   *)
(* has dealt with is in the layer, as a bound at least as tight that is    *)
(* younger than the observation or older by less than one bucket, unless   *)
(* aging has come within one bucket of the observation itself.             *)
(***************************************************************************)
ObservationsAreKept ==
    \A k \in Key, a \in Bound :
        seen[k][a] # 0 /\ seen[k][a] >= aged + Slack =>
            \E b \in Bound : /\ ~Tighter(k, a, b)
                             /\ layer[k][b] # 0
                             /\ layer[k][b] + Slack > seen[k][a]

=============================================================================
