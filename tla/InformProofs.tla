---------------------------- MODULE InformProofs ----------------------------
(* Proofs about Inform: its type invariant, and that no observation the    *)
(* plugin has dealt with is missing from the layer.                        *)
EXTENDS Inform, TLAPS

-----------------------------------------------------------------------------
(* The inductive invariant.                                                *)

\* Bound b of key k, checked at time s, reached the layer at s or later, or
\* aging has passed s since.
InLayerSince(k, b, s) == layer[k][b] >= s \/ aged > s

\* A bucket number in use was computed at some time with some width.
ComputedAt(bucket, s) ==
    /\ s \in Start .. now
    /\ \E aging \in Agings : bucket = s \div WidthOf(aging)

CacheInv ==
    \A k \in Key : cache[k] # NoObs =>
        /\ cache[k].bound \in Bound
        /\ \E s \in Time : /\ ComputedAt(cache[k].bucket, s)
                           /\ InLayerSince(k, cache[k].bound, s)

TaskInv ==
    \A t \in Task : task[t] # Idle =>
        \E s \in Time :
            /\ ComputedAt(task[t].bucket, s)
            /\ task[t].at = "accepted"
                 => InLayerSince(task[t].key, task[t].bound, s)

\* The clock is past every observation.
HistoryInv == \A k \in Key, a \in Bound : seen[k][a] <= now

IInv ==
    /\ TypeOK
    /\ CacheInv
    /\ TaskInv
    /\ HistoryInv
    /\ ObservationsAreKept

-----------------------------------------------------------------------------
(* Time and buckets.                                                       *)

\* A bucket is at least one second long and no longer than Slack.
LEMMA WidthBounds ==
    ASSUME NEW aging \in Agings
    PROVE  WidthOf(aging) \in Nat /\ 1 <= WidthOf(aging)
             /\ WidthOf(aging) <= Slack
<1>1. /\ aging \in Nat
      /\ Divisor \in Nat \ {0}
      /\ Slack \in Nat \ {0}
      /\ aging < (Slack + 1) * Divisor
  BY InformAssumption
<1>2. /\ aging \div Divisor \in Nat
      /\ Divisor * (aging \div Divisor) <= aging
  BY <1>1
<1>3. aging \div Divisor <= Slack
  <2>1. SUFFICES ASSUME aging \div Divisor >= Slack + 1 PROVE FALSE
    BY <1>1, <1>2
  <2>2. (Slack + 1) * Divisor <= (aging \div Divisor) * Divisor
    BY <1>1, <1>2, <2>1
  <2> QED  BY <1>1, <1>2, <2>2
<1> QED  BY <1>1, <1>2, <1>3 DEF WidthOf

\* Two moments of one bucket are less than its length apart.
LEMMA SameBucket ==
    ASSUME NEW w \in Nat, 1 <= w, NEW s \in Nat, NEW t \in Nat,
           s \div w = t \div w
    PROVE  t < s + w
<1>1. w * (s \div w) <= s
  OBVIOUS
<1>2. t < w * (t \div w) + w
  OBVIOUS
<1> QED  BY <1>1, <1>2

\* A moment of the run is a natural number, and the clock's bucket is one.
LEMMA TimeIsNat ==
    ASSUME TypeOK
    PROVE  /\ Start \in Nat \ {0}
           /\ now \in Nat
           /\ Start <= now
           /\ now \in Time
           /\ Time \subseteq Nat
           /\ width \in Nat
           /\ 1 <= width
           /\ Bucket \in Nat
<1>1. Start \in Nat \ {0} /\ MaxTime \in Nat
  BY InformAssumption
<1>2. PICK aging \in Agings : width = WidthOf(aging)
  BY DEF TypeOK
<1>3. width \in Nat /\ 1 <= width
  BY <1>2, WidthBounds
<1>4. now \in Nat /\ Start <= now /\ now \in Time /\ Time \subseteq Nat
  BY <1>1 DEF TypeOK, Time
<1>5. now \div width \in Nat
  BY <1>3, <1>4
<1> QED  BY <1>1, <1>3, <1>4, <1>5 DEF Bucket

-----------------------------------------------------------------------------
(* Types.                                                                  *)

LEMMA InitTypeOK == Init => TypeOK
<1> SUFFICES ASSUME Init PROVE TypeOK
  OBVIOUS
<1> USE InformAssumption
<1>1. now \in Time
  BY DEF Init, Time
<1>2. cache \in [Key -> Obs]
  BY DEF Init, Obs, NoObs
<1>3. task \in [Task -> InInform \cup {Idle}]
  BY DEF Init
<1>4. layer \in [Key -> [Bound -> Nat]] /\ seen \in [Key -> [Bound -> Nat]]
  BY DEF Init
<1> QED  BY <1>1, <1>2, <1>3, <1>4 DEF Init, TypeOK

LEMMA StepTypeOK == TypeOK /\ [Next]_vars => TypeOK'
<1> SUFFICES ASSUME TypeOK, [Next]_vars PROVE TypeOK'
  OBVIOUS
<1> USE InformAssumption
<1>0. now \in Nat /\ now \in Time /\ Bucket \in Nat
  BY TimeIsNat
<1>1. ASSUME NEW k \in Key, NEW a \in Bound, Suppress(k, a)
      PROVE  TypeOK'
  <2>1. seen' \in [Key -> [Bound -> Nat]]
    BY <1>0, <1>1 DEF TypeOK, Suppress
  <2> QED
    BY <1>1, <2>1 DEF TypeOK, Suppress, cacheVars, layerVars
<1>2. ASSUME NEW t \in Task, NEW k \in Key, NEW a \in Bound, Emit(t, k, a)
      PROVE  TypeOK'
  <2>1. emits' \in 0 .. (SweepEvery - 1)
    BY <1>2 DEF TypeOK, Emit
  <2>2. cache' \in [Key -> Obs]
    BY <1>2 DEF TypeOK, Emit, Swept, NoObs, Obs
  <2>3. task' \in [Task -> InInform \cup {Idle}]
    BY <1>0, <1>2 DEF TypeOK, Emit, InInform
  <2> QED
    BY <1>2, <2>1, <2>2, <2>3 DEF TypeOK, Emit, layerVars
<1>3. ASSUME NEW t \in Task, Accept(t)
      PROVE  TypeOK'
  <2>1. task[t] \in InInform
    BY <1>3 DEF TypeOK, Accept, Idle
  <2>2. task' \in [Task -> InInform \cup {Idle}]
    BY <1>3, <2>1 DEF TypeOK, Accept, InInform
  <2>3. layer' \in [Key -> [Bound -> Nat]] /\ seen' \in [Key -> [Bound -> Nat]]
    BY <1>0, <1>3, <2>1 DEF TypeOK, Accept, InInform
  <2> QED
    BY <1>3, <2>2, <2>3 DEF TypeOK, Accept, cacheVars
<1>4. ASSUME NEW t \in Task, Record(t)
      PROVE  TypeOK'
  <2>1. task[t] \in InInform
    BY <1>4 DEF TypeOK, Record, Idle
  <2>2. cache' \in [Key -> Obs]
    BY <1>4, <2>1 DEF TypeOK, Record, InInform, Obs
  <2> QED
    BY <1>4, <2>2 DEF TypeOK, Record, layerVars
<1>5. ASSUME NEW t \in Task, InformFails(t)
      PROVE  TypeOK'
  BY <1>5 DEF TypeOK, InformFails, cacheVars, layerVars
<1>6. ASSUME Age
      PROVE  TypeOK'
  <2>1. age \in Nat /\ Minus(now, age) \in Nat
    BY <1>0 DEF TypeOK, Minus
  <2>2. layer' \in [Key -> [Bound -> Nat]] /\ aged' \in Nat
    BY <1>6, <2>1 DEF TypeOK, Age
  <2> QED
    BY <1>6, <2>2 DEF TypeOK, Age, cacheVars
<1>7. ASSUME NEW aging \in Agings, SetAging(aging)
      PROVE  TypeOK'
  BY <1>7 DEF TypeOK, SetAging, layerVars
<1>8. ASSUME Restart
      PROVE  TypeOK'
  <2>1. cache' \in [Key -> Obs]
    BY <1>8 DEF Restart, Obs, NoObs
  <2> QED
    BY <1>8, <2>1 DEF TypeOK, Restart, layerVars
<1>9. ASSUME Tick
      PROVE  TypeOK'
  BY <1>0, <1>9 DEF TypeOK, Tick, Time, cacheVars, layerVars
<1>10. CASE UNCHANGED vars
  BY <1>10 DEF TypeOK, vars
<1> QED
  BY <1>1, <1>2, <1>3, <1>4, <1>5, <1>6, <1>7, <1>8, <1>9, <1>10
  DEF Next, InformStep

-----------------------------------------------------------------------------
(* The inductive invariant.                                                *)

LEMMA InitIInv == Init => IInv
<1> SUFFICES ASSUME Init PROVE IInv
  OBVIOUS
<1>1. TypeOK
  BY InitTypeOK
<1>2. CacheInv /\ TaskInv
  BY DEF Init, CacheInv, TaskInv
<1>3. HistoryInv
  BY <1>1, TimeIsNat DEF Init, HistoryInv
<1>4. ObservationsAreKept
  BY DEF Init, ObservationsAreKept
<1> QED  BY <1>1, <1>2, <1>3, <1>4 DEF IInv

\* No step turns the clock back.
LEMMA ClockGoesOn ==
    ASSUME TypeOK, [Next]_vars
    PROVE  now' \in Nat /\ now <= now'
<1>1. now \in Nat
  BY TimeIsNat
<1>2. CASE Tick
  BY <1>1, <1>2 DEF Tick
<1>3. CASE now' = now
  BY <1>1, <1>3
<1>4. CASE InformStep
  BY <1>3, <1>4 DEF InformStep, Emit, Accept, Record, InformFails
<1> QED
  BY <1>2, <1>3, <1>4
  DEF Next, Suppress, Age, SetAging, Restart, vars

\* The bucket of the clock is computed now.
LEMMA ComputedNow ==
    ASSUME TypeOK
    PROVE  ComputedAt(Bucket, now)
<1>1. now \in Start .. now
  BY TimeIsNat
<1> QED  BY <1>1 DEF ComputedAt, TypeOK, Bucket

\* What askrene holds, or has aged, since some moment it goes on holding or
\* having aged.
LEMMA LayerGoesOn ==
    ASSUME TypeOK, [Next]_vars,
           NEW k \in Key, NEW b \in Bound, NEW s \in Time, s <= now,
           layer[k][b] >= s \/ aged > s
    PROVE  layer'[k][b] >= s \/ aged' > s
<1> USE DEF TypeOK
<1>1. layer[k][b] \in Nat /\ aged \in Nat
  OBVIOUS
<1>2. CASE UNCHANGED layerVars
  BY <1>2 DEF layerVars
<1>3. CASE Age
  <2>1. age \in Nat /\ Minus(now, age) \in Nat
    BY TimeIsNat, InformAssumption DEF Minus
  <2> DEFINE cutoff == Minus(now, age)
  <2>2. layer'[k][b] = IF layer[k][b] < cutoff THEN 0 ELSE layer[k][b]
    BY <1>3 DEF Age
  <2>3. aged' = IF aged < cutoff THEN cutoff ELSE aged
    BY <1>3 DEF Age
  <2>4. s \in Nat
    BY TimeIsNat
  <2> HIDE DEF cutoff
  <2> QED  BY <1>1, <2>1, <2>2, <2>3, <2>4 DEF cutoff
<1>4. ASSUME NEW t \in Task, Accept(t)
      PROVE  layer'[k][b] >= s \/ aged' > s
  <2>1. task[t] \in InInform
    BY <1>4 DEF Accept, Idle
  <2>2. layer'[k][b] = layer[k][b] \/ layer'[k][b] = now
    BY <1>4, <2>1 DEF Accept, InInform
  <2> QED  BY <1>1, <1>4, <2>2 DEF Accept
<1> QED
  BY <1>2, <1>3, <1>4
  DEF Next, InformStep, Suppress, Emit, Record, InformFails, SetAging,
      Restart, Tick, vars, layerVars

LEMMA StepCacheInv ==
    ASSUME IInv, [Next]_vars, TypeOK'
    PROVE  CacheInv'
<1> USE DEF IInv
<1>0. now \in Nat /\ now' \in Nat /\ now <= now' /\ Start \in Nat
  BY ClockGoesOn, TimeIsNat
<1>1. SUFFICES ASSUME NEW k \in Key, cache'[k] # NoObs
               PROVE  /\ cache'[k].bound \in Bound
                      /\ \E s \in Time :
                           /\ ComputedAt(cache[k].bucket, s)'
                           /\ InLayerSince(k, cache[k].bound, s)'
  BY DEF CacheInv
<1>2. ASSUME cache'[k] = cache[k]
      PROVE  /\ cache'[k].bound \in Bound
             /\ \E s \in Time :
                  /\ ComputedAt(cache[k].bucket, s)'
                  /\ InLayerSince(k, cache[k].bound, s)'
  <2>1. cache[k].bound \in Bound
    BY <1>1, <1>2 DEF CacheInv
  <2>2. PICK s \in Time : /\ ComputedAt(cache[k].bucket, s)
                          /\ InLayerSince(k, cache[k].bound, s)
    BY <1>1, <1>2 DEF CacheInv
  <2>3. s \in Nat /\ Start <= s /\ s <= now
    BY <1>0, <2>2 DEF ComputedAt, Time
  <2>4. ComputedAt(cache[k].bucket, s)'
    BY <1>0, <1>2, <2>2, <2>3 DEF ComputedAt
  <2>5. InLayerSince(k, cache[k].bound, s)'
    BY <1>2, <2>1, <2>2, <2>3, LayerGoesOn DEF InLayerSince
  <2> QED  BY <1>2, <2>1, <2>4, <2>5
<1>3. ASSUME NEW t \in Task, Record(t)
      PROVE  /\ cache'[k].bound \in Bound
             /\ \E s \in Time :
                  /\ ComputedAt(cache[k].bucket, s)'
                  /\ InLayerSince(k, cache[k].bound, s)'
  <2>1. task[t] \in InInform /\ task[t].at = "accepted"
    BY <1>3 DEF TypeOK, Record, Idle
  <2>2. CASE task[t].key # k
    <3>1. cache'[k] = cache[k]
      BY <1>3, <2>2 DEF Record, TypeOK
    <3> QED  BY <1>2, <3>1
  <2>3. CASE task[t].key = k
    <3>1. cache'[k] = [bucket |-> task[t].bucket, bound |-> task[t].bound]
      BY <1>3, <2>3 DEF Record, TypeOK
    <3>2. task[t].bound \in Bound
      BY <2>1 DEF InInform
    <3>3. PICK s \in Time : /\ ComputedAt(task[t].bucket, s)
                            /\ InLayerSince(k, task[t].bound, s)
      BY <2>1, <2>3 DEF TaskInv, Idle, InInform
    <3>4. now' = now /\ layer' = layer /\ aged' = aged
      BY <1>3 DEF Record, layerVars
    <3>5. ComputedAt(cache[k].bucket, s)'
      BY <3>1, <3>3, <3>4 DEF ComputedAt
    <3>6. InLayerSince(k, cache[k].bound, s)'
      BY <3>1, <3>3, <3>4 DEF InLayerSince
    <3> QED  BY <3>1, <3>2, <3>5, <3>6
  <2> QED  BY <2>2, <2>3
<1>4. ASSUME NEW t \in Task, NEW key \in Key, NEW a \in Bound, Emit(t, key, a)
      PROVE  cache'[k] = cache[k]
  BY <1>1, <1>4 DEF Emit, Swept, TypeOK
<1>5. CASE Restart
  BY <1>1, <1>5 DEF Restart
<1>6. CASE cache' = cache
  BY <1>2, <1>6
<1> QED
  BY <1>2, <1>3, <1>4, <1>5, <1>6
  DEF Next, InformStep, Suppress, Accept, InformFails, Age, SetAging, Tick,
      vars, cacheVars

LEMMA StepTaskInv ==
    ASSUME IInv, [Next]_vars, TypeOK'
    PROVE  TaskInv'
<1> USE DEF IInv
<1>0. now \in Nat /\ now' \in Nat /\ now <= now' /\ Start \in Nat
  BY ClockGoesOn, TimeIsNat
<1>1. SUFFICES ASSUME NEW t \in Task, task'[t] # Idle
               PROVE  \E s \in Time :
                        /\ ComputedAt(task[t].bucket, s)'
                        /\ task'[t].at = "accepted"
                             => InLayerSince(task[t].key, task[t].bound, s)'
  BY DEF TaskInv
<1>2. ASSUME task'[t] = task[t]
      PROVE  \E s \in Time :
               /\ ComputedAt(task[t].bucket, s)'
               /\ task'[t].at = "accepted"
                    => InLayerSince(task[t].key, task[t].bound, s)'
  <2>1. task[t] \in InInform
    BY <1>1, <1>2 DEF TypeOK
  <2>2. PICK s \in Time :
          /\ ComputedAt(task[t].bucket, s)
          /\ task[t].at = "accepted"
               => InLayerSince(task[t].key, task[t].bound, s)
    BY <1>1, <1>2 DEF TaskInv
  <2>3. s \in Nat /\ Start <= s /\ s <= now
    BY <1>0, <2>2 DEF ComputedAt, Time
  <2>4. ComputedAt(task[t].bucket, s)'
    BY <1>0, <1>2, <2>2, <2>3 DEF ComputedAt
  <2>5. task[t].key \in Key /\ task[t].bound \in Bound
    BY <2>1 DEF InInform
  <2>6. task'[t].at = "accepted"
          => InLayerSince(task[t].key, task[t].bound, s)'
    BY <1>2, <2>2, <2>3, <2>5, LayerGoesOn DEF InLayerSince
  <2> QED  BY <2>4, <2>6
<1>3. ASSUME NEW u \in Task, NEW k \in Key, NEW a \in Bound, Emit(u, k, a)
      PROVE  \E s \in Time :
               /\ ComputedAt(task[t].bucket, s)'
               /\ task'[t].at = "accepted"
                    => InLayerSince(task[t].key, task[t].bound, s)'
  <2>1. CASE u # t
    <3>1. task'[t] = task[t]
      BY <1>3, <2>1 DEF Emit, TypeOK
    <3> QED  BY <1>2, <3>1
  <2>2. CASE u = t
    <3>1. task'[t] =
            [at |-> "sent", key |-> k, bound |-> a, bucket |-> Bucket]
      BY <1>3, <2>2 DEF Emit, TypeOK
    <3>2. task'[t].bucket = Bucket /\ task'[t].at = "sent" /\ now' = now
      BY <1>3, <3>1 DEF Emit
    <3>3. ComputedAt(task[t].bucket, now)'
      BY <3>2, ComputedNow DEF ComputedAt
    <3> QED  BY <3>2, <3>3, TimeIsNat
  <2> QED  BY <2>1, <2>2
<1>4. ASSUME NEW u \in Task, Accept(u)
      PROVE  \E s \in Time :
               /\ ComputedAt(task[t].bucket, s)'
               /\ task'[t].at = "accepted"
                    => InLayerSince(task[t].key, task[t].bound, s)'
  <2>1. CASE u # t
    <3>1. task'[t] = task[t]
      BY <1>4, <2>1 DEF Accept, TypeOK
    <3> QED  BY <1>2, <3>1
  <2>2. CASE u = t
    <3>1. task[t] \in InInform
      BY <1>4, <2>2 DEF Accept, Idle, TypeOK
    <3>2. /\ task'[t].bucket = task[t].bucket
          /\ task'[t].key = task[t].key
          /\ task'[t].bound = task[t].bound
      BY <1>4, <2>2, <3>1 DEF Accept, TypeOK, InInform
    <3>3. layer'[task[t].key][task[t].bound] = now /\ now' = now
      BY <1>4, <2>2, <3>1 DEF Accept, TypeOK, InInform
    <3>4. PICK s \in Time : ComputedAt(task[t].bucket, s)
      BY <1>4, <2>2 DEF TaskInv, Accept, Idle
    <3>5. s \in Nat /\ Start <= s /\ s <= now
      BY <1>0, <3>4 DEF ComputedAt, Time
    <3>6. ComputedAt(task[t].bucket, s)'
      BY <3>2, <3>3, <3>4 DEF ComputedAt
    <3>7. InLayerSince(task[t].key, task[t].bound, s)'
      BY <1>0, <3>2, <3>3, <3>5 DEF InLayerSince
    <3> QED  BY <3>6, <3>7
  <2> QED  BY <2>1, <2>2
<1>5. ASSUME NEW u \in Task, Record(u) \/ InformFails(u)
      PROVE  task'[t] = task[t]
  BY <1>1, <1>5 DEF Record, InformFails, TypeOK
<1>6. CASE Restart
  BY <1>1, <1>6 DEF Restart
<1>7. CASE task' = task
  BY <1>2, <1>7
<1> QED
  BY <1>2, <1>3, <1>4, <1>5, <1>6, <1>7
  DEF Next, InformStep, Suppress, Age, SetAging, Tick, vars

LEMMA StepHistoryInv ==
    ASSUME IInv, [Next]_vars, TypeOK'
    PROVE  HistoryInv'
<1> USE DEF IInv
<1>0. now \in Nat /\ now' \in Nat /\ now <= now'
  BY ClockGoesOn, TimeIsNat
<1>1. SUFFICES ASSUME NEW k \in Key, NEW a \in Bound
               PROVE  seen'[k][a] <= now'
  BY DEF HistoryInv
<1>2. seen[k][a] \in Nat /\ seen[k][a] <= now
  BY DEF TypeOK, HistoryInv
<1>3. ASSUME NEW key \in Key, NEW b \in Bound, Suppress(key, b)
      PROVE  seen'[k][a] <= now'
  <2>1. seen'[k][a] = seen[k][a] \/ seen'[k][a] = now
    BY <1>3 DEF Suppress, TypeOK
  <2> QED  BY <1>0, <1>2, <2>1
<1>4. ASSUME NEW t \in Task, Accept(t)
      PROVE  seen'[k][a] <= now'
  <2>1. task[t] \in InInform
    BY <1>4 DEF Accept, Idle, TypeOK
  <2>2. seen'[k][a] = seen[k][a] \/ seen'[k][a] = now
    BY <1>4, <2>1 DEF Accept, TypeOK, InInform
  <2> QED  BY <1>0, <1>2, <2>2
<1>5. CASE seen' = seen
  BY <1>0, <1>2, <1>5
<1> QED
  BY <1>3, <1>4, <1>5
  DEF Next, InformStep, Emit, Record, InformFails, Age, SetAging, Restart,
      Tick, vars

-----------------------------------------------------------------------------
(* No observation is missing.                                              *)

\* What a suppressed observation can rely on: the cached bound is at least
\* as tight and reached the layer within one bucket of now.
LEMMA SuppressedIsKnown ==
    ASSUME IInv, NEW k \in Key, NEW a \in Bound, ~ShouldEmit(k, a),
           now >= aged + Slack
    PROVE  \E b \in Bound : /\ ~Tighter(k, a, b)
                            /\ layer[k][b] # 0
                            /\ layer[k][b] + Slack > now
<1> USE DEF IInv
<1>1. /\ cache[k] # NoObs
      /\ cache[k].bucket = Bucket
      /\ ~Tighter(k, a, cache[k].bound)
  BY DEF ShouldEmit
<1>2. cache[k].bound \in Bound
  BY <1>1 DEF CacheInv
<1>3. PICK s \in Time : /\ ComputedAt(Bucket, s)
                        /\ InLayerSince(k, cache[k].bound, s)
  BY <1>1 DEF CacheInv
<1>4. PICK old \in Agings : Bucket = s \div WidthOf(old)
  BY <1>3 DEF ComputedAt
<1>5. PICK new \in Agings : width = WidthOf(new)
  BY DEF TypeOK
<1>6. now \in Time /\ now \in Nat /\ s \in Nat /\ Start <= s /\ s <= now
      /\ Start \in Nat \ {0}
  BY <1>3, TimeIsNat DEF ComputedAt, Time
<1>7. s \div WidthOf(old) = now \div WidthOf(new)
  BY <1>4, <1>5 DEF Bucket
<1>8. WidthOf(old) = WidthOf(new)
  BY <1>3, <1>6, <1>7, NoSharedBucket DEF Time
<1>9. now < s + WidthOf(new)
  <2>1. s \div WidthOf(new) = now \div WidthOf(new)
    BY <1>7, <1>8
  <2> QED  BY <1>6, <2>1, SameBucket, WidthBounds
<1>10. now < s + Slack /\ Slack \in Nat
  BY <1>6, <1>9, WidthBounds, InformAssumption
<1>11. layer[k][cache[k].bound] \in Nat /\ aged \in Nat
  BY <1>2 DEF TypeOK
<1>12. layer[k][cache[k].bound] >= s
  BY <1>3, <1>6, <1>10, <1>11 DEF InLayerSince
<1>13. layer[k][cache[k].bound] # 0
       /\ layer[k][cache[k].bound] + Slack > now
  BY <1>6, <1>10, <1>11, <1>12
<1> QED  BY <1>1, <1>2, <1>13

LEMMA StepObservations ==
    ASSUME IInv, [Next]_vars, TypeOK'
    PROVE  ObservationsAreKept'
<1> USE DEF IInv
<1>0. /\ now \in Nat /\ Slack \in Nat \ {0} /\ Bound \subseteq Nat
      /\ Start \in Nat \ {0} /\ Start <= now
  BY TimeIsNat, InformAssumption
<1>1. SUFFICES ASSUME NEW k \in Key, NEW a \in Bound,
                      seen'[k][a] # 0, seen'[k][a] >= aged' + Slack
               PROVE  \E b \in Bound : /\ ~Tighter(k, a, b)
                                       /\ layer'[k][b] # 0
                                       /\ layer'[k][b] + Slack > seen'[k][a]
  BY DEF ObservationsAreKept, Tighter
<1>2. /\ seen[k][a] \in Nat /\ seen'[k][a] \in Nat
      /\ aged \in Nat /\ aged' \in Nat
  BY DEF TypeOK
<1>4. CASE UNCHANGED <<layer, aged, seen>>
  BY <1>1, <1>4 DEF ObservationsAreKept
<1>5. ASSUME NEW key \in Key, NEW o \in Bound, Suppress(key, o)
      PROVE  \E b \in Bound : /\ ~Tighter(k, a, b)
                              /\ layer'[k][b] # 0
                              /\ layer'[k][b] + Slack > seen'[k][a]
  <2>1. layer' = layer /\ aged' = aged
    BY <1>5 DEF Suppress, layerVars
  <2>2. CASE key = k /\ o = a
    <3>1. seen'[k][a] = now /\ ~ShouldEmit(k, a)
      BY <1>5, <2>2 DEF Suppress, TypeOK
    <3> QED  BY <1>1, <2>1, <3>1, SuppressedIsKnown
  <2>3. CASE ~(key = k /\ o = a)
    <3>1. seen'[k][a] = seen[k][a]
      BY <1>5, <2>3 DEF Suppress, TypeOK
    <3> QED  BY <1>1, <2>1, <3>1 DEF ObservationsAreKept
  <2> QED  BY <2>2, <2>3
<1>6. ASSUME NEW t \in Task, Accept(t)
      PROVE  \E b \in Bound : /\ ~Tighter(k, a, b)
                              /\ layer'[k][b] # 0
                              /\ layer'[k][b] + Slack > seen'[k][a]
  <2>1. task[t] \in InInform
    BY <1>6 DEF Accept, Idle, TypeOK
  <2> DEFINE key == task[t].key
             o == task[t].bound
  <2>2. key \in Key /\ o \in Bound
    BY <2>1 DEF InInform
  <2>3. /\ layer' = [layer EXCEPT ![key][o] = now]
        /\ seen' = [seen EXCEPT ![key][o] = now]
        /\ aged' = aged
    BY <1>6 DEF Accept
  <2> HIDE DEF key, o
  <2>4. CASE key = k /\ o = a
    <3>1. layer'[k][a] = now /\ seen'[k][a] = now
      BY <2>3, <2>4 DEF TypeOK
    <3>2. ~Tighter(k, a, a)
      BY <1>0 DEF Tighter
    <3> QED  BY <1>0, <3>1, <3>2
  <2>5. CASE ~(key = k /\ o = a)
    <3>1. seen'[k][a] = seen[k][a]
      BY <2>2, <2>3, <2>5 DEF TypeOK
    <3>2. PICK b \in Bound : /\ ~Tighter(k, a, b)
                             /\ layer[k][b] # 0
                             /\ layer[k][b] + Slack > seen[k][a]
      BY <1>1, <2>3, <3>1 DEF ObservationsAreKept
    <3>3. layer'[k][b] = layer[k][b] \/ layer'[k][b] = now
      BY <2>2, <2>3 DEF TypeOK
    <3>4. seen[k][a] <= now
      BY DEF HistoryInv
    <3> QED  BY <1>0, <1>2, <3>1, <3>2, <3>3, <3>4
  <2> QED  BY <2>4, <2>5
<1>7. CASE Age
  <2> DEFINE cutoff == Minus(now, age)
  <2>1. age \in Nat /\ cutoff \in Nat
    BY <1>0, InformAssumption DEF Minus, TypeOK
  <2>2. /\ layer' = [x \in Key |-> [b \in Bound |->
                       IF layer[x][b] < cutoff THEN 0 ELSE layer[x][b]]]
        /\ aged' = IF aged < cutoff THEN cutoff ELSE aged
        /\ seen' = seen
    BY <1>7 DEF Age
  <2> HIDE DEF cutoff
  <2>3. PICK b \in Bound : /\ ~Tighter(k, a, b)
                           /\ layer[k][b] # 0
                           /\ layer[k][b] + Slack > seen[k][a]
    BY <1>0, <1>1, <1>2, <2>1, <2>2 DEF ObservationsAreKept
  <2>4. layer[k][b] \in Nat
    BY DEF TypeOK
  <2>5. layer[k][b] >= cutoff
    BY <1>0, <1>1, <1>2, <2>1, <2>2, <2>3, <2>4
  <2>6. layer'[k][b] = layer[k][b]
    BY <2>1, <2>2, <2>4, <2>5
  <2> QED  BY <2>2, <2>3, <2>6
<1> QED
  BY <1>4, <1>5, <1>6, <1>7
  DEF Next, InformStep, Emit, Record, InformFails, SetAging, Restart, Tick,
      vars, layerVars

-----------------------------------------------------------------------------
(* The theorems.                                                           *)

(***************************************************************************)
(* The conjunction of the type invariant, of what is known of the cached   *)
(* bounds and of the writes under way, and of the promise itself holds     *)
(* throughout: for every set of channels, bounds, tasks and agings.        *)
(***************************************************************************)
THEOREM Inductive == Spec => []IInv
<1>1. Init => IInv
  BY InitIInv
<1>2. IInv /\ [Next]_vars => IInv'
  <2> SUFFICES ASSUME IInv, [Next]_vars PROVE IInv'
    OBVIOUS
  <2>1. TypeOK'
    BY StepTypeOK DEF IInv
  <2> QED
    BY <2>1, StepCacheInv, StepTaskInv, StepHistoryInv, StepObservations
    DEF IInv
<1> QED  BY <1>1, <1>2, PTL DEF Spec

(***************************************************************************)
(* Every variable keeps its type: the bucket length is always the one the  *)
(* configured aging asks for, and the cache holds only observations.       *)
(***************************************************************************)
THEOREM TypeCorrect == Spec => []TypeOK
<1>1. IInv => TypeOK
  BY DEF IInv
<1> QED  BY <1>1, Inductive, PTL

(***************************************************************************)
(* Coalescing is lossless: a suppressed or accepted observation is in the  *)
(* layer, as a bound at least as tight and at most one bucket older, until *)
(* aging comes within one bucket of it (coalesce.rs:1-15, exec.rs:242-278).*)
(***************************************************************************)
THEOREM CoalescingIsLossless == Spec => []ObservationsAreKept
<1>1. IInv => ObservationsAreKept
  BY DEF IInv
<1> QED  BY <1>1, Inductive, PTL
=============================================================================
