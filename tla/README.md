# xrebalance in TLA+

Specifications of xrebalance, a Core Lightning plugin that moves a node's funds
between its channels by circular payments to itself. They cover the parts of the
program where order or arithmetic decides: the life of a payment part between
executor, hook, watchers and lightningd; the round loop and its budgets; the
planner and what it hands to the executor; the way of a failure back to the two
stores of what failed parts teach. TLC checks small instances. TLAPS proves the
results listed below for every value of the constants.

Source references are to `src/src/` (`exec.rs:788` is `src/src/exec.rs`).

## The system

One process of asynchronous tasks serves lightningd. Its shared state (`State`,
`main.rs:193`) is the claim table, the coalescer, the override store (each under
a mutex held only between two awaits), the request gate (a fair async mutex held
for a whole request), the option values and the counter `feedback_writes`.

| Component | State | Operations | Interacts with |
|---|---|---|---|
| Part execution (`exec.rs`) | each part's status, and who holds it | `execute`: prune, register a claim and sendpay per part, snapshot window, collect, hand over; `background_watch`; `drop_claim`; `notify_part` | called by the loop with a plan; RPC to lightningd; claim table; feedback |
| Claim table and hook (`main.rs`) | `State.claims` | `try_claim`, `htlc_accepted` | lightningd calls the hook at any time; execution registers and drops claims |
| Request loop (`main.rs`) | totals, committed msat by channel, failed paths, round | `xrebalance`: gate, rounds, stops, response; `draw_down` | plans, executes, reads `feedback_writes` |
| Planner (`plan.rs`) | a scratch layer in askrene per plan | clamp, age, split layer, overrides, ladder, prune of parts | askrene; overrides; options |
| Coalescer and inform (`coalesce.rs`, `exec.rs`) | a cache of bounds by channel direction | `check`, `record`, `prune`, `set_aging`, `inform` | called at the end of each part; askrene's persistent layer |
| Overrides and attribution (`overrides.rs`, `exec.rs`, `onion_error.rs`) | policies, disabled nodes, exclusions, each with its time | `apply_feedback`, `store_or_escalate`, `is_repeat`, `snapshot` | called at the end of each part; the planner snapshots it |
| Flow units, channel specs (`spec.rs`) | none | caps, unit slack and headroom | planner, loop |
| Failure messages (`onion_error.rs`) | none | decode a channel update, classify a fee failure | attribution |
| Options (`main.rs`) | option values, the framework's map | start, `setconfig` | read by all; the two ages reach into coalescer and overrides |
| Statistics, dry run, logs | none | read only | all |

What is hard, and what makes each component correct:

- **Execution and claims.** A claim must be there from before the HTLC can
  arrive until it is used or cannot be, while the hook, the snapshot window and
  the watchers run in any order and the process may restart. Correct means: paid
  at most once and only in full; reported once, truthfully and finally; amounts
  that are planned again belong to parts that can never be paid.
- **Request loop.** Parts settle after their round, after the request has been
  answered, or never. Correct means: amount, absolute budget and caps are one pot
  for the whole request, the fee rate holds whichever parts fail, the totals of
  the response stay true, an error has moved nothing, the gate is passed on.
- **Coalescer.** The lock is released across an RPC. Correct means: a suppressed
  write is one the layer already has, at most a bucket old.
- **Overrides.** Reports reach a store newer than the plan they are about.
  Correct means: a route that was refused is not planned for ever, no hop gets
  two verdicts, and our own channels and node are spared.
- **Planner.** It works on a snapshot, in layers that askrene keeps, with whole
  flow units. Correct means: parts keep to the envelope the loop relies on and to
  the caps, leave by the named sources only, no rung is infeasible by local
  arithmetic, the scratch layer is nobody else's and does not outlive the plan,
  and a path that failed is not tried again a msat lower for ever.
- **Routes.** Fields change their names and meaning between askrene, the planner,
  sendpay and the part's record. Correct means: what is sent is what was priced,
  and a failure's report finds its hop.
- **Failure messages.** Every length in them is claimed by a forwarder. Correct
  means: no read leaves the message, nothing is read that was not meant, and the
  fee attribution never wraps.
- **Options.** Copies of a value that change at any time. Correct means: what was
  learned under an old age is neither lost nor kept for ever.

`PROJECT.json` lists the hazards one by one, with the line where each bites and
the properties that would catch it.

## Modules

### `Parts`, with `IdealParts`

The executor, the claim table, the hook and the watchers. One action per step
between two awaits of the code; a part is identified with its payment hash.

| Code | Model |
|---|---|
| `State.claims`, `Claim.created` | `claims`, `created` |
| `execute` | `exec`: `ExecuteStart`/`ExecuteNoConnection` (prune, connect), `Register`, `SendpayReturn`, `SnapshotWindow`, `JoinWaits`, `Collect`, `ExecuteReturn` |
| `background_watch` | `WatchReturn`, `WatchLost` |
| `Part.status`, and the task that holds the part | `stage` |
| `htlc_accepted`, `try_claim` | `HtlcAccepted`, `TryClaim`, `ClaimsAfter` |
| a plugin or node restart | `Restart` |
| lightningd, peers, clock (external) | the actions `Ln...`, `Tick` |

An HTLC that arrives with a part's hash is "whole", "short" (right secret, too
little) or a "stranger" (another secret); a refused one may be offered again, and
a replay may come after settlement. A resolve that lightningd had not committed
when it restarted is lost, and the hook called again. The amount in a part is
abstracted to what `try_claim` tells apart.

Two switches describe the environment. `ConnectFails`: opening an RPC connection
may fail. `LossyRpc`: a call may end in a transport error, which cln_rpc returns
as an error without a code. The code takes every error but code 200 for the end of the
part, so the truth of reports and the refinement are stated, and proved, for
`~LossyRpc`; what happens otherwise is the run `parts_lossy`.

`IdealParts` says what a caller may rely on: the money of a part leaves at most
once, ends on one side, and is reported once, after it has ended and as it has.
`Parts` implements it under the mapping `moneyOf`, `reportOf`.

### `Request`

The round loop for several calls. `Top`, `Plan`, `Execute`, `EndRound` and the
ways to leave are the loop's steps; the totals are the code's; `moved` and `out`
(settled for good; with stragglers) are what really happens to the money.

A plan is any set of parts that keep, added up, to the round's amount, budget
and the bounds it writes for the caps, each at the plan's fee rate: parts are drawn
one at a time from what the plan leaves (`Fits`, `After`), so the arithmetic of the
solver is not part of the model, and what `plan.rs` does to make askrene keep to
these bounds (mirrors, source bounds, rate prune) is assumed here. Which of the
sources' caps a plan writes is a choice of `Plan`: what a source can send at the
snapshot is not in this model, and a cap that is not below it is not written. The
history variable `loose` keeps the sources whose last part was planned so. That a part
booked as delivered has moved, that one booked as neither never does, and that a
pending one ends either way, is what `Parts` establishes. The stragglers of a
request are kept as sums; `Resolve` splits any portion off them.

### `Inform`

The coalescer and its one user. `Emit`, `Accept`, `Record` are the two locked
sections and the RPC between them; `InformFails` is a refusal or a lost answer;
`Age` is the planner's `askrene-age`; `SetAging` is `setconfig`; `layer` is what
askrene holds, with the time of each bound. `Age` is one step although the cutoff
is computed before the call: whatever askrene accepts in between is younger than
the cutoff, so the two orders give the same layer.

`NoSharedBucket` is an assumption about the clock: bucket numbers computed with
two widths do not meet while the cache lives. `coalesce.rs:69-72` says that they
differ; over a long enough run they may not (see the comment in the module).

### `Feedback`

The override store and the attribution of failures. A part carries the policies
it was planned on (`beliefs`); `Fail` is one report, for each class of failure
code and hop; `Carried`, `Excluded`, `Constrained`, `Refreshes`, `Escalates` say
what the report claims of which hop; `Plan` is a round's snapshot with its prune
and the routes the solver may return on it. Policies are values with a fee. The
policy a forwarder signs is fixed, gossip catches up with it or does not, and a
forwarder may refuse a correct fee. The bounds a report sends to askrene are in
`Inform`; here they matter only as claims about a hop. Overrides expire between
plan and report, the override age changes, and a restart empties the store.

### `Planner`, with `FlowUnits`

One plan per task, from the call to its result: `Snapshot` (the channels and the
clamp), `CreateLayer`, `BuildLayer` (mirrors, masks, fence, source bounds),
`Descend` and `Solve` down the ladder, `Part` (the prunes), `Finish`,
`RemoveLayer`. Tasks share lightningd's `ledger` of our channels and askrene's
`layers`; a dry run is a task too, since it does not wait at the gate.

| Code | Model |
|---|---|
| `params` | `ask`: amount, budget ("msat" or "ppm"), sources and destinations with caps |
| `local_channels` | `snap`, `Usable`, `Ours` |
| the split layer in askrene | `layers[layer[t]]`: mirrors, masked directions, maxima |
| `SourceBound` | `bounds` |
| `rung_amount`, `rung_maxfee` | `rung` |
| routes, `delivered`, `sent`, `HtlcSlots` | `kept`: the surviving parts added up by channel |

The solver is any solver: it finds a solution when both sides have room, takes
parts in any order, of any size, at any fee up to `partFee`, over any source
it sees, even above the budget it was given, or answers that there is none.
`Cases` lists the settings: which tasks plan, what our channels may be and what is
asked for, whether the channels change while a plan is made (`live`), whether a
call may fail or its answer be lost (`rpcFails`), how often there is a restart. One
of them is chosen at the start, so that one run looks at each hazard in the setting
where it bites. A restart of the plugin leaves the layers, one of lightningd takes
them away; process and sequence number stand for time, pid and sequence in a
layer's name.

`FlowUnits` is the arithmetic of `spec.rs`, with the threshold and the thousandth
as constants; `Drawable` and `Packed` say how askrene rounds.

### `Retries`

The round loop once more, without its round limit, to see what ends it when
parts fail for liquidity: a failure lowers what the solver believes of a channel
by as little as a msat, counts as learned, and `retries_liquidity_failures` has to
end the loop. `known` is what the solver believes, with channels shared between
paths. `worn` counts the rounds whose every part moved or failed for liquidity, as
long as no write was refused and no constraint aged out (`lost`): such a loss may
let a path be tried again from the top, and only `LoopEnds` speaks of it.
A round in which one part fails in another way is not counted: the plan of such
a round is not of retries only, and a run of them may go down a msat at a time
until the round limit (which `Request` has).

### `Reports`, with `Hops` and `Onion`

A route on its way out, and a failure on its way back, as one specification.

`Hops` takes a route as askrene answers it (`Solved`, in the fields of v26.04,
v26.06 or v27.06) through `normalize_hops` and the translation of the mirror
(`TranslateRoute`) to sendpay and to the part's record (`SendRoute`). JSON
objects are records whose fields may be absent. `quote` keeps what was priced.

`Onion` is `parse_chan_update` on messages of any length: `Frame`, `Fields`, and the
walk over the TLV stream (`Record`, `WalkEnds`); and the comparison of
`classify_fee_insufficient`. The machine is scaled down: bytes below `Base`, words
below `Word`, one cell for each field of an update. The arithmetic wraps at `Word`
where the code's does. `reads` is a history of the cells read. A message carries
what its sender meant, which the properties compare with.

`Reports` joins them: a part of the plan fails at one of its hops (`Fails`), the hop
is looked up in the part's record by the name that the onion had (`Locate`), the
message is parsed, and `Judge` is `apply_fee_insufficient` and
`apply_policy_refresh`. `BlameIsFair` compares the channels charged with the quote
askrene made, so it fails when the record, the lookup, the parser or the
comparison is wrong.

### Composition

`Request` uses `Parts` through `booked`: its `Execute`, `Settle` and `Return` are
what `NothingBookedNeverPaid`, `ReportsAreTrue` and `ReportsAreFinal` leave
possible. The fairness of `Request` (an `execute` returns) is the property
`ExecuteReturns` of `Parts`. Both feedback modules start where a part ends.
`learned` in `Request` stands for the writes that `Inform` and `Feedback` count.

`Planner` supplies what `Request` takes a plan to be: `PlanKeepsTheEnvelope` is the
envelope that `Fits` and `After` leave (amount, budget, and the rate of every part),
and its `CapsKept` the bounds of `Plan`: the caps of destinations, and of sources that
could send more than their cap at the snapshot. `Parts` takes what
`Hops` hands to sendpay. `Feedback` starts from the hop and the policy that
`Reports` establishes (`BlameIsFair`); its `Covers` is `Fault` in `Onion`. `Retries` is
`Request` without the round limit and the books.

## Runs

Times are of two workers.

| Run | Bounds | Shows |
|---|---|---|
| `parts_safety` | 2 parts, 2 HTLCs per hash, 1 restart, `MaxAge` 0 and a clock of 2 values; 470,915 states | the type, six invariants, three action properties and the refinement |
| `parts_live` | 2 parts, 1 HTLC, no restart, transport errors; 66,901 states | every part sent gets its event; `execute` returns |
| `parts_lost` | as above, connections may fail | violation: a part without its event |
| `parts_lossy` | as above, transport errors | violation: a claim dropped in flight |
| `request_safety` | 1 call, amount 4, 2 channels a side, up to 3 rounds, an absolute budget with caps, written as bounds or not, or a rate; 817,815 states | amount, budget, rate, caps, totals, errors |
| `request_queue` | 2 calls, 1 channel a side; 158,223 states | every call is answered |
| `inform_safety` | 1 key, 2 bounds, 2 tasks, 2 agings, 3 ticks, 1 restart; 1,275,048 states | observations are in the layer |
| `feedback_safety` | 2 routes sharing a channel with stale gossip, 3 parts, 2 ticks, override age 0 or 1, 1 restart; 466,200 states | no route is refused for ever; one verdict per hop; own channels spared |
| `feedback_race` | the same | violation: an exclusion for a policy never tried |
| `planner` | 5 channels, flow units of up to 7 msat; 5 cases: 5 requests with part fees up to 2; the ladder over 168 ledgers and 6 requests, every answer "no route"; 2 plans at once, RPC failures, 2 restarts; 3 ledgers that alternate; a channel that opens; 120,476 states | caps, fence, envelope, slots, the last fee check never fires; every rung is feasible; layers are accounted for; every plan ends |
| `retries` | 2 paths sharing a channel, amount 5, fragment 2, 2 parts a round, refused writes, aging; 45,799 states | liquidity failures do not wear the loop down; it ends without a round limit |
| `reports` | 3 versions, plans of 1 or 2 of 7 routes of 2 to 5 hops, `MaxHops` 4; 24 updates, 4 tails, cuts, and all streams of up to 5 cells; bytes of 5 values, words of 25; 162,284 states | what is sent is what was priced; messages are read as meant; blame is fair; nothing gets stuck |

Why these bounds are enough to meet the interesting cases:

- *Parts.* Parts interact through the batch and the claim table only, so two show
  what a part may do to another (one times out while the other fails; one batch
  after another's stragglers). Two HTLCs per hash give a retry after a refusal
  and a replay after settlement. `MaxAge = 0` with one tick makes every claim old
  while its part is in flight.
- *Request.* Amount 4 with caps of 2 and 1 leaves a remainder to replan after a
  straggler; `Fragment = 2` makes "below the floor" and "committed" both happen;
  three rounds let the straggler of the first settle in the third. The base of
  the rate is 2, so that one of two msat is a rate of one half. The source with the
  cap of 2 can pass it in a plan without a bound, ahead of one with it or behind one.
- *Inform.* The keys share nothing but the sweep and the options, and the two
  kinds of bound mirror each other, so one key suffices. The buckets are one and
  two ticks long; three ticks leave a bucket, pass a sweep and age an entry. Once an
  aging has really dropped a bound, no tick is left at which `ObservationsAreKept` asks
  for an observation (`aged + Slack`): what follows a drop is covered by the proof only.
- *Feedback.* The routes have a hop of ours on each side, a forwarder to blame and
  an incoming hop to blame instead. Three parts give a failure planned before a
  refresh, one after it, and one that reports late. The override age is as long as
  the clock, or shorter.

- *Planner.* Two sources and two destinations, with caps below and above the
  balance, make a part's flow unit, cap, slot and mirror bind in turn. Channels of the
  ledgers are usable, waiting for a splice, or without the peer's update. The
  ladder needs no parts: its case takes balances from 4 to 24 msat on both sides of
  the threshold, with flow units of 2 to 7. Two plans and two restarts give two
  layers of one process and of two.
- *Retries.* The bound on the rounds, `WornBound`, has a term per fragment moved and
  one per path; with amount 5 and fragment 2 a path has room for one more try under
  its first failure, where the mutant takes one for every msat. A shared channel makes
  one path's failure lower the other. What is learned besides (`MaxOther`) and the
  agings (`MaxForgets`) are bounded, since feedback that never stops would keep the loop
  alive until the round limit: the stall check cannot tell whose it is.
- *Reports.* Nodes on both sides of ours in the order of ids give both directions, one
  destination has an alias, one route is over the hop limit. Every plan meets
  a few messages, and one plan, whose forwarders are paid 1 for 5, 2 for 3 and 2
  for 1 msat, every message. A byte counts to 4 and a word to 24, so a stream of five
  cells has lengths that wrap; for fee failures every stream of that length is tried.

`CHECK_DEADLOCK FALSE` is set where the system may rightly stop: no request has
to come, the clock is bounded, answered calls stay answered, plans and parsers
end.

The violation runs show the disagreements listed under `findings`: a lost watcher
sends no event although one is "ALWAYS emitted"; a transport error counts as the
end of a part; and the escalation of a repeated policy does not look at what the
failing part was planned on.

Some properties state an exception where the code does less than a comment says:

- `CapsKept` (`Planner`, `Request`): a source's cap at or above what it could send at
  the snapshot is not written as a bound (`plan.rs:850`), so it may be exceeded when the
  source can send more by the time of getroutes; `spec.rs:4-12` promises the cap. For a
  request, over its rounds, the cap is stated of every source but one whose last part
  that was not lost came from a plan without a bound for it. `draw_down` then leaves 0
  of the cap (`main.rs:410`), and a plan that writes this bound sends nothing more.
- `SourcesPinned`: a channel that opens after the snapshot is outside the fence
  (`plan.rs:581-590`); the module comment says that every direction is disabled.
- `ReadAsMeant`: an update without the type prefix whose signature begins with the
  bytes of the prefix loses them and is refused; `onion_error.rs:181` says that both
  forms are accepted.
- `ObservationsAreKept`: the cache may end with the looser of the bounds that two
  racing tasks record in one bucket, although `coalesce.rs:20` calls it the tightest;
  the property shows that nothing is lost by it.

## Fairness

- `Parts!Fairness`: weak fairness of each step of `execute` and the watchers (the
  async runtime polls ready tasks), of lightningd's answers (it answers every RPC
  call and calls every hook), and of the end of a payment (a timelock ends it).
  Nothing is asked of a new batch, of the clock, or of peers that would offer an
  HTLC; nor of `Restart`, `WatchLost` or transport errors.
- `Request!FairSpec`: weak fairness of the steps of each running call, which
  includes the turn at the gate (tokio's mutex is first come, first served).
  Nothing is asked of stragglers.
- `Planner!FairSpec`: weak fairness of the steps of each plan (lightningd answers
  or fails every call, which fails by a lost connection at the latest). Nothing is
  asked of a new call, of the channels, or of restarts.
- `Retries!FairSpec`: weak fairness of the rounds, which is `ExecuteReturns` and
  `PlanReturns` together.
- `Reports!FairSpec`: weak fairness of the plugin's steps. A part need not fail.

## Proofs

Every safety property that a passing run checks is proved for any sets of parts,
calls, channels, keys, tasks, routes and messages and any values of the bounds. Each
proof module (`PartsProofs`, `RequestProofs`, `InformProofs`,
`FeedbackProofs`, `PlannerProofs`, `RetriesProofs`, `ReportsProofs`) begins with its
inductive invariant `IInv`, which TLC checked on the module's run before the proof was
begun; then come the lemmas, one per action, the theorem `Inductive`, and the
properties as consequences.

- **Parts.** The safety properties are not inductive alone: that a failed part is
  never paid needs that an answer on its way to the executor agrees with
  lightningd (`ReplyInv`), that a settled HTLC used the claim (`ClaimInv`), that a
  payment fails only when its HTLCs have unwound (`NetworkInv`), and that the
  batch and the watchers never hold the same part (`BatchInv`). `ClaimHeld` needs
  in addition that a part is followed by its claim from `Register` on
  (`HeldInv`). `ClaimsLeave` and `Refinement` assume `~LossyRpc`. The refinement
  shows that every step of `Parts` is a step of `IdealParts` or a stutter.
- **Request.** `BooksInv` relates the totals to the money, `PotsInv` adds what the
  current plan may still commit to what has been committed (a bound of a source
  that is past its cap has nothing left), and `RateInv` carries
  the rate from the request to the rung to a part; its arithmetic
  (`RateOfPart`: a part at the plan's rate keeps the rate the plan keeps) is a
  lemma of its own.
- **Inform.** `CacheInv` and `TaskInv` say of each cache entry, and of each write on
  its way, that there was a time at which its bucket was computed and since which
  the layer has the bound, unless aging has passed that time. That two times in
  one bucket are less than `Slack` apart is where `NoSharedBucket` enters.
- **Feedback.** `RefusalInv` says that since each refusal its route has been blocked, or
  the store holds the policy that the erring channel's forwarder signs; `PairInv`, that
  a route refused twice under that very policy is blocked. What a report writes is as
  young as the refusal, so an expiry that forgets it forgets the refusal too; that a
  refusal on an older snapshot may find a newer store is why the pair is needed.
- **Planner.** `Written` says that the layer of a plan has what its notes (`bounds`)
  claim; `Within`, that what is kept of a solution and what is left of it are within
  the limits together; `RateInv`, that the parts kept are within the rung's rate,
  because each of them is. The properties about caps, fence, slots, envelope and layers follow
  for any solver. `RungsFit` has an invariant of its own: the bounds that the solver
  sees are short of the sources' by what the rungs so far have cost (`LossUpTo`),
  since the code lowers them for each rung and never raises them again
  (`plan.rs:846`). The five portions of the ladder cost together less than the headroom
  and what a lower rung asks less. That takes enough flow units:
  the theorem's hypothesis `AsksAreFew` is that a request names few enough sources for
  two units each, which with the thousandth of `plan.rs` and its threshold of 1,000,000 msat
  means at most 499 sources. The `planner` run has far smaller constants, outside
  of the hypothesis, and passes all the same.
- **Flow units** (in `PlannerProofs`). A lowered bound never exceeds the bound, and
  the whole units packed under it leave a unit less a msat for what the solver adds
  (`SlackKept`); lowering and packing cost a source less than two units
  (`LossUnderTwoUnits`); an ask that leaves `unit_headroom_msat` under the summed
  bounds fits in whole units (`UnitsSuffice`). `ClampFits` says that what `plan` leaves
  of an ask keeps, with its fee budget and headroom, to what the sources carry, and to
  what destinations carry and the caller asked.
- **Retries.** A failed path keeps a channel that is believed to carry less than what
  failed (`FailedInv`), so a plan cannot hold the failure again; `Progress` counts the
  fragments moved and the steps of more than a fragment that failures have come down,
  and every round that counts adds to it (`WornInv`). It is bounded by `WornBound`
  whatever channels the paths share.
- **Reports.** The routes ahead of the planner are askrene's and those behind it are the
  quoted ones on real channels (`RoutesInv`), whatever fields the version has
  (`NormalizedPath`); what is sent is a first part of the plan (`SentInv`); the policy read
  is of bytes (`UpdateInv`); and a report is of a hop that was sent (`ReportInv`), which
  its name finds, and no other (`FoundByName`). The arithmetic of the
  attribution is exact (`FaultIsExact`) while base fee and rate times the largest amount are below a word; in the
  code, with rates up to 100%, that holds up to 184 BTC in one HTLC.
- **Messages** (in `ReportsProofs`). What is parsed is the update that the sender made of
  what it meant (`Meant`), or too short for one, and the walk over its records is at a
  position that `Reached` describes: whole records laid end to end from the start lead
  there, no fees start before it, and a record that starts before it ends at it or before
  (`ReadsInv`). So the first fees that the walk finds are the first that records lead to
  (`FeesFound`), and where it stops there are none (`NoRecord`, `NoFees`). A number is read
  from the same cells at a shifted position as the same number (`NumberShifts`,
  `BigSizeShifts`): the walk counts from the update, the property from its records. No sum
  of a position and a length reaches a word, because `Fits` is asked before (`RecordStep`).

`Sums` has what sums over finite sets need, from the definition of
`SumFunctionOnSet`: that adding an element adds its term, that a sum does not depend on
the order, grows with its terms, and loses at most the same for each. The
library's induction theorems take an operator as a parameter, which the provers cannot
instantiate; here induction is the least-number principle applied to the set of the
numbers, or of the subsets, that a statement fails for (`Smallest`, `SubsetInduction`).

Assumptions are those of the modules (`PartsAssumption`, `RequestAssumption`,
`InformAssumption`, `NoSharedBucket`, `FeedbackAssumption`, `FlowUnitsAssumption`,
`PlannerAssumption`, `RetriesAssumption`, `HopsAssumption`, `OnionAssumption`,
`ReportsAssumption`): types of constants; for `Inform` that a bucket is at most `Slack`
long; for `Onion` the bound just named; and for `Reports` what askrene promises of a route
(`IsRoute`): the amount falls from hop to hop, no channel is used twice, nor ours into us
but at the end, and aliases are names of no other channel; and what a message is
(`IsMessage`): behind its length there are bytes, and they are an update and records, or
the type prefix and those, or too few for an update, or fewer than the length says. TLC
evaluates all of them on the runs.

Model-checked only: liveness (`EventAlwaysEmitted`, `ExecuteReturns`,
`EveryCallAnswered`, `PlanReturns`, `LoopEnds`, `NothingGetsStuck`), which is out of the
prover's reach.

## Not modelled

- The parameter forms of `spec.rs` (text and object): a pure decoder with unit tests.
- Override writes that askrene refuses: `apply_overrides` goes on past one
  (`plan.rs:489-559`), while in `Feedback` every young override reaches the plan. The
  cause the code names, a channel gone from the gossip, leaves nothing to plan over.
- Statistics, summaries, rendering, logs, the response of a dry run: they change no
  state.
- The solver, costs and probabilities, and what a mirror copies of the peer's policy.
- Fees hop by hop, beyond the amounts that `Hops` carries.
- Integer overflow of the msat sums: amounts are clamped to what the channels
  hold, far below 2^64, and the code saturates where it adds what it does not
  control. The product in the attribution is the exception, and is in `Onion`.
- The expiry delta and HTLC limits of an update, which are copied as the fees are.
- Options, but for the two ages (`Inform`, `Feedback`): a round reads them once, and
  `Request`, `Planner` and `Parts` take their values as constants or leave them to
  choice. What `setconfig` accepts, and the framework's map that `listconfigs` shows
  (stored after the value, with no lock around the two), are not modelled.

## Plan

Done: `Parts`, `IdealParts`, `PartsProofs`; `Request`, `RequestProofs`; `Inform`,
`InformProofs`; `Feedback`, `FeedbackProofs`; `Planner`, `FlowUnits`, `Sums`,
`PlannerProofs`; `Retries`, `RetriesProofs`; `Hops`, `Onion`, `Reports`,
`ReportsProofs`. Every safety property is proved. What remains is to widen the model where
the list above says that it stops: the expiry delta and HTLC limits of an update, and
the options' map.
