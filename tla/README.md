# ShardGate in TLA+

A verification project kept beside the code of ShardGate, a virtual waiting room
for one sales event: a gate that hands out places, a waiting line sharded over
Redis hash slots, a controller that lets people in at the rate the shop can bear,
a bot scorer that isolates suspects without costing the innocent their place, and
a mock shop that sells one item per person.

Paths below are relative to the repository (`internal/...`, `scripts/lua/...`).

## 1. Inventory

| Part | State it keeps | Operations that change it | Interacts with |
|---|---|---|---|
| Lua scripts of one slot (`scripts/lua/*.lua`, `internal/keys`) | per token: a state hash; per shard: line, greylist and hold ZSETs, FIFO counter, budget, entry keys | enqueue, heartbeat, evict, admit, redeem, refill_budget, apply_action, move_shard, restore_shard, rechallenge | called by every service below |
| Queue store and sweeper (`internal/queue`) | sweep cursor per shard, memo of registered shards | Enqueue, Heartbeat, Rechallenge, Sweep, registerShard | scripts, registry of shards |
| Admission controller (`internal/admission/controller.go`, `breaker.go`) | breaker | one cycle per interval: pressure, sizes, apportion, refill | downstream health, scripts |
| Admission store (`internal/admission/admission.go`) | none | Refill, Admit, Burn | scripts |
| Mock shop (`internal/api/shop.go`, `internal/store/pg/orders.go`) | orders table | look up, burn, insert | PostgreSQL, redeem.lua |
| Bot scorer (`internal/botscore/scorer.go`, `window.go`, `signals.go`) | observation windows, scores, ladder memory | Observe, Clamp, Flush | telemetry, actuator |
| Actuator (`internal/botscore/actuator.go`) | suspicion counters in Redis | Apply: move, restore, apply_action, raiseSuspicion, record | scripts, audit |
| Telemetry (`internal/telemetry`) | bounded channel and batch; position and committed offset | Publish, loop, Close; waitForTopic, Run | Kafka |
| Challenge and difficulty (`internal/challenge`, `internal/botscore/difficulty.go`) | keys of used nonces | Issue, Required, Verify, burn | Redis, suspicion |
| Gate API (`internal/api/gate.go`, `rechallenge.go`) | none | enter, verify, reissue, reverify | challenge, assignment, queue store, telemetry |
| Shard assignment (`internal/shard`) | shard count of each gate process | Grow, EnsureCapacity | queue store (TotalWaiting) |
| Audit (`internal/store/pg/audit.go`) | bounded channel and batch, count of what was dropped | enqueue, write, Close | PostgreSQL |
| Other HTTP APIs (`internal/api`), tokens, configuration, plumbing | none | – | all of the above |

What is hard about it: eleven callers in five services interleave their scripts
on one slot; decisions of the scorer arrive long after the state they judged;
keys expire on their own; the sweep pages through a set that shrinks under it;
the controller acts on lengths that are stale when used, through calls that
fail; the shop spans two stores without a transaction; a score is accumulated,
clamped and acted upon by two goroutines while the gate acts on the same token;
notices are dropped, late or repeated; gates have clocks, memos and shard counts
of their own, and anything may be restarted. What makes it correct:

* **line** – hash and ZSETs agree; a token keeps the place first given through
  any isolation and return; seats go to the front; an entry token is good once;
  who stays gets in, who leaves is swept away, and not before the grace is over;
* **controller** – the rate holds over cycles, shares are exact, nobody is sent to
  a dead shop, and every shard drains when it recovers;
* **shop** – no order without an entry token burned for it, one purchase per entry
  token, and answers that are true;
* **scorer** – a block needs several signals and many windows, a passed re-challenge
  is undone only by a window scored after it or by the decision under way, a token
  that calms down comes back;
* **trails** – what is lost is lost in known ways, each process's events keep their
  order, a restart costs at most one message, and what was written is read;
* **doors** – a solution is good once, leaving the greylist costs the price of the
  round the request saw, a puzzle handed out for a round stays good for it, and who
  keeps solving comes out;
* **shards** – newcomers stand where controller and sweeper look, a lost list
  heals, and the number of shards keeps up with the people.

The hazards, each at its line, are in `PROJECT.json`.

## 2. Modules

| Module | Models |
|---|---|
| `ShardQueue` | the scripts over one slot, time and expiry |
| `WaitingLine` | the abstract line a shard promises (no code) |
| `MCShardQueue`, `MCDrain` | instances of `ShardQueue`: ladder and lifetime; controller, sweeper and users together |
| `ShardQueueProofs` | theorems about `ShardQueue`, the refinement of `WaitingLine` among them |
| `AdmissionController` | `Controller.Cycle` call by call, breaker, apportionment |
| `MCFlow`, `FlowProofs` | its instance, with a memory of the allowed rate and with fairness; theorems |
| `Shop` | `ShopAPI.create` over Redis and PostgreSQL |
| `MCShop`, `ShopProofs` | its instance and its theorems |
| `Scorer`, `MCScorer`, `ScorerProofs` | the scorer process, what its decisions do to a token's rung, the gate's passes |
| `Telemetry` | producer, one partition, consumer |
| `Audit` | the audit trail of the actuator |
| `MCTrails`, `TrailsProofs` | instance of both trails, theorems |
| `Door`, `MCDoor`, `DoorProofs` | the gate's four handlers, puzzles, used nonces, skewed clocks |
| `Shards`, `MCShards`, `ShardsProofs` | assignment, growth and the list of shards over several gates |
| `Sums` | facts about sums and induction, for the proofs (no code) |

### ShardQueue

One script is one action, because Redis runs a script to its end; a script that
returns without a write is a stutter. The state hash is the record `user[u]`, each
ZSET a function from tokens to scores with `Absent` for "not a member", ordered as
Redis orders it (score, then member). Timestamps are kept as *ages* (`idle`,
`grace`, `watched`) that stop at the largest value a comparison can tell apart, so
that time runs for ever in a finite state space; `ttl` is what PEXPIRE left. The
score that scripts record is dropped: no script of the line branches on it, except
the clamp of rechallenge.lua, which belongs to the scorer. `minted` is not a Redis
key: it remembers which jti the API ever drew, which is what "drawn anew" means.
`"retired"` is a hash past its TTL: the signed queue token lives as long from an
earlier start, so nobody can speak for it again, while its member may linger in a
ZSET. position.lua only reads and has no action.

`Decide` is the actuator: any decision may reach any token at any time. That is
weaker than the scorer, whose memory picks one; properties that hold here hold
whatever the scorer does. The violation runs name the decisions they need.

### AdmissionController

A cycle is `Pressure` (gate, breaker, health check), one `ReadSize` per shard,
`Plan`, and one `RefillNext` or `RefillFails` per shard in order. Between any two of
them people join, enter and leave, the downstream comes and goes and time passes. A
shard is only its length and budget. Factors are percentages; `PerCycle` rounds
half up as math.Round does on the exact product. The remainders of `apportion` are
float64: equal weights give equal remainders, but equal exact remainders of
different weights are told apart by rounding error, so `Served` leaves their order
open. The greylist branch of `weights` is unreachable (no greylist shard is ever
registered, as its comment says) and is left out.

### Shop

A request is a form that passed authentication and the checks of header and body.
Each call (look-up, burn, insert, second look-up) is a step; a failing call may have
had its effect; the process may stop anywhere; an entry token may expire and a Redis
failover may bring a burned one back. Which of several violated constraints
PostgreSQL reports is left open. `mismatch` of redeem.lua cannot occur since jti and
token are signed together. The column `by` of a row stands for its id: it tells
rows of different requests apart. That PostgreSQL refuses a row its UNIQUE constraints
forbid is taken for granted (`Violated`), so no property restates it; `EntryPays` is about
who gets as far as the constraints, `Truthful` about what they are told there. `through`
and `failovers` are history: the requests whose burn succeeded, and how often Redis
brought burned records back.

### Scorer

Two goroutines share one mutex; every critical section is an action. `Flush` is
`Snapshot`, then per token `Accumulate`, `Recall` and `Decide`: the score and the ladder
memory are read and written in three sections, so a `Clamp` may fall between any two of
them. `Apply` works through the finished list, each call may fail, and passes at the
gate (`Pass`, `Exhaust`) happen at any time, their notice published, dropped or
delivered twice. Scores are whole percent points rounded down. A window shows some
`reading` out of a set: how signals.go computes one from intervals, beats and costs is
floating-point statistics and is left out, as are the groups by fingerprint and prefix.
`level` is the ladder of `ShardQueue` without the line. `since`, `rounds` and `late` are
history: the strongest window scored since the last clamp, windows since the start, and
isolations applied since the last clamp without such a window. A clamp sets the score and
nothing else: the beats in the window stay, so a window scored after it may show what was
seen before, and a decision that Flush already has in hand is applied all the same. `ScoredAnew`
says that this is all: one such decision, and no score without a window scored since.

### Telemetry and Audit

Several processes publish into one partition (gate, queue and admission have a producer
each, and the key is the shard). An event is the process that published it and a number
of that process, a record is a number. What different processes publish is interleaved as
their loops write it: the order that holds is each process's own (`NoOvertaking`). A process
that is started anew is another member of `Processes`. `Written` is what kafka-go may leave in a log: part of a
batch when it fails, or a part and then all of it when an acknowledgement was lost.
`counted`, `lost`, `dropped` and `vanished` name which events the code's counters stand for.

`WritePack` separates what the database did (`inserted`) from what `write` returned (`err`): an
error may come of a batch that was committed, whose records are then stored and counted, and
none of a batch whose commit failed, as the error of `results.Close` is ignored; its records are
`unheard`, neither stored nor counted. Only a record that cannot be inserted is sure to be
answered by an error.
The two trails share no state, so `MCTrails` follows one of them in each behaviour.

### Door

Puzzles are signed and stateless, so a puzzle is its difficulty and the time it has
left, and the only state is the key that `burn` writes. `verify` is one action: between
the burn and the entry it reads nothing that may change. `reverify` is three, because
it reads the attempt, burns, and then runs the script. `read` is history: the round the
token was in when the request read its attempt, which is what `PaidInFull` compares with the
round it buys. Gates see their own clock
(`Ahead`). What a look at the suspicion returns is left open: the counters belong to
fingerprints and prefixes that others share. A right solution to a genuine puzzle is
taken for granted; wrong ones end in `Refused`.

### Shards

A shard is the number of people in it. A gate process has its number of shards, its memo
and the entry it is serving, step by step; the list of shards is one Redis set that may
be lost. Memos are ages up to `ReregisterAfter`; a memo is stamped when the answer to SADD
arrives, up to `RoundTrip` after its effect. `calm` and `sinceLoss` are history: whether
the list was last lost long enough before an entry.

## 3. Runs

| Run | Instance | Shows |
|---|---|---|
| `ladder` | 3 tokens, 1 jti, cap 2, lottery and one FIFO rank, clock stopped | `Placement`, `AdmissionOrder`, refinement of `WaitingLine` under every order of joins, admissions and ladder steps |
| `lifetime` | 1 token, 2 jtis, all scripts, clock running | `TypeOK`, `Placement`, `EntryBacked`, `EntryOnce`, refinement with every key expiring at any moment |
| `drain` | 3 tokens (1 silent, 1 patient), cap 1, page of 1 | `GraceHonoured`; under fairness `PatientGetIn` and `AbandonedLeave` |
| `flow` | 2 shards, 3 arrivals, slowest cycle two thirds of a seat | `TypeOK`, `PlanExact`, `RateHeld`, `StopsWhenDown`; under fairness `Drains` |
| `orders` | 5 requests of 2 buyers, one token with 2 entry tokens, one failover | `EntryPays`, `Truthful` |
| `scorer` | 1 token, 2 signals, 4 kinds of window, decay one half | `TypeOK`, `ScoredAnew`, `NoHastyBlock`; under fairness `FalseAlarmsEnd` |
| `trails` | 2 processes with 2 and 1 events, channels of 1, batches of 2, a log of 3, one restart; 4 records, channel and batch of 2 | `Accounted`, `NoOvertaking`, `LossBounded`, `TrailAccounted`; under fairness `LogIsRead`, `LeavesProducer`, `TrailSettles` |
| `door` | 2 gates one unit apart, 2 puzzles, 2 submissions, 1 token through 3 rounds | `TypeOK`, `StillGood`, `OnceOnly`, `PaidInFull`; under fairness `Returns` |
| `shards` | 2 gates, 1 to 2 shards of 2, up to 3 people, a round trip as long as a memo, list lost once | `TypeOK`, `NewcomersFound`; under fairness `Relisted`, `KeepsUp` |

Why the bounds are enough to mean something: two members of equal score and one
behind them are the smallest line in which a tie, an overtaking and an off-by-one of
rank against budget all show; two tokens may not overtake in `lifetime`, so
everything about order is in `ladder` and everything about expiry of one token in
`lifetime`, and the proofs below close the gap for any number. A page of one member
over a line of three makes the cursor wrap and members shift under it. Two shards with
three seats have shares with equal and with different remainders. The breaker's
threshold of 2 has a failure below it. The four windows of `scorer` are nothing, both
signals below what counts, one that counts, and both; with a decay of one half every rung
is reached and left within a few windows, and a block takes more than two. A channel
shorter than a batch overflows while a batch waits, and a batch of two can be half
written; the second process writes between the two events of the first. Two puzzles and two submissions are a race for one solution and a puzzle of
an earlier round kept for later; three rounds with one attempt allowed reach hold, a
restore and the round beyond the limit. Two shards are the smallest number to grow to, and
three people in a shard of two the smallest reason (that more people do not push a count
beyond its maximum is `TypeCorrect`, not this run). In `door` a puzzle lives as long as the
clocks are apart, so the run shows the race for `OnceOnly` and its proof the lifetimes. Every passing property has a mutant
in `PROJECT.json`, a plausible bug in the mapped code that TLC finds with the same
configuration.

Runs that are expected to fail, each stating what a comment or document says:

| Run | Claim | What the code does |
|---|---|---|
| `single_entry` | admit.lua: an exchanged token gets its first jti back | a hold on an admitted token, then a restore, lead to a second jti |
| `stuck` | scorer.go, Run: a failed apply is only late | the ladder memory forgot the hold when the restore was decided; the restore that failed is never decided again |
| `evidence` | 001_schema.sql: the evidence of a block is always kept | the INSERT lacks `shard_id`, and its whole batch is dropped with it |

`single_entry` uses the instance of `lifetime`; `stuck` and `evidence` leave out every failure but
the one they are about.

### Fairness

* `Sweeper.Run`, `Controller.Run`, `Scorer.Run`, `Grower.Run`, the loops of each producer, of consumer
  and audit – tickers and loops that run for ever: weak fairness of each loop's next step.
* time – weak fairness of `Tick` (strong in `Shards`, where it waits for the answer to a SADD
  that is a `RoundTrip` old).
* `MCDrain` – an open page beats and polls: weak fairness of a patient user's `Heartbeat`, and
  strong fairness of `Admit` for everybody who is not silent (a page that comes back polls;
  one that only sent heartbeats would keep its seat from all behind it); the clock waits
  for work that is due (`TimelyTick`: a heartbeat before it is stale, a refill within the
  budget's TTL of four intervals).
* `MCFlow` – strong fairness of each shard's refill (it is tried in every cycle) and of
  entering (a page polls several times within a budget's TTL). `Drains` assumes that the
  downstream stays up from some time on and that Redis now and then answers all lengths.
* `Scorer` – nothing is asked of Redis: `Apply` or `ApplyFails`. `FalseAlarmsEnd` assumes that the
  token is scored again and again, shows nothing any more, and is isolated only as far as
  the scorer remembers. `stuck` is generous: a decision made again and again is applied
  at last, and still the token stays held.
* `Door` – a greylisted user asks for a puzzle again and again and submits what is good for the
  round, and not every submission is cut short: strong fairness of `Reissue` and of the
  steps of `reverify`.
* `Shards` – people keep coming to the shards every gate knows, and not every entry there
  fails: strong fairness of `Assign` and `SAdd` for shards below `SHARD_COUNT`, and of the grower.
* users who leave, failing calls, broker, database, the scorer's decisions – no fairness.

## 4. Proofs

Every safety property of the passing runs is also a theorem, for any number of tokens, shards,
gates, requests or events and for every setting within the named assumptions. Each module
of proofs finds an inductive invariant, shows one lemma per action (or per group of actions
that touch the same variables), and ends with the temporal step.

**`ShardQueueProofs`**

* `TypeCorrect`: `TypeOK` is inductive.
* `PlacementHolds`: `Placement` is inductive with `TypeOK`. It is a conjunction over
  tokens, and a script touches one token (`OthersPlaced`, `SamePlace`), so each script needs
  one lemma about its own token; the sweep and the clock are treated pointwise.
* `EntryBackedHolds`: the lifetime of a live entry is at most its owner's hash's. Needs that
  every script that writes a hash leaves a TTL of at least `EntryTTL` or the old one
  (`HashOutlives`), which is where `LifetimesNested` comes in.
* `EntryOnceHolds`: only `Admit` mints, and only a jti never minted (`EntryChanges`).
* `AdmissionOrderHolds`: removing a member that stands among the first `budget` lowers the
  rank of everybody behind by one and of nobody ahead (`AheadOfAhead`, finite cardinalities),
  and the budget falls by one as well, so `rank < budget` is unchanged.
* `QuietGraceHolds`, `GraceHonouredHolds`: aging takes from `grace` what it adds to `idle` until
  `idle` stops at its cap (`AgedInGrace`), and no script puts a token into the grace but the sweep,
  with the whole of it left (`IntoGrace`). `QuietNext` is every script of `Next` with the one exception
  that a token in its grace does not enter again; so that entry (section 5) is the only way to
  break the promise. The users of `MCDrain` never take it.
* `ImplementsLineHolds`: the refinement of `WaitingLine`. The initial states map; heartbeats, repeated
  entries, redemptions and recorded scores are stutters (`SameToken`), every other script is one
  step (`EnqueueJoins`, `AdmitEnters`, `DecideMoves`, `RechallengeMoves`, `SweepElapses`, `TickElapses`). An
  exchange needs `Placement`: whom the abstract line counts ahead is ahead in the ZSET, which may
  also hold ghosts, so its rank is at least as large. A late join needs `PlacesGiven`: no rank is above
  the last number of the counter.

**`ShopProofs`** – `TruthfulHolds` from `OrdersInv`: rows belong to finished requests (so a
refused request never stumbles over its own row), and a request sent back by its key's
constraint has a row to find. `EntryPaysHolds` from `PaidInv`: a request past its burn is one of
those let through and nobody before it is (`Passed`), so a burn trades the record for one new
member of `through` (`BurnPays`), and only a failover, which is counted, brings a record back.

**`FlowProofs`**, over `Sums`

* `ApportionFindsAPlan`: what is left after the whole parts is at most the number of shards with
  people, and a set of that many leaders by remainder is built one shard at a time.
* `PlanExactHolds`: the remainders add up to the seats left over times the total weight
  (`RemaindersAddUp`), so a seat left over never goes to a shard without a remainder
  (`ExtraHasRest`), the total is exact and no shard strays by a seat (`ApportionExact`). The plan is
  not touched until its cycle ends.
* `RateHeldHolds`: `RateInv` counts what is out, what is planned and not yet refilled, and what a
  cycle that is still reading was promised; their sum never exceeds the credit.
* `StopsWhenDownHolds`, for `Cooldown > 0`: the breaker counts what the history counts, opens at the last miss (`DownInv`).
  With a cooldown of 0, which config.go accepts, the breaker is half open at every question and the
  property is false (TLC shows it).

**`ScorerProofs`**, over `Sums`

* `ScoredAnewHolds`: `ScoreBacked`, a score is at most the larger of `PassScore` and the strongest
  window scored since the last clamp, is inductive because a mean lies between its parts
  (`MixedMean`). That without such a window at most one isolation is applied needs what is in
  hand: a token is in one place of a flush only (`OnceInHand`), so once such an isolation was
  applied nothing in hand is about to isolate the token again (`LateOnce`).
* `NoHastyBlockHolds`, for a history that counts far enough to tell (`FullStrength[MaxRounds] >= Block`;
  the code has no such bound): no score, be it stored, in hand or in a decision, is ahead of the
  windows counted for it (`ReachInv`).

**`TrailsProofs`** – `AccountedHolds`: a step of a process moves its own events (`OneAccounts`).
`NoOvertakingHolds`: what a process has in its channel comes after what it has in its batch, and
both after all of its own in the topic (`Ordered`, per process); a batch, a part of it, or a part
and then all of it may then follow the topic (`Tame...`), whatever other processes wrote in between.
`LossBoundedHolds` from `LossInv`: of what the consumer is done with, no more is unheard than it was
restarted. `TrailAccountedHolds`: no record is twice in the channel, and the five places stay disjoint
under each of the outcomes of a write (`TrailSplit`, with table and counter as one place, `Settled`).

**`DoorProofs`** – from `DoorInv` (the key of a burnt nonce lives as long as its puzzle on every clock,
a submission behind the floor still has its puzzle, worth the round it read, a puzzle is worth the round it was made for):
`OnceOnlyHolds`; `PaidInFullHolds`, as the price does not fall from round to round (`PriceFacts`); and `StillGoodHolds` where the prices reach the maximum by the attempt
at which reissue caps them (`Saturated`, as with the defaults); `StillGoodEarlyHolds` needs no such
setting and stops at the round that leads into hold. Beyond it `StillGood` is false without
`Saturated` (section 5).

**`ShardsProofs`** – `NewcomersFoundHolds` from `ListInv`: a memo younger than the last loss of the list
by more than a round trip is of a listed shard, and so is the shard of an entry under way.

`TypeCorrect` is proved in every one of these modules that has a type invariant.

`Sums` holds what the community's sum of a function over a set does when the set grows, shrinks,
is scaled or compared. Its definition is a recursive function over subsets, and induction is by a
minimal set (well-foundedness of the strict subset ordering) with the property given as a set, not
as an operator, which is what the provers can instantiate; `NumberInduction` does the same for
numbers and also shows that the recursion of `FullStrength` has a solution.

Assumptions are the `ASSUME`s of the component modules: finite, ordered tokens; ranks of the
draw below the band; positive TTLs; what `config.Validate` asks of scores, challenge and event; finitely
many signals; forms that name known entry tokens, accounts and keys; bounds that are numbers.

Only model-checked are the liveness properties, since fairness and ENABLED are out of the prover's
reach: `PatientGetIn`, `AbandonedLeave`, `Drains`, `FalseAlarmsEnd`, `LogIsRead`, `LeavesProducer`,
`TrailSettles`, `Returns`, `Relisted`, `KeepsUp`.

## 5. Not modelled, and what a reader must assume

* One clock in `ShardQueue`: every replica passes its own `now_ms` to the scripts.
* The Redis client's own retries of a script whose reply timed out (a repeated SET NX is in
  `Door`: it refuses its own solution). A refill that is repeated adds its grant twice, within
  the cap and the length of the line; `RateHeld` holds as far as that does not happen.
* A repeated exchange returns the jti of the first: `EntryOnce` does not say so, `SingleEntry` does, and
  fails (run `single_entry`).
* Bounds: `MaxSeq` (FIFO arrivals), `MaxWaiting`, `MaxJoins`, `MaxNotices`, `MaxRounds`, `MaxEvents`,
  `MaxLog`, `MaxRestarts`, `MaxRecords`, `MaxSuspicion`, `MaxPeople`, `MaxLosses`, `MaxFailovers`, and `RoundTrip`
  for the client's timeouts; finite sets of jtis and nonces.
* Statistics of the scorer's signals (`signals.go`): floating point. `combine` and everything after
  it is modelled.
* Signatures, hashes, JSON, cookies, metrics, reading of environment variables. Tokens are
  genuine and are not accepted after their hash is gone.
* The display of waiting times (`EstimateWaitAt`) and the SSE stream: they read and do not write.

Where the code does something else than a comment or document says, beyond the runs above:

* A repeated entry in the grace period refreshes `last_seen` and does not revive (enqueue.lua:60),
  so the sweep evicts a token that was just heard of; evict.lua:3-6 has it evicted only after
  a silent grace. `GraceHonoured` fails as soon as `EnqueueExists` is among the actions of `MCDrain`.
* A block leaves an entry key issued before alive (apply_action.lua:92); docs/DESIGN.md:399 says
  "token invalidation + block".
* With an open breaker a cycle calls Refill with a grant of 0 (controller.go:169), which renews the
  TTL of leftover seats; controller.go:218 says that admission stops.
* Of two equal orders at once the loser of the burn is told `entry_spent` (shop.go:122);
  shop.go:155 and docs/DESIGN.md:534 promise the stored order.
* The error of `results.Close` is ignored (audit.go:145), and with it that of the commit; audit.go:29 says that
  what is dropped is always counted. The counter may also name records that are in the table.
* Shards are registered again on arrivals, not periodically (queue.go:650-657): a shard beyond
  `SHARD_COUNT` is found by nobody once the list is lost and the gates were restarted.
* attemptOf is not capped as reissue is (rechallenge.go:52, 93): a token that was held, restored
  and quarantined again is asked for more than its puzzle has, unless both are clamped to the
  maximum, as they are with the default settings; rechallenge.go:90-92 says that the door is not
  closed to it. The run `door` with `MaxDifficulty = 14` shows `StillGood` violated.

## 6. Plan

1. Done: all modules of section 2, and theorems for every safety property the passing runs check.
2. Next: abstract specifications worth refining besides `WaitingLine` (a counter of allowed seats for
   `AdmissionController`, a ledger for `Shop`), with the mappings proved.
3. Compositions: several shards of `ShardQueue` under one controller; `Scorer` over the ladder of
   `ShardQueue`; clocks that differ in `ShardQueue`.
