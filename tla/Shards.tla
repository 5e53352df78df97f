-------------------------------- MODULE Shards --------------------------------
(* Which shard a newcomer is sent to, and who knows that the shard exists.     *)
(* Every gate process has its own number of shards, which grows with the       *)
(* waiting people, and its own memo of the shards it has put on the list.      *)
(* Controller, sweeper and grower find shards by that list and by nothing      *)
(* else; the list may be lost while the lines stay.                            *)
EXTENDS Integers, FiniteSets, FiniteSetsExt

CONSTANTS
  Gates,
  Hashes,            \* what the keyed hash of a new token id may come to
  ShardCount,        \* SHARD_COUNT: shards of a gate that has just started
  MaxShardCount,
  ShardSize,         \* people a shard is meant for
  ReregisterAfter,   \* how long a memo is believed
  RoundTrip,         \* bound: time from the effect of SADD to the memo (client timeouts)
  MaxPeople,         \* bound: people in line
  MaxLosses          \* bound: times the list is lost

ValidEvent ==
  /\ ShardCount \in Nat /\ ShardCount > 0
  /\ MaxShardCount \in Nat /\ ShardCount <= MaxShardCount
  /\ ShardSize \in Nat /\ ShardSize > 0

ASSUME EventAssumption == ValidEvent
ASSUME HashAssumption == Hashes \subseteq Nat
ASSUME ReregisterAssumption == ReregisterAfter \in Nat \ {0} /\ RoundTrip \in Nat
ASSUME BoundsAssumption == MaxPeople \in Nat /\ MaxLosses \in Nat

VARIABLES
  size,       \* people waiting in each shard's line
  listed,     \* shards:{event}
  count,      \* each gate's number of shards
  memo,       \* age of each gate's memo of a shard, ReregisterAfter when it has none
  request,    \* the entry each gate is serving; age is the time since its SADD, calm
              \* says that it looked at the memo long after the last loss (history)
  sinceLoss,  \* time since the list was lost, up to LongAgo (history)
  losses

vars == <<size, listed, count, memo, request, sinceLoss, losses>>

ShardIDs == 0..(MaxShardCount - 1)
NoRequest == [step |-> "none", shard |-> 0, age |-> 0, calm |-> FALSE]
NoMemo == [s \in ShardIDs |-> ReregisterAfter]
LongAgo == ReregisterAfter + RoundTrip

Init ==
  /\ size = [s \in ShardIDs |-> 0]
  /\ listed = {}
  /\ count = [g \in Gates |-> ShardCount]
  /\ memo = [g \in Gates |-> NoMemo]
  /\ request = [g \in Gates |-> NoRequest]
  /\ sinceLoss = LongAgo
  /\ losses = 0

-------------------------------------------------------------------------------
(* An entry: assignment, the list, the line *)

IndexBeyond(g, h) == h % (count[g] + 1)
Index(g, h) == h % count[g]

Assign(g, h) ==
  /\ request[g] = NoRequest
  /\ request' = [request EXCEPT ![g].step = "register", ![g].shard = Index(g, h)]
  /\ UNCHANGED <<size, listed, count, memo, sinceLoss, losses>>

Calm == sinceLoss = LongAgo

Remembered(g, s) == memo[g][s] < ReregisterAfter

\* registerShard: nothing to do, or SADD and, when its answer is there, the memo.
Known(g) ==
  /\ request[g].step = "register" /\ Remembered(g, request[g].shard)
  /\ request' = [request EXCEPT ![g].step = "enqueue", ![g].calm = Calm]
  /\ UNCHANGED <<size, listed, count, memo, sinceLoss, losses>>

SAdd(g) ==
  /\ request[g].step = "register" /\ ~Remembered(g, request[g].shard)
  /\ listed' = listed \cup {request[g].shard}
  /\ request' = [request EXCEPT ![g].step = "remember", ![g].calm = Calm]
  /\ UNCHANGED <<size, count, memo, sinceLoss, losses>>

Remember(g) ==
  /\ request[g].step = "remember"
  /\ memo' = [memo EXCEPT ![g][request[g].shard] = 0]
  /\ request' = [request EXCEPT ![g].step = "enqueue", ![g].age = 0]
  /\ UNCHANGED <<size, listed, count, sinceLoss, losses>>

People(shards) == MapThenSumSet(LAMBDA s : size[s], shards)

Enqueue(g) ==
  LET s == request[g].shard IN
    /\ request[g].step = "enqueue" /\ People(ShardIDs) < MaxPeople
    /\ size' = [size EXCEPT ![s] = @ + 1]
    /\ request' = [request EXCEPT ![g] = NoRequest]
    /\ UNCHANGED <<listed, count, memo, sinceLoss, losses>>

\* A call that fails, SADD after its effect included, ends the entry with
\* nobody in line.
GivenUpMemo(g) ==
  IF request[g].step = "register" THEN [memo[g] EXCEPT ![request[g].shard] = 0] ELSE memo[g]
MemoAfterError(g) == memo[g]

GiveUp(g) ==
  /\ request[g].step \in {"register", "remember", "enqueue"}
  /\ memo' = [memo EXCEPT ![g] = MemoAfterError(g)]
  /\ request' = [request EXCEPT ![g] = NoRequest]
  /\ UNCHANGED <<size, listed, count, sinceLoss, losses>>

-------------------------------------------------------------------------------
(* The grower of each gate *)

\* TotalWaiting: the shards on the list only.
Waiting == People(listed)

NeedCut(waiting) == IF waiting < ShardSize THEN 1 ELSE waiting \div ShardSize
Need(waiting) == IF waiting = 0 THEN 1 ELSE (waiting + ShardSize - 1) \div ShardSize

Grow(g, n) == IF n <= count[g] THEN count[g] ELSE n

Capacity(g, waiting) ==
  IF Need(waiting) > MaxShardCount THEN Grow(g, MaxShardCount) ELSE Grow(g, Need(waiting))

\* One turn; a read that fails skips it.  What was read a moment ago can only
\* raise the number to what was needed then.
GrowOnce(g) ==
  /\ count' = [count EXCEPT ![g] = Capacity(g, Waiting)]
  /\ UNCHANGED <<size, listed, memo, request, sinceLoss, losses>>

-------------------------------------------------------------------------------
(* Others *)

\* Admission and sweep take people out of the shards they find on the list.
Depart(s) ==
  /\ s \in listed /\ size[s] > 0
  /\ size' = [size EXCEPT ![s] = @ - 1]
  /\ UNCHANGED <<listed, count, memo, request, sinceLoss, losses>>

Lose ==
  /\ losses < MaxLosses
  /\ losses' = losses + 1
  /\ listed' = {}
  /\ sinceLoss' = 0
  /\ request' = [g \in Gates |-> [request[g] EXCEPT !.calm = FALSE]]
  /\ UNCHANGED <<size, count, memo>>

Restart(g) ==
  /\ count' = [count EXCEPT ![g] = ShardCount]
  /\ memo' = [memo EXCEPT ![g] = NoMemo]
  /\ request' = [request EXCEPT ![g] = NoRequest]
  /\ UNCHANGED <<size, listed, sinceLoss, losses>>

OlderNever(x, most) == x
Older(x, most) == IF x = most THEN x ELSE x + 1

\* SADD is answered, or has failed, within a round trip.
Tick ==
  /\ \A g \in Gates : request[g].step = "remember" => request[g].age < RoundTrip
  /\ memo' = [g \in Gates |-> [s \in ShardIDs |-> Older(memo[g][s], ReregisterAfter)]]
  /\ request' = [g \in Gates |->
       [request[g] EXCEPT !.age = IF request[g].step = "remember" THEN @ + 1 ELSE @]]
  /\ sinceLoss' = Older(sinceLoss, LongAgo)
  /\ UNCHANGED <<size, listed, count, losses>>

-------------------------------------------------------------------------------

Next ==
  \/ \E g \in Gates, h \in Hashes : Assign(g, h)
  \/ \E g \in Gates : Known(g) \/ SAdd(g) \/ Remember(g) \/ Enqueue(g) \/ GiveUp(g)
  \/ \E g \in Gates : GrowOnce(g) \/ Restart(g)
  \/ \E s \in ShardIDs : Depart(s)
  \/ Lose
  \/ Tick

\* Handlers and growers run to their end and time passes.  People keep coming
\* to the shards every gate knows of, and not every entry there is cut off by
\* an error or a restart.
Fairness ==
  /\ SF_vars(Tick)
  /\ \A g \in Gates : WF_vars(Known(g) \/ Remember(g) \/ GiveUp(g)) /\ SF_vars(GrowOnce(g))
  /\ \A s \in 0..(ShardCount - 1) :
       /\ SF_vars(\E g \in Gates, h \in Hashes : Index(g, h) = s /\ Assign(g, h))
       /\ SF_vars(\E g \in Gates : request[g].shard = s /\ SAdd(g))

Spec == Init /\ [][Next]_vars /\ Fairness

-------------------------------------------------------------------------------
(* Properties *)

\* The types; a gate's number of shards stays between the configured ones
\* (shard.go, EnsureCapacity), which the partitions of the log rely on, and an
\* entry is for a shard that exists.
TypeOK ==
  /\ size \in [ShardIDs -> Nat]
  /\ listed \subseteq ShardIDs
  /\ count \in [Gates -> ShardCount..MaxShardCount]
  /\ memo \in [Gates -> [ShardIDs -> 0..ReregisterAfter]]
  /\ request \in [Gates -> [step : {"none", "register", "remember", "enqueue"},
                            shard : ShardIDs, age : 0..RoundTrip, calm : BOOLEAN]]
  /\ sinceLoss \in 0..LongAgo
  /\ losses \in 0..MaxLosses

\* Nobody is put in line where nobody looks (queue.go, Enqueue): a newcomer's
\* shard is on the list, unless the list was lost later than ReregisterAfter and
\* one round trip before the entry (the memo is stamped when SADD is answered),
\* however gates, failures and restarts interleave.
NewcomersFound ==
  \A g \in Gates : request[g].step = "enqueue" /\ request[g].calm => request[g].shard \in listed

\* A lost list heals (queue.go, reregisterAfter): while people keep coming, the
\* shards that still have people in them are found again.
Relisted == \A s \in ShardIDs : s < ShardCount => (size[s] > 0 ~> s \in listed)

\* Growth keeps up (grower.go): as long as more people wait on the list than n
\* shards are meant for, every gate gets beyond n shards, up to the maximum, and
\* gets there again after each restart that threw it back to SHARD_COUNT.
KeepsUp ==
  \A g \in Gates : \A n \in ShardCount..(MaxShardCount - 1) :
    <>[](Waiting > n * ShardSize) => []<>(count[g] > n)
===============================================================================
