-------------------------- MODULE AdmissionController --------------------------
(***************************************************************************)
(* The admission controller (internal/admission/controller.go): one         *)
(* goroutine that, once per interval, looks at the downstream through a     *)
(* circuit breaker, decides how many seats to hand out, reads the length of *)
(* every shard and refills the shards one after the other.  Each Redis or   *)
(* HTTP call is a step of its own: people join, enter and leave in between, *)
(* and every call may fail.  A shard is here only its length and its        *)
(* budget; ShardQueue has the rest of it.                                   *)
(***************************************************************************)
EXTENDS Integers, FiniteSets, FiniteSetsExt

CONSTANTS
  NumShards,               \* registered shards, in the order of their names
  RatePerMin, IntervalSec, \* seats per minute; seconds per cycle
  MinPercent,              \* BackpressureMin, in percent
  Slowed,                  \* factors, in percent, of slow but healthy answers
  Threshold, Cooldown,     \* the breaker
  Cap, BudgetTTL,
  MaxWaiting, MaxJoins     \* bounds: length of a line, arrivals in all

Shards == 1 .. NumShards

ASSUME RateAssumption ==
  /\ NumShards \in Nat \ {0}
  /\ RatePerMin \in Nat \ {0} /\ IntervalSec \in Nat \ {0}
  /\ MinPercent \in 1 .. 100 /\ Slowed \subseteq MinPercent .. 100
ASSUME BreakerAssumption == Threshold \in Nat \ {0} /\ Cooldown \in Nat
ASSUME LimitsAssumption ==
  /\ Cap \in Nat \ {0} /\ BudgetTTL \in Nat \ {0}
  /\ MaxWaiting \in Nat /\ MaxJoins \in Nat

VARIABLES
  breaker,   \* [state, failures, since]: since is the time since it opened
  healthy,   \* does the downstream answer?
  gated,     \* ADMIT_AFTER_LOTTERY is set and the lottery window is open
  waiting,   \* shard -> members of its line
  budget,    \* shard -> [left, ttl]
  joins,     \* arrivals so far
  step,      \* where Cycle is: "idle", "read" or "refill"
  percent,   \* the factor of this cycle
  seen,      \* shard -> length read in this cycle
  plan,      \* shard -> seats this cycle gives it
  todo       \* shards still to be read, or to be refilled

vars == <<breaker, healthy, gated, waiting, budget, joins, step, percent, seen, plan, todo>>
cycleVars == <<step, percent, seen, plan, todo>>

Nothing == [s \in Shards |-> 0]
NoBudget == [left |-> 0, ttl |-> 0]
Lesser(a, b) == IF a < b THEN a ELSE b
Total(f) == MapThenSumSet(LAMBDA s : f[s], Shards)

Init ==
  /\ breaker = [state |-> "closed", failures |-> 0, since |-> 0]
  /\ healthy = TRUE
  /\ gated \in BOOLEAN
  /\ waiting = Nothing
  /\ budget = [s \in Shards |-> NoBudget]
  /\ joins = 0
  /\ step = "idle" /\ percent = 0
  /\ seen = Nothing /\ plan = Nothing /\ todo = {}

-------------------------------------------------------------------------------
(* Breaker; failures stops at the threshold, the only value it is compared with *)

BreakerState(b) ==
  IF b.state = "open" /\ b.since >= Cooldown THEN [b EXCEPT !.state = "half_open"] ELSE b

BreakerSuccess(b) == [b EXCEPT !.state = "closed", !.failures = 0]

\* Mutant: the threshold is compared with the failures before this one.
BreakerFailureLate(b) ==
  IF b.state = "half_open" \/ b.failures >= Threshold
  THEN [b EXCEPT !.state = "open", !.since = 0]
  ELSE [b EXCEPT !.failures = Lesser(@ + 1, Threshold)]

BreakerFailure(b) ==
  LET n == Lesser(b.failures + 1, Threshold)
  IN  IF b.state = "half_open" \/ n >= Threshold
      THEN [state |-> "open", failures |-> n, since |-> 0]
      ELSE [b EXCEPT !.failures = n]

-------------------------------------------------------------------------------
(* How many seats, and for whom *)

\* math.Round(rate * factor * minutes): half a seat is a seat.
\* Mutant: the fraction is cut off.
PerCycleCut(p) == (RatePerMin * p * IntervalSec) \div 6000

PerCycle(p) ==
  LET n == RatePerMin * p * IntervalSec
  IN  (2 * n + 6000) \div 12000

\* Largest remainders: every shard with people gets the whole part of its exact
\* share, and the seats left over go one each to the largest remainders.  Equal
\* remainders of equal weights go by the order of the shards; equal remainders
\* of different weights are told apart by the rounding of float64, so either
\* may be served.
Whole(total, w, s) == (total * w[s]) \div Total(w)
Rest(total, w, s)  == (total * w[s]) % Total(w)
Sharing(w) == {s \in Shards : w[s] > 0}

Served(total, w) ==
  LET before(s, t) == \/ Rest(total, w, s) > Rest(total, w, t)
                      \/ /\ Rest(total, w, s) = Rest(total, w, t)
                         /\ w[s] # w[t] \/ s < t
      left == total - Total([s \in Shards |-> Whole(total, w, s)])
  IN  {extra \in SUBSET Sharing(w) :
         /\ Cardinality(extra) = left
         /\ \A s \in extra, t \in Sharing(w) \ extra : before(s, t)}

\* Mutants: fractions cut off; fractions rounded up.
ApportionCut(total, w) ==
  IF total <= 0 \/ Total(w) = 0 THEN {Nothing}
  ELSE {[s \in Shards |-> Whole(total, w, s)]}
ApportionUp(total, w) ==
  IF total <= 0 \/ Total(w) = 0 THEN {Nothing}
  ELSE {[s \in Shards |-> Whole(total, w, s) + (IF Rest(total, w, s) > 0 THEN 1 ELSE 0)]}

Apportion(total, w) ==
  IF total <= 0 \/ Total(w) = 0 THEN {Nothing}
  ELSE {[s \in Shards |-> Whole(total, w, s) + (IF s \in extra THEN 1 ELSE 0)] :
          extra \in Served(total, w)}

-------------------------------------------------------------------------------
(* Cycle *)

\* pressure with a breaker that is still open: the downstream is not asked.
PressureOpen ==
  /\ BreakerState(breaker).state = "open"
  /\ percent' = 0
  /\ UNCHANGED breaker

PressureFailed ==
  LET asked == BreakerState(breaker)
      after == BreakerState(BreakerFailure(asked))
  IN  /\ asked.state # "open"
      /\ ~healthy
      /\ breaker' = after
      /\ percent' = IF after.state = "open" THEN 0 ELSE MinPercent

PressureAnswered ==
  LET asked == BreakerState(breaker)
  IN  /\ asked.state # "open"
      /\ healthy
      /\ breaker' = BreakerSuccess(asked)
      /\ IF asked.state = "half_open" THEN percent' = MinPercent
         ELSE percent' \in Slowed \cup {100}

\* A gated cycle does nothing at all, not even ask the downstream.
Pressure ==
  /\ step = "idle"
  /\ ~gated
  /\ PressureOpen \/ PressureFailed \/ PressureAnswered
  /\ step' = "read"
  /\ todo' = Shards
  /\ seen' = Nothing /\ plan' = Nothing
  /\ UNCHANGED <<healthy, gated, waiting, budget, joins>>

\* The lengths come from different slots, one by one.
ReadSize(s) ==
  /\ step = "read"
  /\ s \in todo
  /\ todo' = todo \ {s}
  /\ seen' = [seen EXCEPT ![s] = waiting[s]]
  /\ UNCHANGED <<breaker, healthy, gated, waiting, budget, joins, step, percent, plan>>

\* The end of a cycle; nothing of it is remembered.
Return ==
  /\ step' = "idle" /\ percent' = 0
  /\ seen' = Nothing /\ plan' = Nothing /\ todo' = {}

\* Cycle returns the error; the next interval tries again.
ReadFails ==
  /\ step = "read" /\ todo # {}
  /\ Return
  /\ UNCHANGED <<breaker, healthy, gated, waiting, budget, joins>>

\* An empty shard that gets nothing is passed over: it is not refilled at all.
Due(grants) == {s \in Shards : ~(seen[s] = 0 /\ grants[s] = 0)}

Plan ==
  /\ step = "read" /\ todo = {}
  /\ \E grants \in Apportion(PerCycle(percent), seen) :
       \/ Due(grants) = {} /\ Return
       \/ /\ Due(grants) # {}
          /\ plan' = grants
          /\ todo' = Due(grants)
          /\ step' = "refill"
          /\ UNCHANGED <<percent, seen>>
  /\ UNCHANGED <<breaker, healthy, gated, waiting, budget, joins>>

\* The loop over the shards goes on after a refill, failed or not.
Advance ==
  /\ step = "refill"
  /\ \/ todo = {Min(todo)} /\ Return
     \/ /\ todo # {Min(todo)}
        /\ todo' = todo \ {Min(todo)}
        /\ UNCHANGED <<step, percent, seen, plan>>
  /\ UNCHANGED <<breaker, healthy, gated, waiting, joins>>

\* Mutant: no cap.
RefillToUncapped(s) == [left |-> Lesser(budget[s].left + plan[s], waiting[s]), ttl |-> BudgetTTL]

RefillTo(s) ==
  [left |-> Lesser(Lesser(budget[s].left + plan[s], Cap), waiting[s]), ttl |-> BudgetTTL]

RefillNext ==
  /\ Advance
  /\ budget' = [budget EXCEPT ![Min(todo)] = RefillTo(Min(todo))]

RefillFails == Advance /\ UNCHANGED budget

-------------------------------------------------------------------------------
(* Around the controller *)

Join(s) ==
  /\ waiting[s] < MaxWaiting /\ joins < MaxJoins
  /\ waiting' = [waiting EXCEPT ![s] = @ + 1]
  /\ joins' = joins + 1
  /\ UNCHANGED <<breaker, healthy, gated, budget, cycleVars>>

Enter(s) ==
  /\ waiting[s] > 0 /\ budget[s].left > 0
  /\ waiting' = [waiting EXCEPT ![s] = @ - 1]
  /\ budget' = [budget EXCEPT ![s].left = @ - 1]
  /\ UNCHANGED <<breaker, healthy, gated, joins, cycleVars>>

Leave(s) ==
  /\ waiting[s] > 0
  /\ waiting' = [waiting EXCEPT ![s] = @ - 1]
  /\ UNCHANGED <<breaker, healthy, gated, budget, joins, cycleVars>>

Downstream ==
  /\ healthy' = ~healthy
  /\ UNCHANGED <<breaker, gated, waiting, budget, joins, cycleVars>>

GateOpens ==
  /\ gated /\ gated' = FALSE
  /\ UNCHANGED <<breaker, healthy, waiting, budget, joins, cycleVars>>

Tick ==
  /\ breaker' = [breaker EXCEPT !.since = Lesser(@ + 1, Cooldown)]
  /\ budget' = [s \in Shards |->
       IF budget[s].ttl <= 1 THEN NoBudget ELSE [budget[s] EXCEPT !.ttl = @ - 1]]
  /\ UNCHANGED <<healthy, gated, waiting, joins, cycleVars>>

Next ==
  \/ Pressure
  \/ \E s \in Shards : ReadSize(s) \/ Join(s) \/ Enter(s) \/ Leave(s)
  \/ ReadFails \/ Plan \/ RefillNext \/ RefillFails
  \/ Downstream \/ GateOpens \/ Tick

Spec == Init /\ [][Next]_vars

-------------------------------------------------------------------------------
(* Properties *)

\* The controller's own state and the keys it writes; no budget beyond the cap.
TypeOK ==
  /\ breaker \in [state : {"closed", "open", "half_open"},
                  failures : 0 .. Threshold, since : 0 .. Cooldown]
  /\ healthy \in BOOLEAN /\ gated \in BOOLEAN
  /\ waiting \in [Shards -> 0 .. MaxWaiting]
  /\ budget \in [Shards -> [left : 0 .. Cap, ttl : 0 .. BudgetTTL]]
  /\ joins \in 0 .. MaxJoins
  /\ step \in {"idle", "read", "refill"}
  /\ percent \in {0, MinPercent, 100} \cup Slowed
  /\ seen \in [Shards -> 0 .. MaxWaiting]
  /\ plan \in [Shards -> Nat]
  /\ todo \in SUBSET Shards

\* A cycle hands out neither more nor fewer seats than the rate allows, and
\* never strays a whole seat from a shard's exact share (apportion: plain
\* rounding would lose seats in every cycle).
PlanExact ==
  step = "refill" =>
    /\ Total(plan) = PerCycle(percent)
    /\ \A s \in Shards :
         LET error == plan[s] * Total(seen) - PerCycle(percent) * seen[s]
         IN  -Total(seen) < error /\ error < Total(seen)
===============================================================================
