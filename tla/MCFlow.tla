-------------------------------- MODULE MCFlow --------------------------------
(* AdmissionController with a memory of what its cycles were allowed to give,
   and with people who keep polling. *)
EXTENDS AdmissionController

VARIABLES
  misses,   \* health checks failed in a row, up to the threshold
  credit    \* seats the cycles were allowed, less the seats taken

\* More credit than every shard full and one cycle more cannot be used.
CreditCap == NumShards * Cap + PerCycle(100)

Asked   == step = "idle" /\ step' = "read" /\ BreakerState(breaker).state # "open"
Begun   == step = "idle" /\ step' = "read"
Entered == waiting' # waiting /\ budget' # budget

RateInit == Init /\ misses = 0 /\ credit = 0

RateNext ==
  /\ Next
  /\ misses' = IF ~Asked THEN misses ELSE IF healthy THEN 0 ELSE Lesser(misses + 1, Threshold)
  /\ credit' = IF Begun THEN Lesser(credit + PerCycle(percent'), CreditCap)
               ELSE IF Entered THEN credit - 1 ELSE credit

\* The ticker of Run fires for ever and time passes.  Refills and users are
\* strongly fair: a refill that is tried in cycle after cycle succeeds at last,
\* and a page polls several times in the life of a budget key.
FlowSpec ==
  /\ RateInit /\ [][RateNext]_<<vars, misses, credit>>
  /\ WF_vars(Pressure) /\ WF_vars(Plan) /\ WF_vars(Tick) /\ WF_vars(GateOpens)
  /\ \A s \in Shards :
       /\ WF_vars(ReadSize(s))
       /\ SF_vars(RefillNext /\ s = Min(todo))
       /\ SF_vars(Enter(s))

\* The rate holds over any number of cycles: the seats lying ready never exceed
\* what the cycles were allowed in all less what was taken, although refills
\* fail, lengths are stale when used and unused seats pile up (Cycle,
\* refill_budget.lua).
RateHeld == Total([s \in Shards |-> budget[s].left]) <= credit

\* Once the downstream failed to answer Threshold times in a row, no shard gets
\* one more seat until an answer comes, through any number of half-open trials
\* (Breaker.State, Breaker.Failure, pressure).
StopsWhenDown ==
  [][misses = Threshold => \A s \in Shards : budget'[s].left <= budget[s].left]_<<vars, misses, credit>>

\* Cycle after cycle, Redis now and then returns every length.
LengthsRead == step = "read" /\ todo = {}

\* When the downstream stays up from some moment on, every shard empties: the
\* breaker closes again, the largest remainders leave no shard behind for ever,
\* and seats that were clipped, lapsed or never written are granted again
\* (Cycle, Breaker, apportion).
Drains ==
  <>[]healthy /\ []<>LengthsRead => \A s \in Shards : waiting[s] > 0 ~> waiting[s] = 0
===============================================================================
