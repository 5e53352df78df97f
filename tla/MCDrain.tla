-------------------------------- MODULE MCDrain --------------------------------
(* Does the line drain?  Controller, sweeper and users of three kinds together:
   the silent ones join and are never heard of again, the patient ones keep the
   page open, the rest come and go as they like. *)
EXTENDS ShardQueue

CONSTANTS Silent, Patient

ASSUME KindsAssumption == Silent \subseteq Tokens /\ Patient \subseteq Tokens \ Silent

\* Time, with the periodic work done when it is due: the controller refills
\* within the life of the budget key (four intervals) and an open page sends
\* its heartbeat before it is stale (three intervals).
TimelyTick ==
  /\ budget.ttl # 1
  /\ \A u \in Patient : user[u].state = "waiting" => user[u].idle < StaleAfter
  /\ Tick

DrainNext ==
  \/ \E u \in Tokens, d \in Draws : EnqueueNew(u, d)
  \/ \E u \in Tokens \ Silent : Heartbeat(u)
  \/ \E u \in Tokens \ Silent, j \in Jtis : Admit(u, j)
  \/ \E g \in Grants : Refill(g)
  \/ Sweep
  \/ TimelyTick
  \/ CloseLottery

\* Fair: the two tickers, the clock, and the heartbeats of the patient.  A page
\* that comes back again and again also polls its turn (a page that only sent
\* heartbeats would keep its seat from everybody behind it).
DrainSpec ==
  /\ Init /\ [][DrainNext]_vars
  /\ WF_vars(TimelyTick) /\ WF_vars(CloseLottery) /\ WF_vars(Sweep)
  /\ \A g \in Grants : WF_vars(Refill(g))
  /\ \A u \in Patient : WF_vars(Heartbeat(u))
  /\ \A u \in Tokens \ Silent : SF_vars(\E j \in Jtis : Admit(u, j))

\* Whoever keeps the page open gets in.  Seats that the observation gate puts
\* off are not lost, and abandoned members at the head of the line, who fill
\* the seats that cap and queue length leave, are swept away in time
\* (admit.lua lines 23-26, refill_budget.lua, evict.lua).
PatientGetIn ==
  \A u \in Patient : (user[u].state = "waiting") ~> (user[u].state = "admitted")

\* A silent token does not keep its place: paged as it is, and with members
\* shifting under the cursor when others are removed, the sweep reaches every
\* abandoned member, and every ghost whose hash expired before it was reached
\* (evict.lua, heartbeat.lua line 4).
AbandonedLeave ==
  \A u \in Silent : (queue[u] # Absent) ~> (queue[u] = Absent)
===============================================================================
