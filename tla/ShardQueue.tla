------------------------------ MODULE ShardQueue ------------------------------
(***************************************************************************)
(* The waiting line of one shard: the Redis keys of one hash slot and the  *)
(* Lua scripts under scripts/lua/ that are the only writers of them.  Redis *)
(* runs a script to its end before the next, so one script is one action;   *)
(* what interleaves are the callers: API replicas (enqueue, heartbeat,      *)
(* admit, redeem, rechallenge), the sweeper, the admission controller       *)
(* (refill) and the scorer's actuator (apply_action, move_shard,            *)
(* restore_shard).  A script that returns without a write is a stutter.     *)
(*                                                                         *)
(* Timestamps are kept as ages, so that time may run for ever: idle is      *)
(* now - last_seen, grace is evict_at - now, watched is now minus the       *)
(* observation clock (observe_from, or joined_at before the first return),  *)
(* beats is hb_count - hb_base.  An age stops at the largest value that     *)
(* any comparison in the scripts can tell from a larger one.  ttl is the    *)
(* time left to a key; at 0 Redis has dropped the key.                      *)
(***************************************************************************)
EXTENDS Integers, FiniteSets

CONSTANTS
  Tokens,        \* queue token ids, ordered as Redis orders members of equal score
  Jtis, NoJti,   \* ids the server may mint for entry tokens; the missing one
  Draws,         \* lottery ranks the gate may draw
  LotteryBand,   \* first score behind every lottery rank
  MaxAttempts,   \* re-challenges that lead back to the line
  MinDwell, MinBeats,                          \* the observation gate
  StaleAfter, Grace,                           \* soft eviction
  SweepBatch,    \* members one sweep looks at
  UserTTL, EvictedTTL, EntryTTL, BudgetTTL,
  Cap,           \* most seats a shard may hold
  Grants,        \* seats one refill may bring
  MaxSeq         \* bound: arrivals in the FIFO segment

ASSUME TokensAssumption == Tokens \subseteq Nat /\ IsFiniteSet(Tokens)
ASSUME JtisAssumption == NoJti \notin Jtis
ASSUME RanksAssumption ==
  /\ LotteryBand \in Nat /\ MaxSeq \in Nat
  /\ Draws \subseteq 0 .. (LotteryBand - 1)
ASSUME AttemptsAssumption == MaxAttempts \in Nat \ {0}
ASSUME TimesAssumption ==
  /\ {MinDwell, MinBeats, StaleAfter, Grace} \subseteq Nat
  /\ {UserTTL, EvictedTTL, EntryTTL, BudgetTTL} \subseteq Nat \ {0}
ASSUME SeatsAssumption ==
  /\ Cap \in Nat \ {0} /\ SweepBatch \in Nat \ {0}
  /\ Grants \subseteq Nat

VARIABLES
  user,       \* token -> its state hash
  queue,      \* token -> score in the shard's ZSET, or Absent
  grey,       \* token -> score in the greylist ZSET, or Absent
  hold,       \* token -> score in the hold ZSET, or Absent
  seq,        \* FIFO counter
  lottery,    \* is now before the end of the lottery window?
  budget,     \* [left, ttl]: seats, and the time left to the key
  entry,      \* jti -> [owner, ttl] of a live entry token
  minted,     \* jti -> the token it was ever issued to (never forgotten)
  cursor      \* offset of the sweeper's next sweep

vars == <<user, queue, grey, hold, seq, lottery, budget, entry, minted, cursor>>

-------------------------------------------------------------------------------
Absent == -1
Nobody == -1

Live == {"waiting", "evicting", "evicted", "greylist", "held", "blocked", "admitted"}

\* "none": no hash yet, or an evicted one that was forgotten.  "retired": the
\* hash outlived its TTL; the signed queue token has the same lifetime from an
\* earlier start, so nobody can speak for the token any more.
NoUser == [state |-> "none", rank |-> Absent, idle |-> 0, grace |-> 0, watched |-> 0,
           beats |-> 0, attempts |-> 0, jti |-> NoJti, ttl |-> 0]
Retired == [NoUser EXCEPT !.state = "retired"]

NoEntry == [owner |-> Nobody, ttl |-> 0]

IdleCap == StaleAfter + Grace + 1
Least(a, b) == IF a < b THEN a ELSE b
Most(a, b)  == IF a < b THEN b ELSE a

HasState(u) == user[u].state \in Live

Members(z) == {u \in Tokens : z[u] # Absent}

\* Members that a ZSET orders before u: lower score, or equal score and a
\* smaller member.
Ahead(z, u) ==
  {v \in Members(z) : z[v] < z[u] \/ (z[v] = z[u] /\ v < u)}

ZCard(z) == Cardinality(Members(z))
ZRank(z, u) == Cardinality(Ahead(z, u))

Init ==
  /\ user   = [u \in Tokens |-> NoUser]
  /\ queue  = [u \in Tokens |-> Absent]
  /\ grey   = [u \in Tokens |-> Absent]
  /\ hold   = [u \in Tokens |-> Absent]
  /\ seq    = 0
  /\ lottery = TRUE
  /\ budget = [left |-> 0, ttl |-> 0]
  /\ entry  = [j \in Jtis |-> NoEntry]
  /\ minted = [j \in Jtis |-> Nobody]
  /\ cursor = 0

-------------------------------------------------------------------------------
(* enqueue.lua *)

\* A token that stands in line already: its place stays, the signal is fresh.
EnqueueExists(u) ==
  /\ user[u].state \in {"waiting", "evicting"}
  /\ user' = [user EXCEPT ![u].idle = 0, ![u].ttl = UserTTL]
  /\ UNCHANGED <<queue, grey, hold, seq, lottery, budget, entry, minted, cursor>>

Join(u, r) ==
  /\ queue' = [queue EXCEPT ![u] = r]
  /\ user'  = [user EXCEPT ![u] = [NoUser EXCEPT !.state = "waiting", !.rank = r, !.ttl = UserTTL]]
  /\ UNCHANGED <<grey, hold, lottery, budget, entry, minted, cursor>>

\* A new or an evicted token gets a new place: drawn while the lottery runs,
\* in order of arrival behind every drawn one afterwards.
EnqueueNew(u, draw) ==
  /\ user[u].state \in {"none", "evicted"}
  /\ \/ /\ lottery
        /\ Join(u, draw)
        /\ UNCHANGED seq
     \/ /\ ~lottery
        /\ seq < MaxSeq
        /\ seq' = seq + 1
        /\ Join(u, LotteryBand + seq + 1)

Enqueue(u, draw) == EnqueueExists(u) \/ EnqueueNew(u, draw)

-------------------------------------------------------------------------------
(* heartbeat.lua: counts in every state, revives a token in its grace *)

\* Mutant: a signal in the grace period does not revive.
BeatenNotRevived(r) ==
  [r EXCEPT !.idle = 0, !.beats = Least(@ + 1, MinBeats), !.ttl = UserTTL]

Beaten(r) ==
  [r EXCEPT !.state = IF @ = "evicting" THEN "waiting" ELSE @,
            !.grace = IF r.state = "evicting" THEN 0 ELSE @,
            !.idle  = 0,
            !.beats = Least(@ + 1, MinBeats),
            !.ttl   = UserTTL]

Heartbeat(u) ==
  /\ HasState(u)
  /\ user' = [user EXCEPT ![u] = Beaten(user[u])]
  /\ UNCHANGED <<queue, grey, hold, seq, lottery, budget, entry, minted, cursor>>

-------------------------------------------------------------------------------
(* evict.lua, called by Sweeper.once with the cursor of the last call *)

SweepOffset == IF cursor >= ZCard(queue) THEN 0 ELSE cursor

SweepPage == {u \in Members(queue) :
                ZRank(queue, u) \in SweepOffset .. (SweepOffset + SweepBatch - 1)}

\* Mutant: a member whose hash has expired is passed over.
GhostsKept(page) == {}

Ghosts(page)  == {u \in page : ~HasState(u)}
Expired(page) == {u \in page : user[u].state = "evicting" /\ user[u].grace = 0}
Stale(page)   == {u \in page : user[u].state = "waiting" /\ user[u].idle > StaleAfter}

SweepCursor(page) ==
  LET next == SweepOffset + Cardinality(page)
  IN  IF next >= ZCard(queue) THEN 0 ELSE next

Sweep ==
  LET page == SweepPage
  IN  /\ queue' = [u \in Tokens |-> IF u \in Ghosts(page) \cup Expired(page)
                                    THEN Absent ELSE queue[u]]
      /\ user'  = [u \in Tokens |->
                     CASE u \in Expired(page) ->
                            [user[u] EXCEPT !.state = "evicted", !.ttl = EvictedTTL]
                       [] u \in Stale(page) ->
                            [user[u] EXCEPT !.state = "evicting", !.grace = Grace]
                       [] OTHER -> user[u]]
      /\ cursor' = SweepCursor(page)
      /\ UNCHANGED <<grey, hold, seq, lottery, budget, entry, minted>>

-------------------------------------------------------------------------------
(* refill_budget.lua, admit.lua, redeem.lua *)

\* Mutants: no clipping at all; clipping one below the length of the line.
RefilledUnclipped(grant) == budget.left + grant
RefilledShort(grant) == Least(Least(budget.left + grant, Cap), Most(ZCard(queue) - 1, 0))

Refilled(grant) == Least(Least(budget.left + grant, Cap), ZCard(queue))

Refill(grant) ==
  /\ budget' = [left |-> Refilled(grant), ttl |-> BudgetTTL]
  /\ UNCHANGED <<user, queue, grey, hold, seq, lottery, entry, minted, cursor>>

\* The observation gate.
Observed(u) == user[u].watched >= MinDwell /\ user[u].beats >= MinBeats

\* Mutants: one rank too many; members of equal score not told apart.
EligibleOneMore(u) == queue[u] # Absent /\ ZRank(queue, u) <= budget.left
EligibleTied(u) ==
  queue[u] # Absent /\ Cardinality({v \in Members(queue) : queue[v] < queue[u]}) < budget.left

Eligible(u) == queue[u] # Absent /\ ZRank(queue, u) < budget.left

\* Mutant: the jti is derived from the token instead of drawn anew.
ExchangeableAgain(u, j) ==
  user[u].state = "waiting" /\ queue[u] # Absent /\ Observed(u) /\ Eligible(u)

\* What the script checks before it writes; a new jti is one never minted.
Exchangeable(u, j) ==
  /\ user[u].state = "waiting"
  /\ queue[u] # Absent
  /\ Observed(u)
  /\ Eligible(u)
  /\ minted[j] = Nobody

\* Mutant: the hash keeps the life it had.
AdmittedNotRenewed(r, j) == [r EXCEPT !.state = "admitted", !.jti = j]

Admitted(r, j) == [r EXCEPT !.state = "admitted", !.jti = j, !.ttl = UserTTL]

TakeSeat == budget' = [budget EXCEPT !.left = @ - 1]

\* First exchange: the seat is taken, the place is given up and the entry
\* token recorded, all in one script.  A retry by an admitted token returns
\* the recorded jti and writes nothing.
Admit(u, j) ==
  /\ Exchangeable(u, j)
  /\ TakeSeat
  /\ queue'  = [queue EXCEPT ![u] = Absent]
  /\ user'   = [user EXCEPT ![u] = Admitted(user[u], j)]
  /\ entry'  = [entry EXCEPT ![j] = [owner |-> u, ttl |-> EntryTTL]]
  /\ minted' = [minted EXCEPT ![j] = u]
  /\ UNCHANGED <<grey, hold, seq, lottery, cursor>>

\* Burning the entry token that was signed for u.
Redeem(u, j) ==
  /\ minted[j] = u
  /\ entry[j].owner = u
  /\ entry' = [entry EXCEPT ![j] = NoEntry]
  /\ UNCHANGED <<user, queue, grey, hold, seq, lottery, budget, minted, cursor>>

-------------------------------------------------------------------------------
(* apply_action.lua, move_shard.lua, restore_shard.lua: the actuator *)

\* Every decision but a restore records its score before anything else, in
\* every state; no script branches on the recorded score, so what is left of
\* the record here is the longer life of the hash.
Recorded(u) == [user[u] EXCEPT !.ttl = UserTTL]

ApplyObserve(u) ==
  /\ HasState(u)
  /\ user' = [user EXCEPT ![u] = Recorded(u)]
  /\ UNCHANGED <<queue, grey, hold, seq, lottery, budget, entry, minted, cursor>>

\* Mutant: the greylist is forgotten.
WithdrawFromLine(u) == queue' = [queue EXCEPT ![u] = Absent] /\ UNCHANGED grey

\* Out of the line and out of the greylist.
Withdraw(u) ==
  /\ queue' = [queue EXCEPT ![u] = Absent]
  /\ grey'  = [grey EXCEPT ![u] = Absent]

ApplyHold(u) ==
  /\ HasState(u)
  /\ \/ /\ user[u].state \in {"blocked", "held"}
        /\ user' = [user EXCEPT ![u] = Recorded(u)]
        /\ UNCHANGED <<queue, grey, hold>>
     \/ /\ user[u].state \notin {"blocked", "held"}
        /\ user'  = [user EXCEPT ![u] = [Recorded(u) EXCEPT !.state = "held"]]
        /\ hold'  = IF queue[u] # Absent \/ grey[u] # Absent
                    THEN [hold EXCEPT ![u] = user[u].rank] ELSE hold
        /\ Withdraw(u)
  /\ UNCHANGED <<seq, lottery, budget, entry, minted, cursor>>

ApplyBlock(u) ==
  /\ HasState(u)
  /\ \/ /\ user[u].state = "blocked"
        /\ user' = [user EXCEPT ![u] = Recorded(u)]
        /\ UNCHANGED <<queue, grey, hold>>
     \/ /\ user[u].state # "blocked"
        /\ user'  = [user EXCEPT ![u] = [Recorded(u) EXCEPT !.state = "blocked"]]
        /\ Withdraw(u)
        /\ hold'  = [hold EXCEPT ![u] = Absent]
  /\ UNCHANGED <<seq, lottery, budget, entry, minted, cursor>>

MoveShard(u) ==
  /\ HasState(u)
  /\ \/ /\ user[u].state \notin {"waiting", "evicting"} \/ queue[u] = Absent
        /\ user' = [user EXCEPT ![u] = Recorded(u)]
        /\ UNCHANGED <<queue, grey>>
     \/ /\ user[u].state \in {"waiting", "evicting"}
        /\ queue[u] # Absent
        /\ user'  = [user EXCEPT ![u] = [Recorded(u) EXCEPT !.state = "greylist"]]
        /\ queue' = [queue EXCEPT ![u] = Absent]
        /\ grey'  = [grey EXCEPT ![u] = queue[u]]
  /\ UNCHANGED <<hold, seq, lottery, budget, entry, minted, cursor>>

\* Mutant: a restore also lifts a block.
RestorableBlocked(u) == user[u].state \in {"greylist", "held", "blocked"} /\ user[u].rank # Absent

Restorable(u) == user[u].state \in {"greylist", "held"} /\ user[u].rank # Absent

\* Back to the rank first given.  The observation clock is not rewound.
RestoreShard(u) ==
  /\ Restorable(u)
  /\ grey'  = [grey EXCEPT ![u] = Absent]
  /\ hold'  = [hold EXCEPT ![u] = Absent]
  /\ queue' = [queue EXCEPT ![u] = user[u].rank]
  /\ user'  = [user EXCEPT ![u].state = "waiting", ![u].ttl = UserTTL]
  /\ UNCHANGED <<seq, lottery, budget, entry, minted, cursor>>

\* The scorer's decision, of which its score and its memory pick one.
Decide(u) ==
  \/ ApplyObserve(u)
  \/ MoveShard(u)
  \/ ApplyHold(u)
  \/ ApplyBlock(u)
  \/ RestoreShard(u)

-------------------------------------------------------------------------------
(* rechallenge.lua: the door out of the greylist *)

\* attempts stops one past MaxAttempts: only "more than the maximum" is ever asked.
Rechallenge(u) ==
  LET tried == Least(user[u].attempts + 1, MaxAttempts + 1)
  IN  /\ user[u].state = "greylist"
      /\ user[u].rank # Absent
      /\ grey' = [grey EXCEPT ![u] = Absent]
      /\ \/ /\ tried > MaxAttempts
            /\ hold' = [hold EXCEPT ![u] = user[u].rank]
            /\ user' = [user EXCEPT ![u] =
                          [@ EXCEPT !.state = "held", !.attempts = tried, !.ttl = UserTTL]]
            /\ UNCHANGED queue
         \/ /\ tried <= MaxAttempts
            /\ queue' = [queue EXCEPT ![u] = user[u].rank]
            /\ user' = [user EXCEPT ![u] =
                          [@ EXCEPT !.state = "waiting", !.attempts = tried, !.ttl = UserTTL,
                                    !.watched = 0, !.beats = 0]]
            /\ UNCHANGED hold
      /\ UNCHANGED <<seq, lottery, budget, entry, minted, cursor>>

-------------------------------------------------------------------------------
(* Time: keys age and expire; the lottery window closes *)

Aged(r) ==
  IF r.state \notin Live THEN r
  ELSE IF r.ttl <= 1 THEN (IF r.state = "evicted" THEN NoUser ELSE Retired)
  ELSE [r EXCEPT !.idle = Least(@ + 1, IdleCap), !.grace = Most(@ - 1, 0),
                 !.watched = Least(@ + 1, MinDwell), !.ttl = @ - 1]

AgedBudget ==
  IF budget.ttl <= 1 THEN [left |-> 0, ttl |-> 0] ELSE [budget EXCEPT !.ttl = @ - 1]

AgedEntry(e) == IF e.ttl <= 1 THEN NoEntry ELSE [e EXCEPT !.ttl = @ - 1]

Tick ==
  /\ user'   = [u \in Tokens |-> Aged(user[u])]
  /\ budget' = AgedBudget
  /\ entry'  = [j \in Jtis |-> AgedEntry(entry[j])]
  /\ UNCHANGED <<queue, grey, hold, seq, lottery, minted, cursor>>

CloseLottery ==
  /\ lottery
  /\ lottery' = FALSE
  /\ UNCHANGED <<user, queue, grey, hold, seq, budget, entry, minted, cursor>>

Next ==
  \/ \E u \in Tokens :
       \/ \E d \in Draws : Enqueue(u, d)
       \/ Heartbeat(u)
       \/ \E j \in Jtis : Admit(u, j) \/ Redeem(u, j)
       \/ Decide(u)
       \/ Rechallenge(u)
  \/ \E g \in Grants : Refill(g)
  \/ Sweep
  \/ Tick
  \/ CloseLottery

Spec == Init /\ [][Next]_vars

-------------------------------------------------------------------------------
(* Properties *)

Ranks == Draws \cup {LotteryBand + n : n \in 1 .. MaxSeq}

UserRecord ==
  [state : Live \cup {"none", "retired"}, rank : Ranks \cup {Absent},
   idle : 0 .. IdleCap, grace : 0 .. Grace, watched : 0 .. MinDwell, beats : 0 .. MinBeats,
   attempts : 0 .. (MaxAttempts + 1), jti : Jtis \cup {NoJti}, ttl : Nat]

\* The shape of the Redis keys: the fields the scripts write and the ranges
\* their comparisons rely on, a budget within the shard's cap among them.
TypeOK ==
  /\ user \in [Tokens -> UserRecord]
  /\ queue \in [Tokens -> Ranks \cup {Absent}]
  /\ grey \in [Tokens -> Ranks \cup {Absent}]
  /\ hold \in [Tokens -> Ranks \cup {Absent}]
  /\ seq \in 0 .. MaxSeq
  /\ lottery \in BOOLEAN
  /\ budget \in [left : 0 .. Cap, ttl : 0 .. BudgetTTL]
  /\ entry \in [Jtis -> [owner : Tokens \cup {Nobody}, ttl : 0 .. EntryTTL]]
  /\ minted \in [Jtis -> Tokens \cup {Nobody}]
  /\ cursor \in Nat

InLine(u)  == queue[u] = user[u].rank /\ grey[u] = Absent /\ hold[u] = Absent
InGrey(u)  == grey[u] = user[u].rank /\ queue[u] = Absent /\ hold[u] = Absent
InHold(u)  == hold[u] \in {user[u].rank, Absent} /\ queue[u] = Absent /\ grey[u] = Absent
Nowhere(u) == queue[u] = Absent /\ grey[u] = Absent /\ hold[u] = Absent
AtMostOne(u) == \/ queue[u] = Absent /\ grey[u] = Absent
                \/ queue[u] = Absent /\ hold[u] = Absent
                \/ grey[u] = Absent /\ hold[u] = Absent

Placed(u) ==
  /\ HasState(u) => user[u].rank # Absent /\ user[u].ttl > 0
  /\ user[u].state \in {"waiting", "evicting"} => InLine(u)
  /\ user[u].state = "greylist" => InGrey(u)
  /\ user[u].state = "held" => InHold(u)
  /\ user[u].state \in {"none", "evicted", "blocked", "admitted"} => Nowhere(u)
  /\ user[u].state = "retired" => AtMostOne(u)

\* Whatever scripts have run, in whatever order, the state hash and the three
\* ZSETs agree: who waits stands in the line at the rank first given, who is
\* isolated stands aside with that rank and nowhere else, and who was admitted,
\* blocked or evicted stands nowhere (apply_action.lua, move_shard.lua,
\* restore_shard.lua, rechallenge.lua and evict.lua each move one member and
\* one field).
Placement == \A u \in Tokens : Placed(u)

\* Nobody in the grace period has been heard of since it began: a token is
\* evicted only after stale_after and then the whole grace without a signal
\* (evict.lua, lines 3-6).
GraceHonoured ==
  \A u \in Tokens : user[u].state = "evicting" =>
    user[u].idle + user[u].grace > StaleAfter + Grace

\* The default lifetimes (5 min, 10 min, 2 h); config.Validate does not ask for them.
LifetimesNested == EntryTTL <= UserTTL /\ EntryTTL <= EvictedTTL

Backed(j) ==
  entry[j].owner # Nobody =>
    /\ HasState(entry[j].owner)
    /\ entry[j].ttl <= user[entry[j].owner].ttl
    /\ minted[j] = entry[j].owner

\* With nested lifetimes a live entry token always has its owner's hash behind
\* it, held, restored or evicted since or not, so the HSET of redeem.lua never
\* creates a hash without a state and without a TTL.
EntryBacked == LifetimesNested => \A j \in Jtis : Backed(j)

\* Taking a seat changes nobody else's turn: rank < budget is the same for every
\* other token before and after an admission, so exactly the seats granted are
\* used and they go to the front of the line (admit.lua, lines 3-9).
AdmissionOrder ==
  [][\A u \in Tokens : user[u].state # "admitted" /\ user'[u].state = "admitted" =>
       \A v \in Tokens \ {u} : Eligible(v)' = Eligible(v)]_vars

-------------------------------------------------------------------------------
(* The abstract line this shard implements *)

PhaseOf(state) ==
  CASE state \in {"waiting", "evicting"} -> "line"
    [] state \in {"greylist", "held"}    -> "aside"
    [] state = "admitted"                -> "in"
    [] state = "blocked"                 -> "barred"
    [] state = "retired"                 -> "gone"
    [] OTHER                             -> "out"

Line == INSTANCE WaitingLine WITH
          NoPlace <- Absent, MaxSeats <- Cap,
          phase <- [u \in Tokens |-> PhaseOf(user[u].state)],
          place <- [u \in Tokens |-> user[u].rank],
          seats <- budget.left,
          draw  <- lottery

\* The scripts together implement the abstract line: through any isolation and
\* return a token keeps the place it was first given, nobody enters but from
\* the line with fewer tokens ahead than seats, a block is final, and late or
\* returning joiners stand at the back.
ImplementsLine == Line!Spec

\* A burned, expired or foreign entry token never comes back to life, and the
\* jti of an issued token is never issued again (redeem.lua, "missing").
EntryOnce ==
  [][\A j \in Jtis : minted[j] # Nobody =>
       /\ minted'[j] = minted[j]
       /\ entry'[j].owner # Nobody => entry[j].owner = entry'[j].owner]_vars

===============================================================================
