--------------------------- MODULE ShardQueueProofs ---------------------------
(* Theorems about ShardQueue, for every set of tokens and every setting. *)
EXTENDS MCDrain, FiniteSetTheorems, TLAPS

\* Every subset of the tokens has a cardinality: what ZCARD, ZRANK and the
\* page of a sweep count.
LEMMA CountsAreNat ==
  ASSUME NEW S \in SUBSET Tokens
  PROVE  Cardinality(S) \in Nat
BY TokensAssumption, FS_Subset, FS_CardinalityType

\* Least picks one of its arguments and neither is smaller; Most likewise.
LEMMA LeastMost ==
  ASSUME NEW a \in Int, NEW b \in Int
  PROVE  /\ Least(a, b) \in {a, b} /\ Least(a, b) <= a /\ Least(a, b) <= b
         /\ Most(a, b) \in {a, b} /\ Most(a, b) >= a /\ Most(a, b) >= b
BY DEF Least, Most

\* What the assumptions on the settings say of each constant.
LEMMA Settings ==
  /\ UserTTL \in Nat /\ UserTTL > 0 /\ EvictedTTL \in Nat /\ EvictedTTL > 0
  /\ EntryTTL \in Nat /\ EntryTTL > 0 /\ BudgetTTL \in Nat /\ BudgetTTL > 0
  /\ Cap \in Nat /\ Cap > 0 /\ Grants \subseteq Nat
  /\ 0 \in 0 .. IdleCap /\ IdleCap \in Nat
  /\ 0 \in 0 .. Grace /\ Grace \in 0 .. Grace /\ Grace \in Nat
  /\ 0 \in 0 .. MinDwell /\ MinDwell \in Nat
  /\ 0 \in 0 .. MinBeats /\ MinBeats \in Nat
  /\ 0 \in 0 .. (MaxAttempts + 1) /\ MaxAttempts \in Nat
<1>1. {MinDwell, MinBeats, StaleAfter, Grace} \subseteq Nat
  BY TimesAssumption
<1>2. {UserTTL, EvictedTTL, EntryTTL, BudgetTTL} \subseteq Nat \ {0}
  BY TimesAssumption
<1> QED
  BY <1>1, <1>2, SeatsAssumption, AttemptsAssumption DEF IdleCap

\* A rank is a natural number, so never the score of an absent member.
LEMMA RankIsNat ==
  /\ Ranks \subseteq Nat
  /\ Absent \notin Ranks
  /\ \A n \in 0 .. MaxSeq : n < MaxSeq => LotteryBand + n + 1 \in Ranks
<1>1. Ranks \subseteq Nat
  <2>1. ASSUME NEW d \in Draws PROVE d \in Nat
    BY RanksAssumption
  <2>2. ASSUME NEW n \in 1 .. MaxSeq PROVE LotteryBand + n \in Nat
    BY RanksAssumption
  <2> QED
    BY <2>1, <2>2 DEF Ranks
<1>2. ASSUME NEW n \in 0 .. MaxSeq, n < MaxSeq PROVE LotteryBand + n + 1 \in Ranks
  <2>1. n + 1 \in 1 .. MaxSeq /\ LotteryBand + n + 1 = LotteryBand + (n + 1)
    BY <1>2, RanksAssumption
  <2> QED
    BY <2>1 DEF Ranks
<1> QED
  BY <1>1, <1>2 DEF Absent

\* So every score and every rank is an integer.
LEMMA ScoreIsInt == Ranks \cup {Absent} \subseteq Int
<1>1. Ranks \subseteq Int
  BY RankIsNat
<1>2. Absent \in Int
  BY DEF Absent
<1> QED
  BY <1>1, <1>2

\* The records that the scripts write are user records.
LEMMA BlankRecords ==
  /\ NoUser \in UserRecord
  /\ Retired \in UserRecord
  /\ \A r \in Ranks :
       [NoUser EXCEPT !.state = "waiting", !.rank = r, !.ttl = UserTTL] \in UserRecord
BY Settings DEF NoUser, Retired, UserRecord, Live

\* Updating the fields a handler writes keeps a session record a record.
LEMMA RecordUpdates ==
  ASSUME NEW r \in UserRecord
  PROVE  /\ r.state \in Live \cup {"none", "retired"}
         /\ r.rank \in Ranks \cup {Absent}
         /\ [r EXCEPT !.ttl = UserTTL] \in UserRecord
         /\ [r EXCEPT !.idle = 0, !.ttl = UserTTL] \in UserRecord
         /\ \A s \in Live : [r EXCEPT !.state = s] \in UserRecord
         /\ \A s \in Live : [r EXCEPT !.state = s, !.ttl = UserTTL] \in UserRecord
         /\ [r EXCEPT !.state = "evicted", !.ttl = EvictedTTL] \in UserRecord
         /\ [r EXCEPT !.state = "evicting", !.grace = Grace] \in UserRecord
         /\ \A j \in Jtis :
              [r EXCEPT !.state = "admitted", !.jti = j, !.ttl = UserTTL] \in UserRecord
BY Settings DEF UserRecord, Live

\* Replacing one hash by another keeps the hashes in shape.
LEMMA ReplaceUser ==
  ASSUME NEW u \in Tokens, NEW r \in UserRecord,
         user \in [Tokens -> UserRecord], user' = [user EXCEPT ![u] = r]
  PROVE  user' \in [Tokens -> UserRecord]
OBVIOUS

\* Aging keeps a user record a user record.
LEMMA AgedType ==
  ASSUME NEW r \in UserRecord
  PROVE  Aged(r) \in UserRecord
<1>2. Least(r.idle + 1, IdleCap) \in 0 .. IdleCap
  BY LeastMost, Settings DEF UserRecord
<1>3. Most(r.grace - 1, 0) \in 0 .. Grace
  BY LeastMost, Settings DEF UserRecord
<1>4. Least(r.watched + 1, MinDwell) \in 0 .. MinDwell
  BY LeastMost, Settings DEF UserRecord
<1>5. CASE r.state \notin Live
  BY <1>5 DEF Aged
<1>6. CASE r.state \in Live /\ r.ttl <= 1
  BY BlankRecords, <1>6 DEF Aged
<1>7. CASE r.state \in Live /\ ~(r.ttl <= 1)
  <2>1. r.ttl - 1 \in Nat
    BY <1>7 DEF UserRecord
  <2>2. Aged(r) = [r EXCEPT !.idle = Least(r.idle + 1, IdleCap), !.grace = Most(r.grace - 1, 0),
                            !.watched = Least(r.watched + 1, MinDwell), !.ttl = r.ttl - 1]
    BY <1>7 DEF Aged, UserRecord
  <2> QED
    BY <1>2, <1>3, <1>4, <2>1, <2>2 DEF UserRecord
<1> QED
  BY <1>5, <1>6, <1>7

\* What a heartbeat writes.
LEMMA HeartbeatType ==
  ASSUME NEW r \in UserRecord
  PROVE  Beaten(r) \in UserRecord
<1>1. Least(r.beats + 1, MinBeats) \in 0 .. MinBeats
  BY LeastMost, Settings DEF UserRecord
<1> QED
  BY <1>1, Settings DEF Beaten, UserRecord, Live

\* What a re-challenge writes.
LEMMA RechallengeType ==
  ASSUME NEW r \in UserRecord, NEW n \in 0 .. (MaxAttempts + 1)
  PROVE  /\ [r EXCEPT !.state = "held", !.attempts = n, !.ttl = UserTTL] \in UserRecord
         /\ [r EXCEPT !.state = "waiting", !.attempts = n, !.ttl = UserTTL,
                      !.watched = 0, !.beats = 0] \in UserRecord
BY Settings DEF UserRecord, Live

-------------------------------------------------------------------------------

\* Steps of one token on the line: its hash and its members of the ZSETs.
LEMMA EnqueueType ==
  ASSUME TypeOK, NEW u \in Tokens, NEW d \in Draws, Enqueue(u, d)
  PROVE  TypeOK'
<1>0. user \in [Tokens -> UserRecord] /\ user[u] \in UserRecord
  BY DEF TypeOK
<1>1. CASE EnqueueExists(u)
  <2>1. user' = [user EXCEPT ![u] = [user[u] EXCEPT !.idle = 0, !.ttl = UserTTL]]
    BY <1>1, <1>0 DEF EnqueueExists
  <2>2. user' \in [Tokens -> UserRecord]
    BY <1>0, <2>1, RecordUpdates, ReplaceUser
  <2> QED
    BY <1>1, <2>2 DEF EnqueueExists, TypeOK
<1>2. ASSUME NEW r \in Ranks, Join(u, r), seq' \in 0 .. MaxSeq PROVE TypeOK'
  <2>1. user' \in [Tokens -> UserRecord]
    BY <1>0, <1>2, BlankRecords, ReplaceUser DEF Join
  <2> QED
    BY <1>2, <2>1 DEF Join, TypeOK
<1>3. CASE EnqueueNew(u, d)
  <2>1. CASE lottery /\ Join(u, d) /\ UNCHANGED seq
    BY <1>2, <2>1 DEF Ranks, TypeOK
  <2>2. CASE seq < MaxSeq /\ seq' = seq + 1 /\ Join(u, LotteryBand + seq + 1)
    <3>1. seq \in 0 .. MaxSeq
      BY DEF TypeOK
    <3>2. LotteryBand + seq + 1 \in Ranks
      BY <2>2, <3>1, RankIsNat
    <3>3. seq' \in 0 .. MaxSeq
      BY <2>2, <3>1, RanksAssumption
    <3> QED
      BY <1>2, <2>2, <3>2, <3>3
  <2> QED
    BY <1>3, <2>1, <2>2 DEF EnqueueNew
<1> QED
  BY <1>1, <1>3 DEF Enqueue

\* One admission (admit.lua) keeps every variable in its type.
LEMMA AdmitType ==
  ASSUME TypeOK, NEW u \in Tokens, NEW j \in Jtis, Admit(u, j)
  PROVE  TypeOK'
<1>0. user \in [Tokens -> UserRecord] /\ user[u] \in UserRecord
  BY DEF TypeOK
<1>1. ZRank(queue, u) \in Nat
  <2>1. Ahead(queue, u) \in SUBSET Tokens
    BY DEF Ahead, Members
  <2> QED
    BY <2>1, CountsAreNat DEF ZRank
<1>2. budget.left \in 0 .. Cap /\ ZRank(queue, u) < budget.left
  BY DEF Admit, Exchangeable, TakeSeat, Eligible, TypeOK
<1>3. budget.left - 1 \in 0 .. Cap
  BY <1>1, <1>2, Settings
<1>4. budget' \in [left : 0 .. Cap, ttl : 0 .. BudgetTTL]
  BY <1>3 DEF Admit, Exchangeable, TakeSeat, TypeOK
<1>5. user' = [user EXCEPT ![u] =
                 [user[u] EXCEPT !.state = "admitted", !.jti = j, !.ttl = UserTTL]]
  BY <1>0 DEF Admit, Exchangeable, TakeSeat, Admitted
<1>6. user' \in [Tokens -> UserRecord]
  BY <1>0, <1>5, RecordUpdates, ReplaceUser
<1>7. [owner |-> u, ttl |-> EntryTTL] \in [owner : Tokens \cup {Nobody}, ttl : 0 .. EntryTTL]
  BY Settings
<1>8. entry' \in [Jtis -> [owner : Tokens \cup {Nobody}, ttl : 0 .. EntryTTL]]
  BY <1>7 DEF Admit, Exchangeable, TakeSeat, TypeOK
<1> QED
  BY <1>4, <1>6, <1>8 DEF Admit, Exchangeable, TakeSeat, TypeOK

\* A decision, with its promote, demote or divert, keeps every variable in its type.
LEMMA DecideType ==
  ASSUME TypeOK, NEW u \in Tokens, Decide(u)
  PROVE  TypeOK'
<1>0. user \in [Tokens -> UserRecord] /\ user[u] \in UserRecord
  BY DEF TypeOK
<1>1. Recorded(u) \in UserRecord
  BY <1>0, RecordUpdates DEF Recorded
<1>2. /\ [Recorded(u) EXCEPT !.state = "held"] \in UserRecord
      /\ [Recorded(u) EXCEPT !.state = "blocked"] \in UserRecord
      /\ [Recorded(u) EXCEPT !.state = "greylist"] \in UserRecord
  BY <1>1, RecordUpdates DEF Live
<1>3. user[u].rank \in Ranks \cup {Absent}
  BY <1>0, RecordUpdates
<1>4. CASE ApplyObserve(u)
  BY <1>0, <1>1, <1>4, ReplaceUser DEF ApplyObserve, TypeOK
<1>5. CASE MoveShard(u)
  <2>1. user' \in [Tokens -> UserRecord]
    BY <1>0, <1>1, <1>2, <1>5, ReplaceUser DEF MoveShard
  <2> QED
    BY <1>5, <2>1 DEF MoveShard, TypeOK
<1>6. CASE ApplyHold(u)
  <2>1. user' \in [Tokens -> UserRecord]
    BY <1>0, <1>1, <1>2, <1>6, ReplaceUser DEF ApplyHold, Withdraw
  <2> QED
    BY <1>3, <1>6, <2>1 DEF ApplyHold, Withdraw, TypeOK
<1>7. CASE ApplyBlock(u)
  <2>1. user' \in [Tokens -> UserRecord]
    BY <1>0, <1>1, <1>2, <1>7, ReplaceUser DEF ApplyBlock, Withdraw
  <2> QED
    BY <1>7, <2>1 DEF ApplyBlock, Withdraw, TypeOK
<1>8. CASE RestoreShard(u)
  <2>1. user' = [user EXCEPT ![u] = [user[u] EXCEPT !.state = "waiting", !.ttl = UserTTL]]
    BY <1>0, <1>8 DEF RestoreShard
  <2>2. user' \in [Tokens -> UserRecord]
    BY <1>0, <2>1, RecordUpdates, ReplaceUser DEF Live
  <2> QED
    BY <1>3, <1>8, <2>2 DEF RestoreShard, Restorable, TypeOK
<1> QED
  BY <1>4, <1>5, <1>6, <1>7, <1>8 DEF Decide

\* An answered re-challenge keeps every variable in its type.
LEMMA RechallengeKeepsType ==
  ASSUME TypeOK, NEW u \in Tokens, Rechallenge(u)
  PROVE  TypeOK'
<1> DEFINE tried == Least(user[u].attempts + 1, MaxAttempts + 1)
<1>0. user \in [Tokens -> UserRecord] /\ user[u] \in UserRecord
  BY DEF TypeOK
<1>1. tried \in 0 .. (MaxAttempts + 1)
  BY <1>0, LeastMost, Settings DEF UserRecord
<1>2. user[u].rank \in Ranks \cup {Absent}
  BY <1>0, RecordUpdates
<1>3. \/ user' = [user EXCEPT ![u] =
                    [@ EXCEPT !.state = "held", !.attempts = tried, !.ttl = UserTTL]]
      \/ user' = [user EXCEPT ![u] =
                    [@ EXCEPT !.state = "waiting", !.attempts = tried, !.ttl = UserTTL,
                              !.watched = 0, !.beats = 0]]
  BY DEF Rechallenge
<1> HIDE DEF tried
<1>4. user' \in [Tokens -> UserRecord]
  BY <1>0, <1>1, <1>3, RechallengeType, ReplaceUser
<1> QED
  BY <1>2, <1>4 DEF Rechallenge, TypeOK

\* One pass of the stale-session sweep keeps every variable in its type.
LEMMA SweepType ==
  ASSUME TypeOK, Sweep
  PROVE  TypeOK'
<1>1. SweepPage \in SUBSET Tokens /\ Members(queue) \in SUBSET Tokens
  BY DEF SweepPage, Members
<1>2. Cardinality(SweepPage) \in Nat /\ ZCard(queue) \in Nat
  BY <1>1, CountsAreNat DEF ZCard
<1>3. SweepOffset \in Nat
  BY <1>2 DEF SweepOffset, TypeOK
<1>4. SweepCursor(SweepPage) \in Nat
  BY <1>2, <1>3 DEF SweepCursor
<1>5. user' \in [Tokens -> UserRecord]
  <2>1. user \in [Tokens -> UserRecord]
    BY DEF TypeOK
  <2>2. \A u \in Tokens :
          /\ [user[u] EXCEPT !.state = "evicted", !.ttl = EvictedTTL] \in UserRecord
          /\ [user[u] EXCEPT !.state = "evicting", !.grace = Grace] \in UserRecord
    BY <2>1, RecordUpdates
  <2> QED
    BY <2>1, <2>2 DEF Sweep
<1> QED
  BY <1>4, <1>5 DEF Sweep, TypeOK

\* Time passing, with the expiries it brings, keeps every variable in its type.
LEMMA TickType ==
  ASSUME TypeOK, Tick
  PROVE  TypeOK'
<1>1. user' \in [Tokens -> UserRecord]
  BY AgedType DEF Tick, TypeOK
<1>2. budget' \in [left : 0 .. Cap, ttl : 0 .. BudgetTTL]
  BY Settings DEF Tick, AgedBudget, TypeOK
<1>3. entry' \in [Jtis -> [owner : Tokens \cup {Nobody}, ttl : 0 .. EntryTTL]]
  <2>1. NoEntry \in [owner : Tokens \cup {Nobody}, ttl : 0 .. EntryTTL]
    BY Settings DEF NoEntry
  <2>2. ASSUME NEW e \in [owner : Tokens \cup {Nobody}, ttl : 0 .. EntryTTL]
        PROVE  AgedEntry(e) \in [owner : Tokens \cup {Nobody}, ttl : 0 .. EntryTTL]
    BY <2>1, Settings DEF AgedEntry
  <2> QED
    BY <2>2 DEF Tick, TypeOK
<1> QED
  BY <1>1, <1>2, <1>3 DEF Tick, TypeOK

\* Every step of the queue, or a stutter, keeps every variable in its type.
LEMMA StepType == TypeOK /\ [Next]_vars => TypeOK'
<1> SUFFICES ASSUME TypeOK, [Next]_vars PROVE TypeOK'
  OBVIOUS
<1>1. ASSUME NEW u \in Tokens, Heartbeat(u) PROVE TypeOK'
  <2>0. user \in [Tokens -> UserRecord] /\ user[u] \in UserRecord
    BY DEF TypeOK
  <2>1. user' \in [Tokens -> UserRecord]
    BY <1>1, <2>0, HeartbeatType, ReplaceUser DEF Heartbeat
  <2> QED
    BY <1>1, <2>1 DEF Heartbeat, TypeOK
<1>2. ASSUME NEW u \in Tokens, NEW j \in Jtis, Redeem(u, j) PROVE TypeOK'
  BY <1>2, Settings DEF Redeem, TypeOK, NoEntry
<1>3. ASSUME NEW g \in Grants, Refill(g) PROVE TypeOK'
  <2>1. ZCard(queue) \in Nat
    BY CountsAreNat DEF ZCard, Members
  <2>2. budget.left \in Nat /\ g \in Nat
    BY Settings DEF TypeOK
  <2>3. Refilled(g) \in 0 .. Cap
    BY <2>1, <2>2, Settings DEF Refilled, Least
  <2> QED
    BY <1>3, <2>3, Settings DEF Refill, TypeOK
<1>4. CASE CloseLottery
  BY <1>4 DEF CloseLottery, TypeOK
<1>5. CASE UNCHANGED vars
  BY <1>5 DEF vars, TypeOK
<1> QED
  BY <1>1, <1>2, <1>3, <1>4, <1>5,
     EnqueueType, AdmitType, DecideType, RechallengeKeepsType, SweepType, TickType
  DEF Next

\* The empty shard is in shape.
LEMMA InitType == Init => TypeOK
<1> SUFFICES ASSUME Init PROVE TypeOK
  OBVIOUS
<1>1. user \in [Tokens -> UserRecord]
  BY BlankRecords DEF Init
<1>2. /\ budget \in [left : 0 .. Cap, ttl : 0 .. BudgetTTL]
      /\ seq \in 0 .. MaxSeq
  BY Settings, RanksAssumption DEF Init
<1>3. entry \in [Jtis -> [owner : Tokens \cup {Nobody}, ttl : 0 .. EntryTTL]]
  BY Settings DEF Init, NoEntry
<1> QED
  BY <1>1, <1>2, <1>3 DEF Init, TypeOK

\* The initial state and every script keep the keys in shape; in particular a
\* refill or an admission never takes the budget below zero or above the cap.
THEOREM TypeCorrect == Spec => []TypeOK
BY InitType, StepType, PTL DEF Spec

-------------------------------------------------------------------------------

\* A token none of whose keys a step touches stays where it is.
LEMMA OthersPlaced ==
  ASSUME NEW v \in Tokens, Placed(v), user'[v] = user[v],
         queue'[v] = queue[v], grey'[v] = grey[v], hold'[v] = hold[v]
  PROVE  Placed(v)'
BY DEF Placed, HasState, InLine, InGrey, InHold, Nowhere, AtMostOne

\* A step that leaves state, rank and ZSETs alone and keeps the hash alive.
LEMMA SamePlace ==
  ASSUME NEW v \in Tokens, Placed(v), user'[v].state = user[v].state,
         user'[v].rank = user[v].rank, HasState(v) => user'[v].ttl > 0,
         queue'[v] = queue[v], grey'[v] = grey[v], hold'[v] = hold[v]
  PROVE  Placed(v)'
BY DEF Placed, HasState, InLine, InGrey, InHold, Nowhere, AtMostOne

\* Joining, or joining again, puts a user in the one place its state names.
LEMMA EnqueuePlaced ==
  ASSUME TypeOK, Placement, NEW u \in Tokens, NEW d \in Draws, Enqueue(u, d)
  PROVE  Placement'
<1> SUFFICES ASSUME NEW v \in Tokens PROVE Placed(v)'
  BY DEF Placement
<1>0. Placed(v) /\ Placed(u) /\ user \in [Tokens -> UserRecord]
  BY DEF Placement, TypeOK
<1>1. CASE EnqueueExists(u)
  <2>1. CASE v # u
    BY <1>0, <1>1, <2>1, OthersPlaced DEF EnqueueExists
  <2>2. CASE v = u
    <3>1. /\ user'[u].state = user[u].state /\ user'[u].rank = user[u].rank
          /\ user'[u].ttl = UserTTL
      BY <1>0, <1>1 DEF EnqueueExists, UserRecord
    <3> QED
      BY <1>0, <1>1, <2>2, <3>1, SamePlace, Settings DEF EnqueueExists
  <2> QED
    BY <2>1, <2>2
<1>2. ASSUME NEW r \in Ranks, Join(u, r), user[u].state \in {"none", "evicted"}
      PROVE  Placed(v)'
  <2>1. CASE v # u
    BY <1>0, <1>2, <2>1, OthersPlaced DEF Join, TypeOK
  <2>2. CASE v = u
    <3>1. user'[u].state = "waiting" /\ user'[u].rank = r /\ user'[u].ttl = UserTTL
      BY <1>0, <1>2 DEF Join, NoUser
    <3>2. Nowhere(u)
      BY <1>0, <1>2 DEF Placed
    <3>3. queue'[u] = r /\ grey'[u] = Absent /\ hold'[u] = Absent
      BY <1>2, <3>2 DEF Join, TypeOK, Nowhere
    <3> QED
      BY <2>2, <3>1, <3>3, RankIsNat, Settings DEF Placed, HasState, InLine
  <2> QED
    BY <2>1, <2>2
<1>3. CASE EnqueueNew(u, d)
  <2>1. user[u].state \in {"none", "evicted"}
    BY <1>3 DEF EnqueueNew
  <2>2. CASE lottery /\ Join(u, d) /\ UNCHANGED seq
    BY <1>2, <2>1, <2>2 DEF Ranks
  <2>3. CASE seq < MaxSeq /\ seq' = seq + 1 /\ Join(u, LotteryBand + seq + 1)
    BY <1>2, <2>1, <2>3, RankIsNat DEF TypeOK
  <2> QED
    BY <1>3, <2>2, <2>3 DEF EnqueueNew
<1> QED
  BY <1>1, <1>3 DEF Enqueue

\* Admission takes the user out of the line as it changes its state.
LEMMA AdmitPlaced ==
  ASSUME TypeOK, Placement, NEW u \in Tokens, NEW j \in Jtis, Admit(u, j)
  PROVE  Placement'
<1> SUFFICES ASSUME NEW v \in Tokens PROVE Placed(v)'
  BY DEF Placement
<1>0. Placed(v) /\ Placed(u) /\ user \in [Tokens -> UserRecord]
  BY DEF Placement, TypeOK
<1>1. CASE v # u
  BY <1>0, <1>1, OthersPlaced DEF Admit, Exchangeable, TakeSeat, TypeOK
<1>2. CASE v = u
  <2>1. /\ user'[u].state = "admitted" /\ user'[u].rank = user[u].rank
        /\ user'[u].ttl = UserTTL
    BY <1>0 DEF Admit, Exchangeable, TakeSeat, Admitted, UserRecord
  <2>2. user[u].rank # Absent /\ grey[u] = Absent /\ hold[u] = Absent
    BY <1>0 DEF Admit, Exchangeable, TakeSeat, Placed, HasState, Live, InLine
  <2>3. Nowhere(u)'
    BY <2>2 DEF Admit, Exchangeable, TakeSeat, TypeOK, Nowhere
  <2> QED
    BY <1>2, <2>1, <2>2, <2>3, Settings DEF Placed, HasState
<1> QED
  BY <1>1, <1>2

\* A decision moves a user between line, grey buffer and hold as one step.
LEMMA DecidePlaced ==
  ASSUME TypeOK, Placement, NEW u \in Tokens, Decide(u)
  PROVE  Placement'
<1> SUFFICES ASSUME NEW v \in Tokens PROVE Placed(v)'
  BY DEF Placement
<1>0. Placed(v) /\ Placed(u) /\ user \in [Tokens -> UserRecord]
  BY DEF Placement, TypeOK
<1>1. HasState(u) /\ user[u].rank # Absent
  BY <1>0 DEF Decide, ApplyObserve, MoveShard, ApplyHold, ApplyBlock, Withdraw, RestoreShard, Restorable,
              HasState, Live, Placed
<1>2. CASE v # u
  BY <1>0, <1>2, OthersPlaced
  DEF Decide, ApplyObserve, MoveShard, ApplyHold, ApplyBlock, Withdraw, RestoreShard, Restorable, Restorable, TypeOK
<1>3. CASE v = u
  <2>1. CASE user' = [user EXCEPT ![u] = Recorded(u)] /\ UNCHANGED <<queue, grey, hold>>
    BY <1>0, <1>3, <2>1, SamePlace, Settings DEF Recorded, UserRecord
  <2>2. ASSUME NEW s \in Live, user' = [user EXCEPT ![u] = [Recorded(u) EXCEPT !.state = s]]
        PROVE  user'[u].state = s /\ user'[u].rank = user[u].rank /\ user'[u].ttl = UserTTL
    BY <1>0, <2>2 DEF Recorded, UserRecord
  <2>3. CASE /\ user[u].state \in {"waiting", "evicting"}
             /\ queue[u] # Absent
             /\ user'  = [user EXCEPT ![u] = [Recorded(u) EXCEPT !.state = "greylist"]]
             /\ queue' = [queue EXCEPT ![u] = Absent]
             /\ grey'  = [grey EXCEPT ![u] = queue[u]]
             /\ UNCHANGED hold
    <3>1. /\ user'[u].state = "greylist" /\ user'[u].rank = user[u].rank
          /\ user'[u].ttl = UserTTL
      BY <2>2, <2>3 DEF Live
    <3>2. queue[u] = user[u].rank /\ hold[u] = Absent
      BY <1>0, <2>3 DEF Placed, InLine
    <3>3. queue'[u] = Absent /\ grey'[u] = user[u].rank /\ hold'[u] = Absent
      BY <2>3, <3>2 DEF TypeOK
    <3> QED
      BY <1>1, <1>3, <3>1, <3>3, Settings DEF Placed, InGrey
  <2>4. CASE /\ user'  = [user EXCEPT ![u] = [Recorded(u) EXCEPT !.state = "held"]]
             /\ hold'  = IF queue[u] # Absent \/ grey[u] # Absent
                         THEN [hold EXCEPT ![u] = user[u].rank] ELSE hold
             /\ queue' = [queue EXCEPT ![u] = Absent]
             /\ grey'  = [grey EXCEPT ![u] = Absent]
             /\ user[u].state \notin {"blocked", "held"}
    <3>1. user'[u].state = "held" /\ user'[u].rank = user[u].rank /\ user'[u].ttl = UserTTL
      BY <2>2, <2>4 DEF Live
    <3>2. hold[u] = Absent
      BY <1>0, <1>1, <2>4 DEF Placed, HasState, Live, InLine, InGrey, Nowhere
    <3>3. queue'[u] = Absent /\ grey'[u] = Absent /\ hold'[u] \in {user[u].rank, Absent}
      BY <2>4, <3>2 DEF TypeOK
    <3> QED
      BY <1>1, <1>3, <3>1, <3>3, Settings DEF Placed, InHold
  <2>5. CASE /\ user'  = [user EXCEPT ![u] = [Recorded(u) EXCEPT !.state = "blocked"]]
             /\ queue' = [queue EXCEPT ![u] = Absent]
             /\ grey'  = [grey EXCEPT ![u] = Absent]
             /\ hold'  = [hold EXCEPT ![u] = Absent]
    <3>1. user'[u].state = "blocked" /\ user'[u].rank = user[u].rank /\ user'[u].ttl = UserTTL
      BY <2>2, <2>5 DEF Live
    <3>2. Nowhere(u)'
      BY <2>5 DEF TypeOK, Nowhere
    <3> QED
      BY <1>1, <1>3, <3>1, <3>2, Settings DEF Placed
  <2>6. CASE RestoreShard(u)
    <3>1. /\ user'[u].state = "waiting" /\ user'[u].rank = user[u].rank
          /\ user'[u].ttl = UserTTL
      BY <1>0, <2>6 DEF RestoreShard, Restorable, UserRecord
    <3>2. queue'[u] = user[u].rank /\ grey'[u] = Absent /\ hold'[u] = Absent
      BY <2>6 DEF RestoreShard, Restorable, TypeOK
    <3> QED
      BY <1>1, <1>3, <3>1, <3>2, Settings DEF Placed, InLine
  <2>7. CASE ApplyObserve(u)
    BY <2>1, <2>7 DEF ApplyObserve
  <2>8. CASE MoveShard(u)
    BY <2>1, <2>3, <2>8 DEF MoveShard
  <2>9. CASE ApplyHold(u)
    BY <2>1, <2>4, <2>9 DEF ApplyHold, Withdraw
  <2>10. CASE ApplyBlock(u)
    BY <2>1, <2>5, <2>10 DEF ApplyBlock, Withdraw
  <2> QED
    BY <2>6, <2>7, <2>8, <2>9, <2>10 DEF Decide
<1> QED
  BY <1>2, <1>3

\* An answered re-challenge leaves the user in the one place its state names.
LEMMA RechallengePlaced ==
  ASSUME TypeOK, Placement, NEW u \in Tokens, Rechallenge(u)
  PROVE  Placement'
<1> SUFFICES ASSUME NEW v \in Tokens PROVE Placed(v)'
  BY DEF Placement
<1>0. Placed(v) /\ Placed(u) /\ user \in [Tokens -> UserRecord]
  BY DEF Placement, TypeOK
<1>1. CASE v # u
  BY <1>0, <1>1, OthersPlaced DEF Rechallenge, TypeOK
<1>2. CASE v = u
  <2> DEFINE tried == Least(user[u].attempts + 1, MaxAttempts + 1)
  <2>1. queue[u] = Absent /\ hold[u] = Absent /\ user[u].rank # Absent
    BY <1>0 DEF Rechallenge, Placed, InGrey
  <2>2. grey'[u] = Absent
    BY DEF Rechallenge, TypeOK
  <2>3. user[u] \in UserRecord
    BY <1>0
  <2>4. \/ /\ user'[u] = [user[u] EXCEPT !.state = "held", !.attempts = tried, !.ttl = UserTTL]
           /\ hold'[u] = user[u].rank /\ queue'[u] = Absent
        \/ /\ user'[u] = [user[u] EXCEPT !.state = "waiting", !.attempts = tried,
                                         !.ttl = UserTTL, !.watched = 0, !.beats = 0]
           /\ queue'[u] = user[u].rank /\ hold'[u] = Absent
    BY <2>1, <1>0 DEF Rechallenge, TypeOK
  <2> HIDE DEF tried
  <2>5. user'[u].rank = user[u].rank /\ user'[u].ttl = UserTTL
    BY <2>3, <2>4 DEF UserRecord
  <2>6. CASE user'[u].state = "held" /\ hold'[u] = user[u].rank /\ queue'[u] = Absent
    BY <1>2, <2>1, <2>2, <2>5, <2>6, Settings DEF Placed, InHold
  <2>7. CASE user'[u].state = "waiting" /\ queue'[u] = user[u].rank /\ hold'[u] = Absent
    BY <1>2, <2>1, <2>2, <2>5, <2>7, Settings DEF Placed, InLine
  <2> QED
    BY <2>3, <2>4, <2>6, <2>7 DEF UserRecord
<1> QED
  BY <1>1, <1>2

\* The sweep takes a member out of the line as it evicts it, and drops ghosts.
LEMMA SweepPlaced ==
  ASSUME TypeOK, Placement, Sweep
  PROVE  Placement'
<1> SUFFICES ASSUME NEW v \in Tokens PROVE Placed(v)'
  BY DEF Placement
<1>0. Placed(v) /\ user \in [Tokens -> UserRecord] /\ user[v] \in UserRecord
  BY DEF Placement, TypeOK
<1>1. UNCHANGED <<grey, hold>>
  BY DEF Sweep
<1>2. CASE v \in Expired(SweepPage)
  <2>1. user[v].state = "evicting" /\ v \notin Stale(SweepPage)
    BY <1>2 DEF Expired, Stale
  <2>2. user'[v] = [user[v] EXCEPT !.state = "evicted", !.ttl = EvictedTTL]
    BY <1>2, <2>1 DEF Sweep
  <2>3. user'[v].state = "evicted" /\ user'[v].rank = user[v].rank /\ user'[v].ttl = EvictedTTL
    BY <1>0, <2>2 DEF UserRecord
  <2>4. queue'[v] = Absent
    BY <1>2 DEF Sweep
  <2>5. InLine(v) /\ user[v].rank # Absent
    BY <1>0, <2>1 DEF Placed, HasState, Live
  <2>6. Nowhere(v)'
    BY <1>1, <2>4, <2>5 DEF InLine, Nowhere
  <2> QED
    BY <2>3, <2>5, <2>6, Settings DEF Placed
<1>3. CASE v \in Stale(SweepPage)
  <2>1. user[v].state = "waiting" /\ v \notin Expired(SweepPage) /\ v \notin Ghosts(SweepPage)
    BY <1>3 DEF Stale, Expired, Ghosts, HasState, Live
  <2>2. user'[v] = [user[v] EXCEPT !.state = "evicting", !.grace = Grace]
    BY <1>3, <2>1 DEF Sweep
  <2>3. /\ user'[v].state = "evicting" /\ user'[v].rank = user[v].rank
        /\ user'[v].ttl = user[v].ttl
    BY <1>0, <2>2 DEF UserRecord
  <2>4. queue'[v] = queue[v]
    BY <2>1 DEF Sweep
  <2> QED
    BY <1>0, <1>1, <2>1, <2>3, <2>4 DEF Placed, InLine, HasState, Live
<1>4. CASE v \notin Expired(SweepPage) /\ v \notin Stale(SweepPage)
  <2>1. user'[v] = user[v]
    BY <1>4 DEF Sweep
  <2>2. CASE v \in Ghosts(SweepPage)
    <3>1. queue'[v] = Absent /\ ~HasState(v)
      BY <2>2 DEF Sweep, Ghosts
    <3> QED
      BY <1>0, <1>1, <2>1, <3>1 DEF Placed, HasState, Live, Nowhere, AtMostOne
  <2>3. CASE v \notin Ghosts(SweepPage)
    <3>1. queue'[v] = queue[v]
      BY <1>4, <2>3 DEF Sweep
    <3> QED
      BY <1>0, <1>1, <2>1, <3>1, OthersPlaced
  <2> QED
    BY <2>2, <2>3
<1> QED
  BY <1>2, <1>3, <1>4

\* What a tick does to one hash.
LEMMA AgedFields ==
  ASSUME NEW r \in UserRecord
  PROVE  \/ r.state \notin Live /\ Aged(r) = r
         \/ r.state = "evicted" /\ Aged(r).state = "none"
         \/ r.state \in Live \ {"evicted"} /\ Aged(r).state = "retired"
         \/ /\ r.state \in Live /\ Aged(r).state = r.state /\ Aged(r).rank = r.rank
            /\ r.ttl > 1 /\ Aged(r).ttl = r.ttl - 1
<1>1. CASE r.state \notin Live
  BY <1>1 DEF Aged
<1>2. CASE r.state \in Live /\ r.ttl <= 1
  BY <1>2 DEF Aged, NoUser, Retired
<1>3. CASE r.state \in Live /\ ~(r.ttl <= 1)
  BY <1>3 DEF Aged, UserRecord
<1> QED
  BY <1>1, <1>2, <1>3

\* Expiry moves no member: what a lost hash leaves behind is a ghost in one place at most.
LEMMA TickPlaced ==
  ASSUME TypeOK, Placement, Tick
  PROVE  Placement'
<1> SUFFICES ASSUME NEW v \in Tokens PROVE Placed(v)'
  BY DEF Placement
<1>0. Placed(v) /\ user[v] \in UserRecord /\ user'[v] = Aged(user[v])
  BY DEF Placement, TypeOK, Tick
<1>1. UNCHANGED <<queue, grey, hold>>
  BY DEF Tick
<1>2. CASE user[v].state \notin Live /\ user'[v] = user[v]
  BY <1>0, <1>1, <1>2, OthersPlaced
<1>3. CASE user[v].state = "evicted" /\ user'[v].state = "none"
  BY <1>0, <1>1, <1>3 DEF Placed, HasState, Live, Nowhere
<1>4. CASE user[v].state \in Live \ {"evicted"} /\ user'[v].state = "retired"
  BY <1>0, <1>1, <1>4 DEF Placed, HasState, Live, InLine, InGrey, InHold, Nowhere, AtMostOne
<1>5. CASE /\ user[v].state \in Live /\ user'[v].state = user[v].state
           /\ user'[v].rank = user[v].rank
           /\ user[v].ttl > 1 /\ user'[v].ttl = user[v].ttl - 1
  <2>1. user'[v].ttl > 0
    BY <1>0, <1>5 DEF UserRecord
  <2> QED
    BY <1>0, <1>1, <1>5, <2>1, SamePlace
<1> QED
  BY <1>0, <1>2, <1>3, <1>4, <1>5, AgedFields

\* Placement is inductive relative to the type invariant.
LEMMA StepPlaced == TypeOK /\ Placement /\ [Next]_vars => Placement'
<1> SUFFICES ASSUME TypeOK, Placement, [Next]_vars PROVE Placement'
  OBVIOUS
<1>1. ASSUME NEW u \in Tokens, Heartbeat(u), NEW v \in Tokens PROVE Placed(v)'
  <2>0. Placed(v) /\ Placed(u) /\ user \in [Tokens -> UserRecord] /\ user[u] \in UserRecord
    BY DEF Placement, TypeOK
  <2>1. CASE v # u
    BY <1>1, <2>0, <2>1, OthersPlaced DEF Heartbeat
  <2>2. CASE v = u
    <3>1. /\ user'[u].rank = user[u].rank /\ user'[u].ttl = UserTTL
          /\ user'[u].state = IF user[u].state = "evicting" THEN "waiting" ELSE user[u].state
      BY <1>1, <2>0 DEF Heartbeat, Beaten, UserRecord
    <3> QED
      BY <1>1, <2>0, <2>2, <3>1, Settings
      DEF Heartbeat, Placed, HasState, Live, InLine, InGrey, InHold, Nowhere
  <2> QED
    BY <2>1, <2>2
<1>2. CASE UNCHANGED <<user, queue, grey, hold>>
  BY <1>2, OthersPlaced DEF Placement
<1>3. ASSUME NEW u \in Tokens, NEW j \in Jtis, Redeem(u, j) PROVE Placement'
  BY <1>2, <1>3 DEF Redeem
<1>4. ASSUME NEW g \in Grants, Refill(g) PROVE Placement'
  BY <1>2, <1>4 DEF Refill
<1>5. CASE CloseLottery
  BY <1>2, <1>5 DEF CloseLottery
<1>6. CASE UNCHANGED vars
  BY <1>2, <1>6 DEF vars
<1>7. ASSUME NEW u \in Tokens, Heartbeat(u) PROVE Placement'
  BY <1>1, <1>7 DEF Placement
<1> QED
  BY <1>3, <1>4, <1>5, <1>6, <1>7,
     EnqueuePlaced, AdmitPlaced, DecidePlaced, RechallengePlaced, SweepPlaced, TickPlaced
  DEF Next

\* The state hash and the three ZSETs agree for every number of tokens and
\* every setting of the thresholds and lifetimes: no order of the scripts
\* leaves a token in two lines, or in a line its state does not name.
THEOREM PlacementHolds == Spec => []Placement
<1>1. Init => Placement
  <2> SUFFICES ASSUME Init, NEW u \in Tokens PROVE Placed(u)
    BY DEF Placement
  <2>1. user[u].state = "none" /\ Nowhere(u)
    BY DEF Init, NoUser, Nowhere
  <2> QED
    BY <2>1 DEF Placed, HasState, Live
<1>2. Spec => []TypeOK
  BY TypeCorrect
<1> QED
  BY <1>1, <1>2, StepPlaced, PTL DEF Spec

-------------------------------------------------------------------------------

\* Every script leaves the hash it writes at least an entry token's life.
LEMMA HashOutlives ==
  ASSUME TypeOK, LifetimesNested, Next, ~Tick, NEW o \in Tokens, HasState(o)
  PROVE  HasState(o)' /\ (user'[o].ttl = user[o].ttl \/ user'[o].ttl >= EntryTTL)
<1> DEFINE Kept == HasState(o)' /\ (user'[o].ttl = user[o].ttl \/ user'[o].ttl >= EntryTTL)
<1> SUFFICES Kept
  OBVIOUS
<1>0. user \in [Tokens -> UserRecord] /\ user[o] \in UserRecord
  BY DEF TypeOK
<1>1. EntryTTL <= UserTTL /\ EntryTTL <= EvictedTTL /\ UserTTL \in Nat /\ EvictedTTL \in Nat
      /\ EntryTTL \in Nat
  BY Settings DEF LifetimesNested
<1>2. CASE user'[o] = user[o]
  BY <1>2 DEF HasState
<1>3. CASE user'[o].state \in Live /\ user'[o].ttl = UserTTL
  BY <1>1, <1>3 DEF HasState
<1> HIDE DEF Kept
<1>4. ASSUME NEW u \in Tokens, NEW d \in Draws, Enqueue(u, d) PROVE Kept
  <2>1. CASE EnqueueExists(u)
    BY <1>0, <1>2, <1>3, <2>1 DEF EnqueueExists, UserRecord, Live
  <2>2. ASSUME NEW r, Join(u, r) PROVE Kept
    BY <1>0, <1>2, <1>3, <2>2 DEF Join, NoUser, Live
  <2> QED
    BY <1>4, <2>1, <2>2 DEF Enqueue, EnqueueNew
<1>5. ASSUME NEW u \in Tokens, Heartbeat(u) PROVE Kept
  BY <1>0, <1>2, <1>3, <1>5 DEF Heartbeat, Beaten, HasState, UserRecord, Live
<1>6. ASSUME NEW u \in Tokens, NEW j \in Jtis, Admit(u, j) PROVE Kept
  BY <1>0, <1>2, <1>3, <1>6 DEF Admit, Exchangeable, TakeSeat, Admitted, UserRecord, Live
<1>7. ASSUME NEW u \in Tokens, Decide(u) PROVE Kept
  <2>1. CASE user' = [user EXCEPT ![u] = Recorded(u)]
    BY <1>0, <1>2, <1>3, <2>1 DEF Recorded, HasState, UserRecord
  <2>2. ASSUME NEW s \in Live, user' = [user EXCEPT ![u] = [Recorded(u) EXCEPT !.state = s]]
        PROVE  Kept
    BY <1>0, <1>2, <1>3, <2>2 DEF Recorded, UserRecord
  <2>3. CASE RestoreShard(u)
    BY <1>0, <1>2, <1>3, <2>3 DEF RestoreShard, Restorable, UserRecord, Live
  <2>4. {"greylist", "held", "blocked"} \subseteq Live
    BY DEF Live
  <2> QED
    BY <1>7, <2>1, <2>2, <2>3, <2>4 DEF Decide, ApplyObserve, MoveShard, ApplyHold, ApplyBlock
<1>8. ASSUME NEW u \in Tokens, Rechallenge(u) PROVE Kept
  <2>1. CASE o # u
    BY <1>0, <1>2, <1>8, <2>1 DEF Rechallenge
  <2>2. CASE o = u
    <3> DEFINE tried == Least(user[u].attempts + 1, MaxAttempts + 1)
    <3>1. \/ user'[u] = [user[u] EXCEPT !.state = "held", !.attempts = tried, !.ttl = UserTTL]
          \/ user'[u] = [user[u] EXCEPT !.state = "waiting", !.attempts = tried,
                                        !.ttl = UserTTL, !.watched = 0, !.beats = 0]
      BY <1>0, <1>8 DEF Rechallenge
    <3> HIDE DEF tried
    <3> QED
      BY <1>0, <1>3, <2>2, <3>1 DEF UserRecord, Live
  <2> QED
    BY <2>1, <2>2
<1>9. CASE Sweep
  <2>1. CASE o \in Expired(SweepPage)
    <3>1. o \notin Stale(SweepPage)
      BY <2>1 DEF Expired, Stale
    <3>2. user'[o] = [user[o] EXCEPT !.state = "evicted", !.ttl = EvictedTTL]
      BY <1>9, <2>1, <3>1 DEF Sweep
    <3> QED
      BY <1>0, <1>1, <3>2 DEF Kept, HasState, UserRecord, Live
  <2>2. CASE o \in Stale(SweepPage) /\ o \notin Expired(SweepPage)
    <3>1. user'[o] = [user[o] EXCEPT !.state = "evicting", !.grace = Grace]
      BY <1>9, <2>2 DEF Sweep
    <3> QED
      BY <1>0, <3>1 DEF Kept, HasState, UserRecord, Live
  <2>3. CASE o \notin Stale(SweepPage) /\ o \notin Expired(SweepPage)
    BY <1>2, <1>9, <2>3 DEF Sweep
  <2> QED
    BY <2>1, <2>2, <2>3
<1>10. CASE UNCHANGED user
  BY <1>2, <1>10
<1> QED
  BY <1>4, <1>5, <1>6, <1>7, <1>8, <1>9, <1>10 DEF Next, Redeem, Refill, CloseLottery

\* Where entry tokens change.
LEMMA EntryChanges ==
  ASSUME TypeOK, Next, ~Tick, NEW j \in Jtis
  PROVE  \/ entry'[j] = entry[j] /\ minted'[j] = minted[j]
         \/ entry'[j] = NoEntry /\ minted'[j] = minted[j]
         \/ \E u \in Tokens : /\ Admit(u, j) /\ minted[j] = Nobody /\ minted'[j] = u
                              /\ entry'[j] = [owner |-> u, ttl |-> EntryTTL]
<1> DEFINE Same == entry'[j] = entry[j] /\ minted'[j] = minted[j]
<1>1. CASE UNCHANGED <<entry, minted>>
  BY <1>1
<1>2. ASSUME NEW u \in Tokens, NEW i \in Jtis, Admit(u, i)
      PROVE  Same \/ (i = j /\ minted[j] = Nobody /\ minted'[j] = u
                      /\ entry'[j] = [owner |-> u, ttl |-> EntryTTL])
  BY <1>2 DEF Admit, Exchangeable, TakeSeat, TypeOK
<1>3. ASSUME NEW u \in Tokens, NEW i \in Jtis, Redeem(u, i)
      PROVE  Same \/ (entry'[j] = NoEntry /\ minted'[j] = minted[j])
  BY <1>3 DEF Redeem, TypeOK
<1> QED
  BY <1>1, <1>2, <1>3
  DEF Next, Enqueue, EnqueueExists, EnqueueNew, Join, Heartbeat, Decide, ApplyObserve, MoveShard,
      ApplyHold, ApplyBlock, Withdraw, RestoreShard, Restorable, Rechallenge, Refill, Sweep, CloseLottery

\* A tick takes one from an entry token's life or ends it.
LEMMA AgedEntryFields ==
  ASSUME NEW e \in [owner : Tokens \cup {Nobody}, ttl : 0 .. EntryTTL]
  PROVE  \/ AgedEntry(e) = NoEntry
         \/ e.ttl > 1 /\ AgedEntry(e).owner = e.owner /\ AgedEntry(e).ttl = e.ttl - 1
<1>1. e.ttl \in Int
  BY Settings
<1> QED
  BY <1>1 DEF AgedEntry

\* An entry token stays backed by a session record over every step.
LEMMA StepBacked ==
  TypeOK /\ EntryBacked /\ [Next]_vars => EntryBacked'
<1> SUFFICES ASSUME TypeOK, EntryBacked, [Next]_vars, LifetimesNested, NEW j \in Jtis
             PROVE  Backed(j)'
  BY DEF EntryBacked, LifetimesNested
<1>0. Backed(j) /\ entry[j] \in [owner : Tokens \cup {Nobody}, ttl : 0 .. EntryTTL]
  BY DEF EntryBacked, TypeOK
<1>00. NoEntry.owner = Nobody
  BY DEF NoEntry
<1>1. CASE Next /\ ~Tick
  <2>1. CASE entry'[j] = entry[j] /\ minted'[j] = minted[j]
    <3> SUFFICES ASSUME entry[j].owner # Nobody PROVE Backed(j)'
      BY <2>1 DEF Backed
    <3>0. PICK o \in Tokens : o = entry[j].owner
      BY <1>0
    <3>1. o \in Tokens /\ HasState(o) /\ entry[j].ttl <= user[o].ttl /\ minted[j] = o
      BY <1>0, <3>0 DEF Backed
    <3>2. entry[j].ttl \in 0 .. EntryTTL
      BY <1>0
    <3>3. user[o].ttl \in Nat /\ user'[o].ttl \in Nat
      BY <3>1, StepType DEF TypeOK, UserRecord
    <3>4. HasState(o)' /\ (user'[o].ttl = user[o].ttl \/ user'[o].ttl >= EntryTTL)
      BY <1>1, <3>1, HashOutlives
    <3>5. entry[j].ttl <= user'[o].ttl
      BY <3>1, <3>2, <3>3, <3>4, Settings
    <3> QED
      BY <2>1, <3>0, <3>1, <3>4, <3>5 DEF Backed, HasState
  <2>2. CASE entry'[j] = NoEntry
    BY <1>00, <2>2 DEF Backed
  <2>3. ASSUME NEW u \in Tokens, Admit(u, j), minted'[j] = u,
               entry'[j] = [owner |-> u, ttl |-> EntryTTL]
        PROVE  Backed(j)'
    <3>1. user \in [Tokens -> UserRecord]
      BY DEF TypeOK
    <3>2. user'[u].state = "admitted" /\ user'[u].ttl = UserTTL
      BY <2>3, <3>1 DEF Admit, Exchangeable, TakeSeat, Admitted, UserRecord
    <3>3. EntryTTL <= UserTTL
      BY DEF LifetimesNested
    <3> QED
      BY <2>3, <3>2, <3>3 DEF Backed, HasState, Live
  <2> QED
    BY <1>1, <2>1, <2>2, <2>3, EntryChanges
<1>2. CASE Tick
  <2>1. entry'[j] = AgedEntry(entry[j]) /\ UNCHANGED minted
    BY <1>2 DEF Tick
  <2>2. CASE entry'[j] = NoEntry
    BY <1>00, <2>2 DEF Backed
  <2>3. CASE /\ entry[j].ttl > 1 /\ entry'[j].owner = entry[j].owner
             /\ entry'[j].ttl = entry[j].ttl - 1
    <3> SUFFICES ASSUME entry[j].owner # Nobody PROVE Backed(j)'
      BY <2>3 DEF Backed
    <3>0. PICK o \in Tokens : o = entry[j].owner
      BY <1>0
    <3>1. o \in Tokens /\ HasState(o) /\ entry[j].ttl <= user[o].ttl /\ minted[j] = o
      BY <1>0, <3>0 DEF Backed
    <3>2. user[o] \in UserRecord /\ user'[o] = Aged(user[o])
      BY <1>2, <3>1 DEF TypeOK, Tick
    <3>3. user[o].ttl > 1 /\ entry[j].ttl \in Int /\ user[o].ttl \in Int
      BY <1>0, <2>3, <3>1, <3>2, Settings DEF UserRecord
    <3>4. user'[o].state = user[o].state /\ user'[o].ttl = user[o].ttl - 1
      <4>1. ~(user[o].ttl <= 1) /\ user[o].state \in Live
        BY <3>1, <3>3 DEF HasState
      <4> QED
        BY <3>2, <4>1 DEF Aged, UserRecord
    <3> QED
      BY <2>1, <2>3, <3>0, <3>1, <3>3, <3>4 DEF Backed, HasState
  <2> QED
    BY <1>0, <2>1, <2>2, <2>3, AgedEntryFields
<1>3. CASE UNCHANGED vars
  BY <1>0, <1>3 DEF vars, Backed, HasState
<1> QED
  BY <1>1, <1>2, <1>3

\* For all lifetimes nested as the defaults are, no live entry token outlasts
\* the hash of its owner, whatever the actuator and the sweeper do to the owner
\* meanwhile.
THEOREM EntryBackedHolds == Spec => []EntryBacked
<1>1. Init => EntryBacked
  BY DEF Init, EntryBacked, Backed, NoEntry
<1>2. Spec => []TypeOK
  BY TypeCorrect
<1> QED
  BY <1>1, <1>2, StepBacked, PTL DEF Spec

-------------------------------------------------------------------------------

\* An entry token that is gone stays gone, and no jti is issued twice, for any
\* number of tokens and of retries.
THEOREM EntryOnceHolds == Spec => EntryOnce
<1> DEFINE Once(j) == minted[j] # Nobody =>
                        /\ minted'[j] = minted[j]
                        /\ entry'[j].owner # Nobody => entry[j].owner = entry'[j].owner
<1>1. ASSUME TypeOK, [Next]_vars, NEW j \in Jtis PROVE Once(j)
  <2>0. NoEntry.owner = Nobody
    BY DEF NoEntry
  <2>1. CASE Next /\ ~Tick
    BY <1>1, <2>0, <2>1, EntryChanges
  <2>2. CASE Tick
    <3>1. entry[j] \in [owner : Tokens \cup {Nobody}, ttl : 0 .. EntryTTL]
      BY <1>1 DEF TypeOK
    <3>2. entry'[j] = AgedEntry(entry[j]) /\ UNCHANGED minted
      BY <2>2 DEF Tick
    <3> QED
      BY <2>0, <3>1, <3>2, AgedEntryFields
  <2>3. CASE UNCHANGED vars
    BY <2>3 DEF vars
  <2> QED
    BY <1>1, <2>1, <2>2, <2>3
<1>2. TypeOK /\ [Next]_vars => [\A j \in Jtis : Once(j)]_vars
  BY <1>1
<1> QED
  BY <1>2, TypeCorrect, PTL DEF Spec, EntryOnce

\* Only an exchange admits.
LEMMA OnlyAdmit ==
  ASSUME TypeOK, Next, NEW u \in Tokens, user[u].state # "admitted", user'[u].state = "admitted"
  PROVE  \E j \in Jtis : Admit(u, j)
<1>0. user \in [Tokens -> UserRecord] /\ user[u] \in UserRecord
  BY DEF TypeOK
<1>1. CASE user'[u] = user[u]
  BY <1>1
<1>2. ASSUME NEW v \in Tokens, NEW d \in Draws, Enqueue(v, d) PROVE FALSE
  <2>1. CASE EnqueueExists(v)
    BY <1>0, <2>1 DEF EnqueueExists, UserRecord
  <2>2. ASSUME NEW r, Join(v, r) PROVE FALSE
    BY <1>0, <2>2 DEF Join, NoUser
  <2> QED
    BY <1>2, <2>1, <2>2 DEF Enqueue, EnqueueNew
<1>3. ASSUME NEW v \in Tokens, Heartbeat(v) PROVE FALSE
  BY <1>0, <1>3 DEF Heartbeat, Beaten, UserRecord
<1>4. ASSUME NEW v \in Tokens, NEW j \in Jtis, Admit(v, j) PROVE v = u
  BY <1>0, <1>4 DEF Admit, Exchangeable, TakeSeat
<1>5. ASSUME NEW v \in Tokens, Decide(v) PROVE FALSE
  <2>1. CASE user' = [user EXCEPT ![v] = Recorded(v)]
    BY <1>0, <2>1 DEF Recorded, UserRecord
  <2>2. ASSUME NEW s \in {"greylist", "held", "blocked"},
               user' = [user EXCEPT ![v] = [Recorded(v) EXCEPT !.state = s]]
        PROVE  FALSE
    BY <1>0, <2>2 DEF Recorded, UserRecord
  <2>3. CASE RestoreShard(v)
    BY <1>0, <2>3 DEF RestoreShard, Restorable, UserRecord
  <2> QED
    BY <1>5, <2>1, <2>2, <2>3 DEF Decide, ApplyObserve, MoveShard, ApplyHold, ApplyBlock
<1>6. ASSUME NEW v \in Tokens, Rechallenge(v) PROVE FALSE
  <2>1. CASE u # v
    BY <1>0, <1>6, <2>1 DEF Rechallenge
  <2>2. CASE u = v
    <3> DEFINE tried == Least(user[u].attempts + 1, MaxAttempts + 1)
    <3>1. \/ user'[u] = [user[u] EXCEPT !.state = "held", !.attempts = tried, !.ttl = UserTTL]
          \/ user'[u] = [user[u] EXCEPT !.state = "waiting", !.attempts = tried,
                                        !.ttl = UserTTL, !.watched = 0, !.beats = 0]
      BY <1>0, <1>6, <2>2 DEF Rechallenge
    <3> HIDE DEF tried
    <3> QED
      BY <1>0, <3>1 DEF UserRecord
  <2> QED
    BY <2>1, <2>2
<1>7. CASE Sweep
  <2>1. \/ user'[u] = [user[u] EXCEPT !.state = "evicted", !.ttl = EvictedTTL]
        \/ user'[u] = [user[u] EXCEPT !.state = "evicting", !.grace = Grace]
        \/ user'[u] = user[u]
    <3>1. CASE u \in Expired(SweepPage) /\ u \notin Stale(SweepPage)
      BY <1>7, <3>1 DEF Sweep
    <3>2. CASE u \in Stale(SweepPage) /\ u \notin Expired(SweepPage)
      BY <1>7, <3>2 DEF Sweep
    <3>3. CASE u \notin Stale(SweepPage) /\ u \notin Expired(SweepPage)
      BY <1>7, <3>3 DEF Sweep
    <3>4. ~(u \in Stale(SweepPage) /\ u \in Expired(SweepPage))
      BY DEF Stale, Expired
    <3> QED
      BY <3>1, <3>2, <3>3, <3>4
  <2> QED
    BY <1>0, <2>1 DEF UserRecord
<1>8. CASE Tick
  BY <1>0, <1>8, AgedFields DEF Tick
<1>9. CASE UNCHANGED user
  BY <1>9
<1> QED
  BY <1>2, <1>3, <1>4, <1>5, <1>6, <1>7, <1>8, <1>9 DEF Next, Redeem, Refill, CloseLottery

\* Members and scores are numbers, so a ZSET is totally ordered.
LEMMA ScoresAreInt ==
  ASSUME TypeOK, NEW t \in Tokens
  PROVE  t \in Int /\ queue[t] \in Int
<1>1. queue[t] \in Ranks \cup {Absent}
  BY DEF TypeOK
<1>2. Absent \in Int
  BY DEF Absent
<1>3. t \in Nat
  BY TokensAssumption
<1>4. Ranks \subseteq Nat
  BY RankIsNat
<1>5. queue[t] \in Nat \/ queue[t] = Absent
  BY <1>1, <1>4
<1> QED
  BY <1>2, <1>3, <1>5

\* One of two members stands ahead of the other, and then so does everybody
\* ahead of it.
LEMMA AheadOfAhead ==
  ASSUME TypeOK, NEW u \in Tokens, NEW v \in Tokens, u # v, queue[u] # Absent, queue[v] # Absent,
         u \notin Ahead(queue, v)
  PROVE  v \in Ahead(queue, u) /\ Ahead(queue, v) \subseteq Ahead(queue, u)
<1>1. \A t \in Tokens : t \in Int /\ queue[t] \in Int
  BY ScoresAreInt
<1>2. queue[v] < queue[u] \/ (queue[v] = queue[u] /\ v < u)
  BY <1>1 DEF Ahead, Members
<1>3. v \in Ahead(queue, u)
  BY <1>2 DEF Ahead, Members
<1>4. ASSUME NEW t \in Ahead(queue, v) PROVE t \in Ahead(queue, u)
  <2>1. t \in Tokens /\ queue[t] # Absent
        /\ (queue[t] < queue[v] \/ (queue[t] = queue[v] /\ t < v))
    BY DEF Ahead, Members
  <2>2. queue[t] < queue[u] \/ (queue[t] = queue[u] /\ t < u)
    BY <1>1, <1>2, <2>1
  <2> QED
    BY <2>1, <2>2 DEF Ahead, Members
<1> QED
  BY <1>3, <1>4

\* The seats are used from the front: an exchange shifts rank and budget
\* together for who stands behind, and neither matters for who stands ahead.
LEMMA AdmitKeepsTurns ==
  ASSUME TypeOK, NEW u \in Tokens, NEW j \in Jtis, Admit(u, j), NEW v \in Tokens \ {u}
  PROVE  Eligible(v)' = Eligible(v)
<1>1. queue'[v] = queue[v] /\ queue'[u] = Absent /\ queue[u] # Absent
  BY DEF Admit, Exchangeable, TakeSeat, TypeOK
<1>2. /\ budget.left \in Nat /\ budget'.left = budget.left - 1
      /\ ZRank(queue, u) < budget.left
  BY Settings DEF Admit, Exchangeable, TakeSeat, Eligible, TypeOK
<1>3. \A t \in Tokens : t # u => queue'[t] = queue[t]
  BY DEF Admit, Exchangeable, TakeSeat, TypeOK
<1>4. CASE queue[v] = Absent
  BY <1>1, <1>4 DEF Eligible
<1>5. CASE queue[v] # Absent
  <2>1. Ahead(queue', v) = Ahead(queue, v) \ {u}
    BY <1>1, <1>3 DEF Ahead, Members
  <2>2. /\ Ahead(queue, v) \in SUBSET Tokens /\ IsFiniteSet(Ahead(queue, v))
        /\ Ahead(queue, u) \in SUBSET Tokens /\ IsFiniteSet(Ahead(queue, u))
    BY TokensAssumption, FS_Subset DEF Ahead, Members
  <2>3. ZRank(queue, v) \in Nat /\ ZRank(queue, u) \in Nat
    BY <2>2, CountsAreNat DEF ZRank
  <2>4. Eligible(v) = (ZRank(queue, v) < budget.left)
    BY <1>5 DEF Eligible
  <2>5. Eligible(v)' = (ZRank(queue', v) < budget.left - 1)
    BY <1>1, <1>2, <1>5 DEF Eligible, ZRank
  <2>6. CASE u \in Ahead(queue, v)
    <3>1. Cardinality(Ahead(queue, v) \ {u}) = Cardinality(Ahead(queue, v)) - 1
      BY <2>2, <2>6, FS_RemoveElement
    <3>2. ZRank(queue', v) = ZRank(queue, v) - 1
      BY <2>1, <3>1 DEF ZRank
    <3> QED
      BY <1>2, <2>3, <2>4, <2>5, <3>2
  <2>7. CASE u \notin Ahead(queue, v)
    <3>1. v \in Ahead(queue, u) /\ Ahead(queue, v) \subseteq Ahead(queue, u)
      BY <1>1, <1>5, <2>7, AheadOfAhead
    <3>2. v \notin Ahead(queue, v)
      BY ScoresAreInt DEF Ahead
    <3>3. Ahead(queue, v) \subseteq Ahead(queue, u) \ {v}
      BY <3>1, <3>2
    <3>4. IsFiniteSet(Ahead(queue, u) \ {v}) /\ Cardinality(Ahead(queue, u) \ {v}) = ZRank(queue, u) - 1
      BY <2>2, <3>1, FS_RemoveElement DEF ZRank
    <3>5. ZRank(queue, v) <= ZRank(queue, u) - 1
      BY <3>3, <3>4, FS_Subset DEF ZRank
    <3>6. ZRank(queue', v) = ZRank(queue, v)
      <4>1. Ahead(queue', v) = Ahead(queue, v)
        BY <2>1, <2>7
      <4> QED
        BY <4>1 DEF ZRank
    <3> QED
      BY <1>2, <2>3, <2>4, <2>5, <3>5, <3>6
  <2> QED
    BY <2>6, <2>7
<1> QED
  BY <1>4, <1>5

\* For any length of the line and any budget, an exchange takes exactly one
\* seat and nobody else's turn.
THEOREM AdmissionOrderHolds == Spec => AdmissionOrder
<1> DEFINE Turns == \A u \in Tokens : user[u].state # "admitted" /\ user'[u].state = "admitted" =>
                      \A v \in Tokens \ {u} : Eligible(v)' = Eligible(v)
<1>1. TypeOK /\ [Next]_vars => [Turns]_vars
  <2> SUFFICES ASSUME TypeOK, Next, NEW u \in Tokens, user[u].state # "admitted",
                      user'[u].state = "admitted", NEW v \in Tokens \ {u}
               PROVE  Eligible(v)' = Eligible(v)
    OBVIOUS
  <2>1. PICK j \in Jtis : Admit(u, j)
    BY OnlyAdmit
  <2> QED
    BY <2>1, AdmitKeepsTurns
<1> QED
  BY <1>1, TypeCorrect, PTL DEF Spec, AdmissionOrder

-------------------------------------------------------------------------------
(* The grace period *)

\* Every script but one: a repeated entry (enqueue.lua, "exists") may refresh a
\* token that waits, not one already marked for eviction, whose last_seen it
\* would refresh without lifting the mark.
QuietNext ==
  \/ \E u \in Tokens :
       \/ \E d \in Draws : user[u].state # "evicting" /\ Enqueue(u, d)
       \/ Heartbeat(u)
       \/ \E j \in Jtis : Admit(u, j) \/ Redeem(u, j)
       \/ Decide(u)
       \/ Rechallenge(u)
  \/ \E g \in Grants : Refill(g)
  \/ Sweep
  \/ Tick
  \/ CloseLottery

QuietSpec == Init /\ [][QuietNext]_vars

\* What a sweep may write to a hash.
LEMMA SweptHash ==
  ASSUME Sweep, NEW u \in Tokens
  PROVE  \/ user'[u] = [user[u] EXCEPT !.state = "evicted", !.ttl = EvictedTTL]
         \/ user'[u] = [user[u] EXCEPT !.state = "evicting", !.grace = Grace]
         \/ user'[u] = user[u]
<1>1. CASE u \in Expired(SweepPage)
  BY <1>1 DEF Sweep, Stale, Expired
<1>2. CASE u \in Stale(SweepPage)
  BY <1>2 DEF Sweep, Stale, Expired
<1>3. CASE u \notin Stale(SweepPage) /\ u \notin Expired(SweepPage)
  BY <1>3 DEF Sweep
<1> QED
  BY <1>1, <1>2, <1>3

\* Who is in the grace period after a step was marked by it, or was in it
\* before and has aged at most.
LEMMA IntoGrace ==
  ASSUME TypeOK, QuietNext, NEW u \in Tokens, user'[u].state = "evicting"
  PROVE  \/ /\ user[u].state = "evicting"
            /\ user'[u].idle = user[u].idle /\ user'[u].grace = user[u].grace
         \/ /\ user[u].idle > StaleAfter
            /\ user'[u].idle = user[u].idle /\ user'[u].grace = Grace
         \/ user'[u] = Aged(user[u])
<1>0. user \in [Tokens -> UserRecord] /\ user[u] \in UserRecord
  BY DEF TypeOK
<1> DEFINE Same == /\ user[u].state = "evicting"
                   /\ user'[u].idle = user[u].idle /\ user'[u].grace = user[u].grace
<1>1. ASSUME NEW v \in Tokens, user[v].state # "evicting", EnqueueExists(v) PROVE Same
  BY <1>0, <1>1 DEF EnqueueExists, UserRecord
<1>2. ASSUME NEW v \in Tokens, NEW d \in Draws, EnqueueNew(v, d) PROVE Same
  <2>1. PICK r : user' = [user EXCEPT ![v] = [NoUser EXCEPT !.state = "waiting", !.rank = r, !.ttl = UserTTL]]
    BY <1>2 DEF EnqueueNew, Join
  <2> QED
    BY <1>0, <2>1 DEF NoUser, UserRecord
<1>3. ASSUME NEW v \in Tokens, Heartbeat(v) PROVE Same
  BY <1>0, <1>3 DEF Heartbeat, Beaten, UserRecord
<1>4. ASSUME NEW v \in Tokens, NEW j \in Jtis, Admit(v, j) PROVE Same
  BY <1>0, <1>4 DEF Admit, Admitted, UserRecord
<1>5. ASSUME NEW v \in Tokens, Decide(v) PROVE Same
  <2>1. CASE user' = [user EXCEPT ![v] = Recorded(v)]
    BY <1>0, <2>1 DEF Recorded, UserRecord
  <2>2. ASSUME NEW s \in {"greylist", "held", "blocked"},
               user' = [user EXCEPT ![v] = [Recorded(v) EXCEPT !.state = s]]
        PROVE  Same
    BY <1>0, <2>2 DEF Recorded, UserRecord
  <2>3. CASE RestoreShard(v)
    BY <1>0, <2>3 DEF RestoreShard, UserRecord
  <2> QED
    BY <1>5, <2>1, <2>2, <2>3 DEF Decide, ApplyObserve, MoveShard, ApplyHold, ApplyBlock
<1>6. ASSUME NEW v \in Tokens, Rechallenge(v) PROVE Same
  <2> DEFINE tried == Least(user[v].attempts + 1, MaxAttempts + 1)
  <2>1. \/ user' = [user EXCEPT ![v] = [user[v] EXCEPT !.state = "held", !.attempts = tried, !.ttl = UserTTL]]
        \/ user' = [user EXCEPT ![v] = [user[v] EXCEPT !.state = "waiting", !.attempts = tried,
                                        !.ttl = UserTTL, !.watched = 0, !.beats = 0]]
    BY <1>0, <1>6 DEF Rechallenge
  <2> HIDE DEF tried
  <2> QED
    BY <1>0, <2>1 DEF UserRecord
<1>7. CASE Sweep
  <2>1. CASE u \in Expired(SweepPage)
    <3>1. user'[u] = [user[u] EXCEPT !.state = "evicted", !.ttl = EvictedTTL]
      BY <1>7, <2>1 DEF Sweep, Stale, Expired
    <3> QED
      BY <1>0, <3>1 DEF UserRecord
  <2>2. CASE u \in Stale(SweepPage)
    <3>1. user'[u] = [user[u] EXCEPT !.state = "evicting", !.grace = Grace]
      BY <1>7, <2>2 DEF Sweep, Stale, Expired
    <3> QED
      BY <1>0, <2>2, <3>1 DEF UserRecord, Stale
  <2>3. CASE u \notin Expired(SweepPage) /\ u \notin Stale(SweepPage)
    BY <1>7, <2>3 DEF Sweep
  <2> QED
    BY <2>1, <2>2, <2>3
<1>8. CASE Tick
  BY <1>8 DEF Tick
<1>9. CASE UNCHANGED user
  BY <1>9
<1> QED
  BY <1>1, <1>2, <1>3, <1>4, <1>5, <1>6, <1>7, <1>8, <1>9
  DEF QuietNext, Enqueue, Redeem, Refill, CloseLottery

\* Aging in the grace period gives on one side what it takes on the other, up
\* to the value at which an age stops.
LEMMA AgedInGrace ==
  ASSUME NEW r \in UserRecord, Aged(r).state = "evicting",
         r.state = "evicting" => r.idle + r.grace > StaleAfter + Grace
  PROVE  Aged(r).idle + Aged(r).grace > StaleAfter + Grace
<1>0. r.idle \in Nat /\ r.grace \in Nat /\ r.idle <= IdleCap /\ StaleAfter \in Nat /\ Grace \in Nat
  BY Settings, TimesAssumption DEF UserRecord
<1>1. r.state = "evicting" /\ ~(r.ttl <= 1)
  BY DEF Aged, NoUser, Retired, UserRecord, Live
<1>2. Aged(r) = [r EXCEPT !.idle = Least(r.idle + 1, IdleCap), !.grace = Most(r.grace - 1, 0),
                          !.watched = Least(r.watched + 1, MinDwell), !.ttl = r.ttl - 1]
  BY <1>1 DEF Aged, UserRecord, Live
<1>3. Aged(r).idle = Least(r.idle + 1, IdleCap) /\ Aged(r).grace = Most(r.grace - 1, 0)
  BY <1>2 DEF UserRecord
<1> QED
  BY <1>0, <1>1, <1>3 DEF Least, Most, IdleCap

\* A step that re-enters nobody in its grace keeps the grace honoured.
LEMMA StepGrace == TypeOK /\ GraceHonoured /\ [QuietNext]_vars => GraceHonoured'
<1> SUFFICES ASSUME TypeOK, GraceHonoured, [QuietNext]_vars,
                    NEW u \in Tokens, user'[u].state = "evicting"
             PROVE  user'[u].idle + user'[u].grace > StaleAfter + Grace
  BY DEF GraceHonoured
<1>0. user[u] \in UserRecord /\ StaleAfter \in Nat /\ Grace \in Nat
  BY TimesAssumption DEF TypeOK
<1>1. user[u].state = "evicting" => user[u].idle + user[u].grace > StaleAfter + Grace
  BY DEF GraceHonoured
<1>2. CASE UNCHANGED vars
  BY <1>1, <1>2 DEF vars
<1>3. CASE QuietNext
  <2>1. CASE user[u].idle > StaleAfter /\ user'[u].idle = user[u].idle /\ user'[u].grace = Grace
    BY <1>0, <2>1 DEF UserRecord
  <2>2. CASE user'[u] = Aged(user[u])
    BY <1>0, <1>1, <2>2, AgedInGrace
  <2> QED
    BY <1>1, <1>3, <2>1, <2>2, IntoGrace
<1> QED
  BY <1>2, <1>3

\* Whatever else the scripts do to a token, from whichever replica and in
\* whichever order, it is evicted only after stale_after and the whole grace
\* without a signal, unless it re-enters in its grace: that is the one path by
\* which evict.lua can drop somebody heard of a moment ago.
THEOREM QuietGraceHolds == QuietSpec => []GraceHonoured
<1>1. Init => GraceHonoured
  BY DEF Init, GraceHonoured, NoUser
<1>2. Init => TypeOK
  BY InitType
<1>3. QuietNext => Next
  BY DEF QuietNext, Next
<1>4. TypeOK /\ [QuietNext]_vars => TypeOK'
  BY <1>3, StepType
<1> QED
  BY <1>1, <1>2, <1>4, StepGrace, PTL DEF QuietSpec

\* The users of the drain run never re-enter in their grace, so there the
\* grace is honoured for any number of them.
THEOREM GraceHonouredHolds == DrainSpec => []GraceHonoured
<1>1. DrainNext => QuietNext
  <2>1. ASSUME NEW u \in Tokens, NEW d \in Draws, EnqueueNew(u, d)
        PROVE  user[u].state # "evicting" /\ Enqueue(u, d)
    BY <2>1 DEF EnqueueNew, Enqueue
  <2> QED
    BY <2>1 DEF DrainNext, QuietNext, TimelyTick
<1>2. DrainSpec => QuietSpec
  BY <1>1, PTL DEF DrainSpec, QuietSpec
<1> QED
  BY <1>2, QuietGraceHolds, PTL

-------------------------------------------------------------------------------
(* The scripts implement the abstract line *)

\* The places given out so far: the lottery's lie below the band, the others
\* are at most the last number drawn from the counter.
PlacesGiven == \A u \in Tokens : user[u].rank <= LotteryBand + seq

\* What the refinement mapping makes of the hashes.
Phase == [u \in Tokens |-> PhaseOf(user[u].state)]
Place == [u \in Tokens |-> user[u].rank]

\* Replacing one hash moves one token of the abstract line.
LEMMA OneToken ==
  ASSUME user \in [Tokens -> UserRecord], NEW w \in Tokens, NEW r,
         user' = [user EXCEPT ![w] = r], NEW s, NEW p, r.state = s, r.rank = p
  PROVE  \A u \in Tokens : /\ user'[u].state = IF u = w THEN s ELSE user[u].state
                           /\ user'[u].rank = IF u = w THEN p ELSE user[u].rank
OBVIOUS

\* A script that keeps a token's phase and rank is a stutter of the line.
LEMMA SameToken ==
  ASSUME user \in [Tokens -> UserRecord], NEW w \in Tokens, NEW r,
         user' = [user EXCEPT ![w] = r],
         PhaseOf(r.state) = PhaseOf(user[w].state), r.rank = user[w].rank,
         budget'.left = budget.left, lottery' = lottery
  PROVE  UNCHANGED Line!lineVars
<1>1. \A u \in Tokens : user'[u] = IF u = w THEN r ELSE user[u]
  OBVIOUS
<1>2. Phase' = Phase /\ Place' = Place
  BY <1>1 DEF Phase, Place
<1> QED
  BY <1>2 DEF Phase, Place, Line!lineVars

\* A token that comes out of none or evicted joins the line, with the lottery
\* over behind everybody who has a place.
LEMMA EnqueueJoins ==
  ASSUME TypeOK, PlacesGiven, NEW u \in Tokens, NEW d \in Draws, EnqueueNew(u, d)
  PROVE  Line!Join(u)
<1>0. user \in [Tokens -> UserRecord] /\ lottery' = lottery /\ budget' = budget
  BY DEF TypeOK, EnqueueNew, Join
<1>1. PICK r \in Ranks : /\ user' = [user EXCEPT ![u] = [NoUser EXCEPT !.state = "waiting", !.rank = r, !.ttl = UserTTL]]
                         /\ ~lottery => r = LotteryBand + seq + 1
  <2>1. CASE lottery /\ Join(u, d)
    BY <2>1 DEF Join, Ranks
  <2>2. CASE ~lottery /\ seq < MaxSeq /\ Join(u, LotteryBand + seq + 1)
    BY <2>2, RankIsNat DEF Join, TypeOK
  <2> QED
    BY <2>1, <2>2 DEF EnqueueNew
<1>2. \A v \in Tokens : /\ user'[v].state = IF v = u THEN "waiting" ELSE user[v].state
                        /\ user'[v].rank = IF v = u THEN r ELSE user[v].rank
  <2> DEFINE h == [NoUser EXCEPT !.state = "waiting", !.rank = r, !.ttl = UserTTL]
  <2>1. h.state = "waiting" /\ h.rank = r
    BY DEF NoUser
  <2>2. user' = [user EXCEPT ![u] = h]
    BY <1>1
  <2> HIDE DEF h
  <2> QED
    BY <1>0, <2>1, <2>2, OneToken
<1>3. Place'[u] = r /\ r # Absent
  BY <1>2, RankIsNat DEF Place
<1>4. Phase[u] = "out"
  BY DEF Phase, PhaseOf, EnqueueNew
<1>5. ~lottery => \A v \in Tokens : Place[v] < Place'[u]
  <2>1. ASSUME ~lottery, NEW v \in Tokens PROVE user[v].rank < r
    <3>1. user[v].rank <= LotteryBand + seq /\ LotteryBand \in Nat /\ seq \in Nat
      BY RanksAssumption DEF PlacesGiven, TypeOK
    <3>2. user[v].rank \in Int
      <4>1. user[v].rank \in Ranks \cup {Absent}
        BY <1>0 DEF UserRecord
      <4> QED
        BY <4>1, ScoreIsInt
    <3> QED
      BY <1>1, <2>1, <3>1, <3>2
  <2> QED
    BY <1>3, <2>1 DEF Place
<1>6. Place' = [Place EXCEPT ![u] = Place'[u]] /\ Phase' = [Phase EXCEPT ![u] = "line"]
  BY <1>2, <1>3 DEF PhaseOf, Phase, Place
<1> QED
  BY <1>0, <1>3, <1>4, <1>5, <1>6 DEF Line!Join, Line!Becomes, Phase, Place

\* An exchange enters the abstract line's front: whoever it counts ahead is a
\* member of the ZSET ahead, which may also hold ghosts.
LEMMA AdmitEnters ==
  ASSUME TypeOK, Placement, NEW u \in Tokens, NEW j \in Jtis, Admit(u, j)
  PROVE  Line!Enter(u)
<1>0. user \in [Tokens -> UserRecord] /\ lottery' = lottery
  BY DEF TypeOK, Admit
<1>1. user[u].state = "waiting" /\ ZRank(queue, u) < budget.left
  BY DEF Admit, Exchangeable, Eligible
<1>2. \A v \in Tokens : Phase[v] = "line" => queue[v] = user[v].rank /\ queue[v] # Absent
  <2>1. ASSUME NEW v \in Tokens, Phase[v] = "line" PROVE queue[v] = user[v].rank /\ queue[v] # Absent
    <3>1. user[v].state \in {"waiting", "evicting"}
      BY <2>1 DEF Phase, PhaseOf
    <3> QED
      BY <3>1 DEF Placement, Placed, InLine, HasState, Live
  <2> QED
    BY <2>1
<1>3. Phase[u] = "line" /\ queue[u] = user[u].rank
  BY <1>1, <1>2 DEF Phase, PhaseOf
<1>4. Line!Ahead(u) \subseteq Ahead(queue, u)
  BY <1>2, <1>3 DEF Line!Ahead, Ahead, Members, Phase
<1>5. Cardinality(Line!Ahead(u)) < budget.left
  <2>1. IsFiniteSet(Ahead(queue, u)) /\ Ahead(queue, u) \in SUBSET Tokens
    BY TokensAssumption, FS_Subset DEF Ahead, Members
  <2>2. Cardinality(Line!Ahead(u)) <= Cardinality(Ahead(queue, u))
    BY <1>4, <2>1, FS_Subset
  <2>3. Cardinality(Line!Ahead(u)) \in Nat /\ Cardinality(Ahead(queue, u)) \in Nat /\ budget.left \in Int
    BY <1>4, <2>1, CountsAreNat, Settings DEF TypeOK
  <2> QED
    BY <1>1, <2>2, <2>3 DEF ZRank
<1>6. Phase' = [Phase EXCEPT ![u] = "in"] /\ Place' = Place
  <2>1. user' = [user EXCEPT ![u] = Admitted(user[u], j)]
    BY DEF Admit
  <2>2. Admitted(user[u], j).state = "admitted" /\ Admitted(user[u], j).rank = user[u].rank
    BY <1>0 DEF Admitted, UserRecord
  <2>3. \A v \in Tokens : /\ user'[v].state = IF v = u THEN "admitted" ELSE user[v].state
                          /\ user'[v].rank = user[v].rank
    BY <1>0, <2>1, <2>2
  <2> QED
    BY <2>3 DEF Phase, Place, PhaseOf
<1>7. budget'.left = budget.left - 1
  BY DEF Admit, TakeSeat, TypeOK
<1>8. Line!Becomes(u, "in")
  BY <1>6 DEF Line!Becomes, Phase
<1>9. UNCHANGED [v \in Tokens |-> user[v].rank]
  BY <1>6 DEF Place
<1>10. [v \in Tokens |-> PhaseOf(user[v].state)][u] = "line"
  BY <1>3 DEF Phase
<1>11. Line!Cardinality(Line!Ahead(u)) = Cardinality(Line!Ahead(u))
  BY Zenon DEF Line!Cardinality, Cardinality
<1> QED
  BY <1>0, <1>5, <1>7, <1>8, <1>9, <1>10, <1>11 DEF Line!Enter

\* A token set aside or barred keeps its rank; nothing else of the line moves.
LEMMA Moved ==
  ASSUME user \in [Tokens -> UserRecord], NEW u \in Tokens, NEW r,
         user' = [user EXCEPT ![u] = r], r.rank = user[u].rank,
         budget' = budget, lottery' = lottery, HasState(u), user[u].rank # Absent
  PROVE  /\ r.state = "held" /\ user[u].state \notin {"blocked", "greylist", "held"} => Line!SetAside(u)
         /\ r.state = "greylist" /\ user[u].state \in {"waiting", "evicting"} => Line!SetAside(u)
         /\ r.state = "waiting" /\ user[u].state \in {"greylist", "held"} => Line!Return(u)
         /\ r.state = "blocked" => Line!Bar(u)
<1>1. \A v \in Tokens : user'[v] = IF v = u THEN r ELSE user[v]
  OBVIOUS
<1>2. UNCHANGED [v \in Tokens |-> user[v].rank] /\ UNCHANGED budget.left
  BY <1>1
<1>3. ASSUME NEW p, PhaseOf(r.state) = p PROVE Line!Becomes(u, p)
  BY <1>1, <1>3 DEF Line!Becomes
<1>4. CASE r.state = "held" /\ user[u].state \notin {"blocked", "greylist", "held"}
  <2>1. PhaseOf(r.state) = "aside" /\ PhaseOf(user[u].state) \in {"line", "in", "out"}
    BY <1>4 DEF PhaseOf, HasState, Live
  <2> QED
    BY <1>2, <1>3, <1>4, <2>1 DEF Line!SetAside
<1>5. CASE r.state = "greylist" /\ user[u].state \in {"waiting", "evicting"}
  <2>1. PhaseOf(r.state) = "aside" /\ PhaseOf(user[u].state) = "line"
    BY <1>5 DEF PhaseOf
  <2> QED
    BY <1>2, <1>3, <1>5, <2>1 DEF Line!SetAside
<1>6. CASE r.state = "waiting" /\ user[u].state \in {"greylist", "held"}
  <2>1. PhaseOf(r.state) = "line" /\ PhaseOf(user[u].state) = "aside"
    BY <1>6 DEF PhaseOf
  <2> QED
    BY <1>2, <1>3, <1>6, <2>1 DEF Line!Return
<1>7. CASE r.state = "blocked"
  <2>1. PhaseOf(r.state) = "barred"
    BY <1>7 DEF PhaseOf
  <2> QED
    BY <1>2, <1>3, <1>7, <2>1 DEF Line!Bar
<1> QED
  BY <1>4, <1>5, <1>6, <1>7

\* The actuator sets a token aside, brings it back, bars it, or leaves the line
\* as it is.
LEMMA DecideMoves ==
  ASSUME TypeOK, Placement, NEW u \in Tokens, Decide(u)
  PROVE  Line!SetAside(u) \/ Line!Return(u) \/ Line!Bar(u) \/ UNCHANGED Line!lineVars
<1>0. /\ user \in [Tokens -> UserRecord] /\ user[u] \in UserRecord
      /\ budget' = budget /\ lottery' = lottery
  BY DEF TypeOK, Decide, ApplyObserve, MoveShard, ApplyHold, ApplyBlock, RestoreShard
<1>1. HasState(u) /\ user[u].rank # Absent
  BY DEF Decide, ApplyObserve, MoveShard, ApplyHold, ApplyBlock, RestoreShard, Restorable,
         HasState, Live, Placed, Placement
<1>2. CASE user' = [user EXCEPT ![u] = Recorded(u)]
  <2>1. Recorded(u).state = user[u].state /\ Recorded(u).rank = user[u].rank
    BY <1>0 DEF Recorded, UserRecord
  <2> QED
    BY <1>0, <1>2, <2>1, SameToken
<1>3. ASSUME NEW s, user' = [user EXCEPT ![u] = [Recorded(u) EXCEPT !.state = s]],
             \/ s = "held" /\ user[u].state \notin {"blocked", "held"}
             \/ s = "greylist" /\ user[u].state \in {"waiting", "evicting"}
             \/ s = "blocked"
      PROVE  Line!SetAside(u) \/ Line!Bar(u) \/ UNCHANGED Line!lineVars
  <2> DEFINE r == [Recorded(u) EXCEPT !.state = s]
  <2>1. r.state = s /\ r.rank = user[u].rank
    BY <1>0 DEF Recorded, UserRecord
  <2>2. user' = [user EXCEPT ![u] = r]
    BY <1>3
  <2> HIDE DEF r
  <2>3. CASE s = "held" /\ user[u].state = "greylist"
    <3>1. PhaseOf(r.state) = PhaseOf(user[u].state)
      BY <2>1, <2>3 DEF PhaseOf
    <3> QED
      BY <1>0, <2>1, <2>2, <3>1, SameToken
  <2>4. CASE ~(s = "held" /\ user[u].state = "greylist")
    BY <1>0, <1>1, <1>3, <2>1, <2>2, <2>4, Moved
  <2> QED
    BY <2>3, <2>4
<1>4. CASE RestoreShard(u)
  <2> DEFINE r == [user[u] EXCEPT !.state = "waiting", !.ttl = UserTTL]
  <2>1. r.state = "waiting" /\ r.rank = user[u].rank
    BY <1>0 DEF UserRecord
  <2>2. user' = [user EXCEPT ![u] = r] /\ user[u].state \in {"greylist", "held"}
    BY <1>0, <1>4 DEF RestoreShard, Restorable, UserRecord
  <2> HIDE DEF r
  <2> QED
    BY <1>0, <1>1, <2>1, <2>2, Moved
<1> QED
  BY <1>2, <1>3, <1>4 DEF Decide, ApplyObserve, MoveShard, ApplyHold, ApplyBlock

\* A re-challenge brings a token back to its place or leaves it aside.
LEMMA RechallengeMoves ==
  ASSUME TypeOK, Placement, NEW u \in Tokens, Rechallenge(u)
  PROVE  Line!Return(u) \/ UNCHANGED Line!lineVars
<1>0. /\ user \in [Tokens -> UserRecord] /\ user[u] \in UserRecord
      /\ budget' = budget /\ lottery' = lottery
      /\ user[u].state = "greylist" /\ user[u].rank # Absent /\ HasState(u)
  BY DEF TypeOK, Rechallenge, HasState, Live
<1> DEFINE tried == Least(user[u].attempts + 1, MaxAttempts + 1)
<1>1. \/ user' = [user EXCEPT ![u] = [user[u] EXCEPT !.state = "held", !.attempts = tried, !.ttl = UserTTL]]
      \/ user' = [user EXCEPT ![u] = [user[u] EXCEPT !.state = "waiting", !.attempts = tried,
                                      !.ttl = UserTTL, !.watched = 0, !.beats = 0]]
  BY <1>0 DEF Rechallenge
<1> HIDE DEF tried
<1>2. PICK r : /\ user' = [user EXCEPT ![u] = r] /\ r.rank = user[u].rank
               /\ r.state \in {"held", "waiting"}
  <2> DEFINE a == [user[u] EXCEPT !.state = "held", !.attempts = tried, !.ttl = UserTTL]
             b == [user[u] EXCEPT !.state = "waiting", !.attempts = tried, !.ttl = UserTTL,
                                  !.watched = 0, !.beats = 0]
  <2>1. a.state = "held" /\ a.rank = user[u].rank
    BY <1>0 DEF UserRecord
  <2>2. b.state = "waiting" /\ b.rank = user[u].rank
    BY <1>0 DEF UserRecord
  <2>3. user' = [user EXCEPT ![u] = a] \/ user' = [user EXCEPT ![u] = b]
    BY <1>1
  <2> HIDE DEF a, b
  <2> QED
    BY <2>1, <2>2, <2>3
<1>3. CASE r.state = "held"
  <2>1. PhaseOf(r.state) = PhaseOf(user[u].state)
    BY <1>0, <1>3 DEF PhaseOf
  <2> QED
    BY <1>0, <1>2, <2>1, SameToken
<1>4. CASE r.state = "waiting"
  BY <1>0, <1>2, <1>4, Moved
<1> QED
  BY <1>2, <1>3, <1>4

\* The places grow with the counter: whatever a script writes as a rank is a
\* draw, the number just taken, or no rank at all.
LEMMA StepPlaces == TypeOK /\ PlacesGiven /\ [Next]_vars => PlacesGiven'
<1> SUFFICES ASSUME TypeOK, PlacesGiven, [Next]_vars, NEW v \in Tokens
             PROVE  user'[v].rank <= LotteryBand + seq'
  BY DEF PlacesGiven
<1>0. /\ user \in [Tokens -> UserRecord] /\ user[v] \in UserRecord
      /\ LotteryBand \in Nat /\ seq \in Nat /\ user[v].rank <= LotteryBand + seq
  BY RanksAssumption DEF TypeOK, PlacesGiven
<1>1. CASE user'[v].rank = user[v].rank /\ seq' = seq
  BY <1>0, <1>1
<1>2. ASSUME NEW u \in Tokens, NEW d \in Draws, EnqueueNew(u, d)
      PROVE  user'[v].rank <= LotteryBand + seq'
  <2>1. d <= LotteryBand + seq /\ user[v].rank \in Int /\ d \in Int
    <3>1. d \in 0 .. (LotteryBand - 1)
      BY RanksAssumption
    <3>2. user[v].rank \in Ranks \cup {Absent}
      BY <1>0 DEF UserRecord
    <3>3. user[v].rank \in Int
      BY <3>2, ScoreIsInt
    <3> QED
      BY <1>0, <3>1, <3>3
  <2>2. ASSUME NEW r, Join(u, r) PROVE user'[v].rank = IF v = u THEN r ELSE user[v].rank
    BY <1>0, <2>2 DEF Join, NoUser
  <2>3. CASE Join(u, d) /\ seq' = seq
    BY <1>0, <2>1, <2>2, <2>3
  <2>4. CASE Join(u, LotteryBand + seq + 1) /\ seq' = seq + 1
    BY <1>0, <2>1, <2>2, <2>4
  <2> QED
    BY <1>2, <2>3, <2>4 DEF EnqueueNew
<1>3. ASSUME NEW u \in Tokens, EnqueueExists(u) PROVE user'[v].rank = user[v].rank /\ seq' = seq
  BY <1>0, <1>3 DEF EnqueueExists, UserRecord
<1>4. ASSUME NEW u \in Tokens, Heartbeat(u) PROVE user'[v].rank = user[v].rank /\ seq' = seq
  BY <1>0, <1>4 DEF Heartbeat, Beaten, UserRecord
<1>5. ASSUME NEW u \in Tokens, NEW j \in Jtis, Admit(u, j)
      PROVE  user'[v].rank = user[v].rank /\ seq' = seq
  BY <1>0, <1>5 DEF Admit, Admitted, UserRecord
<1>6. ASSUME NEW u \in Tokens, Decide(u) PROVE user'[v].rank = user[v].rank /\ seq' = seq
  <2>1. seq' = seq
    BY <1>6 DEF Decide, ApplyObserve, MoveShard, ApplyHold, ApplyBlock, RestoreShard
  <2>2. \/ user' = [user EXCEPT ![u] = Recorded(u)]
        \/ \E s \in {"greylist", "held", "blocked"} :
             user' = [user EXCEPT ![u] = [Recorded(u) EXCEPT !.state = s]]
        \/ user' = [user EXCEPT ![u].state = "waiting", ![u].ttl = UserTTL]
    BY <1>6 DEF Decide, ApplyObserve, MoveShard, ApplyHold, ApplyBlock, RestoreShard
  <2>3. CASE user' = [user EXCEPT ![u] = Recorded(u)]
    BY <1>0, <2>1, <2>3 DEF Recorded, UserRecord
  <2>4. ASSUME NEW s, user' = [user EXCEPT ![u] = [Recorded(u) EXCEPT !.state = s]]
        PROVE  user'[v].rank = user[v].rank
    BY <1>0, <2>4 DEF Recorded, UserRecord
  <2>5. CASE user' = [user EXCEPT ![u].state = "waiting", ![u].ttl = UserTTL]
    BY <1>0, <2>1, <2>5 DEF UserRecord
  <2> QED
    BY <2>1, <2>2, <2>3, <2>4, <2>5
<1>7. ASSUME NEW u \in Tokens, Rechallenge(u) PROVE user'[v].rank = user[v].rank /\ seq' = seq
  <2> DEFINE tried == Least(user[u].attempts + 1, MaxAttempts + 1)
  <2>1. /\ seq' = seq
        /\ \/ user' = [user EXCEPT ![u] = [user[u] EXCEPT !.state = "held", !.attempts = tried, !.ttl = UserTTL]]
           \/ user' = [user EXCEPT ![u] = [user[u] EXCEPT !.state = "waiting", !.attempts = tried,
                                           !.ttl = UserTTL, !.watched = 0, !.beats = 0]]
    BY <1>0, <1>7 DEF Rechallenge
  <2> HIDE DEF tried
  <2>2. CASE user' = [user EXCEPT ![u] = [user[u] EXCEPT !.state = "held", !.attempts = tried, !.ttl = UserTTL]]
    BY <1>0, <2>1, <2>2 DEF UserRecord
  <2>3. CASE user' = [user EXCEPT ![u] = [user[u] EXCEPT !.state = "waiting", !.attempts = tried,
                                           !.ttl = UserTTL, !.watched = 0, !.beats = 0]]
    BY <1>0, <2>1, <2>3 DEF UserRecord
  <2> QED
    BY <2>1, <2>2, <2>3
<1>8. CASE Sweep
  <2>1. \/ user'[v] = [user[v] EXCEPT !.state = "evicted", !.ttl = EvictedTTL]
        \/ user'[v] = [user[v] EXCEPT !.state = "evicting", !.grace = Grace]
        \/ user'[v] = user[v]
    BY <1>8, SweptHash
  <2>2. seq' = seq
    BY <1>8 DEF Sweep
  <2> QED
    BY <1>0, <1>1, <2>1, <2>2 DEF UserRecord
<1>9. CASE Tick
  <2>1. user'[v] = Aged(user[v]) /\ seq' = seq
    BY <1>9 DEF Tick
  <2>2. user'[v].rank \in {user[v].rank, Absent}
    BY <1>0, <2>1 DEF Aged, NoUser, Retired, UserRecord
  <2>3. Absent <= LotteryBand + seq
    BY <1>0 DEF Absent
  <2> QED
    BY <1>0, <2>1, <2>2, <2>3
<1>10. CASE UNCHANGED <<user, seq>>
  BY <1>0, <1>10
<1>11. CASE UNCHANGED vars
  BY <1>10, <1>11 DEF vars
<1> QED
  BY <1>1, <1>2, <1>3, <1>4, <1>5, <1>6, <1>7, <1>8, <1>9, <1>10, <1>11
  DEF Next, Enqueue, Redeem, Refill, CloseLottery

\* Time and the sweeper: who leaves the line keeps its place until it is
\* forgotten, who outlives its hash is gone, and lapsed seats are lost at once.
LEMMA SweepElapses ==
  ASSUME TypeOK, Sweep
  PROVE  Line!Elapse
<1>0. user \in [Tokens -> UserRecord] /\ budget' = budget /\ lottery' = lottery
  BY DEF TypeOK, Sweep
<1>1. ASSUME NEW v \in Tokens
      PROVE  /\ user'[v].rank = user[v].rank
             /\ \/ PhaseOf(user'[v].state) = PhaseOf(user[v].state)
                \/ PhaseOf(user[v].state) = "line" /\ PhaseOf(user'[v].state) = "out"
  <2>0. user[v] \in UserRecord
    BY <1>0
  <2>1. CASE v \in Expired(SweepPage)
    <3>1. user[v].state = "evicting" /\ user'[v] = [user[v] EXCEPT !.state = "evicted", !.ttl = EvictedTTL]
      BY <2>1 DEF Sweep, Stale, Expired
    <3>2. user'[v].state = "evicted" /\ user'[v].rank = user[v].rank
      BY <2>0, <3>1 DEF UserRecord
    <3> QED
      BY <3>1, <3>2 DEF PhaseOf
  <2>2. CASE v \in Stale(SweepPage)
    <3>1. user[v].state = "waiting" /\ user'[v] = [user[v] EXCEPT !.state = "evicting", !.grace = Grace]
      BY <2>2 DEF Sweep, Stale, Expired
    <3>2. user'[v].state = "evicting" /\ user'[v].rank = user[v].rank
      BY <2>0, <3>1 DEF UserRecord
    <3> QED
      BY <3>1, <3>2 DEF PhaseOf
  <2>3. CASE v \notin Expired(SweepPage) /\ v \notin Stale(SweepPage)
    <3>1. user'[v] = user[v]
      BY <2>3 DEF Sweep
    <3> QED
      BY <3>1
  <2> QED
    BY <2>1, <2>2, <2>3
<1>2. \A v \in Tokens : Line!Passes(v)
  BY <1>1 DEF Line!Passes
<1> QED
  BY <1>0, <1>2 DEF Line!Elapse

\* The same of the clock: a hash that expires forgets the evicted and retires
\* the others, and the budget key takes its seats with it.
LEMMA TickElapses ==
  ASSUME TypeOK, Placement, Tick
  PROVE  Line!Elapse
<1>0. user \in [Tokens -> UserRecord] /\ lottery' = lottery
  BY DEF TypeOK, Tick
<1>1. ASSUME NEW v \in Tokens
      PROVE  \/ user'[v].state = user[v].state /\ user'[v].rank = user[v].rank
             \/ user[v].state = "evicted" /\ user'[v].state = "none" /\ user'[v].rank = Absent
             \/ /\ user[v].state \in Live \ {"evicted"}
                /\ user'[v].state = "retired" /\ user'[v].rank = Absent
  <2>1. user'[v] = Aged(user[v]) /\ user[v] \in UserRecord
    BY <1>0 DEF Tick
  <2> QED
    BY <2>1 DEF Aged, NoUser, Retired, UserRecord
<1>2. ASSUME NEW v \in Tokens PROVE Line!Passes(v)
  <2>1. CASE user'[v].state = user[v].state /\ user'[v].rank = user[v].rank
    BY <2>1 DEF Line!Passes
  <2>2. CASE user[v].state = "evicted" /\ user'[v].state = "none" /\ user'[v].rank = Absent
    <3>1. PhaseOf(user[v].state) = "out" /\ PhaseOf(user'[v].state) = "out"
      BY <2>2 DEF PhaseOf
    <3> QED
      BY <2>2, <3>1 DEF Line!Passes
  <2>3. CASE /\ user[v].state \in Live \ {"evicted"}
             /\ user'[v].state = "retired" /\ user'[v].rank = Absent
    <3>1. PhaseOf(user[v].state) # "out" /\ PhaseOf(user'[v].state) = "gone"
      BY <2>3 DEF PhaseOf, Live
    <3> QED
      BY <2>3, <3>1 DEF Line!Passes
  <2> QED
    BY <1>1, <2>1, <2>2, <2>3
<1>3. budget'.left \in {0, budget.left}
  BY DEF Tick, AgedBudget, TypeOK
<1> QED
  BY <1>0, <1>2, <1>3 DEF Line!Elapse

\* Every script is a step of the abstract line or leaves it as it is.
LEMMA StepImplements ==
  TypeOK /\ Placement /\ PlacesGiven /\ [Next]_vars => [Line!Next]_(Line!lineVars)
<1> SUFFICES ASSUME TypeOK, Placement, PlacesGiven, [Next]_vars
             PROVE  Line!Next \/ UNCHANGED Line!lineVars
  OBVIOUS
<1>0. user \in [Tokens -> UserRecord]
  BY DEF TypeOK
<1>1. ASSUME NEW u \in Tokens, NEW d \in Draws, Enqueue(u, d)
      PROVE  Line!Join(u) \/ UNCHANGED Line!lineVars
  <2>1. CASE EnqueueExists(u)
    <3> DEFINE r == [user[u] EXCEPT !.idle = 0, !.ttl = UserTTL]
    <3>1. user' = [user EXCEPT ![u] = r]
      BY <1>0, <2>1 DEF EnqueueExists
    <3>2. r.state = user[u].state /\ r.rank = user[u].rank
      BY <1>0 DEF UserRecord
    <3>3. budget'.left = budget.left /\ lottery' = lottery
      BY <2>1 DEF EnqueueExists
    <3> HIDE DEF r
    <3> QED
      BY <1>0, <3>1, <3>2, <3>3, SameToken
  <2> QED
    BY <1>1, <2>1, EnqueueJoins DEF Enqueue
<1>2. ASSUME NEW u \in Tokens, Heartbeat(u) PROVE UNCHANGED Line!lineVars
  <2> DEFINE r == Beaten(user[u])
  <2>1. user' = [user EXCEPT ![u] = r] /\ budget'.left = budget.left /\ lottery' = lottery
    BY <1>2 DEF Heartbeat
  <2>2. /\ r.rank = user[u].rank
        /\ r.state = user[u].state \/ (r.state = "waiting" /\ user[u].state = "evicting")
    BY <1>0 DEF Beaten, UserRecord
  <2> HIDE DEF r
  <2>3. PhaseOf(r.state) = PhaseOf(user[u].state)
    BY <2>2 DEF PhaseOf
  <2> QED
    BY <1>0, <2>1, <2>2, <2>3, SameToken
<1>3. ASSUME NEW u \in Tokens, NEW j \in Jtis, Admit(u, j) PROVE Line!Enter(u)
  BY <1>3, AdmitEnters
<1>4. ASSUME NEW u \in Tokens, Decide(u)
      PROVE  Line!SetAside(u) \/ Line!Return(u) \/ Line!Bar(u) \/ UNCHANGED Line!lineVars
  BY <1>4, DecideMoves
<1>5. ASSUME NEW u \in Tokens, Rechallenge(u) PROVE Line!Return(u) \/ UNCHANGED Line!lineVars
  BY <1>5, RechallengeMoves
<1>6. ASSUME NEW g \in Grants, Refill(g) PROVE Line!Grant
  <2>1. budget'.left \in 0 .. Cap
    <3>1. budget' = [left |-> Refilled(g), ttl |-> BudgetTTL] /\ TypeOK'
      BY <1>6, StepType DEF Refill, Next
    <3> QED
      BY <3>1 DEF TypeOK
  <2> QED
    BY <1>6, <2>1 DEF Refill, Line!Grant
<1>7. CASE Sweep
  BY <1>7, SweepElapses DEF Line!Next
<1>8. CASE Tick
  BY <1>8, TickElapses DEF Line!Next
<1>9. CASE CloseLottery
  <2>1. Line!CloseDraw
    BY <1>9 DEF CloseLottery, Line!CloseDraw
  <2> QED
    BY <2>1 DEF Line!Next
<1>10. CASE UNCHANGED <<user, budget, lottery>>
  BY <1>10 DEF Line!lineVars
<1>11. CASE UNCHANGED vars
  BY <1>10, <1>11 DEF vars
<1>12. ASSUME NEW u \in Tokens,
              Line!Join(u) \/ Line!Enter(u) \/ Line!SetAside(u) \/ Line!Return(u) \/ Line!Bar(u)
       PROVE  Line!Next
  BY <1>12 DEF Line!Next
<1>13. Line!Grant \/ Line!Elapse => Line!Next
  BY DEF Line!Next
<1>14. ASSUME NEW u \in Tokens, NEW j \in Jtis, Redeem(u, j) PROVE UNCHANGED Line!lineVars
  BY <1>14 DEF Redeem, Line!lineVars
<1>15. CASE Next
  BY <1>1, <1>2, <1>3, <1>4, <1>5, <1>6, <1>7, <1>8, <1>9, <1>12, <1>13, <1>14, <1>15, Zenon DEF Next
<1> QED
  BY <1>11, <1>15

\* For every set of tokens, every ladder of re-challenges and every setting of
\* the lifetimes, the scripts implement the abstract line: what a shard
\* promises its users (a place kept through every isolation, entry from the
\* front only, a block that is final, late joiners at the back) follows from
\* what the scripts do to hashes and ZSETs.
THEOREM ImplementsLineHolds == Spec => ImplementsLine
<1>1. Init => Line!Init
  <2>1. ASSUME Init PROVE [u \in Tokens |-> PhaseOf(user[u].state)] = [u \in Tokens |-> "out"]
    BY <2>1 DEF Init, NoUser, PhaseOf
  <2>2. ASSUME Init PROVE [u \in Tokens |-> user[u].rank] = [u \in Tokens |-> Absent]
    BY <2>2 DEF Init, NoUser
  <2> QED
    BY <2>1, <2>2 DEF Init, Line!Init
<1>2. Init => PlacesGiven
  BY RanksAssumption DEF Init, PlacesGiven, NoUser, Absent
<1> QED
  BY <1>1, <1>2, TypeCorrect, PlacementHolds, StepPlaces, StepImplements, PTL
  DEF Spec, ImplementsLine, Line!Spec

===============================================================================
