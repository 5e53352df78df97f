----------------------------- MODULE ShardsProofs -----------------------------
(***************************************************************************)
(* For any number of gates, shards and losses of the list: a gate's number  *)
(* of shards stays within the configured ones, and a newcomer's shard is on *)
(* the list unless it was lost too recently.                                *)
(***************************************************************************)
EXTENDS Shards, Sums

\* What the assumptions on the settings say of each constant.
LEMMA Settings ==
  /\ ShardCount \in Nat \ {0} /\ MaxShardCount \in Nat \ {0} /\ ShardCount <= MaxShardCount
  /\ ShardSize \in Nat \ {0} /\ Hashes \subseteq Nat
  /\ ReregisterAfter \in Nat \ {0} /\ RoundTrip \in Nat /\ LongAgo \in Nat
  /\ LongAgo = ReregisterAfter + RoundTrip
  /\ MaxPeople \in Nat /\ MaxLosses \in Nat
  /\ 0 \in ShardIDs
BY EventAssumption, HashAssumption, ReregisterAssumption, BoundsAssumption
   DEF ValidEvent, ShardIDs, LongAgo

-------------------------------------------------------------------------------
(* Types *)

\* TotalWaiting adds up natural numbers.
LEMMA WaitingIsNat == TypeOK => Waiting \in Nat
<1> SUFFICES ASSUME TypeOK PROVE Waiting \in Nat
  OBVIOUS
<1>1. IsFiniteSet(ShardIDs)
  BY FS_Interval, Settings DEF ShardIDs
<1>2. IsFiniteSet(listed)
  BY <1>1, FS_Subset DEF TypeOK
<1>3. \A s \in listed : size[s] \in Nat
  BY Settings DEF TypeOK
<1>4. SumOver(size, listed) \in Nat
  BY <1>2, <1>3, SumNat
<1>5. Waiting = SumOver(size, listed)
  BY DEF Waiting, People, SumOver
<1> QED
  BY <1>4, <1>5

\* EnsureCapacity never shrinks and never passes the maximum.
LEMMA CapacityRange ==
  ASSUME TypeOK, NEW g \in Gates, NEW w \in Nat
  PROVE  Capacity(g, w) \in ShardCount..MaxShardCount /\ Capacity(g, w) >= count[g]
<1>1. count[g] \in ShardCount..MaxShardCount
  BY DEF TypeOK
<1>2. Need(w) \in Int
  BY Settings DEF Need
<1> QED
  BY <1>1, <1>2, Settings DEF Capacity, Grow

\* The hash of a new token names one of the gate's shards.
LEMMA IndexRange ==
  ASSUME TypeOK, NEW g \in Gates, NEW h \in Hashes
  PROVE  Index(g, h) \in ShardIDs
<1>1. count[g] \in Nat \ {0} /\ count[g] <= MaxShardCount /\ h \in Nat
  BY Settings DEF TypeOK
<1>2. h % count[g] \in 0..(count[g] - 1)
  BY <1>1
<1> QED
  BY <1>1, <1>2, Settings DEF Index, ShardIDs

Entries == [step : {"none", "register", "remember", "enqueue"},
            shard : ShardIDs, age : 0..RoundTrip, calm : BOOLEAN]

\* The steps of an entry leave an entry.
LEMMA EntryUpdates ==
  ASSUME NEW e \in Entries, NEW p \in {"none", "register", "remember", "enqueue"}, NEW c \in BOOLEAN,
         NEW s \in ShardIDs, NEW a \in 0..RoundTrip
  PROVE  /\ [e EXCEPT !.step = p, !.age = a] \in Entries
         /\ [e EXCEPT !.step = p, !.shard = s] \in Entries
         /\ [e EXCEPT !.age = a] \in Entries
         /\ [e EXCEPT !.step = p, !.calm = c] \in Entries
         /\ [e EXCEPT !.calm = c] \in Entries
BY DEF Entries

\* Every step of a gate keeps the state in shape.
LEMMA StepType == TypeOK /\ [Next]_vars => TypeOK'
<1> SUFFICES ASSUME TypeOK, [Next]_vars PROVE TypeOK'
  OBVIOUS
<1>0. /\ request \in [Gates -> Entries] /\ NoRequest \in Entries /\ Calm \in BOOLEAN
      /\ NoMemo \in [ShardIDs -> 0..ReregisterAfter] /\ 0 \in 0..RoundTrip
  BY Settings DEF TypeOK, Entries, NoRequest, NoMemo, Calm
<1>1. ASSUME NEW g \in Gates, NEW h \in Hashes, Assign(g, h) PROVE TypeOK'
  <2>1. request' \in [Gates -> Entries]
    BY <1>0, <1>1, IndexRange, EntryUpdates DEF Assign
  <2> QED
    BY <1>1, <2>1 DEF Assign, TypeOK, Entries
<1>2. ASSUME NEW g \in Gates, Known(g) PROVE TypeOK'
  <2>1. request' \in [Gates -> Entries]
    BY <1>0, <1>2, Settings, EntryUpdates DEF Known
  <2> QED
    BY <1>2, <2>1 DEF Known, TypeOK, Entries
<1>3. ASSUME NEW g \in Gates, SAdd(g) PROVE TypeOK'
  <2>1. request' \in [Gates -> Entries]
    BY <1>0, <1>3, Settings, EntryUpdates DEF SAdd
  <2> QED
    BY <1>0, <1>3, <2>1 DEF SAdd, TypeOK, Entries
<1>4. ASSUME NEW g \in Gates, Remember(g) PROVE TypeOK'
  <2>1. request' \in [Gates -> Entries]
    BY <1>0, <1>4, Settings, EntryUpdates DEF Remember
  <2>2. memo' \in [Gates -> [ShardIDs -> 0..ReregisterAfter]]
    BY <1>0, <1>4, Settings DEF Remember, TypeOK, Entries
  <2> QED
    BY <1>4, <2>1, <2>2 DEF Remember, TypeOK, Entries
<1>5. ASSUME NEW g \in Gates, Enqueue(g) PROVE TypeOK'
  <2>1. request[g].shard \in ShardIDs
    BY <1>0 DEF Entries
  <2>2. size' \in [ShardIDs -> Nat]
    BY <1>5, <2>1, Settings DEF Enqueue, TypeOK
  <2> QED
    BY <1>0, <1>5, <2>2 DEF Enqueue, TypeOK, Entries
<1>6. ASSUME NEW g \in Gates, GiveUp(g) PROVE TypeOK'
  BY <1>0, <1>6 DEF GiveUp, MemoAfterError, TypeOK, Entries
<1>7. ASSUME NEW g \in Gates, GrowOnce(g) PROVE TypeOK'
  <2>1. Capacity(g, Waiting) \in ShardCount..MaxShardCount
    BY WaitingIsNat, CapacityRange
  <2> QED
    BY <1>7, <2>1 DEF GrowOnce, TypeOK
<1>8. ASSUME NEW g \in Gates, Restart(g) PROVE TypeOK'
  BY <1>0, <1>8, Settings DEF Restart, TypeOK, Entries
<1>9. ASSUME NEW s \in ShardIDs, Depart(s) PROVE TypeOK'
  BY <1>9, Settings DEF Depart, TypeOK
<1>10. CASE Lose
  <2>1. request' \in [Gates -> Entries]
    BY <1>0, <1>10, Settings, EntryUpdates DEF Lose
  <2> QED
    BY <1>10, <2>1, Settings DEF Lose, TypeOK, Entries
<1>11. CASE Tick
  <2>1. \A most \in Nat : \A x \in 0..most : Older(x, most) \in 0..most
    BY DEF Older
  <2>2. memo' \in [Gates -> [ShardIDs -> 0..ReregisterAfter]] /\ sinceLoss' \in 0..LongAgo
    BY <1>11, <2>1, Settings DEF Tick, TypeOK
  <2>3. ASSUME NEW g \in Gates
        PROVE  (IF request[g].step = "remember" THEN request[g].age + 1 ELSE request[g].age) \in 0..RoundTrip
    BY <1>0, <1>11, Settings DEF Tick, Entries
  <2>4. request' \in [Gates -> Entries]
    BY <1>0, <1>11, <2>3, Settings, EntryUpdates DEF Tick
  <2> QED
    BY <1>11, <2>2, <2>4 DEF Tick, TypeOK, Entries
<1>12. CASE UNCHANGED vars
  BY <1>12 DEF vars, TypeOK
<1> QED
  BY <1>1, <1>2, <1>3, <1>4, <1>5, <1>6, <1>7, <1>8, <1>9, <1>10, <1>11, <1>12 DEF Next

\* A gate's number of shards stays between SHARD_COUNT and the maximum, however
\* many wait and whatever is lost (shard.go, EnsureCapacity), and an entry is
\* always for a shard that exists.
THEOREM TypeCorrect == Spec => []TypeOK
<1>1. Init => TypeOK
  BY Settings DEF Init, TypeOK, NoRequest, NoMemo
<1> QED
  BY <1>1, StepType, PTL DEF Spec

-------------------------------------------------------------------------------
(* The list *)

\* A memo younger than the last loss of the list, by a round trip, is right: the
\* shard is there.
MemosRight ==
  \A g \in Gates, s \in ShardIDs : memo[g][s] + RoundTrip < sinceLoss => s \in listed

\* Between SADD and the memo the shard is listed unless the list was lost since.
\* An entry that was calm when it looked has its shard on the list from then on.
EntriesRight ==
  \A g \in Gates :
    /\ request[g].step = "remember" => request[g].shard \in listed \/ sinceLoss <= request[g].age
    /\ request[g].step \in {"remember", "enqueue"} /\ request[g].calm => request[g].shard \in listed

ListInv == TypeOK /\ MemosRight /\ EntriesRight

\* A step of gate g that changes no memo and takes nothing off the list.
LEMMA EntryMoves ==
  ASSUME ListInv, TypeOK', NEW g \in Gates, NEW e, request' = [request EXCEPT ![g] = e],
         memo' = memo, sinceLoss' = sinceLoss, listed \subseteq listed',
         e.step = "remember" => e.shard \in listed',
         e.step \in {"remember", "enqueue"} /\ e.calm => e.shard \in listed'
  PROVE  ListInv'
<1>1. MemosRight'
  BY DEF ListInv, MemosRight
<1>2. EntriesRight'
  <2> SUFFICES ASSUME NEW q \in Gates
               PROVE  /\ request'[q].step = "remember" =>
                           request'[q].shard \in listed' \/ sinceLoss' <= request'[q].age
                      /\ request'[q].step \in {"remember", "enqueue"} /\ request'[q].calm =>
                           request'[q].shard \in listed'
    BY DEF EntriesRight
  <2>1. request'[q] = IF q = g THEN e ELSE request[q]
    BY DEF ListInv, TypeOK
  <2> QED
    BY <2>1 DEF ListInv, EntriesRight
<1> QED
  BY <1>1, <1>2 DEF ListInv

\* Every step keeps the memos right and the entries under way.
LEMMA StepList == ListInv /\ [Next]_vars => ListInv'
<1> SUFFICES ASSUME ListInv, [Next]_vars PROVE ListInv'
  OBVIOUS
<1>0. /\ TypeOK /\ TypeOK'
      /\ sinceLoss \in Nat
      /\ \A g \in Gates, s \in ShardIDs : memo[g][s] \in 0..ReregisterAfter
      /\ \A g \in Gates : request[g].shard \in ShardIDs /\ request[g].age \in 0..RoundTrip
  BY StepType, Settings DEF ListInv, TypeOK
<1>1. ASSUME NEW g \in Gates, NEW h \in Hashes, Assign(g, h) PROVE ListInv'
  <2> DEFINE e == [request[g] EXCEPT !.step = "register", !.shard = Index(g, h)]
  <2>1. request' = [request EXCEPT ![g] = e] /\ e.step = "register"
    BY <1>0, <1>1 DEF Assign, TypeOK
  <2> HIDE DEF e
  <2> QED
    BY <1>0, <1>1, <2>1, EntryMoves DEF Assign
<1>2. ASSUME NEW g \in Gates, Known(g) PROVE ListInv'
  <2> DEFINE e == [request[g] EXCEPT !.step = "enqueue", !.calm = Calm]
  <2>1. request' = [request EXCEPT ![g] = e] /\ e.step = "enqueue" /\ e.calm = Calm
        /\ e.shard = request[g].shard
    BY <1>0, <1>2 DEF Known, TypeOK
  <2>2. Calm => request[g].shard \in listed
    BY <1>0, <1>2, Settings DEF Known, Remembered, Calm, ListInv, MemosRight
  <2> HIDE DEF e
  <2> QED
    BY <1>0, <1>2, <2>1, <2>2, EntryMoves DEF Known
<1>3. ASSUME NEW g \in Gates, SAdd(g) PROVE ListInv'
  <2> DEFINE e == [request[g] EXCEPT !.step = "remember", !.calm = Calm]
  <2>1. request' = [request EXCEPT ![g] = e] /\ e.shard = request[g].shard
    BY <1>0, <1>3 DEF SAdd, TypeOK
  <2>2. request[g].shard \in listed' /\ listed \subseteq listed'
    BY <1>3 DEF SAdd
  <2> HIDE DEF e
  <2> QED
    BY <1>0, <1>3, <2>1, <2>2, EntryMoves DEF SAdd
<1>4. ASSUME NEW g \in Gates, Remember(g) PROVE ListInv'
  <2> DEFINE z == request[g].shard
  <2>1. z \in ShardIDs /\ (z \in listed \/ sinceLoss <= request[g].age)
    BY <1>0, <1>4 DEF Remember, ListInv, EntriesRight
  <2>2. /\ listed' = listed /\ sinceLoss' = sinceLoss
        /\ \A q \in Gates, s \in ShardIDs : memo'[q][s] = IF q = g /\ s = z THEN 0 ELSE memo[q][s]
    BY <1>0, <1>4 DEF Remember, TypeOK
  <2>3. MemosRight'
    BY <1>0, <2>1, <2>2, Settings DEF ListInv, MemosRight
  <2>4. \A q \in Gates : /\ request'[q].shard = request[q].shard /\ request'[q].calm = request[q].calm
                         /\ request'[q].step = IF q = g THEN "enqueue" ELSE request[q].step
                         /\ q # g => request'[q] = request[q]
    BY <1>4 DEF Remember, ListInv, TypeOK
  <2>5. request[g].step = "remember"
    BY <1>4 DEF Remember
  <2>6. EntriesRight'
    BY <2>2, <2>4, <2>5 DEF ListInv, EntriesRight
  <2> QED
    BY <1>0, <2>3, <2>6 DEF ListInv
<1>5. ASSUME NEW g \in Gates, Enqueue(g) \/ GiveUp(g) PROVE ListInv'
  <2>1. /\ request' = [request EXCEPT ![g] = NoRequest] /\ memo' = memo
        /\ sinceLoss' = sinceLoss /\ listed' = listed
    BY <1>0, <1>5 DEF Enqueue, GiveUp, MemoAfterError, TypeOK
  <2> QED
    BY <1>0, <2>1, EntryMoves DEF NoRequest
<1>6. ASSUME NEW g \in Gates, Restart(g) PROVE ListInv'
  <2>1. /\ listed' = listed /\ sinceLoss' = sinceLoss
        /\ \A q \in Gates, s \in ShardIDs : memo'[q][s] = IF q = g THEN ReregisterAfter ELSE memo[q][s]
        /\ \A q \in Gates : request'[q] = IF q = g THEN NoRequest ELSE request[q]
    BY <1>6 DEF Restart, NoMemo, ListInv, TypeOK
  <2>2. sinceLoss <= LongAgo
    BY <1>0, Settings DEF TypeOK
  <2>3. MemosRight'
    BY <1>0, <2>1, <2>2, Settings DEF ListInv, MemosRight
  <2>4. EntriesRight'
    BY <2>1 DEF ListInv, EntriesRight, NoRequest
  <2> QED
    BY <1>0, <2>3, <2>4 DEF ListInv
<1>7. CASE Lose
  <2>1. /\ sinceLoss' = 0 /\ memo' = memo
        /\ \A g \in Gates : request'[g].calm = FALSE /\ request'[g].age = request[g].age
    BY <1>0, <1>7 DEF Lose, TypeOK
  <2> QED
    BY <1>0, <2>1, Settings DEF ListInv, MemosRight, EntriesRight
<1>8. CASE Tick
  <2>1. /\ listed' = listed /\ sinceLoss' = Older(sinceLoss, LongAgo)
        /\ \A g \in Gates, s \in ShardIDs : memo'[g][s] = Older(memo[g][s], ReregisterAfter)
        /\ \A g \in Gates : /\ request'[g].step = request[g].step
                            /\ request'[g].shard = request[g].shard
                            /\ request'[g].calm = request[g].calm
                            /\ request[g].step = "remember" => request'[g].age = request[g].age + 1
    BY <1>0, <1>8 DEF Tick, TypeOK
  <2>2. \A x \in 0..ReregisterAfter, y \in 0..LongAgo :
          Older(x, ReregisterAfter) + RoundTrip < Older(y, LongAgo) => x + RoundTrip < y
    BY Settings DEF Older
  <2>3. sinceLoss \in 0..LongAgo /\ sinceLoss' <= sinceLoss + 1
    BY <1>0, <2>1, Settings DEF TypeOK, Older
  <2>4. MemosRight'
    BY <1>0, <2>1, <2>2, <2>3 DEF ListInv, MemosRight
  <2>5. EntriesRight'
    BY <1>0, <2>1, <2>3, Settings DEF ListInv, EntriesRight, TypeOK
  <2> QED
    BY <1>0, <2>4, <2>5 DEF ListInv
<1>9. ASSUME \/ \E g \in Gates : GrowOnce(g)
             \/ \E s \in ShardIDs : Depart(s)
             \/ UNCHANGED vars
      PROVE  ListInv'
  <2>1. UNCHANGED <<memo, request, sinceLoss, listed>>
    BY <1>9 DEF GrowOnce, Depart, vars
  <2> QED
    BY <1>0, <2>1 DEF ListInv, MemosRight, EntriesRight
<1> QED
  BY <1>1, <1>2, <1>3, <1>4, <1>5, <1>6, <1>7, <1>8, <1>9 DEF Next

\* Nobody is put in line where nobody looks (queue.go, registerShard): for any
\* number of gates, and through failures, restarts and losses of the list, an
\* entry that found the list a ReregisterAfter and a round trip old goes to a
\* listed shard.
THEOREM NewcomersFoundHolds == Spec => []NewcomersFound
<1>1. Init => ListInv
  BY Settings DEF Init, ListInv, TypeOK, MemosRight, EntriesRight, NoRequest, NoMemo
<1>2. ListInv => NewcomersFound
  BY DEF ListInv, EntriesRight, NewcomersFound
<1> QED
  BY <1>1, <1>2, StepList, PTL DEF Spec

===============================================================================
