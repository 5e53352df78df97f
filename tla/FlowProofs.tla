------------------------------ MODULE FlowProofs ------------------------------
(***************************************************************************)
(* For any number of shards, any rate and any breaker: a cycle hands out    *)
(* exactly the seats of the rate, cycles together never more, and nothing   *)
(* while the downstream is known to be down.                                *)
(***************************************************************************)
EXTENDS MCFlow, Sums

\* Quotient and remainder.
LEMMA Division ==
  ASSUME NEW a \in Nat, NEW b \in Nat, b # 0
  PROVE  /\ a \div b \in Nat /\ a % b \in 0 .. (b - 1)
         /\ a = b * (a \div b) + (a % b)
OBVIOUS

\* What the assumptions on the settings say of each constant.
LEMMA Limits ==
  /\ NumShards \in Nat \ {0} /\ IsFiniteSet(Shards) /\ Cardinality(Shards) = NumShards
  /\ RatePerMin \in Nat \ {0} /\ IntervalSec \in Nat \ {0}
  /\ MinPercent \in 1 .. 100 /\ Slowed \subseteq 1 .. 100
  /\ Threshold \in Nat \ {0} /\ Cooldown \in Nat
  /\ Cap \in Nat \ {0} /\ BudgetTTL \in Nat \ {0} /\ MaxWaiting \in Nat /\ MaxJoins \in Nat
<1>1. IsFiniteSet(Shards) /\ Cardinality(Shards) = NumShards
  BY RateAssumption, FS_Interval DEF Shards
<1> QED
  BY <1>1, RateAssumption, BreakerAssumption, LimitsAssumption

\* A total is a sum over the shards.
LEMMA TotalIsSum == \A f : Total(f) = SumOver(f, Shards)
BY DEF Total, SumOver

-------------------------------------------------------------------------------
(* Seats of a cycle *)

\* A smaller share of the rate never gives more seats, none of it gives none.
LEMMA PerCycleFacts ==
  ASSUME NEW p \in 0 .. 100
  PROVE  /\ PerCycle(p) \in Nat /\ PerCycle(100) \in Nat /\ PerCycle(p) <= PerCycle(100)
         /\ PerCycle(0) = 0
<1> DEFINE r == RatePerMin * IntervalSec
<1>1. r \in Nat
  BY Limits
<1>2. \A q \in Nat : RatePerMin * q * IntervalSec = q * r
  BY Limits
<1>3. p * r \in Nat /\ 100 * r \in Nat /\ p * r <= 100 * r
  <2> HIDE DEF r
  <2>1. (100 - p) * r \in Nat /\ p * r \in Nat
    BY <1>1
  <2>2. 100 * r = p * r + (100 - p) * r
    BY <1>1
  <2> QED
    BY <2>1, <2>2
<1>4. \A m, n \in Nat : m <= n => /\ (2 * m + 6000) \div 12000 \in Nat
                                  /\ (2 * m + 6000) \div 12000 <= (2 * n + 6000) \div 12000
  OBVIOUS
<1>5. PerCycle(p) = (2 * (p * r) + 6000) \div 12000
  BY <1>2 DEF PerCycle
<1>6. PerCycle(100) = (2 * (100 * r) + 6000) \div 12000
  BY <1>2 DEF PerCycle
<1>7. PerCycle(0) = (2 * (0 * r) + 6000) \div 12000
  BY <1>2 DEF PerCycle
<1>8. PerCycle(0) = 0
  <2> HIDE DEF r
  <2>1. 0 * r = 0
    BY <1>1
  <2> QED
    BY <1>7, <2>1
<1>9. /\ PerCycle(p) \in Nat /\ PerCycle(100) \in Nat /\ PerCycle(p) <= PerCycle(100)
  <2> HIDE DEF r
  <2> QED
    BY <1>3, <1>4, <1>5, <1>6
<1> QED
  BY <1>8, <1>9

\* The arithmetic of largest remainders.
LEMMA Remainders ==
  ASSUME NEW total \in Nat, NEW w \in [Shards -> Nat], Total(w) # 0
  PROVE  /\ Total(w) \in Nat
         /\ \A s \in Shards : /\ Whole(total, w, s) \in Nat
                              /\ Rest(total, w, s) \in 0 .. (Total(w) - 1)
                              /\ total * w[s] = Total(w) * Whole(total, w, s) + Rest(total, w, s)
                              /\ w[s] = 0 => Rest(total, w, s) = 0
<1>1. Total(w) \in Nat
  BY TotalIsSum, Limits, SumNat
<1> SUFFICES ASSUME NEW s \in Shards
             PROVE  /\ Whole(total, w, s) \in Nat
                    /\ Rest(total, w, s) \in 0 .. (Total(w) - 1)
                    /\ total * w[s] = Total(w) * Whole(total, w, s) + Rest(total, w, s)
                    /\ w[s] = 0 => Rest(total, w, s) = 0
  BY <1>1
<1>2. w[s] \in Nat
  OBVIOUS
<1>3. total * w[s] \in Nat
  BY <1>2
<1>4. ASSUME w[s] = 0 PROVE Rest(total, w, s) = 0
  <2>1. total * w[s] = 0
    BY <1>4
  <2>2. \A b \in Nat : b # 0 => 0 % b = 0
    OBVIOUS
  <2> QED
    BY <1>1, <2>1, <2>2 DEF Rest
<1>5. /\ Whole(total, w, s) \in Nat
      /\ Rest(total, w, s) \in 0 .. (Total(w) - 1)
      /\ total * w[s] = Total(w) * Whole(total, w, s) + Rest(total, w, s)
  <2> DEFINE a == total * w[s]
             b == Total(w)
  <2>1. /\ a \div b \in Nat /\ a % b \in 0 .. (b - 1)
        /\ a = b * (a \div b) + (a % b)
    <3>1. a \in Nat /\ b \in Nat /\ b # 0
      BY <1>1, <1>3
    <3> HIDE DEF a, b
    <3> QED
      BY <3>1, Division
  <2> QED
    BY <2>1 DEF Whole, Rest
<1> QED
  BY <1>4, <1>5

\* What is left after the whole parts is the sum of the remainders, in seats.
LEMMA RemaindersAddUp ==
  ASSUME NEW total \in Nat, NEW w \in [Shards -> Nat], Total(w) # 0
  PROVE  LET whole == [s \in Shards |-> Whole(total, w, s)]
             rest == [s \in Shards |-> Rest(total, w, s)]
         IN  /\ Total(whole) \in Nat /\ Total(rest) \in Nat
             /\ Total(rest) = Total(w) * (total - Total(whole))
<1> DEFINE whole == [s \in Shards |-> Whole(total, w, s)]
           rest == [s \in Shards |-> Rest(total, w, s)]
           exact == [s \in Shards |-> total * w[s]]
           heavy == [s \in Shards |-> Total(w) * whole[s]]
           W == Total(w)
<1>0. W \in Nat
  BY Remainders
<1>1. \A s \in Shards : w[s] \in Int
  OBVIOUS
<1>2. \A s \in Shards : whole[s] \in Nat /\ rest[s] \in Nat /\ exact[s] = heavy[s] + rest[s]
  <2> TAKE s \in Shards
  <2>1. /\ Whole(total, w, s) \in Nat
        /\ Rest(total, w, s) \in 0 .. (Total(w) - 1)
        /\ total * w[s] = Total(w) * Whole(total, w, s) + Rest(total, w, s)
    BY Remainders
  <2>2. Rest(total, w, s) \in Nat
    BY <1>0, <2>1
  <2> QED
    BY <2>1, <2>2
<1>3. \A s \in Shards : exact[s] = total * w[s] /\ heavy[s] = W * whole[s]
  OBVIOUS
<1>4. Total(exact) = total * W
  <2> HIDE DEF exact
  <2> QED
    BY <1>1, <1>3, Limits, SumTimes, TotalIsSum
<1>5. Total(whole) \in Nat /\ Total(rest) \in Nat
  <2> HIDE DEF whole, rest
  <2> QED
    BY <1>2, Limits, SumNat, TotalIsSum
<1>6. Total(heavy) = W * Total(whole)
  <2>1. \A s \in Shards : whole[s] \in Int /\ heavy[s] = W * whole[s]
    BY <1>2, <1>3
  <2> HIDE DEF whole, heavy, W
  <2> QED
    BY <1>0, <2>1, Limits, SumTimes, TotalIsSum
<1>7. Total(exact) = Total(heavy) + Total(rest)
  <2>1. \A s \in Shards : heavy[s] \in Int
    <3> SUFFICES ASSUME NEW s \in Shards PROVE heavy[s] \in Int
      OBVIOUS
    <3>1. heavy[s] = W * whole[s] /\ whole[s] \in Nat
      BY <1>2, <1>3
    <3> HIDE DEF heavy, whole, W
    <3> QED
      BY <1>0, <3>1
  <2>2. \A s \in Shards : rest[s] \in Int
    <3> HIDE DEF rest
    <3> QED
      BY <1>2
  <2>3. \A s \in Shards : exact[s] = heavy[s] + rest[s]
    BY <1>2
  <2> HIDE DEF heavy, rest, exact
  <2> QED
    BY <2>1, <2>2, <2>3, Limits, SumPlus, TotalIsSum
<1>8. Total(rest) = W * (total - Total(whole))
  <2> HIDE DEF heavy, rest, exact, whole, W
  <2>1. W * (total - Total(whole)) = total * W - W * Total(whole)
    BY <1>0, <1>5
  <2>2. total * W \in Int /\ W * Total(whole) \in Int
    BY <1>0, <1>5
  <2> QED
    BY <1>4, <1>5, <1>6, <1>7, <2>1, <2>2
<1> QED
  BY <1>5, <1>8

\* A seat left over never goes to a shard without a remainder: the others could
\* not make up for what is left.
LEMMA ExtraHasRest ==
  ASSUME NEW total \in Nat, NEW w \in [Shards -> Nat], Total(w) # 0,
         NEW extra \in Served(total, w), NEW x \in extra
  PROVE  Rest(total, w, x) > 0
<1> DEFINE whole == [s \in Shards |-> Whole(total, w, s)]
           rest == [s \in Shards |-> Rest(total, w, s)]
           W == Total(w)
           left == total - Total(whole)
           one == [s \in Shards |-> IF s \in extra \ {x} THEN 1 ELSE 0]
           much == [s \in Shards |-> W * one[s]]
<1> SUFFICES ASSUME ~(Rest(total, w, x) > 0) PROVE FALSE
  OBVIOUS
<1>1. extra \in SUBSET Shards /\ x \in Shards /\ Cardinality(extra) = left
  BY DEF Served, Sharing
<1>2. W \in Nat /\ Total(whole) \in Nat /\ Total(rest) \in Nat /\ Total(rest) = W * left
  <2>1. W \in Nat
    BY Remainders
  <2> QED
    BY <2>1, RemaindersAddUp
<1>3. Rest(total, w, x) = 0
  <2>1. Rest(total, w, x) \in 0 .. (W - 1)
    BY <1>1, Remainders
  <2> QED
    BY <1>2, <2>1
<1>4. \A s \in Shards : s \notin extra => Rest(total, w, s) = 0
  <2> SUFFICES ASSUME NEW s \in Shards, s \notin extra PROVE Rest(total, w, s) = 0
    OBVIOUS
  <2>1. CASE w[s] = 0
    BY <2>1, Remainders
  <2>2. CASE w[s] # 0
    <3>1. s \in Sharing(w) \ extra
      BY <2>2 DEF Sharing
    <3>2. \/ Rest(total, w, x) > Rest(total, w, s)
          \/ Rest(total, w, x) = Rest(total, w, s)
      BY <3>1 DEF Served
    <3>3. Rest(total, w, s) \in 0 .. (W - 1)
      BY Remainders
    <3> QED
      BY <1>2, <1>3, <3>2, <3>3
  <2> QED
    BY <2>1, <2>2
<1>5. \A s \in Shards : rest[s] \in Int /\ much[s] \in Int /\ rest[s] <= much[s]
  <2> SUFFICES ASSUME NEW s \in Shards
               PROVE  Rest(total, w, s) \in Int /\ W * one[s] \in Int /\ Rest(total, w, s) <= W * one[s]
    OBVIOUS
  <2>1. Rest(total, w, s) \in 0 .. (W - 1)
    BY Remainders
  <2>2. CASE s \in extra \ {x}
    <3>1. one[s] = 1
      BY <2>2
    <3> HIDE DEF one, W
    <3> QED
      BY <1>2, <2>1, <3>1
  <2>3. CASE s \notin extra \ {x}
    <3>1. one[s] = 0 /\ Rest(total, w, s) = 0
      BY <1>3, <1>4, <2>3
    <3> HIDE DEF one, W
    <3> QED
      BY <1>2, <3>1
  <2> QED
    BY <2>2, <2>3
<1>6. SumOver(rest, Shards) <= SumOver(much, Shards)
  <2> HIDE DEF rest, much
  <2> QED
    BY <1>5, Limits, SumMonotone
<1>7. SumOver(one, Shards) = Cardinality(extra \ {x})
  <2>1. extra \ {x} \in SUBSET Shards
    BY <1>1
  <2>2. \A s \in Shards : one[s] = IF s \in extra \ {x} THEN 1 ELSE 0
    OBVIOUS
  <2> HIDE DEF one
  <2> QED
    BY <2>1, <2>2, Limits, SumCounts
<1>8. SumOver(much, Shards) = W * SumOver(one, Shards)
  <2>1. \A s \in Shards : one[s] \in Int /\ much[s] = W * one[s]
    OBVIOUS
  <2> HIDE DEF one, much, W
  <2> QED
    BY <1>2, <2>1, Limits, SumTimes
<1>9. Cardinality(extra \ {x}) = left - 1 /\ left \in Int
  <2>1. IsFiniteSet(extra)
    BY <1>1, Limits, FS_Subset
  <2>2. Cardinality(extra \ {x}) = Cardinality(extra) - 1
    BY <2>1, FS_RemoveElement
  <2> HIDE DEF whole
  <2> QED
    BY <1>1, <1>2, <2>2
<1>10. W * left <= W * (left - 1)
  <2> HIDE DEF rest, much, one, W, left
  <2> QED
    BY <1>2, <1>6, <1>7, <1>8, <1>9, TotalIsSum
<1>11. W * left - W * (left - 1) = W /\ W * left \in Int /\ W * (left - 1) \in Int
  <2> HIDE DEF W, left
  <2> QED
    BY <1>2, <1>9
<1> HIDE DEF W, left
<1> QED
  BY <1>2, <1>10, <1>11 DEF W

\* Of a set of shards one comes first: the largest remainder, and of equal ones
\* the smallest shard.
LEMMA FirstServed ==
  ASSUME NEW R \in SUBSET Shards, R # {}, NEW N \in Nat, NEW f \in [Shards -> 0 .. N]
  PROVE  \E m \in R : \A t \in R \ {m} : f[m] > f[t] \/ (f[m] = f[t] /\ m < t)
<1> DEFINE gaps == {N - f[s] : s \in R}
<1>1. gaps \in SUBSET (0 .. N) /\ gaps # {}
  <2>1. \A s \in R : N - f[s] \in 0 .. N
    OBVIOUS
  <2> QED
    BY <2>1
<1>2. PICK k \in gaps : \A j \in 0 .. (k - 1) : j \notin gaps
  <2> HIDE DEF gaps
  <2> QED
    BY <1>1, LeastNumber
<1>3. k \in 0 .. N /\ \A s \in R : f[s] <= N - k
  <2>1. k \in 0 .. N
    BY <1>1
  <2>2. ASSUME NEW s \in R, ~(f[s] <= N - k) PROVE FALSE
    <3>1. N - f[s] \in gaps /\ N - f[s] \in 0 .. (k - 1)
      BY <2>1, <2>2
    <3> QED
      BY <1>2, <3>1
  <2> QED
    BY <2>1, <2>2
<1> DEFINE ties == {s \in R : f[s] = N - k}
<1>4. ties \in SUBSET (0 .. NumShards) /\ ties # {}
  <2>1. PICK s \in R : k = N - f[s]
    BY <1>2
  <2>2. f[s] \in Int
    OBVIOUS
  <2>3. f[s] = N - k
    BY <1>3, <2>1, <2>2
  <2>4. Shards \subseteq 0 .. NumShards
    BY Limits DEF Shards
  <2> QED
    BY <2>3, <2>4
<1>5. PICK m \in ties : \A j \in 0 .. (m - 1) : j \notin ties
  <2> HIDE DEF ties
  <2> QED
    BY <1>4, Limits, LeastNumber
<1>6. ASSUME NEW t \in R \ {m} PROVE f[m] > f[t] \/ (f[m] = f[t] /\ m < t)
  <2>1. f[m] = N - k /\ f[t] <= N - k /\ f[t] \in Int /\ m \in Nat /\ t \in Nat
    BY <1>3, <1>4, <1>5, <1>6, Limits DEF Shards
  <2>2. CASE f[t] = N - k
    <3>1. t \in ties
      BY <1>6, <2>2
    <3>2. t \notin 0 .. (m - 1)
      BY <1>5, <3>1
    <3> QED
      BY <1>6, <2>1, <2>2, <3>2
  <2> QED
    BY <1>3, <2>1, <2>2
<1> QED
  BY <1>5, <1>6

\* There is always a choice of shards for the seats left over: as many of them
\* as there are seats, the largest remainders first.
LEMMA SomeServed ==
  ASSUME NEW total \in Nat, NEW w \in [Shards -> Nat], Total(w) # 0
  PROVE  Served(total, w) # {}
<1> DEFINE whole == [s \in Shards |-> Whole(total, w, s)]
           rest == [s \in Shards |-> Rest(total, w, s)]
           W == Total(w)
           left == total - Total(whole)
           N == Cardinality(Sharing(w))
           one == [s \in Shards |-> IF s \in Sharing(w) THEN 1 ELSE 0]
           much == [s \in Shards |-> W * one[s]]
<1>1. Sharing(w) \in SUBSET Shards /\ IsFiniteSet(Sharing(w)) /\ N \in Nat
  BY Limits, FS_Subset, FS_CardinalityType DEF Sharing
<1>2. W \in Nat /\ Total(whole) \in Nat /\ Total(rest) \in Nat /\ Total(rest) = W * left
  <2>1. W \in Nat
    BY Remainders
  <2> QED
    BY <2>1, RemaindersAddUp
<1>3. \A s \in Shards : rest[s] \in Int /\ much[s] \in Int /\ rest[s] <= much[s]
  <2> SUFFICES ASSUME NEW s \in Shards
               PROVE  Rest(total, w, s) \in Int /\ W * one[s] \in Int /\ Rest(total, w, s) <= W * one[s]
    OBVIOUS
  <2>1. Rest(total, w, s) \in 0 .. (W - 1) /\ (w[s] = 0 => Rest(total, w, s) = 0)
    BY Remainders
  <2>2. CASE s \in Sharing(w)
    <3>1. one[s] = 1
      BY <2>2
    <3> HIDE DEF one, W
    <3> QED
      BY <1>2, <2>1, <3>1
  <2>3. CASE s \notin Sharing(w)
    <3>1. one[s] = 0 /\ Rest(total, w, s) = 0
      BY <2>1, <2>3 DEF Sharing
    <3> HIDE DEF one, W
    <3> QED
      BY <1>2, <3>1
  <2> QED
    BY <2>2, <2>3
<1>4. SumOver(rest, Shards) <= SumOver(much, Shards)
  <2> HIDE DEF rest, much
  <2> QED
    BY <1>3, Limits, SumMonotone
<1>5. SumOver(one, Shards) = N
  <2>1. \A s \in Shards : one[s] = IF s \in Sharing(w) THEN 1 ELSE 0
    OBVIOUS
  <2> HIDE DEF one
  <2> QED
    BY <1>1, <2>1, Limits, SumCounts
<1>6. SumOver(much, Shards) = W * SumOver(one, Shards)
  <2>1. \A s \in Shards : one[s] \in Int /\ much[s] = W * one[s]
    OBVIOUS
  <2> HIDE DEF one, much, W
  <2> QED
    BY <1>2, <2>1, Limits, SumTimes
<1>7. left \in 0 .. N
  <2>1. left \in Int /\ W \in Nat \ {0} /\ N \in Nat
    <3> HIDE DEF whole
    <3> QED
      BY <1>1, <1>2
  <2>2. W * left <= W * N /\ W * left >= 0
    <3> HIDE DEF rest, much, one, W, left, N
    <3> QED
      BY <1>2, <1>4, <1>5, <1>6, TotalIsSum
  <2> HIDE DEF W, left, N
  <2>3. \A a, b \in Int : W * a <= W * b => a <= b
    <3> SUFFICES ASSUME NEW a \in Int, NEW b \in Int, W * a <= W * b, b < a PROVE FALSE
      BY <2>1
    <3>1. W * (a - b) > 0 /\ W * a = W * b + W * (a - b) /\ W * b \in Int /\ W * (a - b) \in Int
      BY <2>1
    <3> QED
      BY <3>1
  <2>4. W * 0 = 0
    BY <2>1
  <2> QED
    BY <2>1, <2>2, <2>3, <2>4
<1> DEFINE Leads(s, t) == rest[s] > rest[t] \/ (rest[s] = rest[t] /\ s < t)
           Choice(k) == {extra \in SUBSET Sharing(w) :
                           /\ Cardinality(extra) = k
                           /\ \A s \in extra, t \in Sharing(w) \ extra : Leads(s, t)}
           Good == {k \in Nat : Choice(k) # {}}
<1>8. 0 \in Good
  <2>1. {} \in Choice(0)
    BY FS_EmptySet
  <2> QED
    BY <2>1
<1>9. ASSUME NEW k \in 0 .. (N - 1), k \in Good PROVE k + 1 \in Good
  <2>1. PICK extra \in Choice(k) : TRUE
    BY <1>9
  <2>2. extra \in SUBSET Sharing(w) /\ Cardinality(extra) = k /\ IsFiniteSet(extra)
    BY <1>1, <2>1, FS_Subset
  <2>3. Sharing(w) \ extra # {}
    <3> SUFFICES ASSUME extra = Sharing(w) PROVE FALSE
      BY <2>2
    <3> QED
      BY <1>1, <1>9, <2>2
  <2>4. PICK m \in Sharing(w) \ extra : \A t \in (Sharing(w) \ extra) \ {m} : Leads(m, t)
    <3>1. rest \in [Shards -> 0 .. W]
      <4>1. \A s \in Shards : Rest(total, w, s) \in 0 .. (W - 1)
        BY Remainders
      <4>2. \A s \in Shards : Rest(total, w, s) \in 0 .. W
        <5> HIDE DEF W
        <5> QED
          BY <1>2, <4>1
      <4> QED
        BY <4>2
    <3>2. Sharing(w) \ extra \in SUBSET Shards
      BY <1>1
    <3> HIDE DEF rest, W
    <3> QED
      BY <1>2, <2>3, <3>1, <3>2, FirstServed
  <2>5. extra \cup {m} \in SUBSET Sharing(w) /\ Cardinality(extra \cup {m}) = k + 1
    BY <2>2, <2>4, FS_AddElement
  <2>6. \A s \in extra \cup {m}, t \in Sharing(w) \ (extra \cup {m}) : Leads(s, t)
    <3> HIDE DEF Leads
    <3> QED
      BY <2>1, <2>4
  <2>7. extra \cup {m} \in Choice(k + 1)
    BY <2>5, <2>6
  <2> QED
    BY <2>7
<1>10. left \in Good
  <2> HIDE DEF Good, left, N
  <2> QED
    BY <1>1, <1>7, <1>8, <1>9, NumberInduction
<1>11. PICK extra \in Choice(left) : TRUE
  BY <1>10
<1>12. \A s \in extra, t \in Sharing(w) \ extra :
         \/ Rest(total, w, s) > Rest(total, w, t)
         \/ Rest(total, w, s) = Rest(total, w, t) /\ s < t
  BY <1>1, <1>11
<1>13. extra \in SUBSET Sharing(w) /\ Cardinality(extra) = left
  BY <1>11
<1>14. extra \in Served(total, w)
  BY <1>12, <1>13 DEF Served
<1> QED
  BY <1>14

\* apportion always finds a plan, so a cycle never stops between its reads and
\* its refills and what is said of plans is not said of nothing.
THEOREM ApportionFindsAPlan ==
  ASSUME NEW total \in Nat, NEW w \in [Shards -> Nat]
  PROVE  Apportion(total, w) # {}
<1>1. CASE total <= 0 \/ Total(w) = 0
  BY <1>1 DEF Apportion
<1>2. CASE ~(total <= 0 \/ Total(w) = 0)
  <2>1. PICK extra \in Served(total, w) : TRUE
    BY <1>2, SomeServed
  <2> DEFINE grants(e) == [s \in Shards |-> Whole(total, w, s) + (IF s \in e THEN 1 ELSE 0)]
  <2>2. Apportion(total, w) = {grants(e) : e \in Served(total, w)}
    BY <1>2, Zenon DEF Apportion
  <2> HIDE DEF grants
  <2>3. grants(extra) \in Apportion(total, w)
    BY <2>1, <2>2
  <2> QED
    BY <2>3
<1> QED
  BY <1>1, <1>2

\* apportion: every seat is handed out, and no shard strays a whole seat from
\* its exact share.
LEMMA ApportionExact ==
  ASSUME NEW total \in Nat, NEW w \in [Shards -> Nat], NEW grants \in Apportion(total, w)
  PROVE  /\ grants \in [Shards -> Nat]
         /\ Total(grants) = IF Total(w) = 0 THEN 0 ELSE total
         /\ Total(w) # 0 => \A s \in Shards :
              /\ -Total(w) < grants[s] * Total(w) - total * w[s]
              /\ grants[s] * Total(w) - total * w[s] < Total(w)
<1> DEFINE whole == [s \in Shards |-> Whole(total, w, s)]
           W == Total(w)
<1>0. W \in Nat
  BY TotalIsSum, Limits, SumNat
<1>1. CASE total <= 0 \/ W = 0
  <2>1. grants = Nothing
    BY <1>1 DEF Apportion
  <2>2. Total(grants) = 0
    <3>1. \A s \in Shards : grants[s] = IF s \in {} THEN 1 ELSE 0
      BY <2>1 DEF Nothing
    <3>2. SumOver(grants, Shards) = Cardinality({})
      <4>1. {} \in SUBSET Shards
        OBVIOUS
      <4> QED
        BY <3>1, <4>1, Limits, SumCounts
    <3> QED
      BY <3>2, TotalIsSum, FS_EmptySet
  <2>3. ASSUME W # 0, NEW s \in Shards
        PROVE  -W < grants[s] * W - total * w[s] /\ grants[s] * W - total * w[s] < W
    <3>1. total = 0 /\ grants[s] = 0 /\ w[s] \in Nat
      BY <1>1, <2>1, <2>3 DEF Nothing
    <3>2. grants[s] * W = 0 /\ total * w[s] = 0
      BY <1>0, <3>1
    <3> QED
      BY <1>0, <2>3, <3>2
  <2>4. total = 0 \/ W = 0
    BY <1>1
  <2>5. grants \in [Shards -> Nat]
    BY <2>1 DEF Nothing
  <2> QED
    BY <2>2, <2>3, <2>4, <2>5
<1>2. CASE ~(total <= 0 \/ W = 0)
  <2>1. PICK extra \in Served(total, w) :
          grants = [s \in Shards |-> Whole(total, w, s) + (IF s \in extra THEN 1 ELSE 0)]
    BY <1>2 DEF Apportion
  <2> DEFINE one == [s \in Shards |-> IF s \in extra THEN 1 ELSE 0]
  <2>2. \A s \in Shards : grants[s] = whole[s] + one[s]
    BY <2>1
  <2>3. \A s \in Shards : whole[s] \in Nat
    BY <1>2, Remainders
  <2>4. \A s \in Shards : one[s] = IF s \in extra THEN 1 ELSE 0
    OBVIOUS
  <2>5. extra \in SUBSET Shards /\ Cardinality(extra) = total - Total(whole)
    BY DEF Served, Sharing
  <2>6. Total(whole) \in Nat
    BY <1>2, RemaindersAddUp
  <2>7. SumOver(one, Shards) = Cardinality(extra)
    <3> HIDE DEF one
    <3> QED
      BY <2>4, <2>5, Limits, SumCounts
  <2>8. SumOver(grants, Shards) = SumOver(whole, Shards) + SumOver(one, Shards)
    <3>1. \A s \in Shards : whole[s] \in Int
      <4> HIDE DEF whole
      <4> QED
        BY <2>3
    <3>2. \A s \in Shards : one[s] \in Int
      OBVIOUS
    <3> HIDE DEF whole, one
    <3> QED
      BY <2>2, <3>1, <3>2, Limits, SumPlus
  <2>9. Total(grants) = total
    <3> HIDE DEF whole, one
    <3> QED
      BY <2>5, <2>6, <2>7, <2>8, TotalIsSum
  <2>10. grants \in [Shards -> Nat]
    <3>1. \A s \in Shards : Whole(total, w, s) + (IF s \in extra THEN 1 ELSE 0) \in Nat
      <4> TAKE s \in Shards
      <4>1. Whole(total, w, s) \in Nat
        BY <1>2, Remainders
      <4> QED
        BY <4>1
    <3> QED
      BY <2>1, <3>1
  <2>11. ASSUME NEW s \in Shards
         PROVE  -W < grants[s] * W - total * w[s] /\ grants[s] * W - total * w[s] < W
    <3> DEFINE h == Whole(total, w, s)
               r == Rest(total, w, s)
    <3>1. h \in Nat /\ r \in 0 .. (W - 1) /\ total * w[s] = W * h + r
      BY <1>2, Remainders
    <3>2. CASE s \in extra
      <4>1. r > 0
        BY <1>2, <3>2, ExtraHasRest
      <4>2. grants[s] = h + 1
        BY <2>1, <3>2
      <4> HIDE DEF h, r, W
      <4>3. (h + 1) * W = W * h + W /\ W * h \in Int
        BY <1>0, <3>1
      <4> QED
        BY <1>0, <3>1, <4>1, <4>2, <4>3
    <3>3. CASE s \notin extra
      <4>1. grants[s] = h
        BY <2>1, <3>1, <3>3
      <4> HIDE DEF h, r, W
      <4>2. h * W = W * h /\ W * h \in Int
        BY <1>0, <3>1
      <4> QED
        BY <1>0, <3>1, <4>1, <4>2
    <3> QED
      BY <3>2, <3>3
  <2> QED
    BY <1>2, <2>9, <2>10, <2>11
<1> QED
  BY <1>1, <1>2

-------------------------------------------------------------------------------
(* Types *)

Breakers == [state : {"closed", "open", "half_open"}, failures : 0 .. Threshold, since : 0 .. Cooldown]
Budgets == [left : 0 .. Cap, ttl : 0 .. BudgetTTL]

AroundType ==
  /\ breaker \in Breakers
  /\ healthy \in BOOLEAN /\ gated \in BOOLEAN
  /\ waiting \in [Shards -> 0 .. MaxWaiting]
  /\ budget \in [Shards -> Budgets]
  /\ joins \in 0 .. MaxJoins

CycleType ==
  /\ step \in {"idle", "read", "refill"}
  /\ percent \in {0, MinPercent, 100} \cup Slowed
  /\ seen \in [Shards -> 0 .. MaxWaiting]
  /\ plan \in [Shards -> Nat]
  /\ todo \in SUBSET Shards
  /\ step = "refill" => todo # {}

\* The two halves of the types make up the type invariant.
LEMMA TypesTogether == AroundType /\ CycleType => TypeOK
BY DEF AroundType, CycleType, Breakers, Budgets, TypeOK

\* The blank values are in shape.
LEMMA Values ==
  /\ Nothing \in [Shards -> Nat] /\ Nothing \in [Shards -> 0 .. MaxWaiting]
  /\ NoBudget \in Budgets
BY Limits DEF Nothing, NoBudget, Budgets

\* The share of the rate is a percentage.
LEMMA PercentRange == CycleType => percent \in 0 .. 100
BY Limits DEF CycleType

\* The loop over the shards meets the first of those still due.
LEMMA FirstDue ==
  ASSUME NEW T \in SUBSET Shards, T # {}
  PROVE  Min(T) \in T
<1>1. T \in SUBSET (0 .. NumShards)
  BY Limits DEF Shards
<1>2. PICK k \in T : \A j \in 0 .. (k - 1) : j \notin T
  BY <1>1, Limits, LeastNumber
<1>3. \A j \in T : k <= j
  BY <1>1, <1>2, Limits
<1> QED
  BY <1>2, <1>3 DEF Min

\* What the breaker does leaves a breaker.
LEMMA BreakerTypes ==
  ASSUME NEW b \in Breakers
  PROVE  BreakerState(b) \in Breakers /\ BreakerSuccess(b) \in Breakers /\ BreakerFailure(b) \in Breakers
<1>1. BreakerState(b) \in Breakers
  BY DEF BreakerState, Breakers
<1>2. BreakerSuccess(b) \in Breakers
  <2>1. 0 \in 0 .. Threshold /\ "closed" \in {"closed", "open", "half_open"}
    BY Limits
  <2>2. \A n \in 0 .. Threshold : [b EXCEPT !.state = "closed", !.failures = n] \in Breakers
    BY DEF Breakers
  <2> QED
    BY <2>1, <2>2 DEF BreakerSuccess
<1>3. BreakerFailure(b) \in Breakers
  <2>1. b.failures \in 0 .. Threshold
    BY DEF Breakers
  <2> DEFINE n == Lesser(b.failures + 1, Threshold)
  <2>2. n \in 0 .. Threshold
    BY <2>1, Limits DEF Lesser
  <2> HIDE DEF n
  <2>3. [state |-> "open", failures |-> n, since |-> 0] \in Breakers
    BY <2>2, Limits DEF Breakers
  <2>4. [b EXCEPT !.failures = n] \in Breakers
    BY <2>2 DEF Breakers
  <2>5. \/ BreakerFailure(b) = [state |-> "open", failures |-> n, since |-> 0]
        \/ BreakerFailure(b) = [b EXCEPT !.failures = n]
    BY DEF BreakerFailure, n
  <2> QED
    BY <2>3, <2>4, <2>5
<1> QED
  BY <1>1, <1>2, <1>3

\* What a refill writes.
LEMMA RefillRange ==
  ASSUME AroundType, CycleType, NEW s \in Shards
  PROVE  /\ RefillTo(s) \in Budgets
         /\ budget[s].left \in 0 .. Cap /\ plan[s] \in Nat
         /\ RefillTo(s).left <= budget[s].left + plan[s]
<1>1. budget[s] \in Budgets /\ plan[s] \in Nat /\ waiting[s] \in 0 .. MaxWaiting
  BY DEF AroundType, CycleType
<1>2. budget[s].left \in 0 .. Cap
  BY <1>1 DEF Budgets
<1> DEFINE n == Lesser(Lesser(budget[s].left + plan[s], Cap), waiting[s])
<1>3. n \in 0 .. Cap /\ n <= budget[s].left + plan[s]
  BY <1>1, <1>2, Limits DEF Lesser
<1> HIDE DEF n
<1>4. RefillTo(s) = [left |-> n, ttl |-> BudgetTTL]
  BY DEF RefillTo, n
<1>5. RefillTo(s) \in Budgets
  BY <1>3, <1>4, Limits DEF Budgets
<1> QED
  BY <1>1, <1>2, <1>3, <1>4, <1>5

\* The step of the clock on a budget.
Aged(b) == IF b.ttl <= 1 THEN NoBudget ELSE [b EXCEPT !.ttl = @ - 1]

\* Time takes seats away or leaves them.
LEMMA AgedRange ==
  ASSUME NEW b \in Budgets
  PROVE  Aged(b) \in Budgets /\ Aged(b).left \in Nat /\ b.left \in Nat /\ Aged(b).left <= b.left
BY Limits DEF Aged, Budgets, NoBudget

\* What surrounds a cycle stays in shape.
LEMMA StepAround == AroundType /\ CycleType /\ [Next]_vars => AroundType'
<1> SUFFICES ASSUME AroundType, CycleType, [Next]_vars PROVE AroundType'
  OBVIOUS
<1> USE DEF AroundType
<1>1. CASE Pressure
  <2>1. breaker' \in Breakers
    BY <1>1, BreakerTypes DEF Pressure, PressureOpen, PressureFailed, PressureAnswered
  <2> QED
    BY <1>1, <2>1 DEF Pressure
<1>2. ASSUME NEW s \in Shards, ReadSize(s) PROVE AroundType'
  BY <1>2 DEF ReadSize
<1>3. CASE ReadFails \/ Plan
  BY <1>3 DEF ReadFails, Plan
<1>4. CASE RefillNext
  <2>1. Min(todo) \in Shards
    BY <1>4, FirstDue DEF RefillNext, Advance, CycleType
  <2>2. RefillTo(Min(todo)) \in Budgets
    BY <2>1, RefillRange
  <2>3. budget' = [budget EXCEPT ![Min(todo)] = RefillTo(Min(todo))]
    BY <1>4 DEF RefillNext
  <2>4. budget' \in [Shards -> Budgets]
    BY <2>1, <2>2, <2>3
  <2> QED
    BY <1>4, <2>4 DEF RefillNext, Advance
<1>5. CASE RefillFails
  BY <1>5 DEF RefillFails, Advance
<1>6. ASSUME NEW s \in Shards, Join(s) PROVE AroundType'
  <2>1. waiting[s] + 1 \in 0 .. MaxWaiting /\ joins + 1 \in 0 .. MaxJoins
    BY <1>6, Limits DEF Join
  <2>2. waiting' = [waiting EXCEPT ![s] = waiting[s] + 1] /\ joins' = joins + 1
    BY <1>6 DEF Join
  <2>3. waiting' \in [Shards -> 0 .. MaxWaiting]
    BY <2>1, <2>2
  <2> QED
    BY <1>6, <2>1, <2>2, <2>3 DEF Join
<1>7. ASSUME NEW s \in Shards, Enter(s) PROVE AroundType'
  <2>1. waiting[s] - 1 \in 0 .. MaxWaiting
    BY <1>7, Limits DEF Enter
  <2>2. waiting' \in [Shards -> 0 .. MaxWaiting]
    BY <1>7, <2>1 DEF Enter
  <2>3. budget[s] \in Budgets /\ budget[s].left > 0
    BY <1>7 DEF Enter
  <2>4. [budget[s] EXCEPT !.left = budget[s].left - 1] \in Budgets
    BY <2>3, Limits DEF Budgets
  <2>5. budget' = [budget EXCEPT ![s] = [budget[s] EXCEPT !.left = budget[s].left - 1]]
    BY <1>7 DEF Enter
  <2>6. budget' \in [Shards -> Budgets]
    BY <2>4, <2>5
  <2> QED
    BY <1>7, <2>2, <2>6 DEF Enter
<1>8. ASSUME NEW s \in Shards, Leave(s) PROVE AroundType'
  <2>1. waiting[s] - 1 \in 0 .. MaxWaiting
    BY <1>8, Limits DEF Leave
  <2>2. waiting' \in [Shards -> 0 .. MaxWaiting]
    BY <1>8, <2>1 DEF Leave
  <2> QED
    BY <1>8, <2>2 DEF Leave
<1>9. CASE Downstream \/ GateOpens
  BY <1>9 DEF Downstream, GateOpens
<1>10. CASE Tick
  <2>1. \A s \in Shards : Aged(budget[s]) \in Budgets
    BY AgedRange
  <2>2. budget' = [s \in Shards |-> Aged(budget[s])]
    BY <1>10 DEF Tick, Aged
  <2>3. breaker' \in Breakers
    <3>1. Lesser(breaker.since + 1, Cooldown) \in 0 .. Cooldown
      BY Limits DEF Lesser, Breakers
    <3>2. breaker' = [breaker EXCEPT !.since = Lesser(breaker.since + 1, Cooldown)]
      BY <1>10 DEF Tick
    <3> QED
      BY <3>1, <3>2 DEF Breakers
  <2> QED
    BY <1>10, <2>1, <2>2, <2>3 DEF Tick
<1>11. CASE UNCHANGED vars
  BY <1>11 DEF vars
<1> QED
  BY <1>1, <1>2, <1>3, <1>4, <1>5, <1>6, <1>7, <1>8, <1>9, <1>10, <1>11 DEF Next

\* A cycle that ends leaves nothing behind.
LEMMA ReturnType == Return => CycleType'
BY Values DEF Return, CycleType

\* What Plan decides on.
LEMMA PlanFacts ==
  ASSUME CycleType, Plan
  PROVE  \/ Return
         \/ /\ step' = "refill" /\ UNCHANGED <<percent, seen>>
            /\ plan' \in Apportion(PerCycle(percent), seen)
            /\ todo' = Due(plan') /\ Due(plan') # {}
BY DEF Plan

\* A plan hands out at most the seats of its cycle.
LEMMA GrantsAreSeats ==
  ASSUME CycleType, NEW grants \in Apportion(PerCycle(percent), seen)
  PROVE  /\ PerCycle(percent) \in Nat /\ seen \in [Shards -> Nat] /\ Total(seen) \in Nat
         /\ grants \in [Shards -> Nat] /\ Total(grants) <= PerCycle(percent)
<1>1. PerCycle(percent) \in Nat
  BY PercentRange, PerCycleFacts
<1>2. seen \in [Shards -> Nat]
  BY Limits DEF CycleType
<1>3. grants \in [Shards -> Nat] /\ Total(grants) = IF Total(seen) = 0 THEN 0 ELSE PerCycle(percent)
  BY <1>1, <1>2, ApportionExact
<1>4. Total(seen) \in Nat
  BY <1>2, TotalIsSum, Limits, SumNat
<1> QED
  BY <1>1, <1>2, <1>3, <1>4

\* The state of a cycle stays in shape.
LEMMA StepCycle == CycleType /\ AroundType /\ [Next]_vars => CycleType'
<1> SUFFICES ASSUME CycleType, AroundType, [Next]_vars PROVE CycleType'
  OBVIOUS
<1>1. CASE Pressure
  <2>1. percent' \in {0, MinPercent, 100} \cup Slowed
    BY <1>1 DEF Pressure, PressureOpen, PressureFailed, PressureAnswered
  <2> QED
    BY <1>1, <2>1, Values DEF Pressure, CycleType
<1>2. ASSUME NEW s \in Shards, ReadSize(s) PROVE CycleType'
  <2>1. waiting[s] \in 0 .. MaxWaiting
    BY DEF AroundType
  <2>2. seen' \in [Shards -> 0 .. MaxWaiting]
    BY <1>2, <2>1 DEF ReadSize, CycleType
  <2> QED
    BY <1>2, <2>2 DEF ReadSize, CycleType
<1>3. CASE ReadFails
  BY <1>3, ReturnType DEF ReadFails
<1>4. CASE Plan
  <2>1. CASE Return
    BY <2>1, ReturnType
  <2>2. CASE ~Return
    <3>1. /\ step' = "refill" /\ UNCHANGED <<percent, seen>>
          /\ plan' \in Apportion(PerCycle(percent), seen)
          /\ todo' = Due(plan') /\ Due(plan') # {}
      BY <1>4, <2>2, PlanFacts
    <3>2. plan' \in [Shards -> Nat]
      BY <3>1, GrantsAreSeats
    <3>3. Due(plan') \in SUBSET Shards
      BY DEF Due
    <3> QED
      BY <3>1, <3>2, <3>3 DEF CycleType
  <2> QED
    BY <2>1, <2>2
<1>5. CASE RefillNext \/ RefillFails
  <2>1. Advance
    BY <1>5 DEF RefillNext, RefillFails
  <2>2. CASE Return
    BY <2>2, ReturnType
  <2>3. CASE ~Return
    <3>1. /\ todo # {Min(todo)} /\ todo' = todo \ {Min(todo)}
          /\ UNCHANGED <<step, percent, seen, plan>>
      BY <2>1, <2>3 DEF Advance
    <3>2. todo # {}
      BY <2>1 DEF Advance, CycleType
    <3>3. todo' # {} /\ todo' \in SUBSET Shards
      BY <3>1, <3>2 DEF CycleType
    <3> QED
      BY <3>1, <3>3 DEF CycleType
  <2> QED
    BY <2>2, <2>3
<1>6. ASSUME NEW s \in Shards, Join(s) \/ Enter(s) \/ Leave(s) PROVE UNCHANGED cycleVars
  BY <1>6 DEF Join, Enter, Leave
<1>7. ASSUME Downstream \/ GateOpens \/ Tick PROVE UNCHANGED cycleVars
  BY <1>7 DEF Downstream, GateOpens, Tick
<1>8. ASSUME UNCHANGED vars PROVE UNCHANGED cycleVars
  BY <1>8 DEF vars, cycleVars
<1>9. CASE UNCHANGED cycleVars
  BY <1>9 DEF cycleVars, CycleType
<1> QED
  BY <1>1, <1>2, <1>3, <1>4, <1>5, <1>6, <1>7, <1>8, <1>9 DEF Next

\* A controller that starts is in shape.
LEMMA InitTypes == Init => AroundType /\ CycleType
<1> SUFFICES ASSUME Init PROVE AroundType /\ CycleType
  OBVIOUS
<1>1. breaker \in Breakers
  BY Limits DEF Init, Breakers
<1>2. 0 \in 0 .. MaxJoins
  BY Limits
<1> QED
  BY <1>1, <1>2, Values DEF Init, AroundType, CycleType

\* The breaker, the lines, the budgets and the cycle stay what they are for any
\* number of shards and any settings, and no budget passes the cap.
THEOREM TypeCorrect == Spec => []TypeOK
<1>1. (AroundType /\ CycleType) /\ [Next]_vars => (AroundType /\ CycleType)'
  BY StepAround, StepCycle
<1> QED
  BY <1>1, InitTypes, TypesTogether, PTL DEF Spec

-------------------------------------------------------------------------------
(* Exact plans *)

\* One shard with people makes a total.
LEMMA SomebodySeen ==
  ASSUME NEW w \in [Shards -> Nat], NEW x \in Shards, w[x] # 0
  PROVE  Total(w) # 0
<1>1. \A s \in Shards : w[s] \in Int
  OBVIOUS
<1>2. SumOver(w, Shards) = w[x] + SumOver(w, Shards \ {x})
  BY <1>1, Limits, SumRemove
<1>3. SumOver(w, Shards \ {x}) \in Nat
  <2>1. IsFiniteSet(Shards \ {x})
    BY Limits, FS_Subset
  <2>2. \A s \in Shards \ {x} : w[s] \in Nat
    OBVIOUS
  <2> QED
    BY <2>1, <2>2, SumNat
<1> QED
  BY <1>2, <1>3, TotalIsSum

\* Nobody waits: nothing is granted.
LEMMA NothingForNobody ==
  ASSUME NEW total \in Nat, NEW w \in [Shards -> Nat], Total(w) = 0, NEW grants \in Apportion(total, w)
  PROVE  \A s \in Shards : w[s] = 0 /\ grants[s] = 0
<1>1. grants = Nothing
  BY DEF Apportion
<1> QED
  BY <1>1, SomebodySeen DEF Nothing

\* A plan is exact when it is made and is not touched until its cycle ends.
LEMMA StepPlan == CycleType /\ AroundType /\ PlanExact /\ [Next]_vars => PlanExact'
<1> SUFFICES ASSUME CycleType, AroundType, PlanExact, [Next]_vars, step' = "refill" PROVE PlanExact'
  BY DEF PlanExact
<1>1. CASE UNCHANGED <<step, percent, seen, plan>>
  BY <1>1 DEF PlanExact
<1>2. CASE Plan
  <2>1. /\ UNCHANGED <<percent, seen>>
        /\ plan' \in Apportion(PerCycle(percent), seen)
        /\ Due(plan') # {}
    BY <1>2, PlanFacts DEF Return
  <2> DEFINE total == PerCycle(percent)
             grants == plan'
  <2>2. total \in Nat /\ seen \in [Shards -> Nat]
    BY <2>1, GrantsAreSeats
  <2>3. Total(seen) # 0
    <3> SUFFICES ASSUME Total(seen) = 0 PROVE FALSE
      OBVIOUS
    <3>1. \A s \in Shards : seen[s] = 0 /\ plan'[s] = 0
      <4> HIDE DEF total
      <4> QED
        BY <2>1, <2>2, NothingForNobody DEF total
    <3> QED
      BY <2>1, <3>1 DEF Due
  <2>4. /\ Total(plan') = total
        /\ \A s \in Shards : /\ -Total(seen) < plan'[s] * Total(seen) - total * seen[s]
                             /\ plan'[s] * Total(seen) - total * seen[s] < Total(seen)
    BY <2>1, <2>2, <2>3, ApportionExact
  <2>5. percent' = percent /\ seen' = seen
    BY <2>1
  <2>6. Total(seen') = Total(seen) /\ PerCycle(percent') = PerCycle(percent)
    BY <2>5
  <2> QED
    BY <2>4, <2>5, <2>6 DEF PlanExact
<1>3. CASE Pressure \/ ReadFails
  BY <1>3 DEF Pressure, ReadFails, Return
<1>4. ASSUME NEW s \in Shards, ReadSize(s) PROVE FALSE
  BY <1>4 DEF ReadSize
<1>5. CASE RefillNext \/ RefillFails
  BY <1>1, <1>5 DEF RefillNext, RefillFails, Advance, Return
<1>6. ASSUME NEW s \in Shards, Join(s) \/ Enter(s) \/ Leave(s)
      PROVE  UNCHANGED <<step, percent, seen, plan>>
  BY <1>6 DEF Join, Enter, Leave, cycleVars
<1>7. ASSUME Downstream \/ GateOpens \/ Tick PROVE UNCHANGED <<step, percent, seen, plan>>
  BY <1>7 DEF Downstream, GateOpens, Tick, cycleVars
<1>8. ASSUME UNCHANGED vars PROVE UNCHANGED <<step, percent, seen, plan>>
  BY <1>8 DEF vars
<1> QED
  BY <1>1, <1>2, <1>3, <1>4, <1>5, <1>6, <1>7, <1>8 DEF Next

\* Exactness of the largest remainders, for any number of shards, any lengths
\* and any rate: a cycle that refills hands out as many seats as the rate and the
\* backpressure allow, to the last one, and no shard is a whole seat off its exact
\* share (apportion).
THEOREM PlanExactHolds == Spec => []PlanExact
<1>1. (AroundType /\ CycleType /\ PlanExact) /\ [Next]_vars => (AroundType /\ CycleType /\ PlanExact)'
  BY StepAround, StepCycle, StepPlan
<1>2. Init => PlanExact
  BY DEF Init, PlanExact
<1> QED
  BY <1>1, <1>2, InitTypes, PTL DEF Spec

-------------------------------------------------------------------------------
(* The rate, over any number of cycles *)

\* Seats lying ready and seats this cycle is still going to add.
Coming == [s \in Shards |-> budget[s].left + (IF step = "refill" /\ s \in todo THEN plan[s] ELSE 0)]

\* Seats of a cycle that has not made its plan yet.
Promised == IF step = "read" THEN PerCycle(percent) ELSE 0

\* RateHeld alone is not inductive: a cycle under way is allowed seats that no
\* budget shows yet.
RateInv == credit \in Int /\ Total(Coming) + Promised <= credit

Typed == AroundType /\ CycleType

\* Seats that are out, planned and promised are counted in numbers.
LEMMA ComingNat ==
  ASSUME Typed
  PROVE  /\ \A s \in Shards : budget[s].left \in 0 .. Cap /\ plan[s] \in Nat /\ Coming[s] \in Nat
         /\ Total(Coming) \in Nat
         /\ percent \in 0 .. 100 /\ PerCycle(percent) \in Nat /\ Promised \in Nat
<1>1. \A s \in Shards : budget[s].left \in 0 .. Cap /\ plan[s] \in Nat
  BY DEF Typed, AroundType, CycleType, Budgets
<1>2. \A s \in Shards : Coming[s] \in Nat
  BY <1>1, Limits DEF Coming
<1>3. Total(Coming) \in Nat
  BY <1>2, Limits, SumNat, TotalIsSum
<1>4. percent \in 0 .. 100
  BY PercentRange DEF Typed
<1>5. PerCycle(percent) \in Nat
  BY <1>4, PerCycleFacts
<1> QED
  BY <1>1, <1>2, <1>3, <1>4, <1>5 DEF Promised

ComingIsNat == (\A s \in Shards : Coming[s] \in Nat) /\ Promised \in Nat

\* The same, before a step.
LEMMA CountsNow == Typed => ComingIsNat
BY ComingNat DEF ComingIsNat

\* The same, after a step.
LEMMA CountsThen == ASSUME Typed' PROVE (\A s \in Shards : Coming'[s] \in Nat) /\ Promised' \in Nat
<1>1. ComingIsNat'
  BY CountsNow, PTL
<1> QED
  BY <1>1 DEF ComingIsNat

\* What falls for every shard falls in all.
LEMMA ComingFalls ==
  ASSUME Typed, Typed', \A s \in Shards : Coming'[s] <= Coming[s]
  PROVE  Total(Coming') <= Total(Coming)
<1> DEFINE now == Coming
           then == Coming'
<1>1. \A s \in Shards : now[s] \in Nat
  BY ComingNat
<1>2. \A s \in Shards : then[s] \in Nat
  BY CountsThen
<1>3. \A s \in Shards : then[s] <= now[s]
  OBVIOUS
<1>4. SumOver(then, Shards) <= SumOver(now, Shards)
  <2>1. \A s \in Shards : then[s] \in Int /\ now[s] \in Int /\ then[s] <= now[s]
    <3> HIDE DEF now, then
    <3> QED
      BY <1>1, <1>2, <1>3
  <2> HIDE DEF now, then
  <2> QED
    BY <2>1, Limits, SumMonotone
<1> QED
  BY <1>4, TotalIsSum

\* One seat is taken.
LEMMA OneTaken ==
  ASSUME Typed, Typed', NEW x \in Shards,
         \A s \in Shards : Coming[s] = Coming'[s] + (IF s = x THEN 1 ELSE 0)
  PROVE  Total(Coming) = Total(Coming') + 1
<1> DEFINE now == Coming
           then == Coming'
           one == [s \in Shards |-> IF s \in {x} THEN 1 ELSE 0]
<1>1. \A s \in Shards : then[s] \in Nat
  BY CountsThen
<1>2. \A s \in Shards : one[s] \in Int /\ one[s] = (IF s \in {x} THEN 1 ELSE 0) /\ now[s] = then[s] + one[s]
  OBVIOUS
<1>3. SumOver(one, Shards) = 1
  <2>1. {x} \in SUBSET Shards /\ Cardinality({x}) = 1
    BY FS_Singleton
  <2> HIDE DEF one
  <2> QED
    BY <1>2, <2>1, Limits, SumCounts
<1>4. SumOver(now, Shards) = SumOver(then, Shards) + SumOver(one, Shards)
  <2>1. \A s \in Shards : then[s] \in Int
    <3> HIDE DEF then
    <3> QED
      BY <1>1
  <2> HIDE DEF now, then, one
  <2> QED
    BY <1>2, <2>1, Limits, SumPlus
<1> QED
  BY <1>3, <1>4, TotalIsSum

\* Between two cycles no more than every shard full is lying ready.
LEMMA ReadyAtMost ==
  ASSUME Typed, step # "refill"
  PROVE  Total(Coming) <= NumShards * Cap
<1> DEFINE one == [s \in Shards |-> IF s \in Shards THEN 1 ELSE 0]
           full == [s \in Shards |-> Cap * one[s]]
<1>1. \A s \in Shards : Coming[s] \in Int /\ full[s] \in Int /\ Coming[s] <= full[s]
  <2> TAKE s \in Shards
  <2>1. budget[s].left \in 0 .. Cap
    BY ComingNat
  <2>2. Coming[s] = budget[s].left
    BY <2>1 DEF Coming
  <2>3. full[s] = Cap
    BY Limits
  <2> HIDE DEF full
  <2> QED
    BY <2>1, <2>2, <2>3, Limits
<1>2. \A s \in Shards : one[s] = (IF s \in Shards THEN 1 ELSE 0) /\ one[s] \in Int /\ full[s] = Cap * one[s]
  OBVIOUS
<1> HIDE DEF one, full
<1>3. SumOver(Coming, Shards) <= SumOver(full, Shards)
  BY <1>1, Limits, SumMonotone
<1>4. SumOver(one, Shards) = NumShards
  <2>1. Shards \in SUBSET Shards
    OBVIOUS
  <2> QED
    BY <1>2, <2>1, Limits, SumCounts
<1>5. SumOver(full, Shards) = Cap * SumOver(one, Shards)
  BY <1>2, Limits, SumTimes
<1>6. Cap * NumShards = NumShards * Cap
  BY Limits
<1> QED
  BY <1>3, <1>4, <1>5, <1>6, TotalIsSum

flowVars == <<vars, misses, credit>>

\* The credit is left alone and nothing more is coming.
Frugal == credit' = credit /\ (\A s \in Shards : Coming'[s] <= Coming[s]) /\ Promised' <= Promised

\* A step that adds to none of the three keeps the rate.
LEMMA FrugalKeeps ==
  ASSUME Typed, Typed', RateInv, Frugal
  PROVE  RateInv'
<1>1. Total(Coming') <= Total(Coming)
  BY ComingFalls DEF Frugal
<1>2. Total(Coming) \in Nat /\ Promised \in Nat
  BY ComingNat
<1>3. Total(Coming') \in Nat
  BY CountsThen, Limits, SumNat, TotalIsSum
<1>4. Promised' \in Nat
  BY CountsThen
<1> QED
  BY <1>1, <1>2, <1>3, <1>4 DEF RateInv, Frugal

\* People come and go, time passes, a cycle reads or gives up.
LEMMA FrugalSteps ==
  ASSUME Typed, RateNext, ~Pressure, ~Plan, \A s \in Shards : ~Enter(s)
  PROVE  Frugal
<1>0. /\ \A s \in Shards : budget[s] \in Budgets /\ budget[s].left \in 0 .. Cap /\ plan[s] \in Nat
      /\ PerCycle(percent) \in Nat
  BY ComingNat DEF Typed, AroundType
<1>1. ASSUME step' # "read" \/ step = "read", ~(waiting' # waiting /\ budget' # budget)
      PROVE  credit' = credit
  BY <1>1 DEF RateNext, Begun, Entered
<1>2. ASSUME NEW s \in Shards, ReadSize(s) PROVE Frugal
  <2>1. UNCHANGED <<step, budget, waiting, percent, plan>> /\ step = "read"
    BY <1>2 DEF ReadSize
  <2> QED
    BY <1>0, <1>1, <2>1, Limits DEF Frugal, Coming, Promised
<1>3. CASE ReadFails
  <2>1. UNCHANGED <<budget, waiting>> /\ step = "read" /\ step' = "idle"
    BY <1>3 DEF ReadFails, Return
  <2> QED
    BY <1>0, <1>1, <2>1, Limits DEF Frugal, Coming, Promised
<1>4. CASE RefillNext \/ RefillFails
  <2>1. /\ step = "refill" /\ step' # "read" /\ waiting' = waiting
        /\ step' = "refill" => todo' = todo \ {Min(todo)} /\ plan' = plan
    BY <1>4 DEF RefillNext, RefillFails, Advance, Return
  <2>2. Min(todo) \in todo /\ Min(todo) \in Shards
    BY <2>1, FirstDue DEF Typed, CycleType
  <2>3. ASSUME NEW s \in Shards
        PROVE  /\ budget'[s].left \in Nat
               /\ budget'[s].left <= budget[s].left + (IF s = Min(todo) THEN plan[s] ELSE 0)
    <3>0. budget \in [Shards -> Budgets]
      BY DEF Typed, AroundType
    <3>1. CASE RefillFails
      BY <1>0, <3>1, Limits DEF RefillFails
    <3>2. CASE RefillNext
      <4>1. budget' = [budget EXCEPT ![Min(todo)] = RefillTo(Min(todo))]
        BY <3>2 DEF RefillNext
      <4>2. CASE s = Min(todo)
        <5>1. budget'[s] = RefillTo(s)
          BY <2>2, <3>0, <4>1, <4>2
        <5>2. RefillTo(s) \in Budgets /\ RefillTo(s).left <= budget[s].left + plan[s]
          BY RefillRange DEF Typed
        <5>3. RefillTo(s).left \in Nat
          BY <5>2, Limits DEF Budgets
        <5> QED
          BY <4>2, <5>1, <5>2, <5>3
      <4>3. CASE s # Min(todo)
        <5>1. budget'[s] = budget[s]
          BY <2>2, <3>0, <4>1, <4>3
        <5> QED
          BY <1>0, <4>3, <5>1, Limits
      <4> QED
        BY <4>2, <4>3
    <3> QED
      BY <1>4, <3>1, <3>2
  <2>4. ASSUME NEW s \in Shards PROVE Coming'[s] <= Coming[s]
    <3>1. Coming[s] = budget[s].left + (IF s \in todo THEN plan[s] ELSE 0)
      BY <2>1 DEF Coming
    <3>2. Coming'[s] = budget'[s].left + (IF step' = "refill" /\ s \in todo /\ s # Min(todo) THEN plan[s] ELSE 0)
      BY <2>1 DEF Coming
    <3> QED
      BY <1>0, <2>2, <2>3, <3>1, <3>2
  <2>5. Promised' = 0 /\ Promised = 0
    BY <2>1 DEF Promised
  <2> QED
    BY <1>1, <2>1, <2>4, <2>5 DEF Frugal
<1>5. ASSUME NEW s \in Shards, Join(s) \/ Leave(s) PROVE Frugal
  <2>1. UNCHANGED <<step, budget, percent, plan, todo>>
    BY <1>5 DEF Join, Leave, cycleVars
  <2> QED
    BY <1>0, <1>1, <2>1, Limits DEF Frugal, Coming, Promised
<1>6. CASE Downstream \/ GateOpens
  <2>1. UNCHANGED <<step, budget, percent, plan, todo>>
    BY <1>6 DEF Downstream, GateOpens, cycleVars
  <2> QED
    BY <1>0, <1>1, <2>1, Limits DEF Frugal, Coming, Promised
<1>7. CASE Tick
  <2>1. UNCHANGED <<step, waiting, percent, plan, todo>> /\ budget' = [s \in Shards |-> Aged(budget[s])]
    BY <1>7 DEF Tick, cycleVars, Aged
  <2>2. \A s \in Shards : budget'[s].left \in Nat /\ budget'[s].left <= budget[s].left
    BY <1>0, <2>1, AgedRange
  <2>3. Promised' = Promised /\ Promised \in Nat
    BY <1>0, <2>1 DEF Promised
  <2>4. \A s \in Shards : Coming'[s] <= Coming[s]
    BY <1>0, <2>1, <2>2, Limits DEF Coming
  <2> QED
    BY <1>1, <2>1, <2>3, <2>4 DEF Frugal
<1> QED
  BY <1>2, <1>3, <1>4, <1>5, <1>6, <1>7 DEF RateNext, Next

\* Both halves of the types, together.
LEMMA StepTyped == Typed /\ [Next]_vars => Typed'
BY StepAround, StepCycle DEF Typed

\* Every step keeps what is out, planned and promised within the credit.
LEMMA StepRate == Typed /\ RateInv /\ [RateNext]_flowVars => RateInv'
<1> SUFFICES ASSUME Typed, RateInv, [RateNext]_flowVars PROVE RateInv'
  OBVIOUS
<1>0. Typed'
  BY StepTyped DEF RateNext, flowVars, vars
<1>1. CASE UNCHANGED flowVars
  <2>1. UNCHANGED <<budget, step, todo, plan, percent, credit>>
    BY <1>1 DEF flowVars, vars
  <2>2. Coming' = Coming /\ Promised' = Promised
    BY <2>1 DEF Coming, Promised
  <2> QED
    BY <2>1, <2>2 DEF RateInv
<1>2. CASE RateNext /\ Pressure
  <2>1. step = "idle" /\ step' = "read" /\ UNCHANGED <<budget, waiting>>
    BY <1>2 DEF Pressure
  <2>2. credit' = Lesser(credit + PerCycle(percent'), CreditCap)
    BY <1>2, <2>1 DEF RateNext, Begun
  <2>3. Coming' = Coming
    BY <2>1 DEF Coming
  <2>4. Total(Coming') = Total(Coming) /\ Promised' = PerCycle(percent') /\ Promised = 0
    BY <2>1, <2>3 DEF Promised
  <2>5. percent' \in 0 .. 100
    BY <1>0, Limits DEF Typed, CycleType
  <2>6. PerCycle(percent') \in Nat /\ PerCycle(100) \in Nat /\ PerCycle(percent') <= PerCycle(100)
    BY <2>5, PerCycleFacts
  <2>7. Total(Coming) <= NumShards * Cap
    BY <2>1, ReadyAtMost
  <2>8. NumShards * Cap \in Nat /\ Total(Coming) \in Nat
    BY Limits, ComingNat
  <2> QED
    BY <2>2, <2>4, <2>6, <2>7, <2>8 DEF RateInv, Lesser, CreditCap
<1>3. CASE RateNext /\ Plan
  <2>1. step = "read" /\ step' # "read" /\ UNCHANGED <<budget, waiting>>
    BY <1>3 DEF Plan, Return
  <2>2. credit' = credit
    BY <1>3, <2>1 DEF RateNext, Begun, Entered
  <2>3. CASE step' = "idle"
    <3>1. Frugal
      <4>1. \A s \in Shards : Coming'[s] <= Coming[s]
        BY <2>1, <2>3, ComingNat, Limits DEF Coming
      <4> QED
        BY <2>1, <2>2, <2>3, <4>1, ComingNat DEF Frugal, Promised
    <3> QED
      BY <1>0, <3>1, FrugalKeeps
  <2>4. CASE step' # "idle"
    <3>1. step' = "refill" /\ plan' \in Apportion(PerCycle(percent), seen) /\ todo' = Due(plan')
      BY <1>3, <2>4, PlanFacts DEF Typed, Return
    <3> DEFINE grants == plan'
               ready == Coming
               both == [s \in Shards |-> ready[s] + grants[s]]
               then == Coming'
    <3>2. grants \in [Shards -> Nat] /\ Total(grants) <= PerCycle(percent) /\ PerCycle(percent) \in Nat
      BY <3>1, GrantsAreSeats DEF Typed
    <3>3. \A s \in Shards : ready[s] \in Nat /\ ready[s] = budget[s].left
      <4>1. \A s \in Shards : Coming[s] \in Nat /\ budget[s].left \in 0 .. Cap
        BY ComingNat
      <4> QED
        BY <2>1, <4>1 DEF Coming
    <3>4. \A s \in Shards : then[s] \in Nat
      BY <1>0, CountsThen
    <3>5. \A s \in Shards : then[s] <= both[s]
      <4> SUFFICES ASSUME NEW s \in Shards PROVE then[s] <= ready[s] + grants[s]
        OBVIOUS
      <4>1. then[s] = budget[s].left + (IF s \in todo' THEN plan'[s] ELSE 0)
        BY <2>1, <3>1 DEF Coming
      <4>2. plan'[s] \in Nat
        BY <3>2
      <4> HIDE DEF ready, then
      <4> QED
        BY <3>3, <4>1, <4>2
    <3>6. SumOver(both, Shards) = SumOver(ready, Shards) + SumOver(grants, Shards)
      <4>1. \A s \in Shards : ready[s] \in Int /\ grants[s] \in Int /\ both[s] = ready[s] + grants[s]
        <5> HIDE DEF ready, grants
        <5> QED
          BY <3>2, <3>3
      <4> HIDE DEF ready, grants, both
      <4> QED
        BY <4>1, Limits, SumPlus
    <3>7. SumOver(then, Shards) <= SumOver(both, Shards)
      <4>1. \A s \in Shards : then[s] \in Int /\ both[s] \in Int /\ then[s] <= both[s]
        <5> SUFFICES ASSUME NEW s \in Shards PROVE then[s] \in Int /\ both[s] \in Int /\ then[s] <= both[s]
          OBVIOUS
        <5>1. grants[s] \in Nat
          BY <3>2
        <5>2. both[s] = ready[s] + grants[s]
          OBVIOUS
        <5> HIDE DEF ready, grants, then, both
        <5> QED
          BY <3>3, <3>4, <3>5, <5>1, <5>2
      <4> HIDE DEF then, both
      <4> QED
        BY <4>1, Limits, SumMonotone
    <3>8. SumOver(grants, Shards) \in Nat
      <4>1. \A s \in Shards : grants[s] \in Nat
        BY <3>2
      <4> HIDE DEF grants
      <4> QED
        BY <4>1, Limits, SumNat
    <3>9. Total(then) <= Total(ready) + PerCycle(percent)
      <4>1. Total(ready) \in Nat
        BY ComingNat
      <4>2. Total(then) \in Nat
        BY <3>4, Limits, SumNat, TotalIsSum
      <4> HIDE DEF grants, ready, both, then
      <4> QED
        BY <3>2, <3>6, <3>7, <3>8, <4>1, <4>2, TotalIsSum
    <3>10. Promised = PerCycle(percent) /\ Promised' = 0
      BY <2>1 DEF Promised
    <3>11. Total(Coming') \in Nat /\ Total(Coming) \in Nat
      BY <3>4, Limits, SumNat, TotalIsSum, ComingNat
    <3> QED
      BY <2>2, <3>2, <3>9, <3>10, <3>11 DEF RateInv
  <2> QED
    BY <2>3, <2>4
<1>4. ASSUME RateNext, NEW x \in Shards, Enter(x) PROVE RateInv'
  <2>0. /\ budget \in [Shards -> Budgets] /\ waiting \in [Shards -> 0 .. MaxWaiting]
        /\ waiting[x] \in 0 .. MaxWaiting /\ budget[x] \in Budgets
    BY DEF Typed, AroundType
  <2>1. /\ waiting' = [waiting EXCEPT ![x] = waiting[x] - 1]
        /\ budget' = [budget EXCEPT ![x] = [budget[x] EXCEPT !.left = budget[x].left - 1]]
        /\ UNCHANGED <<step, percent, plan, todo>>
    BY <1>4 DEF Enter, cycleVars
  <2>2. budget'[x].left = budget[x].left - 1 /\ budget[x].left \in 0 .. Cap
    BY <2>0, <2>1 DEF Budgets
  <2>3. waiting' # waiting
    <3>1. waiting'[x] = waiting[x] - 1
      BY <2>0, <2>1
    <3> QED
      BY <2>0, <3>1, Limits
  <2>4. budget' # budget
    BY <2>2, Limits
  <2>5. credit' = credit - 1
    BY <1>4, <2>1, <2>3, <2>4 DEF RateNext, Begun, Entered
  <2>6. \A s \in Shards : Coming[s] = Coming'[s] + (IF s = x THEN 1 ELSE 0)
    <3> SUFFICES ASSUME NEW s \in Shards PROVE Coming[s] = Coming'[s] + (IF s = x THEN 1 ELSE 0)
      OBVIOUS
    <3>1. budget[s].left = budget'[s].left + (IF s = x THEN 1 ELSE 0)
      <4>1. CASE s = x
        BY <2>2, <4>1, Limits
      <4>2. CASE s # x
        <5>1. budget'[s] = budget[s] /\ budget[s].left \in 0 .. Cap
          BY <2>0, <2>1, <4>2, ComingNat
        <5> QED
          BY <4>2, <5>1, Limits
      <4> QED
        BY <4>1, <4>2
    <3>2. budget[s].left \in 0 .. Cap /\ plan[s] \in Nat
      BY ComingNat
    <3>3. budget'[s].left \in Int
      <4>1. budget'[s] \in Budgets
        BY <1>0 DEF Typed, AroundType
      <4> QED
        BY <4>1, Limits DEF Budgets
    <3>4. /\ Coming[s] = budget[s].left + (IF step = "refill" /\ s \in todo THEN plan[s] ELSE 0)
          /\ Coming'[s] = budget'[s].left + (IF step = "refill" /\ s \in todo THEN plan[s] ELSE 0)
      BY <2>1 DEF Coming
    <3> QED
      BY <3>1, <3>2, <3>3, <3>4, Limits
  <2>7. Total(Coming) = Total(Coming') + 1
    BY <1>0, <2>6, OneTaken
  <2>8. Promised' = Promised
    BY <2>1 DEF Promised
  <2>9. Total(Coming') \in Nat /\ Promised \in Nat
    BY <1>0, CountsThen, Limits, SumNat, TotalIsSum, ComingNat
  <2> QED
    BY <2>5, <2>7, <2>8, <2>9 DEF RateInv
<1>5. CASE RateNext /\ ~Pressure /\ ~Plan /\ \A s \in Shards : ~Enter(s)
  BY <1>0, <1>5, FrugalSteps, FrugalKeeps
<1> QED
  BY <1>1, <1>2, <1>3, <1>4, <1>5

\* The rate holds over any number of cycles, shards and failed refills: the seats
\* lying ready never exceed what the cycles were allowed in all, less what was
\* taken (Cycle, refill_budget.lua).
THEOREM RateHeldHolds == FlowSpec => []RateHeld
<1>1. RateInit => Typed /\ RateInv
  <2> SUFFICES ASSUME RateInit PROVE Typed /\ RateInv
    OBVIOUS
  <2>1. Typed
    BY InitTypes DEF RateInit, Typed
  <2>2. \A s \in Shards : Coming[s] = IF s \in {} THEN 1 ELSE 0
    BY DEF RateInit, Init, Coming, NoBudget
  <2>3. Total(Coming) = 0
    <3>1. {} \in SUBSET Shards
      OBVIOUS
    <3> QED
      BY <2>2, <3>1, Limits, SumCounts, TotalIsSum, FS_EmptySet
  <2> QED
    BY <2>1, <2>3 DEF RateInit, Init, RateInv, Promised
<1>2. (Typed /\ RateInv) /\ [RateNext]_flowVars => (Typed /\ RateInv)'
  <2>1. [RateNext]_flowVars => [Next]_vars
    BY DEF RateNext, flowVars
  <2> QED
    BY <2>1, StepTyped, StepRate
<1>3. Typed /\ RateInv => RateHeld
  <2> SUFFICES ASSUME Typed, RateInv PROVE RateHeld
    OBVIOUS
  <2> DEFINE ready == [s \in Shards |-> budget[s].left]
  <2>1. \A s \in Shards : ready[s] \in Int /\ Coming[s] \in Int /\ ready[s] <= Coming[s]
    BY ComingNat, Limits DEF Coming
  <2>2. SumOver(ready, Shards) \in Int /\ SumOver(ready, Shards) <= SumOver(Coming, Shards)
    <3> HIDE DEF ready
    <3> QED
      BY <2>1, Limits, SumMonotone
  <2>3. Total(Coming) \in Nat /\ Promised \in Nat
    BY ComingNat
  <2>4. Total(ready) <= credit
    <3> HIDE DEF ready
    <3> QED
      BY <2>2, <2>3, TotalIsSum DEF RateInv
  <2> QED
    BY <2>4 DEF RateHeld
<1> QED
  BY <1>1, <1>2, <1>3, PTL DEF FlowSpec, flowVars

-------------------------------------------------------------------------------
(* Nothing for a downstream that is down *)

\* The breaker counts what misses counts, opens with the last miss allowed and
\* closes with an answer; between the two a cycle has nothing to give.
DownInv ==
  /\ misses \in 0 .. Threshold
  /\ breaker.state # "half_open"
  /\ breaker.state = "closed" => breaker.failures = misses /\ misses < Threshold
  /\ breaker.state = "open" => misses = Threshold
  /\ misses = Threshold => percent = 0 /\ plan = Nothing

\* A failed answer, seen by the breaker and by misses.
LEMMA FailureCounts ==
  ASSUME Cooldown > 0, Typed, DownInv, BreakerState(breaker).state # "open"
  PROVE  LET after == BreakerState(BreakerFailure(BreakerState(breaker)))
             n == Lesser(misses + 1, Threshold)
         IN  /\ after.state # "half_open"
             /\ after.state = "closed" => after.failures = n /\ n < Threshold
             /\ after.state = "open" => n = Threshold
<1> DEFINE b == BreakerState(breaker)
           f == BreakerFailure(b)
           n == Lesser(misses + 1, Threshold)
<1>0. breaker \in Breakers /\ b \in Breakers /\ n \in 0 .. Threshold
  <2>1. breaker \in Breakers
    BY DEF Typed, AroundType
  <2>2. n \in 0 .. Threshold
    BY Limits DEF DownInv, Lesser
  <2> HIDE DEF n
  <2> QED
    BY <2>1, <2>2, BreakerTypes
<1>1. CASE breaker.state = "open"
  <2>1. b.state = "half_open" /\ misses = Threshold
    BY <1>0, <1>1 DEF BreakerState, DownInv, Breakers
  <2>2. f.state = "open" /\ f.since = 0
    <3> HIDE DEF b
    <3> QED
      BY <2>1 DEF BreakerFailure
  <2>3. BreakerState(f) = f
    <3> HIDE DEF f
    <3> QED
      BY <2>2, Limits DEF BreakerState
  <2>4. n = Threshold
    BY <2>1, Limits DEF Lesser
  <2> HIDE DEF b, f, n
  <2> QED
    BY <2>2, <2>3, <2>4 DEF b, f, n
<1>2. CASE breaker.state # "open"
  <2>1. b = breaker /\ b.state = "closed" /\ b.failures = misses
    BY <1>0, <1>2 DEF BreakerState, DownInv, Breakers
  <2>2. CASE n >= Threshold
    <3>1. n = Threshold
      BY <1>0, <2>2, Limits
    <3>2. f.state = "open" /\ f.since = 0
      <4> HIDE DEF b
      <4> QED
        BY <2>1, <2>2 DEF BreakerFailure
    <3>3. BreakerState(f) = f
      <4> HIDE DEF f
      <4> QED
        BY <3>2, Limits DEF BreakerState
    <3> HIDE DEF b, f, n
    <3> QED
      BY <3>1, <3>2, <3>3 DEF b, f, n
  <2>3. CASE ~(n >= Threshold)
    <3>1. f = [b EXCEPT !.failures = n]
      <4> HIDE DEF b
      <4> QED
        BY <2>1, <2>3 DEF BreakerFailure
    <3>2. f.state = "closed" /\ f.failures = n
      <4> HIDE DEF b, f, n
      <4> QED
        BY <1>0, <2>1, <3>1 DEF Breakers
    <3>3. BreakerState(f) = f
      <4> HIDE DEF f
      <4> QED
        BY <3>2 DEF BreakerState
    <3>4. n < Threshold
      BY <1>0, <2>3, Limits
    <3> HIDE DEF b, f, n
    <3> QED
      BY <3>2, <3>3, <3>4 DEF b, f, n
  <2> QED
    BY <2>2, <2>3
<1> QED
  BY <1>1, <1>2

\* Every step keeps what is known of a downstream that is down.
LEMMA StepDown ==
  ASSUME Cooldown > 0
  PROVE  Typed /\ DownInv /\ [RateNext]_flowVars => DownInv'
<1> SUFFICES ASSUME Typed, DownInv, [RateNext]_flowVars PROVE DownInv'
  OBVIOUS
<1>1. CASE UNCHANGED <<breaker, misses, percent, plan>>
  BY <1>1 DEF DownInv
<1>2. CASE RateNext /\ Pressure
  <2>0. /\ step = "idle" /\ step' = "read" /\ plan' = Nothing
        /\ breaker \in Breakers
    BY <1>2 DEF Pressure, Typed, AroundType
  <2>1. CASE PressureOpen
    <3>1. misses' = misses /\ breaker' = breaker /\ percent' = 0
      BY <1>2, <2>1 DEF PressureOpen, RateNext, Asked
    <3> QED
      BY <2>0, <3>1 DEF DownInv
  <2>2. CASE PressureFailed
    <3> DEFINE after == BreakerState(BreakerFailure(BreakerState(breaker)))
               n == Lesser(misses + 1, Threshold)
    <3>1. /\ BreakerState(breaker).state # "open" /\ ~healthy /\ breaker' = after
          /\ percent' = IF after.state = "open" THEN 0 ELSE MinPercent
      BY <2>2 DEF PressureFailed
    <3>2. misses' = n
      BY <1>2, <2>0, <3>1 DEF RateNext, Asked
    <3>3. /\ after.state # "half_open"
          /\ after.state = "closed" => after.failures = n /\ n < Threshold
          /\ after.state = "open" => n = Threshold
      BY <3>1, FailureCounts
    <3>4. after.state \in {"closed", "open", "half_open"}
      <4>1. after \in Breakers
        BY <2>0, BreakerTypes
      <4> HIDE DEF after
      <4> QED
        BY <4>1 DEF Breakers
    <3>5. n \in 0 .. Threshold
      BY Limits DEF DownInv, Lesser
    <3> HIDE DEF after, n
    <3> QED
      BY <2>0, <3>1, <3>2, <3>3, <3>4, <3>5 DEF DownInv
  <2>3. CASE PressureAnswered
    <3>1. BreakerState(breaker).state # "open" /\ healthy /\ breaker' = BreakerSuccess(BreakerState(breaker))
      BY <2>3 DEF PressureAnswered
    <3>2. misses' = 0
      BY <1>2, <2>0, <3>1 DEF RateNext, Asked
    <3>3. BreakerState(breaker) \in Breakers
      BY <2>0, BreakerTypes
    <3>4. breaker'.state = "closed" /\ breaker'.failures = 0
      BY <3>1, <3>3 DEF BreakerSuccess, Breakers
    <3> QED
      BY <3>2, <3>4, Limits DEF DownInv
  <2> QED
    BY <1>2, <2>1, <2>2, <2>3 DEF Pressure
<1>3. CASE RateNext /\ ~Pressure
  <2>1. /\ misses' = misses /\ breaker'.state = breaker.state /\ breaker'.failures = breaker.failures
        /\ \/ UNCHANGED <<percent, plan>>
           \/ percent' = 0 /\ plan' = Nothing
           \/ Plan /\ percent' = percent /\ plan' \in Apportion(PerCycle(percent), seen)
    <3>0. breaker \in Breakers
      BY DEF Typed, AroundType
    <3>1. ASSUME UNCHANGED breaker, step' # "read" \/ step = "read"
          PROVE  misses' = misses /\ breaker'.state = breaker.state /\ breaker'.failures = breaker.failures
      BY <1>3, <3>1 DEF RateNext, Asked
    <3>2. ASSUME NEW s \in Shards, ReadSize(s) \/ Join(s) \/ Enter(s) \/ Leave(s)
          PROVE  UNCHANGED <<step, breaker, percent, plan>>
      BY <3>2 DEF ReadSize, Join, Enter, Leave, cycleVars
    <3>3. ASSUME Downstream \/ GateOpens PROVE UNCHANGED <<step, breaker, percent, plan>>
      BY <3>3 DEF Downstream, GateOpens, cycleVars
    <3>4. ASSUME ReadFails PROVE step' = "idle" /\ UNCHANGED breaker /\ percent' = 0 /\ plan' = Nothing
      BY <3>4 DEF ReadFails, Return
    <3>5. ASSUME RefillNext \/ RefillFails
          PROVE  /\ UNCHANGED breaker /\ step' # "read"
                 /\ UNCHANGED <<percent, plan>> \/ (percent' = 0 /\ plan' = Nothing)
      BY <3>5 DEF RefillNext, RefillFails, Advance, Return
    <3>6. ASSUME Plan
          PROVE  /\ UNCHANGED breaker /\ step' # "read"
                 /\ \/ percent' = 0 /\ plan' = Nothing
                    \/ Plan /\ percent' = percent /\ plan' \in Apportion(PerCycle(percent), seen)
      BY <3>6 DEF Plan, Return
    <3>7. ASSUME Tick
          PROVE  /\ UNCHANGED <<step, percent, plan>> /\ misses' = misses
                 /\ breaker'.state = breaker.state /\ breaker'.failures = breaker.failures
      <4>1. UNCHANGED <<step, percent, plan>>
        BY <3>7 DEF Tick, cycleVars
      <4>2. misses' = misses
        BY <1>3, <4>1 DEF RateNext, Asked
      <4>3. breaker'.state = breaker.state /\ breaker'.failures = breaker.failures
        BY <3>0, <3>7 DEF Tick, Breakers
      <4> QED
        BY <4>1, <4>2, <4>3
    <3> QED
      BY <1>3, <3>1, <3>2, <3>3, <3>4, <3>5, <3>6, <3>7 DEF RateNext, Next
  <2>2. ASSUME misses = Threshold PROVE percent' = 0 /\ plan' = Nothing
    <3>1. percent = 0 /\ plan = Nothing
      BY <2>2 DEF DownInv
    <3>2. PerCycle(percent) = 0
      BY <3>1, PerCycleFacts
    <3>3. Apportion(PerCycle(percent), seen) = {Nothing}
      BY <3>2 DEF Apportion
    <3> QED
      BY <2>1, <3>1, <3>3
  <2> QED
    BY <2>1, <2>2 DEF DownInv
<1> QED
  BY <1>1, <1>2, <1>3 DEF flowVars, vars

\* Threshold misses in a row stop the seats until an answer comes, for any number
\* of shards, any threshold and any cooldown but 0: with a cooldown of 0 the
\* breaker is half-open as soon as it opens, and a cycle gives the minimum.
THEOREM StopsWhenDownHolds == Cooldown > 0 => (FlowSpec => StopsWhenDown)
<1> SUFFICES ASSUME Cooldown > 0 PROVE FlowSpec => StopsWhenDown
  OBVIOUS
<1>1. RateInit => Typed /\ DownInv
  <2>1. RateInit => Typed
    BY InitTypes DEF RateInit, Typed
  <2>2. RateInit => DownInv
    BY Limits DEF RateInit, Init, DownInv
  <2> QED
    BY <2>1, <2>2
<1>2. (Typed /\ DownInv) /\ [RateNext]_flowVars => (Typed /\ DownInv)'
  <2>1. [RateNext]_flowVars => [Next]_vars
    BY DEF RateNext, flowVars
  <2> QED
    BY <2>1, StepTyped, StepDown
<1>3. (Typed /\ DownInv) /\ [RateNext]_flowVars =>
        [misses = Threshold => \A s \in Shards : budget'[s].left <= budget[s].left]_flowVars
  <2> SUFFICES ASSUME Typed, DownInv, RateNext, misses = Threshold, NEW s \in Shards
               PROVE  budget'[s].left <= budget[s].left
    OBVIOUS
  <2>0. /\ budget \in [Shards -> Budgets] /\ budget[s] \in Budgets /\ budget[s].left \in 0 .. Cap
        /\ plan[s] = 0
    BY ComingNat DEF Typed, AroundType, DownInv, Nothing
  <2>1. CASE UNCHANGED budget
    BY <2>0, <2>1, Limits
  <2>2. CASE RefillNext
    <3>1. Min(todo) \in Shards
      BY <2>2, FirstDue DEF RefillNext, Advance, Typed, CycleType
    <3>2. budget' = [budget EXCEPT ![Min(todo)] = RefillTo(Min(todo))]
      BY <2>2 DEF RefillNext
    <3>3. RefillTo(s).left <= budget[s].left
      BY <2>0, RefillRange, Limits DEF Typed
    <3>4. CASE s = Min(todo)
      BY <2>0, <3>2, <3>3, <3>4
    <3>5. CASE s # Min(todo)
      <4>1. budget'[s] = budget[s]
        BY <2>0, <3>1, <3>2, <3>5
      <4> QED
        BY <2>0, <4>1, Limits
    <3> QED
      BY <3>4, <3>5
  <2>3. ASSUME NEW x \in Shards, Enter(x) PROVE budget'[s].left <= budget[s].left
    <3>1. budget' = [budget EXCEPT ![x] = [budget[x] EXCEPT !.left = budget[x].left - 1]]
      BY <2>3 DEF Enter
    <3>2. CASE s = x
      <4>1. budget'[s].left = budget[s].left - 1
        BY <2>0, <3>1, <3>2 DEF Budgets
      <4> QED
        BY <2>0, <4>1, Limits
    <3>3. CASE s # x
      <4>1. budget'[s] = budget[s]
        BY <2>0, <3>1, <3>3
      <4> QED
        BY <2>0, <4>1, Limits
    <3> QED
      BY <3>2, <3>3
  <2>4. CASE Tick
    <3>1. budget'[s] = Aged(budget[s])
      BY <2>4 DEF Tick, Aged
    <3> QED
      BY <2>0, <3>1, AgedRange
  <2>5. ASSUME NEW x \in Shards, ReadSize(x) \/ Join(x) \/ Leave(x) PROVE UNCHANGED budget
    BY <2>5 DEF ReadSize, Join, Leave
  <2>6. ASSUME Pressure \/ ReadFails \/ Plan \/ RefillFails \/ Downstream \/ GateOpens PROVE UNCHANGED budget
    BY <2>6 DEF Pressure, ReadFails, Plan, RefillFails, Downstream, GateOpens
  <2> QED
    BY <2>1, <2>2, <2>3, <2>4, <2>5, <2>6 DEF RateNext, Next
<1> QED
  BY <1>1, <1>2, <1>3, PTL DEF FlowSpec, StopsWhenDown, flowVars

===============================================================================
