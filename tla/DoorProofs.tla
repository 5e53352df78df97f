------------------------------ MODULE DoorProofs ------------------------------
(***************************************************************************)
(* For any number of gates, puzzles, tokens and submissions, any clocks at  *)
(* most Skew apart and any valid setting of the challenge: a solution is    *)
(* taken once, the way out of the greylist is paid for, and a puzzle stays  *)
(* good for the round it was handed out for.                                *)
(***************************************************************************)
EXTENDS Door, TLAPS

Puzzles == [difficulty : BaseDifficulty..MaxDifficulty, left : 0..(TTL + Skew),
            round : 0..(MaxRounds + 1)]
Submissions == [nonce : Nonces, token : Tokens, read : 1..(MaxRounds + 1),
                step : {"floor", "accepted"}]

\* Who is in the greylist has a round left within the bound.
Rounds == \A t \in Tokens : level[t] = "greylist" => rounds[t] < MaxRounds

TypeInv == TypeOK /\ Rounds

\* A solution that was taken has a key that lives as long as the puzzle does
\* for the gate whose clock is furthest ahead; a nonce without a puzzle was
\* never taken.
Kept(n) ==
  /\ puzzle[n] = Blank => taken[n] = 0
  /\ taken[n] > 0 => burnt[n] >= puzzle[n].left - Skew

\* A submission behind the floor still has its puzzle, worth the round it read.
Backed(r) ==
  req[r] # Idle =>
    /\ puzzle[req[r].nonce] # Blank
    /\ puzzle[req[r].nonce].difficulty >= Price(req[r].read)

\* A puzzle is worth the round it was made for, or the dearest that reissue asks.
Worth(n) ==
  puzzle[n].round > 0 =>
    \/ puzzle[n].difficulty >= Required(puzzle[n].round)
    \/ /\ puzzle[n].round > RechallengeMax + 1
       /\ puzzle[n].difficulty >= Required(RechallengeMax + 1)

DoorInv ==
  /\ TypeInv
  /\ \A n \in Nonces : Kept(n) /\ Worth(n)
  /\ \A r \in Requests : Backed(r)

-------------------------------------------------------------------------------
(* Difficulties *)

\* The settings, as the provers want them.
LEMMA Settings ==
  /\ BaseDifficulty \in Nat \ {0} /\ MaxDifficulty \in Nat /\ BaseDifficulty <= MaxDifficulty
  /\ TTL \in Nat \ {0} /\ Skew \in Nat /\ Bump \in Nat
  /\ RechallengeMax \in Nat \ {0} /\ MaxSuspicion \in Nat /\ MaxRounds \in Nat
  /\ \A g \in Gates : Ahead[g] \in 0..Skew
BY ChallengeAssumption, ClockAssumption, BoundAssumption DEF ValidChallenge

\* clamp keeps a difficulty in the configured range and keeps its order.
LEMMA ClampRange ==
  ASSUME NEW d \in Int
  PROVE  /\ Clamp(d) \in BaseDifficulty..MaxDifficulty
         /\ d >= MaxDifficulty => Clamp(d) = MaxDifficulty
BY Settings DEF Clamp

\* Keeping a difficulty within its limits does not turn an order around.
LEMMA ClampMonotone ==
  ASSUME NEW d \in Int, NEW e \in Int, d <= e
  PROVE  Clamp(d) <= Clamp(e)
BY Settings DEF Clamp

\* A later attempt costs at least as much on top.
LEMMA Products ==
  ASSUME NEW a \in Nat, NEW b \in Nat, a <= b
  PROVE  /\ Bump * a \in Nat
         /\ Bump * a <= Bump * b
<1>1. Bump \in Nat
  BY Settings
<1>2. Bump * b = Bump * a + Bump * (b - a)
  BY <1>1
<1>3. b - a \in Nat
  OBVIOUS
<1>4. Bump * (b - a) \in Nat /\ Bump * a \in Nat
  BY <1>1, <1>3
<1> QED
  BY <1>1, <1>2, <1>4

\* Suspicion and attempts only ever raise a price.
LEMMA DifficultyMonotone ==
  ASSUME NEW w \in Nat, NEW a \in Nat, NEW b \in Nat, b <= a
  PROVE  /\ Difficulty(w, a) \in Nat
         /\ Difficulty(0, b) \in Nat
         /\ Difficulty(0, b) <= Difficulty(w, a)
<1> DEFINE x == IF a > w THEN a ELSE w
<1>1. x \in Nat /\ b <= x
  OBVIOUS
<1>2. Bump * b \in Nat /\ Bump * x \in Nat /\ Bump * b <= Bump * x
  BY <1>1, Products
<1>3. Difficulty(w, a) = BaseDifficulty + Bump * x
  BY DEF Difficulty
<1>4. Difficulty(0, b) = BaseDifficulty + Bump * b
  BY DEF Difficulty
<1> HIDE DEF x
<1> QED
  BY <1>2, <1>3, <1>4, Settings

\* A later round never costs less, and a puzzle is worth at least what its
\* attempt asks, whatever the suspicion was.
LEMMA RequiredMonotone ==
  ASSUME NEW w \in Nat, NEW a \in Nat, NEW b \in Nat, b <= a
  PROVE  /\ Required(b) \in BaseDifficulty..MaxDifficulty
         /\ Required(b) <= Required(a)
         /\ Clamp(Difficulty(w, a)) \in BaseDifficulty..MaxDifficulty
         /\ Required(b) <= Clamp(Difficulty(w, a))
<1>1. /\ Difficulty(0, b) \in Int /\ Difficulty(0, a) \in Int /\ Difficulty(w, a) \in Int
      /\ Difficulty(0, b) <= Difficulty(0, a)
      /\ Difficulty(0, b) <= Difficulty(w, a)
  BY DifficultyMonotone
<1> QED
  BY <1>1, ClampRange, ClampMonotone DEF Required

\* The price of a round is a number of bits.
LEMMA RequiredIsNat ==
  ASSUME NEW k \in Nat
  PROVE  Required(k) \in Nat
<1>1. Required(k) \in BaseDifficulty..MaxDifficulty
  BY RequiredMonotone
<1> QED
  BY <1>1, Settings

\* The price of a round is a number of bits, a later round never costs less, and
\* no attempt that reverify may read is below it.
LEMMA PriceFacts ==
  ASSUME NEW a \in Nat, NEW b \in Nat, b <= a
  PROVE  /\ Price(b) \in Nat /\ Price(b) <= Price(a)
         /\ Price(a) <= Required(a) /\ Required(a) \in Nat
         /\ Price(a) <= Required(RechallengeMax + 1) /\ Required(RechallengeMax + 1) \in Nat
<1> DEFINE Cap(k) == IF k > RechallengeMax + 1 THEN RechallengeMax + 1 ELSE k
<1>1. /\ Cap(a) \in Nat /\ Cap(b) \in Nat /\ RechallengeMax + 1 \in Nat
      /\ Cap(b) <= Cap(a) /\ Cap(a) <= a /\ Cap(a) <= RechallengeMax + 1
  BY Settings
<1>2. \A k \in Nat : Price(k) = Required(Cap(k))
  BY DEF Price
<1> HIDE DEF Cap
<1>3. /\ Required(Cap(b)) <= Required(Cap(a)) /\ Required(Cap(a)) <= Required(a)
      /\ Required(Cap(a)) <= Required(RechallengeMax + 1)
  BY <1>1, RequiredMonotone
<1> QED
  BY <1>1, <1>2, <1>3, RequiredIsNat

-------------------------------------------------------------------------------
(* Types *)

\* Blank entries are no records, and the fields of a puzzle are numbers.
LEMMA Shapes ==
  /\ Idle \notin Submissions
  /\ Blank \notin Puzzles
  /\ \A p \in Puzzles : p.left \in Int /\ p.round \in Int /\ p.difficulty \in Int
<1>1. Idle.step \notin {"floor", "accepted"}
  BY DEF Idle
<1>2. Blank.difficulty \notin BaseDifficulty..MaxDifficulty
  BY Settings DEF Blank
<1> QED
  BY <1>1, <1>2, Settings DEF Submissions, Puzzles

\* What the invariant says of one puzzle and of one submission.
LEMMA OnePuzzle ==
  ASSUME TypeInv, NEW n \in Nonces
  PROVE  /\ puzzle[n] = Blank \/ puzzle[n] \in Puzzles
         /\ puzzle[n].left \in 0..(TTL + Skew)
         /\ puzzle[n].round \in Nat /\ puzzle[n].difficulty \in Nat
         /\ puzzle[n].left > 0 => puzzle[n] # Blank
         /\ burnt[n] \in Nat /\ taken[n] \in 0..2
BY Settings DEF TypeInv, TypeOK, Puzzles, Blank

\* A request is idle or carries a submission.
LEMMA OneSubmission ==
  ASSUME TypeInv, NEW r \in Requests
  PROVE  /\ req[r] = Idle \/ req[r] \in Submissions
         /\ req[r].step # "idle" => req[r] # Idle
         /\ req[r] # Idle => req[r].nonce \in Nonces /\ req[r].token \in Tokens /\ req[r].read \in Nat
BY Settings DEF TypeInv, TypeOK, Submissions, Idle

\* Issuing a puzzle keeps every record in shape.
LEMMA IssueType ==
  ASSUME TypeInv, NEW n \in Nonces, NEW g \in Gates, NEW worst \in Nat, NEW attempt \in Nat,
         NEW round \in 0..(MaxRounds + 1), Issue(n, g, worst, attempt, round)
  PROVE  /\ TypeInv'
         /\ puzzle'[n] \in Puzzles
<1> DEFINE p == [difficulty |-> Clamp(Difficulty(worst, attempt)), left |-> TTL + Ahead[g],
                 round |-> round]
<1>1. Clamp(Difficulty(worst, attempt)) \in BaseDifficulty..MaxDifficulty
  BY RequiredMonotone
<1>2. p \in Puzzles
  BY <1>1, Settings DEF Puzzles
<1>3. puzzle' = [puzzle EXCEPT ![n] = p]
  BY DEF Issue
<1> HIDE DEF p
<1>4. puzzle' \in [Nonces -> {Blank} \cup Puzzles] /\ puzzle'[n] \in Puzzles
  BY <1>2, <1>3 DEF TypeInv, TypeOK, Puzzles
<1> QED
  BY <1>4 DEF TypeInv, TypeOK, Puzzles, Rounds, Issue

\* So does burning one: two acceptances at the most are counted.
LEMMA BurnType ==
  ASSUME TypeInv, NEW n \in Nonces, NEW g \in Gates, Burn(n, g)
  PROVE  /\ burnt' \in [Nonces -> 0..(TTL + Skew)]
         /\ taken' \in [Nonces -> 0..2]
<1>1. KeyLife(n, g) \in 0..(TTL + Skew)
  BY OnePuzzle, Settings DEF Burn, KeyLife, Remaining
<1>2. (IF taken[n] = 2 THEN 2 ELSE taken[n] + 1) \in 0..2
  BY OnePuzzle
<1> QED
  BY <1>1, <1>2 DEF Burn, TypeInv, TypeOK

\* So does the end of a re-challenge.
LEMMA RechallengeType ==
  ASSUME TypeInv, NEW r \in Requests, Rechallenge(r)
  PROVE  TypeInv'
<1> DEFINE t == req[r].token
<1>1. t \in Tokens /\ req[r] # Idle
  BY OneSubmission DEF Rechallenge
<1>2. req' \in [Requests -> {Idle} \cup Submissions]
  BY DEF Rechallenge, TypeInv, TypeOK, Submissions
<1>3. CASE level[t] = "greylist"
  <2>1. rounds[t] \in Nat /\ rounds[t] + 1 <= MaxRounds
    BY <1>1, <1>3, Settings DEF TypeInv, TypeOK, Rounds
  <2>2. /\ rounds' = [rounds EXCEPT ![t] = @ + 1]
        /\ level' = [level EXCEPT ![t] = IF rounds[t] + 1 > RechallengeMax THEN "held" ELSE "waiting"]
    BY <1>3 DEF Rechallenge
  <2>3. /\ rounds' \in [Tokens -> 0..MaxRounds]
        /\ level' \in [Tokens -> {"absent", "waiting", "greylist", "held"}]
    BY <1>1, <2>1, <2>2, Settings DEF TypeInv, TypeOK
  <2>4. Rounds'
    <3> SUFFICES ASSUME NEW u \in Tokens, level'[u] = "greylist" PROVE rounds'[u] < MaxRounds
      BY DEF Rounds
    <3>1. u # t
      BY <1>1, <2>2 DEF TypeInv, TypeOK
    <3> QED
      BY <1>1, <2>2, <3>1 DEF TypeInv, TypeOK, Rounds
  <2> QED
    BY <1>2, <2>3, <2>4 DEF TypeInv, TypeOK, Submissions, Rechallenge
<1>4. CASE level[t] # "greylist"
  BY <1>2, <1>4 DEF TypeInv, TypeOK, Submissions, Rounds, Rechallenge
<1> QED
  BY <1>3, <1>4

\* So does the passing of time.
LEMMA TickType ==
  ASSUME TypeInv, Tick
  PROVE  TypeInv'
<1>1. \A n \in Nonces : Less(burnt[n]) \in 0..(TTL + Skew)
  BY Settings DEF TypeInv, TypeOK, Less
<1>2. ASSUME NEW n \in Nonces
      PROVE  (IF Over(n) THEN Blank ELSE [puzzle[n] EXCEPT !.left = Less(@)]) \in {Blank} \cup Puzzles
  <2>1. CASE Over(n)
    BY <2>1
  <2>2. CASE ~Over(n) /\ puzzle[n] = Blank
    BY <2>2 DEF Blank, Less
  <2>3. CASE ~Over(n) /\ puzzle[n] \in Puzzles
    BY <2>3, Settings DEF Puzzles, Less
  <2> QED
    BY <2>1, <2>2, <2>3, OnePuzzle
<1>3. \A n \in Nonces : (IF Over(n) THEN 0 ELSE taken[n]) \in 0..2
  BY DEF TypeInv, TypeOK
<1> QED
  BY <1>1, <1>2, <1>3 DEF Tick, TypeInv, TypeOK, Puzzles, Rounds

\* So does every step of a gate.
LEMMA StepType == TypeInv /\ [Next]_vars => TypeInv'
<1> SUFFICES ASSUME TypeInv, [Next]_vars PROVE TypeInv'
  OBVIOUS
<1>1. ASSUME NEW n \in Nonces, NEW g \in Gates, Enter(n, g) PROVE TypeInv'
  <2>1. PICK worst \in Worst : Issue(n, g, worst, 0, 0)
    BY <1>1 DEF Enter
  <2> QED
    BY <2>1, IssueType, Settings DEF Worst
<1>2. ASSUME NEW t \in Tokens, NEW n \in Nonces, NEW g \in Gates, Reissue(t, n, g) PROVE TypeInv'
  <2>1. PICK worst \in Worst : Issue(n, g, worst, ReissuedFor(t), rounds[t] + 1)
    BY <1>2 DEF Reissue
  <2>2. ReissuedFor(t) \in Nat /\ rounds[t] + 1 \in 0..(MaxRounds + 1) /\ worst \in Nat
    BY Settings DEF ReissuedFor, Worst, TypeInv, TypeOK
  <2> QED
    BY <2>1, <2>2, IssueType
<1>3. ASSUME NEW n \in Nonces, NEW g \in Gates, Verify(n, g) PROVE TypeInv'
  <2>1. /\ burnt' \in [Nonces -> 0..(TTL + Skew)]
        /\ taken' \in [Nonces -> 0..2]
    BY <1>3, BurnType DEF Verify
  <2>2. /\ level' \in [Tokens -> {"absent", "waiting", "greylist", "held"}]
        /\ Rounds'
    BY <1>3 DEF Verify, TypeInv, TypeOK, Rounds
  <2> QED
    BY <1>3, <2>1, <2>2 DEF Verify, TypeInv, TypeOK
<1>4. ASSUME NEW r \in Requests, NEW t \in Tokens, NEW n \in Nonces, Reverify(r, t, n)
      PROVE  TypeInv'
  <2> DEFINE e == [nonce |-> n, token |-> t, read |-> rounds[t] + 1, step |-> "floor"]
  <2>1. req' = [req EXCEPT ![r] = e]
    BY <1>4 DEF Reverify
  <2>2. rounds[t] + 1 \in 1..(MaxRounds + 1)
    BY Settings DEF TypeInv, TypeOK
  <2>3. e \in Submissions
    BY <2>2 DEF Submissions
  <2> HIDE DEF e
  <2>4. req' \in [Requests -> {Idle} \cup Submissions]
    BY <2>1, <2>3 DEF TypeInv, TypeOK, Submissions
  <2> QED
    BY <1>4, <2>4 DEF Reverify, TypeInv, TypeOK, Rounds, Submissions
<1>5. ASSUME NEW r \in Requests, NEW g \in Gates, Accept(r, g) PROVE TypeInv'
  <2>1. req[r] \in Submissions
    BY <1>5, OneSubmission DEF Accept, Idle
  <2>2. /\ burnt' \in [Nonces -> 0..(TTL + Skew)]
        /\ taken' \in [Nonces -> 0..2]
    BY <1>5, <2>1, BurnType DEF Accept, Submissions
  <2>3. [req[r] EXCEPT !.step = "accepted"] \in Submissions
    BY <2>1 DEF Submissions
  <2>4. req' \in [Requests -> {Idle} \cup Submissions]
    BY <1>5, <2>3 DEF Accept, TypeInv, TypeOK, Submissions
  <2> QED
    BY <1>5, <2>2, <2>4 DEF Accept, TypeInv, TypeOK, Rounds, Submissions
<1>6. ASSUME NEW r \in Requests, Refused(r) PROVE TypeInv'
  BY <1>6 DEF Refused, TypeInv, TypeOK, Rounds
<1>7. ASSUME NEW t \in Tokens, Quarantine(t) \/ Restore(t) PROVE TypeInv'
  BY <1>7 DEF Quarantine, Restore, TypeInv, TypeOK, Rounds
<1>8. CASE UNCHANGED vars
  BY <1>8 DEF vars, TypeInv, TypeOK, Rounds
<1> QED
  BY <1>1, <1>2, <1>3, <1>4, <1>5, <1>6, <1>7, <1>8, RechallengeType, TickType DEF Next

\* Every state of the doors has the declared shape, every puzzle a difficulty
\* within the configured range (challenge.go, clamp).
THEOREM TypeCorrect == Spec => []TypeOK
<1>1. Init => TypeInv
  BY Settings DEF Init, TypeInv, TypeOK, Rounds
<1> QED
  BY <1>1, StepType, PTL DEF Spec, TypeInv

-------------------------------------------------------------------------------
(* Puzzles and what they are worth *)

\* A new puzzle takes an unused nonce and is worth its round.
LEMMA IssueKeeps ==
  ASSUME DoorInv, NEW n \in Nonces, NEW g \in Gates, NEW worst \in Nat, NEW attempt \in Nat,
         NEW round \in 0..(MaxRounds + 1), Issue(n, g, worst, attempt, round),
         round > 0 => attempt = IF round > RechallengeMax THEN RechallengeMax + 1 ELSE round
  PROVE  DoorInv'
<1>1. TypeInv' /\ puzzle'[n] \in Puzzles
  BY IssueType DEF DoorInv
<1>2. /\ puzzle'[n].difficulty = Clamp(Difficulty(worst, attempt))
      /\ puzzle'[n].round = round
      /\ \A m \in Nonces \ {n} : puzzle'[m] = puzzle[m]
  BY DEF Issue, DoorInv, TypeInv, TypeOK
<1>3. puzzle[n] = Blank /\ burnt' = burnt /\ taken' = taken /\ req' = req
  BY DEF Issue
<1>4. \A m \in Nonces : Kept(m)'
  <2> SUFFICES ASSUME NEW m \in Nonces PROVE Kept(m)'
    OBVIOUS
  <2>1. CASE m = n
    <3>1. taken[n] = 0
      BY <1>3 DEF DoorInv, Kept
    <3> QED
      BY <1>3, <2>1, <3>1 DEF Kept
  <2>2. CASE m # n
    BY <1>2, <1>3, <2>2 DEF DoorInv, Kept
  <2> QED
    BY <2>1, <2>2
<1>5. \A m \in Nonces : Worth(m)'
  <2> SUFFICES ASSUME NEW m \in Nonces, m = n, round > 0 PROVE Worth(m)'
    BY <1>2 DEF DoorInv, Worth, Required
  <2>1. CASE round <= RechallengeMax + 1
    <3>1. attempt = round
      BY <2>1, Settings
    <3> QED
      BY <1>2, <3>1, RequiredMonotone DEF Worth, Required
  <2>2. CASE round > RechallengeMax + 1
    <3>1. attempt = RechallengeMax + 1
      BY <2>2, Settings
    <3>2. Required(RechallengeMax + 1) <= Clamp(Difficulty(worst, attempt))
      BY <3>1, RequiredMonotone
    <3> QED
      BY <1>2, <2>2, <3>2 DEF Worth, Required
  <2> QED
    BY <2>1, <2>2, Settings
<1>6. \A r \in Requests : Backed(r)'
  <2> SUFFICES ASSUME NEW r \in Requests, req[r] # Idle PROVE Backed(r)'
    BY <1>3 DEF Backed
  <2>1. req[r].nonce \in Nonces /\ req[r].nonce # n
    BY <1>3, OneSubmission DEF DoorInv, Backed
  <2> QED
    BY <1>2, <1>3, <2>1 DEF DoorInv, Backed, Price, Required
<1> QED
  BY <1>1, <1>4, <1>5, <1>6 DEF DoorInv

\* SET NX writes a key that outlives the puzzle at every gate.
LEMMA BurnKeeps ==
  ASSUME TypeInv, NEW n \in Nonces, Kept(n), NEW m \in Nonces, NEW g \in Gates, Burn(m, g),
         puzzle' = puzzle
  PROVE  Kept(n)'
<1>1. CASE m = n
  <2>1. /\ puzzle[n].left > 0 /\ puzzle[n].left \in Int
        /\ Ahead[g] \in 0..Skew
    BY <1>1, OnePuzzle, Settings DEF Burn, Remaining
  <2>2. burnt'[n] = puzzle[n].left - Ahead[g]
    BY <1>1 DEF Burn, KeyLife, Remaining, TypeInv, TypeOK
  <2>3. puzzle[n] # Blank
    BY <2>1 DEF Blank
  <2> QED
    BY <2>1, <2>2, <2>3, Settings DEF Kept
<1>2. CASE m # n
  BY <1>2 DEF Burn, Kept, TypeInv, TypeOK
<1> QED
  BY <1>1, <1>2

\* Time takes as much from the key as from the puzzle, and no puzzle from a
\* submission in flight.
LEMMA TickKeeps ==
  ASSUME DoorInv, Tick
  PROVE  DoorInv'
<1>1. TypeInv'
  BY TickType DEF DoorInv
<1>2. ASSUME NEW n \in Nonces PROVE Kept(n)' /\ Worth(n)'
  <2>1. CASE Over(n)
    <3>1. puzzle'[n] = Blank /\ taken'[n] = 0
      BY <2>1 DEF Tick
    <3> QED
      BY <3>1 DEF Kept, Worth, Blank
  <2>2. CASE ~Over(n)
    <3>1. /\ puzzle'[n] = [puzzle[n] EXCEPT !.left = Less(@)]
          /\ taken'[n] = taken[n] /\ burnt'[n] = Less(burnt[n])
      BY <2>2 DEF Tick
    <3>2. /\ puzzle'[n].left = Less(puzzle[n].left)
          /\ puzzle'[n].round = puzzle[n].round
          /\ puzzle'[n].difficulty = puzzle[n].difficulty
          /\ puzzle'[n] = Blank <=> puzzle[n] = Blank
      <4>1. CASE puzzle[n] = Blank
        BY <3>1, <4>1 DEF Blank, Less
      <4>2. CASE puzzle[n] \in Puzzles
        <5>1. puzzle'[n] \in Puzzles
          BY <3>1, <4>2, Settings DEF Puzzles, Less
        <5> QED
          BY <3>1, <4>2, <5>1, Shapes DEF Puzzles
      <4> QED
        BY <4>1, <4>2, OnePuzzle DEF DoorInv
    <3>3. Kept(n)'
      <4>1. /\ puzzle[n].left \in Nat /\ burnt[n] \in Nat
            /\ Kept(n)
        BY OnePuzzle, Settings DEF DoorInv
      <4>2. taken[n] > 0 => Less(burnt[n]) >= Less(puzzle[n].left) - Skew
        BY <4>1, Settings DEF Kept, Less
      <4> QED
        BY <3>1, <3>2, <4>1, <4>2 DEF Kept
    <3>4. Worth(n)'
      BY <3>2 DEF DoorInv, Worth, Required
    <3> QED
      BY <3>3, <3>4
  <2> QED
    BY <2>1, <2>2
<1>3. ASSUME NEW r \in Requests PROVE Backed(r)'
  <2> SUFFICES ASSUME req[r] # Idle PROVE Backed(r)'
    BY DEF Tick, Backed
  <2> DEFINE n == req[r].nonce
  <2>1. n \in Nonces /\ ~Over(n) /\ puzzle[n] \in Puzzles
    BY OneSubmission, OnePuzzle DEF DoorInv, Backed, Over
  <2>2. puzzle'[n] = [puzzle[n] EXCEPT !.left = Less(@)]
    BY <2>1 DEF Tick
  <2>3. puzzle'[n] \in Puzzles /\ puzzle'[n].difficulty = puzzle[n].difficulty
    BY <2>1, <2>2, Settings DEF Puzzles, Less
  <2>4. req' = req
    BY DEF Tick
  <2> QED
    BY <2>3, <2>4, Shapes DEF DoorInv, Backed, Price, Required
<1> QED
  BY <1>1, <1>2, <1>3 DEF DoorInv

\* The floor of reverify: the puzzle is worth the round the token is in.
LEMMA ReverifyKeeps ==
  ASSUME DoorInv, NEW r \in Requests, NEW t \in Tokens, NEW n \in Nonces, Reverify(r, t, n)
  PROVE  \A q \in Requests : Backed(q)'
<1>1. PICK attempt \in AttemptOf(t) : puzzle[n].difficulty >= Required(attempt)
  BY DEF Reverify
<1>2. req' = [req EXCEPT ![r] = [nonce |-> n, token |-> t, read |-> rounds[t] + 1,
                                step |-> "floor"]]
  BY DEF Reverify
<1>3. puzzle[n].difficulty >= Price(rounds[t] + 1)
  <2>1. rounds[t] + 1 \in Nat /\ puzzle[n].difficulty \in Nat
    BY OnePuzzle, Settings DEF DoorInv, TypeInv, TypeOK
  <2>2. attempt = rounds[t] + 1 \/ attempt = RechallengeMax + 1
    BY DEF AttemptOf
  <2>3. Price(rounds[t] + 1) \in Nat /\ Required(attempt) \in Nat /\ Price(rounds[t] + 1) <= Required(attempt)
    BY <2>1, <2>2, PriceFacts
  <2> QED
    BY <1>1, <2>1, <2>3
<1>4. puzzle[n] # Blank /\ puzzle' = puzzle
  BY DEF Reverify, Blank
<1> SUFFICES ASSUME NEW q \in Requests PROVE Backed(q)'
  OBVIOUS
<1>5. CASE q = r
  <2>1. req'[q] = [nonce |-> n, token |-> t, read |-> rounds[t] + 1, step |-> "floor"]
    BY <1>2, <1>5 DEF DoorInv, TypeInv, TypeOK
  <2>2. req'[q].nonce = n /\ req'[q].read = rounds[t] + 1
    BY <2>1
  <2> QED
    BY <1>3, <1>4, <2>2 DEF Backed, Price, Required
<1>6. CASE q # r
  <2>1. req'[q] = req[q]
    BY <1>2, <1>6 DEF DoorInv, TypeInv, TypeOK
  <2> QED
    BY <1>4, <2>1 DEF DoorInv, Backed, Price, Required
<1> QED
  BY <1>5, <1>6

\* A step that leaves the puzzles alone leaves their worth alone.
LEMMA SamePuzzles ==
  ASSUME DoorInv, TypeInv', UNCHANGED puzzle, \A n \in Nonces : Kept(n)',
         \A r \in Requests : Backed(r)'
  PROVE  DoorInv'
BY DEF DoorInv, Worth, Required

\* A submission that ends, or goes on with what it has, stays backed.
LEMMA SameBacking ==
  ASSUME DoorInv, TypeInv', UNCHANGED puzzle,
         \A r \in Requests : \/ req'[r] = Idle
                             \/ /\ req[r] # Idle
                                /\ req'[r].nonce = req[r].nonce /\ req'[r].read = req[r].read
                             \/ req'[r] = req[r]
  PROVE  \A r \in Requests : Backed(r)'
BY DEF DoorInv, Backed, Price, Required

\* Every step keeps what the theorems below rest on.
LEMMA StepInv == DoorInv /\ [Next]_vars => DoorInv'
<1> SUFFICES ASSUME DoorInv, [Next]_vars PROVE DoorInv'
  OBVIOUS
<1>0. TypeInv /\ TypeInv'
  BY StepType DEF DoorInv
<1>1. ASSUME NEW n \in Nonces, NEW g \in Gates, Enter(n, g) PROVE DoorInv'
  <2>1. PICK worst \in Worst : Issue(n, g, worst, 0, 0)
    BY <1>1 DEF Enter
  <2> QED
    BY <2>1, IssueKeeps, Settings DEF Worst
<1>2. ASSUME NEW t \in Tokens, NEW n \in Nonces, NEW g \in Gates, Reissue(t, n, g) PROVE DoorInv'
  <2>1. PICK worst \in Worst : Issue(n, g, worst, ReissuedFor(t), rounds[t] + 1)
    BY <1>2 DEF Reissue
  <2>2. ReissuedFor(t) \in Nat /\ rounds[t] + 1 \in 0..(MaxRounds + 1) /\ worst \in Nat
    BY Settings DEF ReissuedFor, Worst, DoorInv, TypeInv, TypeOK
  <2>3. ReissuedFor(t) = IF rounds[t] + 1 > RechallengeMax THEN RechallengeMax + 1 ELSE rounds[t] + 1
    BY DEF ReissuedFor
  <2> QED
    BY <2>1, <2>2, <2>3, IssueKeeps
<1>3. ASSUME NEW n \in Nonces, NEW g \in Gates, Verify(n, g) PROVE DoorInv'
  <2>1. Burn(n, g) /\ puzzle' = puzzle /\ req' = req
    BY <1>3 DEF Verify
  <2>2. \A m \in Nonces : Kept(m)'
    BY <2>1, BurnKeeps DEF DoorInv
  <2>3. \A r \in Requests : Backed(r)'
    BY <1>0, <2>1, SameBacking
  <2> QED
    BY <1>0, <2>1, <2>2, <2>3, SamePuzzles
<1>4. ASSUME NEW r \in Requests, NEW t \in Tokens, NEW n \in Nonces, Reverify(r, t, n)
      PROVE  DoorInv'
  <2>1. puzzle' = puzzle /\ \A m \in Nonces : Kept(m)'
    BY <1>4 DEF Reverify, DoorInv, Kept
  <2> QED
    BY <1>0, <1>4, <2>1, ReverifyKeeps, SamePuzzles
<1>5. ASSUME NEW r \in Requests, NEW g \in Gates, Accept(r, g) PROVE DoorInv'
  <2>1. req[r] \in Submissions
    BY <1>0, <1>5, OneSubmission DEF Accept, Idle
  <2>2. Burn(req[r].nonce, g) /\ req[r].nonce \in Nonces /\ puzzle' = puzzle
    BY <1>5, <2>1 DEF Accept, Submissions
  <2>3. \A m \in Nonces : Kept(m)'
    BY <2>2, BurnKeeps DEF DoorInv
  <2>4. \A q \in Requests : Backed(q)'
    <3>1. req'[r] = [req[r] EXCEPT !.step = "accepted"] /\ \A q \in Requests \ {r} : req'[q] = req[q]
      BY <1>0, <1>5 DEF Accept, TypeInv, TypeOK
    <3>2. req'[r].nonce = req[r].nonce /\ req'[r].read = req[r].read /\ req[r] # Idle
      BY <2>1, <3>1, Shapes DEF Submissions
    <3> QED
      BY <1>0, <2>2, <3>1, <3>2, SameBacking
  <2> QED
    BY <1>0, <2>2, <2>3, <2>4, SamePuzzles
<1>6. ASSUME NEW r \in Requests, Refused(r) \/ Rechallenge(r) PROVE DoorInv'
  <2>1. puzzle' = puzzle /\ (\A m \in Nonces : Kept(m)') /\ req' = [req EXCEPT ![r] = Idle]
    BY <1>6 DEF Refused, Rechallenge, DoorInv, Kept
  <2>2. \A q \in Requests : Backed(q)'
    BY <1>0, <2>1, SameBacking DEF TypeInv, TypeOK
  <2> QED
    BY <1>0, <2>1, <2>2, SamePuzzles
<1>7. ASSUME NEW t \in Tokens, Quarantine(t) \/ Restore(t) PROVE DoorInv'
  <2>1. puzzle' = puzzle /\ (\A m \in Nonces : Kept(m)') /\ req' = req
    BY <1>7 DEF Quarantine, Restore, DoorInv, Kept
  <2> QED
    BY <1>0, <2>1, SameBacking, SamePuzzles
<1>8. CASE UNCHANGED vars
  <2>1. puzzle' = puzzle /\ (\A m \in Nonces : Kept(m)') /\ req' = req
    BY <1>8 DEF vars, DoorInv, Kept
  <2> QED
    BY <1>0, <2>1, SameBacking, SamePuzzles
<1> QED
  BY <1>1, <1>2, <1>3, <1>4, <1>5, <1>6, <1>7, <1>8, TickKeeps DEF Next

\* The inductive invariant behind the four theorems: the key of a burnt nonce
\* lives as long as its puzzle on every clock, a submission behind the floor
\* still has its puzzle, and a puzzle is worth the round it was made for.
THEOREM DoorInvHolds == Spec => []DoorInv
<1>1. Init => DoorInv
  <2> SUFFICES ASSUME Init PROVE DoorInv
    OBVIOUS
  <2>1. TypeInv
    BY Settings DEF Init, TypeInv, TypeOK, Rounds
  <2> QED
    BY <2>1, Settings DEF Init, DoorInv, Kept, Worth, Backed, Blank
<1> QED
  BY <1>1, StepInv, PTL DEF Spec

-------------------------------------------------------------------------------
(* What the doors promise *)

\* Only a burn counts a nonce as taken once more.
LEMMA OnlyBurn ==
  ASSUME DoorInv, [Next]_vars, NEW n \in Nonces, taken'[n] > taken[n]
  PROVE  \E g \in Gates : Burn(n, g)
<1>1. taken[n] \in Nat
  BY OnePuzzle DEF DoorInv
<1>2. ASSUME NEW m \in Nonces, NEW g \in Gates, Burn(m, g) PROVE m = n
  BY <1>1, <1>2 DEF Burn, DoorInv, TypeInv, TypeOK
<1>3. ASSUME NEW m \in Nonces, NEW g \in Gates, Verify(m, g) PROVE \E h \in Gates : Burn(n, h)
  BY <1>2, <1>3 DEF Verify
<1>4. ASSUME NEW r \in Requests, NEW g \in Gates, Accept(r, g) PROVE \E h \in Gates : Burn(n, h)
  <2>1. req[r].nonce \in Nonces
    BY <1>4, OneSubmission DEF Accept, DoorInv
  <2> QED
    BY <1>2, <1>4, <2>1 DEF Accept
<1>5. ASSUME taken' = taken PROVE FALSE
  BY <1>1, <1>5
<1>6. ~Tick
  BY <1>1 DEF Tick
<1> QED
  BY <1>3, <1>4, <1>5, <1>6
     DEF Next, vars, Enter, Reissue, Issue, Reverify, Refused, Rechallenge, Quarantine, Restore

\* A solution is accepted once (challenge.go, burn), for any number of gates
\* and submissions: again only in the last Skew of the puzzle's life, which is
\* never when the clocks agree.
THEOREM OnceOnlyHolds == Spec => OnceOnly
<1>1. DoorInv /\ [Next]_vars =>
        [\A n \in Nonces : taken[n] > 0 /\ taken'[n] > taken[n] => puzzle[n].left <= Skew]_vars
  <2> SUFFICES ASSUME DoorInv, [Next]_vars, NEW n \in Nonces, taken[n] > 0, taken'[n] > taken[n]
               PROVE  puzzle[n].left <= Skew
    OBVIOUS
  <2>1. burnt[n] = 0
    BY OnlyBurn DEF Burn
  <2>2. puzzle[n].left \in Int /\ burnt[n] >= puzzle[n].left - Skew
    BY OnePuzzle DEF DoorInv, Kept
  <2> QED
    BY <2>1, <2>2, Settings
<1> QED
  BY <1>1, DoorInvHolds, PTL DEF Spec, OnceOnly

\* Leaving the greylist is paid for (rechallenge.go, reverify): at the price of
\* this round, unless another round overtook the request since it looked, and
\* then at the price of the round it saw.
THEOREM PaidInFullHolds == Spec => PaidInFull
<1> DEFINE Paid ==
      \A r \in Requests :
        LET t == req[r].token
            paid == puzzle[req[r].nonce].difficulty
        IN  Rechallenge(r) /\ level[t] = "greylist" =>
              /\ paid >= Price(req[r].read)
              /\ paid >= Price(rounds'[t]) \/ req[r].read < rounds'[t]
<1>1. DoorInv /\ [Next]_vars => [Paid]_vars
  <2> SUFFICES ASSUME DoorInv, NEW r \in Requests, Rechallenge(r), level[req[r].token] = "greylist"
               PROVE  /\ puzzle[req[r].nonce].difficulty >= Price(req[r].read)
                      /\ \/ puzzle[req[r].nonce].difficulty >= Price(rounds'[req[r].token])
                         \/ req[r].read < rounds'[req[r].token]
    BY DEF Paid
  <2> DEFINE t == req[r].token
             p == puzzle[req[r].nonce]
  <2>1. req[r] # Idle /\ t \in Tokens /\ req[r].nonce \in Nonces /\ req[r].read \in Nat
    BY OneSubmission DEF Rechallenge, DoorInv
  <2>2. p.difficulty \in Nat /\ p.difficulty >= Price(req[r].read)
    BY <2>1, OnePuzzle DEF DoorInv, Backed
  <2>3. rounds'[t] \in Nat
    <3>1. TypeInv'
      BY RechallengeType DEF DoorInv
    <3> QED
      BY <2>1, <3>1, Settings DEF TypeInv, TypeOK
  <2>4. CASE rounds'[t] <= req[r].read
    <3>1. Price(rounds'[t]) <= Price(req[r].read) /\ Price(rounds'[t]) \in Nat /\ Price(req[r].read) \in Nat
      BY <2>1, <2>3, <2>4, PriceFacts
    <3> QED
      BY <2>2, <3>1
  <2>5. CASE req[r].read < rounds'[t]
    BY <2>2, <2>5
  <2> QED
    BY <2>1, <2>3, <2>4, <2>5
<1> QED
  BY <1>1, DoorInvHolds, PTL DEF Spec, PaidInFull

\* The dearest puzzle reissue hands out has the greatest difficulty there is, as
\* with the default settings (16 + 3 * 4 bits, capped at 26).
Saturated == BaseDifficulty + Bump * (RechallengeMax + 1) >= MaxDifficulty

\* A puzzle stays good for the round it was handed out for (rechallenge.go, the
\* floor): in every round up to the one that leads into hold.
StillGoodEarly ==
  \A t \in Tokens, n \in Nonces :
    /\ level[t] = "greylist" /\ puzzle[n].left > 0 /\ puzzle[n].round = rounds[t] + 1
    /\ rounds[t] <= RechallengeMax
    => puzzle[n].difficulty >= Required(rounds[t] + 1)

\* Whatever the settings, a puzzle handed out for a round stays good for it, up
\* to the round that leads into hold (rechallenge.go, reissue and reverify).
THEOREM StillGoodEarlyHolds == Spec => []StillGoodEarly
<1>1. DoorInv => StillGoodEarly
  <2> SUFFICES ASSUME DoorInv, NEW t \in Tokens, NEW n \in Nonces,
                      puzzle[n].round = rounds[t] + 1, rounds[t] <= RechallengeMax
               PROVE  puzzle[n].difficulty >= Required(rounds[t] + 1)
    BY DEF StillGoodEarly
  <2>1. rounds[t] \in Nat /\ Worth(n)
    BY Settings DEF DoorInv, TypeInv, TypeOK
  <2> QED
    BY <2>1, Settings DEF Worth
<1> QED
  BY <1>1, DoorInvHolds, PTL

\* And in every round at all, however often the scorer gives the held token
\* another chance, when the difficulties are saturated.
THEOREM StillGoodHolds == Saturated => (Spec => []StillGood)
<1> SUFFICES ASSUME Saturated PROVE Spec => []StillGood
  OBVIOUS
<1>1. \A k \in Nat : Required(k) <= Required(RechallengeMax + 1)
  <2>1. RechallengeMax + 1 \in Nat
    BY Settings
  <2>2. Difficulty(0, RechallengeMax + 1) = BaseDifficulty + Bump * (RechallengeMax + 1)
    BY Settings DEF Difficulty
  <2>3. Difficulty(0, RechallengeMax + 1) \in Int
    BY <2>1, DifficultyMonotone
  <2>4. Required(RechallengeMax + 1) = MaxDifficulty
    BY <2>2, <2>3, ClampRange DEF Saturated, Required
  <2>5. \A k \in Nat : Required(k) \in BaseDifficulty..MaxDifficulty
    BY RequiredMonotone
  <2> QED
    BY <2>4, <2>5
<1>2. DoorInv => StillGood
  <2> SUFFICES ASSUME DoorInv, NEW t \in Tokens, NEW n \in Nonces, puzzle[n].round = rounds[t] + 1
               PROVE  puzzle[n].difficulty >= Required(rounds[t] + 1)
    BY DEF StillGood
  <2>1. rounds[t] \in Nat /\ Worth(n) /\ puzzle[n].difficulty \in Nat
    BY Settings, OnePuzzle DEF DoorInv, TypeInv, TypeOK
  <2>2. Required(rounds[t] + 1) <= Required(RechallengeMax + 1)
    BY <1>1, <2>1
  <2>3. Required(rounds[t] + 1) \in Nat /\ Required(RechallengeMax + 1) \in Nat
    BY <2>1, RequiredIsNat, Settings
  <2> QED
    BY <2>1, <2>2, <2>3 DEF Worth
<1> QED
  BY <1>2, DoorInvHolds, PTL

===============================================================================
