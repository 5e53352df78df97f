--------------------------------- MODULE Door ---------------------------------
(* The gate's two doors: enter and verify into the line, reissue and reverify  *)
(* out of the greylist.  A puzzle is signed and remembered by nobody; what     *)
(* keeps it from being used again is one key in Redis, written when a solution *)
(* is accepted.  Several gate processes serve both doors, each with a clock of *)
(* its own.                                                                    *)
(*                                                                             *)
(* Times are relative: left is the time until a puzzle's expires_at by the     *)
(* clock of Redis, and a gate sees left - ahead[g] of it.                      *)
EXTENDS Integers, FiniteSets

CONSTANTS
  Tokens,          \* queue tokens that may be handed out
  Nonces,          \* what rand.Read may return; one that lapsed stands for a new one
  Requests,        \* submissions in flight at once
  Gates, Ahead,    \* gate processes, and how far each clock runs ahead of Redis
  Skew,            \* bound on Ahead
  TTL,             \* CHALLENGE_TTL
  BaseDifficulty, MaxDifficulty,
  Bump,            \* GREYLIST_DIFFICULTY_BUMP
  RechallengeMax,  \* RECHALLENGE_MAX_ATTEMPTS
  MaxSuspicion,    \* bound: quarantines counted against a fingerprint or a prefix
  MaxRounds        \* bound: re-challenges passed by one token

\* The challenge part of Validate.
ValidChallenge ==
  /\ BaseDifficulty \in Nat /\ BaseDifficulty > 0
  /\ MaxDifficulty \in Nat /\ MaxDifficulty >= BaseDifficulty
  /\ TTL \in Nat /\ TTL > 0
  /\ Bump \in Nat
  /\ RechallengeMax \in Nat /\ RechallengeMax >= 1

ASSUME ChallengeAssumption == ValidChallenge
ASSUME ClockAssumption == Skew \in Nat /\ Ahead \in [Gates -> 0..Skew]
ASSUME BoundAssumption == MaxSuspicion \in Nat /\ MaxRounds \in Nat

VARIABLES
  puzzle,     \* the puzzle of each nonce: difficulty, left, round it was issued for
  burnt,      \* time left to each nonce's key in Redis, 0 when there is none
  taken,      \* how often its key was written (history, counted to 2)
  level,      \* state field of each token's hash
  rounds,     \* its rc_count
  req         \* what each request in flight is about and how far it got; read is the
              \* round the token was in when the request looked (history)

vars == <<puzzle, burnt, taken, level, rounds, req>>

NoToken == "none"
Idle == [nonce |-> "none", token |-> NoToken, read |-> 0, step |-> "idle"]
Blank == [difficulty |-> 0, left |-> 0, round |-> 0]

Init ==
  /\ puzzle = [n \in Nonces |-> Blank]
  /\ burnt = [n \in Nonces |-> 0]
  /\ taken = [n \in Nonces |-> 0]
  /\ level = [t \in Tokens |-> "absent"]
  /\ rounds = [t \in Tokens |-> 0]
  /\ req = [r \in Requests |-> Idle]

-------------------------------------------------------------------------------
(* Difficulty *)

ClampBelow(d) == IF d < BaseDifficulty THEN BaseDifficulty ELSE d

Clamp(d) ==
  IF d < BaseDifficulty THEN BaseDifficulty ELSE IF d > MaxDifficulty THEN MaxDifficulty ELSE d

\* The worse of suspicion and attempt, never their sum.
Difficulty(worst, attempt) ==
  BaseDifficulty + Bump * (IF attempt > worst THEN attempt ELSE worst)

\* What a look at the suspicion of fingerprint and prefix returns.  The counters
\* are raised by the quarantines of everybody who shares the subject and lapse
\* with SUSPICION_TTL, so no two looks need agree; an error counts as 0.
Worst == {0, MaxSuspicion}

Issue(n, g, worst, attempt, round) ==
  /\ puzzle[n] = Blank
  /\ puzzle' = [puzzle EXCEPT ![n] = [difficulty |-> Clamp(Difficulty(worst, attempt)),
                                      left |-> TTL + Ahead[g], round |-> round]]
  /\ UNCHANGED <<burnt, taken, level, rounds, req>>

\* The lowest difficulty reverify accepts: by the attempt alone, without the
\* suspicion, which others raise.
RequiredWithSuspicion(attempt) == Clamp(Difficulty(MaxSuspicion, attempt))
Required(attempt) == Clamp(Difficulty(0, attempt))

\* The attempts reverify may read: an error counts as one beyond the limit.
AttemptOfFirst(t) == {1, RechallengeMax + 1}
AttemptOf(t) == {rounds[t] + 1, RechallengeMax + 1}

-------------------------------------------------------------------------------
(* Handlers that hand out puzzles *)

\* The bound on nonces is met here: the last one is left to the greylisted.
Enter(n, g) ==
  /\ \E m \in Nonces \ {n} : puzzle[m] = Blank
  /\ \E worst \in Worst : Issue(n, g, worst, 0, 0)

ReissuedForEntry(t) == 0
ReissuedFor(t) == IF rounds[t] + 1 > RechallengeMax THEN RechallengeMax + 1 ELSE rounds[t] + 1

\* The bound on requests is met here: a client asks when it could submit.
Reissue(t, n, g) ==
  /\ level[t] = "greylist" /\ \E r \in Requests : req[r] = Idle
  /\ \E worst \in Worst : Issue(n, g, worst, ReissuedFor(t), rounds[t] + 1)

-------------------------------------------------------------------------------
(* Handlers that take solutions *)

\* Issuer.Verify of a genuine puzzle with a right solution at gate g, which
\* ends in one SET NX for as long as the puzzle lives by g's clock.
Remaining(n, g) == puzzle[n].left - Ahead[g]
KeyLifeShort(n, g) == Remaining(n, g) - 1
KeyLife(n, g) == Remaining(n, g)

Burn(n, g) ==
  /\ Remaining(n, g) > 0 /\ burnt[n] = 0
  /\ burnt' = [burnt EXCEPT ![n] = KeyLife(n, g)]
  /\ taken' = [taken EXCEPT ![n] = IF @ = 2 THEN 2 ELSE @ + 1]

\* verify, the whole handler: between the burn and Enqueue it reads nothing
\* that could change.  When a call fails in between the solution is gone.
Verify(n, g) ==
  /\ Burn(n, g)
  /\ \/ UNCHANGED level
     \/ \E t \in Tokens : level[t] = "absent" /\ level' = [level EXCEPT ![t] = "waiting"]
  /\ UNCHANGED <<puzzle, rounds, req>>

\* reverify, behind a valid queue token, looks the attempt up and turns away
\* what is below the floor.
Reverify(r, t, n) ==
  /\ req[r] = Idle /\ puzzle[n].left > 0 /\ level[t] # "absent"
  /\ \E attempt \in AttemptOf(t) : puzzle[n].difficulty >= Required(attempt)
  /\ req' = [req EXCEPT ![r] = [nonce |-> n, token |-> t, read |-> rounds[t] + 1,
                                step |-> "floor"]]
  /\ UNCHANGED <<puzzle, burnt, taken, level, rounds>>

Accept(r, g) ==
  /\ req[r].step = "floor"
  /\ Burn(req[r].nonce, g)
  /\ req' = [req EXCEPT ![r].step = "accepted"]
  /\ UNCHANGED <<puzzle, level, rounds>>

\* A wrong solution, an expired puzzle, a burnt nonce, a call that failed, a
\* context that was cancelled, or a SET NX whose reply was lost and which the
\* client library repeated: the handler returns an error, whatever is burnt.
Refused(r) ==
  /\ req[r].step # "idle"
  /\ req' = [req EXCEPT ![r] = Idle]
  /\ UNCHANGED <<puzzle, burnt, taken, level, rounds>>

\* The rest of reverify: rechallenge.lua and the answer it is given.
Rechallenge(r) ==
  LET t == req[r].token IN
    /\ req[r].step = "accepted"
    /\ IF level[t] = "greylist"
         THEN /\ rounds' = [rounds EXCEPT ![t] = @ + 1]
              /\ level' = [level EXCEPT ![t] = IF rounds[t] + 1 > RechallengeMax
                                                 THEN "held" ELSE "waiting"]
         ELSE UNCHANGED <<rounds, level>>
    /\ req' = [req EXCEPT ![r] = Idle]
    /\ UNCHANGED <<puzzle, burnt, taken>>

-------------------------------------------------------------------------------
(* Scorer, others, time *)

\* applyOne moves a token to the greylist or gives it back its place.
Quarantine(t) ==
  /\ level[t] = "waiting" /\ rounds[t] < MaxRounds
  /\ level' = [level EXCEPT ![t] = "greylist"]
  /\ UNCHANGED <<puzzle, burnt, taken, rounds, req>>

Restore(t) ==
  /\ level[t] \in {"greylist", "held"}
  /\ level' = [level EXCEPT ![t] = "waiting"]
  /\ UNCHANGED <<puzzle, burnt, taken, rounds, req>>

Less(x) == IF x = 0 THEN 0 ELSE x - 1

\* A puzzle past its life is of no use at any gate and is forgotten as soon as
\* nobody has it in flight.
Over(n) == puzzle[n].left <= 1 /\ \A r \in Requests : req[r].nonce # n

Tick ==
  /\ \E n \in Nonces : puzzle[n] # Blank
  /\ puzzle' = [n \in Nonces |-> IF Over(n) THEN Blank ELSE [puzzle[n] EXCEPT !.left = Less(@)]]
  /\ burnt' = [n \in Nonces |-> Less(burnt[n])]
  /\ taken' = [n \in Nonces |-> IF Over(n) THEN 0 ELSE taken[n]]
  /\ UNCHANGED <<level, rounds, req>>

-------------------------------------------------------------------------------

Next ==
  \/ \E n \in Nonces, g \in Gates : Enter(n, g)
  \/ \E t \in Tokens, n \in Nonces, g \in Gates : Reissue(t, n, g)
  \/ \E n \in Nonces, g \in Gates : Verify(n, g)
  \/ \E r \in Requests, t \in Tokens, n \in Nonces : Reverify(r, t, n)
  \/ \E r \in Requests, g \in Gates : Accept(r, g)
  \/ \E r \in Requests : Refused(r) \/ Rechallenge(r)
  \/ \E t \in Tokens : Quarantine(t) \/ Restore(t)
  \/ Tick

\* Time passes.  A greylisted user asks for a puzzle over and over, submits
\* what is good for the round, and now and then a submission is not cut short
\* by a failure or by the end of the puzzle's life.
ForRound(t, n) == puzzle[n].round = rounds[t] + 1

Fairness ==
  /\ WF_vars(Tick)
  /\ \A r \in Requests : WF_vars(Refused(r))
  /\ \A t \in Tokens :
       /\ SF_vars(\E n \in Nonces, g \in Gates : Reissue(t, n, g))
       /\ SF_vars(\E r \in Requests, n \in Nonces :
                    ForRound(t, n) /\ burnt[n] = 0 /\ Reverify(r, t, n))
       /\ SF_vars(\E r \in Requests, g \in Gates :
                    req[r].token = t /\ ForRound(t, req[r].nonce) /\ Accept(r, g))
       /\ SF_vars(\E r \in Requests : req[r].token = t /\ Rechallenge(r))

Spec == Init /\ [][Next]_vars /\ Fairness

-------------------------------------------------------------------------------
(* Properties *)

\* The types, and a difficulty people can solve: no provider and no attempt
\* takes a puzzle out of the configured range (challenge.go, clamp).
TypeOK ==
  /\ puzzle \in [Nonces -> {Blank} \cup [difficulty : BaseDifficulty..MaxDifficulty,
                                         left : 0..(TTL + Skew), round : 0..(MaxRounds + 1)]]
  /\ burnt \in [Nonces -> 0..(TTL + Skew)]
  /\ taken \in [Nonces -> 0..2]
  /\ level \in [Tokens -> {"absent", "waiting", "greylist", "held"}]
  /\ rounds \in [Tokens -> 0..MaxRounds]
  /\ req \in [Requests -> {Idle} \cup [nonce : Nonces, token : Tokens, read : 1..(MaxRounds + 1),
                                       step : {"floor", "accepted"}]]

\* A solution is accepted once (challenge.go, burn): whatever gates and
\* requests race for it, it is taken again at most in the last moments of its
\* life, and only as many of them as the gates' clocks are apart.  With equal
\* clocks that is never.
OnceOnly ==
  [][\A n \in Nonces : taken[n] > 0 /\ taken'[n] > taken[n] => puzzle[n].left <= Skew]_vars

\* What a round costs: rounds beyond the limit are priced as the first of them,
\* which is what reissue asks and what a failed look-up falls back to.
Price(round) == Required(IF round > RechallengeMax + 1 THEN RechallengeMax + 1 ELSE round)

\* Leaving the greylist costs the price of the round (rechallenge.go,
\* reverify): a puzzle from the entrance or from an earlier round does not buy
\* it, nor does a failed look-up.  Only a request that another round overtook
\* since it read its attempt pays less, namely the price of the round it read.
PaidInFull ==
  [][\A r \in Requests :
       LET t == req[r].token
           paid == puzzle[req[r].nonce].difficulty
       IN  Rechallenge(r) /\ level[t] = "greylist" =>
             /\ paid >= Price(req[r].read)
             /\ paid >= Price(rounds'[t]) \/ req[r].read < rounds'[t]]_vars

\* A puzzle handed out for this round stays good for it (rechallenge.go, the
\* floor): the greylisted user who solves it is not told that it is stale,
\* however often others raise the suspicion in between.  (A look-up of the
\* attempt that fails asks for the dearest round and may still refuse it; the
\* user keeps the puzzle and submits again.)
StillGood ==
  \A t \in Tokens, n \in Nonces :
    level[t] = "greylist" /\ puzzle[n].left > 0 /\ puzzle[n].round = rounds[t] + 1
      => puzzle[n].difficulty >= Required(rounds[t] + 1)

\* Nobody is stuck in the greylist: who keeps solving leaves it, back into the
\* line or, with no attempts left, into hold.
Returns == \A t \in Tokens : level[t] = "greylist" ~> level[t] # "greylist"
===============================================================================
