----------------------------- MODULE ScorerProofs -----------------------------
(***************************************************************************)
(* For any number of tokens and signals and any valid settings: scores stay *)
(* on their scale, an isolation rests on a window scored after the last     *)
(* pass the scorer heard of, but for one decision under way, and no block   *)
(* comes before its time.                                                   *)
(***************************************************************************)
EXTENDS Scorer, Sums

\* What the assumptions on the settings say of each constant.
LEMMA Settings ==
  /\ Greylist \in Int /\ Hold \in Int /\ Block \in Int /\ PassScore \in Int
  /\ 0 <= PassScore /\ PassScore < Greylist /\ Greylist < Hold /\ Hold < Block /\ Block <= 100
  /\ MinSamples \in Nat /\ MaxAttempts \in Nat /\ MinSignals \in Nat
  /\ MaxNotices \in Nat /\ MaxRounds \in Nat
  /\ Decay \in 1 .. 100 /\ MinContrib \in Int
  /\ IsFiniteSet(Signals) /\ NoToken \notin Tokens
BY SettingsAreIntegers, SettingsAreValid DEF ValidScores

-------------------------------------------------------------------------------
(* Scores *)

\* Multiplication keeps an order.
LEMMA ProductsOrdered ==
  ASSUME NEW a \in Nat, NEW b \in Nat, NEW k \in Nat, a <= b
  PROVE  a * k \in Nat /\ b * k \in Nat /\ a * k <= b * k
<1>1. b - a \in Nat /\ (b - a) * k \in Nat /\ a * k \in Nat
  OBVIOUS
<1>2. b * k = a * k + (b - a) * k
  OBVIOUS
<1> QED
  BY <1>1, <1>2

\* combine stays on the scale of the thresholds.
LEMMA RawRange ==
  ASSUME NEW reading \in Readings
  PROVE  Raw(reading) \in 0 .. 100 /\ Strong(reading) \in Nat
<1> DEFINE weighted == [s \in Signals |-> Weight[s] * reading[s]]
<1>1. \A s \in Signals : weighted[s] \in Nat
  <2> SUFFICES ASSUME NEW s \in Signals PROVE Weight[s] * reading[s] \in Nat
    OBVIOUS
  <2>1. Weight[s] \in 0 .. 100 /\ reading[s] \in 0 .. 100
    BY SettingsAreIntegers
  <2>2. Weight[s] \in Nat /\ reading[s] \in Nat
    BY <2>1
  <2> QED
    BY <2>2
<1>2. SumOver(weighted, Signals) \in Nat
  <2> HIDE DEF weighted
  <2> QED
    BY <1>1, Settings, SumNat
<1>3. Raw(reading) = AtMost(SumOver(weighted, Signals) \div 100, 100)
  BY DEF Raw, SumOver
<1>4. SumOver(weighted, Signals) \div 100 \in Nat
  <2> HIDE DEF weighted
  <2> QED
    BY <1>2
<1>5. Raw(reading) \in 0 .. 100
  <2> HIDE DEF weighted
  <2> QED
    BY <1>3, <1>4 DEF AtMost
<1>6. Strong(reading) \in Nat
  BY Settings, FS_Subset, FS_CardinalityType DEF Strong
<1> QED
  BY <1>5, <1>6

\* accumulate is a mean: it keeps order, and never exceeds both of its parts.
LEMMA MixedOrdered ==
  ASSUME NEW p \in 0 .. 100, NEW q \in 0 .. 100, NEW r \in 0 .. 100, NEW s \in 0 .. 100,
         p <= q, r <= s
  PROVE  Mixed(p, r) \in Nat /\ Mixed(q, s) \in Nat /\ Mixed(p, r) <= Mixed(q, s)
<1>1. Decay \in Nat /\ 100 - Decay \in Nat
  BY Settings
<1>2. p * Decay \in Nat /\ q * Decay \in Nat /\ p * Decay <= q * Decay
  BY <1>1, ProductsOrdered
<1>3. /\ r * (100 - Decay) \in Nat /\ s * (100 - Decay) \in Nat
      /\ r * (100 - Decay) <= s * (100 - Decay)
  BY <1>1, ProductsOrdered
<1>4. \A m, n \in Nat : m <= n => m \div 100 \in Nat /\ m \div 100 <= n \div 100
  OBVIOUS
<1> QED
  BY <1>2, <1>3, <1>4 DEF Mixed

\* A mean is at most the larger of its parts.
LEMMA MixedMean ==
  ASSUME NEW p \in 0 .. 100, NEW r \in 0 .. 100, NEW q \in 0 .. 100, p <= q, r <= q
  PROVE  Mixed(p, r) \in 0 .. 100 /\ Mixed(p, r) <= q
<1>1. Mixed(p, r) \in Nat /\ Mixed(p, r) <= Mixed(q, q)
  BY MixedOrdered
<1>2. q * Decay + q * (100 - Decay) = q * 100
  BY Settings
<1>3. Mixed(q, q) = q
  BY <1>2 DEF Mixed
<1> QED
  BY <1>1, <1>3

-------------------------------------------------------------------------------
(* Types *)

Jobs ==
  [token : Tokens \cup {NoToken}, step : {"none", "scored", "recalled"},
   raw : 0 .. 100, score : 0 .. 100, strong : Nat, rounds : 0 .. MaxRounds,
   prev : {"none", "greylist", "hold", "block"}]

\* The blank job is a job.
LEMMA NoWorkIsJob == NoWork \in Jobs /\ NoWork.step = "none" /\ NoWork.token = NoToken
BY Settings DEF NoWork, Jobs

\* A decision is one of the five, one that isolates takes its score, and a block
\* its signals too.
LEMMA RungRange ==
  ASSUME NEW s \in 0 .. 100, NEW strong \in Nat, NEW prev
  PROVE  /\ Rung(s, strong, prev) \in Actions
         /\ Rung(s, strong, prev) = "block" => s >= Block /\ strong >= MinSignals
         /\ Rung(s, strong, prev) \in Isolating => s >= Greylist
BY Settings DEF Rung, Actions, Isolating

\* What Accumulate writes.
LEMMA AccumulateFacts ==
  ASSUME TypeOK, NEW t \in Tokens, NEW reading \in Readings, Accumulate(t, reading)
  PROVE  /\ score' = [score EXCEPT ![t] = Mixed(score[t], Raw(reading))]
         /\ since' = [since EXCEPT ![t] = Larger(since[t], Raw(reading))]
         /\ rounds' = [rounds EXCEPT ![t] = AtMost(rounds[t] + 1, MaxRounds)]
         /\ Mixed(score[t], Raw(reading)) \in 0 .. 100
         /\ Larger(since[t], Raw(reading)) \in 0 .. 100
         /\ AtMost(rounds[t] + 1, MaxRounds) \in 0 .. MaxRounds
         /\ work' \in Jobs /\ work'.token = t /\ work'.step = "scored"
         /\ work'.score = score'[t] /\ work'.rounds = rounds'[t]
<1> DEFINE raw == Raw(reading)
<1>1. raw \in 0 .. 100 /\ Strong(reading) \in Nat
  BY RawRange
<1>2. score[t] \in 0 .. 100 /\ since[t] \in 0 .. 100 /\ rounds[t] \in 0 .. MaxRounds
  BY DEF TypeOK
<1>3. Mixed(score[t], raw) \in 0 .. 100
  <2>1. score[t] <= 100 /\ raw <= 100 /\ 100 \in 0 .. 100
    BY <1>1, <1>2
  <2> HIDE DEF raw
  <2> QED
    BY <1>1, <1>2, <2>1, MixedMean
<1>4. Larger(since[t], raw) \in 0 .. 100
  BY <1>1, <1>2 DEF Larger
<1>5. AtMost(rounds[t] + 1, MaxRounds) \in 0 .. MaxRounds
  BY <1>2, Settings DEF AtMost
<1>6. /\ score' = [score EXCEPT ![t] = Mixed(score[t], raw)]
      /\ since' = [since EXCEPT ![t] = Larger(since[t], raw)]
      /\ rounds' = [rounds EXCEPT ![t] = AtMost(rounds[t] + 1, MaxRounds)]
      /\ work' = [NoWork EXCEPT !.token = t, !.step = "scored", !.raw = raw,
                                !.score = Mixed(score[t], raw),
                                !.strong = Strong(reading), !.rounds = rounds'[t]]
  BY DEF Accumulate
<1>7. rounds'[t] = AtMost(rounds[t] + 1, MaxRounds) /\ score'[t] = Mixed(score[t], raw)
  BY <1>6 DEF TypeOK
<1>8. work' \in Jobs /\ work'.token = t /\ work'.step = "scored"
      /\ work'.score = score'[t] /\ work'.rounds = rounds'[t]
  <2> HIDE DEF raw
  <2> QED
    BY <1>1, <1>3, <1>5, <1>6, <1>7 DEF NoWork, Jobs
<1> QED
  BY <1>3, <1>4, <1>5, <1>6, <1>8

\* What Decide appends.
LEMMA DecideFacts ==
  ASSUME TypeOK, Decide
  PROVE  /\ work.token \in Tokens
         /\ \E d \in Decisions :
              /\ out' = Append(out, d) /\ d.score = work.score /\ d.rounds = work.rounds
              /\ d.token = work.token
              /\ d.action = "block" => d.score >= Block /\ d.strong >= MinSignals
              /\ d.action \in Isolating => work.score >= Greylist
<1> DEFINE next == Rung(work.score, work.strong, work.prev)
           d == [token |-> work.token, action |-> next, score |-> work.score,
                 strong |-> work.strong, rounds |-> work.rounds]
<1>1. work \in Jobs /\ work.token \in Tokens
  BY DEF TypeOK, Jobs, Decide
<1>2. work.score \in 0 .. 100 /\ work.strong \in Nat /\ work.rounds \in 0 .. MaxRounds
  BY <1>1 DEF Jobs
<1>3. /\ next \in Actions /\ (next = "block" => work.score >= Block /\ work.strong >= MinSignals)
      /\ next \in Isolating => work.score >= Greylist
  BY <1>2, RungRange
<1>4. d \in Decisions
  <2> HIDE DEF next
  <2> QED
    BY <1>1, <1>2, <1>3 DEF Decisions
<1>5. out' = Append(out, d)
  BY DEF Decide
<1> QED
  BY <1>1, <1>3, <1>4, <1>5

\* Overwriting one value of a function keeps its range.
LEMMA Overwritten ==
  ASSUME NEW D, NEW R, NEW f \in [D -> R], NEW x \in D, NEW v \in R
  PROVE  [f EXCEPT ![x] = v] \in [D -> R]
OBVIOUS

Windows == [samples : 0 .. MinSamples, recent : BOOLEAN]

\* Every critical section keeps the scorer in shape.
LEMMA StepType == TypeOK /\ [Next]_vars => TypeOK'
<1> SUFFICES ASSUME TypeOK, [Next]_vars PROVE TypeOK'
  OBVIOUS
<1>0. work \in Jobs /\ window \in [Tokens -> Windows]
  BY DEF TypeOK, Jobs, Windows
<1>1. ASSUME NEW t \in Tokens, NEW n \in 0 .. 2, Observe(t, n) PROVE TypeOK'
  <2>1. Added(window[t], n) \in [samples : 0 .. MinSamples, recent : BOOLEAN]
    BY Settings DEF TypeOK, Added, AtMost
  <2> QED
    BY <1>1, <2>1 DEF Observe, TypeOK
<1>2. ASSUME NEW t \in Tokens, Clamp(t) PROVE TypeOK'
  <2>1. Clamped(score[t]) \in 0 .. 100
    BY Settings DEF TypeOK, Clamped, AtMost
  <2>2. notices' \in [Tokens -> 0 .. MaxNotices]
    <3>1. notices \in [Tokens -> 0 .. MaxNotices] /\ notices[t] \in 0 .. MaxNotices
      BY DEF TypeOK
    <3>2. notices[t] - 1 \in 0 .. MaxNotices
      BY <1>2, <3>1, Settings DEF Clamp
    <3>3. notices' = [notices EXCEPT ![t] = notices[t] - 1] \/ notices' = notices
      BY <1>2 DEF Clamp
    <3> QED
      BY <3>1, <3>2, <3>3, Overwritten
  <2>3. score' \in [Tokens -> 0 .. 100] /\ since' \in [Tokens -> 0 .. 100]
    <3>1. score' = [score EXCEPT ![t] = Clamped(score[t])] /\ since' = [since EXCEPT ![t] = 0]
      BY <1>2 DEF Clamp
    <3>2. 0 \in 0 .. 100
      OBVIOUS
    <3> QED
      BY <2>1, <3>1, <3>2, Overwritten DEF TypeOK
  <2>4. /\ ladder' \in [Tokens -> {"none", "greylist", "hold", "block"}]
        /\ late' \in [Tokens -> 0 .. 2]
    BY <1>2 DEF Clamp, TypeOK
  <2> QED
    BY <1>2, <2>2, <2>3, <2>4 DEF Clamp, TypeOK
<1>3. ASSUME NEW t \in Tokens, Quiet(t) PROVE TypeOK'
  <2>1. window' = [window EXCEPT ![t] = [window[t] EXCEPT !.recent = FALSE]]
    BY <1>3 DEF Quiet
  <2>2. [window[t] EXCEPT !.recent = FALSE] \in Windows
    BY <1>0 DEF Windows
  <2>3. window' \in [Tokens -> Windows]
    BY <1>0, <2>1, <2>2, Overwritten
  <2> QED
    BY <1>3, <2>3 DEF Quiet, TypeOK, Windows
<1>4. CASE Snapshot
  <2>1. Empty \in Windows
    BY Settings DEF Empty, Windows
  <2>2. window' \in [Tokens -> Windows]
    BY <1>0, <1>4, <2>1 DEF Snapshot
  <2>3. todo' \subseteq Tokens
    BY <1>4 DEF Snapshot
  <2> QED
    BY <1>4, <2>2, <2>3 DEF Snapshot, TypeOK, Windows
<1>5. ASSUME NEW t \in Tokens, NEW reading \in Readings, Accumulate(t, reading) PROVE TypeOK'
  <2> DEFINE m == Mixed(score[t], Raw(reading))
             l == Larger(since[t], Raw(reading))
             r == AtMost(rounds[t] + 1, MaxRounds)
  <2>0. /\ score' = [score EXCEPT ![t] = m] /\ since' = [since EXCEPT ![t] = l]
        /\ rounds' = [rounds EXCEPT ![t] = r]
        /\ m \in 0 .. 100 /\ l \in 0 .. 100 /\ r \in 0 .. MaxRounds
    BY <1>5, AccumulateFacts
  <2>1. work' \in Jobs /\ work'.token \in Tokens
    BY <1>5, AccumulateFacts
  <2>2. /\ score' \in [Tokens -> 0 .. 100] /\ since' \in [Tokens -> 0 .. 100]
        /\ rounds' \in [Tokens -> 0 .. MaxRounds]
    <3> HIDE DEF m, l, r
    <3> QED
      BY <2>0, Overwritten DEF TypeOK
  <2>3. todo' \subseteq Tokens /\ UNCHANGED <<window, ladder, out, level, attempts, notices, late>>
    BY <1>5 DEF Accumulate, TypeOK
  <2> QED
    BY <2>1, <2>2, <2>3 DEF TypeOK, Jobs
<1>6. CASE Recall
  <2>1. work.token \in Tokens
    BY <1>6 DEF Recall, TypeOK
  <2>2. ladder[work.token] \in {"none", "greylist", "hold", "block"}
    BY <2>1 DEF TypeOK
  <2>3. work' = [work EXCEPT !.step = "recalled", !.prev = ladder[work.token]]
    BY <1>6 DEF Recall
  <2>4. work' \in Jobs /\ work'.token = work.token
    BY <1>0, <2>2, <2>3 DEF Jobs
  <2> QED
    BY <1>6, <2>1, <2>4 DEF Recall, TypeOK, Jobs
<1>7. CASE Decide
  <2>1. out' \in Seq(Decisions)
    <3>1. PICK d \in Decisions : out' = Append(out, d)
      BY <1>7, DecideFacts
    <3>2. out \in Seq(Decisions)
      BY DEF TypeOK
    <3> QED
      BY <3>1, <3>2
  <2>2. ladder' \in [Tokens -> {"none", "greylist", "hold", "block"}]
    <3>1. Rung(work.score, work.strong, work.prev) \in Actions
      BY <1>0, RungRange DEF Jobs
    <3> QED
      BY <1>7, <3>1 DEF Decide, TypeOK, Actions
  <2>3. work' \in Jobs /\ work'.step = "none"
    BY <1>7, NoWorkIsJob DEF Decide
  <2> QED
    BY <1>7, <2>1, <2>2, <2>3 DEF Decide, TypeOK, Jobs
<1>8. CASE Apply \/ ApplyFails
  <2>0. out \in Seq(Decisions) /\ out # << >> /\ out' = Tail(out)
    BY <1>8 DEF Apply, ApplyFails, Ready, TypeOK
  <2>1. out' \in Seq(Decisions) /\ Head(out) \in Decisions
    BY <2>0
  <2>2. level' \in [Tokens -> {"waiting", "greylist", "held", "blocked"}]
    <3>1. Head(out).token \in Tokens
      BY <2>1 DEF Decisions
    <3>2. \A l \in {"waiting", "greylist", "held", "blocked"} :
            Applied(l, Head(out).action) \in {"waiting", "greylist", "held", "blocked"}
      BY DEF Applied
    <3>3. CASE Apply
      <4>1. level' = [level EXCEPT ![Head(out).token] =
                                      Applied(level[Head(out).token], Head(out).action)]
        BY <3>3 DEF Apply
      <4> QED
        BY <3>1, <3>2, <4>1 DEF TypeOK
    <3>4. CASE ApplyFails
      BY <3>4 DEF ApplyFails, TypeOK
    <3> QED
      BY <1>8, <3>3, <3>4
  <2>3. UNCHANGED <<window, score, ladder, todo, work, attempts, notices, since, rounds>>
    BY <1>8 DEF Apply, ApplyFails
  <2>4. late' \in [Tokens -> 0 .. 2]
    <3>1. CASE Apply
      <4>1. Head(out).token \in Tokens
        BY <2>1 DEF Decisions
      <4> DEFINE was == late[Head(out).token]
                 counts == Head(out).action \in Isolating /\ Unfounded(Head(out).token)
                 n == IF counts THEN AtMost(was + 1, 2) ELSE was
      <4>2. late' = [late EXCEPT ![Head(out).token] = n]
        BY <3>1 DEF Apply
      <4>3. was \in 0 .. 2
        BY <4>1 DEF TypeOK
      <4>4. n \in 0 .. 2
        <5> HIDE DEF was, counts
        <5> QED
          BY <4>3 DEF AtMost
      <4> HIDE DEF n
      <4> QED
        BY <4>1, <4>2, <4>4, Overwritten DEF TypeOK
    <3>2. CASE ApplyFails
      BY <3>2 DEF ApplyFails, TypeOK
    <3> QED
      BY <1>8, <3>1, <3>2
  <2> QED
    BY <2>1, <2>2, <2>3, <2>4 DEF TypeOK
<1>9. CASE Restart
  BY <1>9, NoWorkIsJob, Settings DEF Restart, TypeOK, Empty, Jobs
<1>10. ASSUME NEW t \in Tokens, Pass(t) PROVE TypeOK'
  <2>1. notices' \in [Tokens -> 0 .. MaxNotices]
    <3>1. notices \in [Tokens -> 0 .. MaxNotices] /\ notices[t] \in 0 .. MaxNotices
      BY DEF TypeOK
    <3>2. CASE notices[t] < MaxNotices /\ notices' = [notices EXCEPT ![t] = notices[t] + 1]
      <4>1. notices[t] + 1 \in 0 .. MaxNotices
        BY <3>1, <3>2, Settings
      <4> QED
        BY <3>1, <3>2, <4>1, Overwritten
    <3>3. CASE notices' = notices
      BY <3>1, <3>3
    <3> QED
      BY <1>10, <3>2, <3>3 DEF Pass
  <2>2. attempts' \in [Tokens -> 0 .. MaxAttempts]
    <3>1. attempts \in [Tokens -> 0 .. MaxAttempts] /\ attempts[t] \in 0 .. MaxAttempts
      BY DEF TypeOK
    <3>2. attempts[t] + 1 \in 0 .. MaxAttempts /\ attempts' = [attempts EXCEPT ![t] = attempts[t] + 1]
      BY <1>10, <3>1, Settings DEF Pass
    <3> QED
      BY <3>1, <3>2, Overwritten
  <2>3. level' \in [Tokens -> {"waiting", "greylist", "held", "blocked"}]
    BY <1>10 DEF Pass, TypeOK
  <2> QED
    BY <1>10, <2>1, <2>2, <2>3 DEF Pass, TypeOK
<1>11. ASSUME NEW t \in Tokens, Exhaust(t) PROVE TypeOK'
  BY <1>11 DEF Exhaust, TypeOK
<1>12. CASE UNCHANGED vars
  BY <1>12 DEF vars, TypeOK
<1> QED
  BY <1>1, <1>2, <1>3, <1>4, <1>5, <1>6, <1>7, <1>8, <1>9, <1>10, <1>11, <1>12 DEF Next, Flush

\* A scorer that starts is in shape.
LEMMA InitType == Init => TypeOK
BY NoWorkIsJob, Settings DEF Init, NewScorer, TypeOK, Empty, Jobs

\* Whatever the weights, the signals and the decay, scores stay on the scale the
\* thresholds are set on (combine, accumulate).
THEOREM TypeCorrect == Spec => []TypeOK
BY InitType, StepType, PTL DEF Spec

-------------------------------------------------------------------------------
(* A pass wipes the slate *)

\* The score is a mean of what was seen since the last pass, from at most
\* PassScore upwards; ScoredAnew alone says nothing of scores below Greylist
\* and is not inductive.
ScoreBacked == \A t \in Tokens : score[t] <= Larger(PassScore, since[t])

\* The shape of a step: a token is scored, clamped or left alone, or all are
\* forgotten.
LEMMA ScoreSteps ==
  ASSUME TypeOK, [Next]_vars
  PROVE  \/ UNCHANGED <<score, since, rounds>>
         \/ \E t \in Tokens, reading \in Readings : Accumulate(t, reading)
         \/ \E t \in Tokens : Clamp(t)
         \/ Restart
<1>1. ASSUME NEW t \in Tokens, NEW n \in 0 .. 2, Observe(t, n)
      PROVE  UNCHANGED <<score, since, rounds>>
  BY <1>1 DEF Observe
<1>2. ASSUME NEW t \in Tokens, Quiet(t) \/ Pass(t) \/ Exhaust(t)
      PROVE  UNCHANGED <<score, since, rounds>>
  BY <1>2 DEF Quiet, Pass, Exhaust
<1>3. ASSUME Snapshot \/ Recall \/ Decide \/ Apply \/ ApplyFails
      PROVE  UNCHANGED <<score, since, rounds>>
  BY <1>3 DEF Snapshot, Recall, Decide, Apply, ApplyFails
<1>4. ASSUME UNCHANGED vars PROVE UNCHANGED <<score, since, rounds>>
  BY <1>4 DEF vars
<1> QED
  BY <1>1, <1>2, <1>3, <1>4 DEF Next, Flush

\* Every critical section keeps the scores backed by what was seen.
LEMMA StepBacked == TypeOK /\ ScoreBacked /\ [Next]_vars => ScoreBacked'
<1> SUFFICES ASSUME TypeOK, ScoreBacked, [Next]_vars, NEW u \in Tokens
             PROVE  score'[u] <= Larger(PassScore, since'[u])
  BY DEF ScoreBacked
<1>0. /\ score[u] \in 0 .. 100 /\ since[u] \in 0 .. 100
      /\ score[u] <= Larger(PassScore, since[u])
  BY DEF TypeOK, ScoreBacked
<1>1. CASE UNCHANGED <<score, since, rounds>>
  BY <1>0, <1>1
<1>2. ASSUME NEW t \in Tokens, NEW reading \in Readings, Accumulate(t, reading)
      PROVE  score'[u] <= Larger(PassScore, since'[u])
  <2> DEFINE raw == Raw(reading)
             q == Larger(PassScore, Larger(since[t], raw))
  <2>1. /\ score' = [score EXCEPT ![t] = Mixed(score[t], raw)]
        /\ since' = [since EXCEPT ![t] = Larger(since[t], raw)]
        /\ raw \in 0 .. 100
    BY <1>2, AccumulateFacts, RawRange
  <2>2. CASE u = t
    <3>1. score'[u] = Mixed(score[u], raw) /\ since'[u] = Larger(since[u], raw)
      BY <2>1, <2>2 DEF TypeOK
    <3>2. q \in 0 .. 100 /\ score[u] <= q /\ raw <= q
      <4> HIDE DEF raw
      <4> QED
        BY <1>0, <2>1, <2>2, Settings DEF Larger
    <3>3. Mixed(score[u], raw) <= q
      <4> HIDE DEF raw, q
      <4> QED
        BY <1>0, <2>1, <3>2, MixedMean
    <3> QED
      BY <2>2, <3>1, <3>3
  <2>3. CASE u # t
    <3>1. score'[u] = score[u] /\ since'[u] = since[u]
      BY <2>1, <2>3 DEF TypeOK
    <3> QED
      BY <1>0, <3>1
  <2> QED
    BY <2>2, <2>3
<1>3. ASSUME NEW t \in Tokens, Clamp(t) PROVE score'[u] <= Larger(PassScore, since'[u])
  <2>1. /\ score' = [score EXCEPT ![t] = Clamped(score[t])]
        /\ since' = [since EXCEPT ![t] = 0]
    BY <1>3 DEF Clamp
  <2>2. CASE u = t
    <3>1. score'[u] = Clamped(score[u]) /\ since'[u] = 0
      BY <2>1, <2>2 DEF TypeOK
    <3> QED
      BY <1>0, <3>1, Settings DEF Clamped, AtMost, Larger
  <2>3. CASE u # t
    <3>1. score'[u] = score[u] /\ since'[u] = since[u]
      BY <2>1, <2>3 DEF TypeOK
    <3> QED
      BY <1>0, <3>1
  <2> QED
    BY <2>2, <2>3
<1>4. CASE Restart
  <2>1. score'[u] = 0 /\ since'[u] = 0
    BY <1>4 DEF Restart
  <2> QED
    BY <2>1, Settings DEF Larger
<1> QED
  BY <1>1, <1>2, <1>3, <1>4, ScoreSteps

\* What Flush has in hand names each token once: those still to be scored, the
\* one being decided and those decided.
OnceInHand ==
  /\ work.token \notin todo
  /\ \A i \in DOMAIN out : out[i].token \notin todo /\ out[i].token # work.token
  /\ \A i, j \in DOMAIN out : out[i].token = out[j].token => i = j

\* A flush begins when nothing is in hand, and every step takes a token out of
\* one place and puts it into the next.
LEMMA StepOnce == TypeOK /\ OnceInHand /\ [Next]_vars => OnceInHand'
<1> SUFFICES ASSUME TypeOK, OnceInHand, [Next]_vars PROVE OnceInHand'
  OBVIOUS
<1>0. out \in Seq(Decisions)
  BY DEF TypeOK
<1>1. CASE UNCHANGED <<todo, work, out>>
  BY <1>1 DEF OnceInHand
<1>2. CASE Snapshot
  BY <1>2, NoWorkIsJob, Settings DEF Snapshot, Idle, OnceInHand
<1>3. ASSUME NEW t \in Tokens, NEW reading \in Readings, Accumulate(t, reading) PROVE OnceInHand'
  <2>1. work'.token = t /\ t \in todo /\ todo' = todo \ {t} /\ out' = out
    BY <1>3, AccumulateFacts DEF Accumulate
  <2> QED
    BY <2>1 DEF OnceInHand
<1>4. CASE Recall
  <2>1. work'.token = work.token /\ UNCHANGED <<todo, out>>
    BY <1>4 DEF Recall, TypeOK
  <2> QED
    BY <2>1 DEF OnceInHand
<1>5. CASE Decide
  <2>1. PICK d \in Decisions : out' = Append(out, d) /\ d.token = work.token
    BY <1>5, DecideFacts
  <2>2. work'.token = NoToken /\ todo' = todo /\ todo \subseteq Tokens
    BY <1>5, NoWorkIsJob DEF Decide, TypeOK
  <2>3. /\ DOMAIN out' = 1 .. (Len(out) + 1) /\ DOMAIN out = 1 .. Len(out)
        /\ \A i \in DOMAIN out : out'[i] = out[i]
        /\ out'[Len(out) + 1] = d /\ Len(out) \in Nat
    BY <1>0, <2>1
  <2>4. \A i \in DOMAIN out' : i \in DOMAIN out \/ i = Len(out) + 1
    BY <2>3
  <2>5. \A i \in DOMAIN out' : out'[i].token \in Tokens
    <3>1. \A i \in DOMAIN out : out[i] \in Decisions
      BY <1>0
    <3>2. \A i \in DOMAIN out' : out'[i] \in Decisions
      BY <2>1, <2>3, <2>4, <3>1
    <3>3. \A x \in Decisions : x.token \in Tokens
      BY DEF Decisions
    <3> QED
      BY <3>2, <3>3
  <2> QED
    BY <2>1, <2>2, <2>3, <2>4, <2>5, Settings DEF OnceInHand
<1>6. CASE Apply \/ ApplyFails
  <2>1. out # << >> /\ out' = Tail(out) /\ UNCHANGED <<todo, work>>
    BY <1>6 DEF Apply, ApplyFails, Ready
  <2>2. /\ \A i \in DOMAIN out' : i + 1 \in DOMAIN out /\ out'[i] = out[i + 1]
        /\ \A i \in DOMAIN out' : i \in Int
    BY <1>0, <2>1
  <2>3. ASSUME NEW i \in DOMAIN out', NEW j \in DOMAIN out', out'[i].token = out'[j].token
        PROVE  i = j
    <3>1. i + 1 = j + 1
      BY <2>2, <2>3 DEF OnceInHand
    <3> QED
      BY <2>2, <3>1
  <2> QED
    BY <2>1, <2>2, <2>3 DEF OnceInHand
<1>7. CASE Restart
  BY <1>7, NoWorkIsJob DEF Restart, OnceInHand
<1>8. ASSUME NEW t \in Tokens, NEW n \in 0 .. 2, Observe(t, n) PROVE UNCHANGED <<todo, work, out>>
  BY <1>8 DEF Observe
<1>9. ASSUME NEW t \in Tokens, Clamp(t) \/ Quiet(t) \/ Pass(t) \/ Exhaust(t)
      PROVE  UNCHANGED <<todo, work, out>>
  BY <1>9 DEF Clamp, Quiet, Pass, Exhaust
<1>10. ASSUME UNCHANGED vars PROVE UNCHANGED <<todo, work, out>>
  BY <1>10 DEF vars
<1> QED
  BY <1>1, <1>2, <1>3, <1>4, <1>5, <1>6, <1>7, <1>8, <1>9, <1>10 DEF Next, Flush

\* Nothing in hand is about to isolate t.
NoneInHand(t) ==
  /\ work.token = t => work.score < Greylist
  /\ \A i \in DOMAIN out : out[i].token = t => out[i].action \notin Isolating

\* Once a decision was applied that no window since the clamp accounts for, there
\* is no second.
LateOnce ==
  \A t \in Tokens : late[t] <= 1 /\ (late[t] = 1 /\ Unfounded(t) => NoneInHand(t))

\* Only Apply counts a late decision; the clamp and the restart start again.
LEMMA StepLate ==
  TypeOK /\ ScoreBacked /\ OnceInHand /\ LateOnce /\ [Next]_vars => LateOnce'
<1> SUFFICES ASSUME TypeOK, ScoreBacked, OnceInHand, LateOnce, [Next]_vars, NEW u \in Tokens
             PROVE  late'[u] <= 1 /\ (late'[u] = 1 /\ Unfounded(u)' => NoneInHand(u)')
  BY DEF LateOnce
<1>0. /\ out \in Seq(Decisions) /\ late[u] \in 0 .. 2 /\ since[u] \in 0 .. 100
      /\ late[u] <= 1 /\ (late[u] = 1 /\ Unfounded(u) => NoneInHand(u))
      /\ TypeOK' /\ ScoreBacked' /\ late \in [Tokens -> 0 .. 2]
  BY StepType, StepBacked DEF TypeOK, LateOnce
<1> DEFINE Goal == late'[u] <= 1 /\ (late'[u] = 1 /\ Unfounded(u)' => NoneInHand(u)')
<1>1. CASE UNCHANGED <<work, out, since, late>>
  BY <1>0, <1>1 DEF Unfounded, NoneInHand
<1>2. ASSUME NEW t \in Tokens, NEW reading \in Readings, Accumulate(t, reading) PROVE Goal
  <2>1. /\ work'.token = t /\ work'.score = score'[t] /\ t \in todo /\ out' = out /\ late' = late
        /\ since' = [since EXCEPT ![t] = Larger(since[t], Raw(reading))]
        /\ Raw(reading) \in 0 .. 100
    BY <1>2, AccumulateFacts, RawRange DEF Accumulate
  <2>2. CASE u = t
    <3>1. \A i \in DOMAIN out : out[i].token # u
      BY <2>1, <2>2 DEF OnceInHand
    <3>2. score'[u] \in 0 .. 100 /\ since'[u] \in 0 .. 100 /\ score'[u] <= Larger(PassScore, since'[u])
      BY <1>0 DEF TypeOK, ScoreBacked
    <3>3. Unfounded(u)' => score'[u] < Greylist
      BY <3>2, Settings DEF Unfounded, Larger
    <3> QED
      BY <1>0, <2>1, <2>2, <3>1, <3>3 DEF NoneInHand
  <2>3. CASE u # t
    <3>1. since'[u] = since[u] /\ work'.token # u
      BY <2>1, <2>3 DEF TypeOK
    <3> QED
      BY <1>0, <2>1, <3>1 DEF NoneInHand, Unfounded
  <2> QED
    BY <2>2, <2>3
<1>3. CASE Recall
  <2>1. work'.token = work.token /\ work'.score = work.score /\ UNCHANGED <<out, since, late>>
    BY <1>3 DEF Recall, TypeOK
  <2> QED
    BY <1>0, <2>1 DEF NoneInHand, Unfounded
<1>4. CASE Decide
  <2>1. PICK d \in Decisions :
          /\ out' = Append(out, d) /\ d.token = work.token
          /\ d.action \in Isolating => work.score >= Greylist
    BY <1>4, DecideFacts
  <2>2. work'.token = NoToken /\ UNCHANGED <<since, late>> /\ work.score \in 0 .. 100
    BY <1>4, NoWorkIsJob DEF Decide, TypeOK
  <2>3. \A i \in DOMAIN out' : out'[i] = d \/ (i \in DOMAIN out /\ out'[i] = out[i])
    BY <1>0, <2>1
  <2>4. NoneInHand(u) => NoneInHand(u)'
    <3> SUFFICES ASSUME NoneInHand(u) PROVE NoneInHand(u)'
      OBVIOUS
    <3>1. work'.token # u
      BY <2>2, Settings
    <3>2. d.token = u => d.action \notin Isolating
      <4>1. ~(work.score >= Greylist /\ work.score < Greylist)
        BY <2>2, Settings
      <4> QED
        BY <2>1, <4>1 DEF NoneInHand
    <3>3. \A i \in DOMAIN out : out[i].token = u => out[i].action \notin Isolating
      BY DEF NoneInHand
    <3>4. \A i \in DOMAIN out' : out'[i].token = u => out'[i].action \notin Isolating
      BY <2>3, <3>2, <3>3
    <3> QED
      BY <3>1, <3>4 DEF NoneInHand
  <2> QED
    BY <1>0, <2>2, <2>4 DEF Unfounded
<1>5. CASE Apply \/ ApplyFails
  <2> DEFINE d == Head(out)
  <2>1. /\ out # << >> /\ out' = Tail(out) /\ UNCHANGED <<work, since>> /\ work = NoWork
        /\ \/ late' = late
           \/ late' = [late EXCEPT ![d.token] = AtMost(late[d.token] + 1, 2)]
              /\ d.action \in Isolating /\ Unfounded(d.token)
    <3>1. CASE Apply
      <4>1. CASE d.action \in Isolating /\ Unfounded(d.token)
        BY <3>1, <4>1 DEF Apply, Ready
      <4>2. CASE ~(d.action \in Isolating /\ Unfounded(d.token))
        <5>1. late' = [late EXCEPT ![d.token] = late[d.token]]
          BY <3>1, <4>2 DEF Apply
        <5>2. late' = late
          BY <1>0, <5>1
        <5> QED
          BY <3>1, <5>2 DEF Apply, Ready
      <4> QED
        BY <4>1, <4>2
    <3>2. CASE ApplyFails
      BY <3>2 DEF ApplyFails, Ready
    <3> QED
      BY <1>5, <3>1, <3>2
  <2>2. /\ \A i \in DOMAIN out' : i + 1 \in DOMAIN out /\ i + 1 # 1 /\ out'[i] = out[i + 1]
        /\ 1 \in DOMAIN out /\ d = out[1]
    BY <1>0, <2>1
  <2>3. NoneInHand(u) => NoneInHand(u)'
    BY <2>1, <2>2 DEF NoneInHand
  <2>4. CASE late'[u] = late[u]
    BY <1>0, <2>1, <2>3, <2>4 DEF Unfounded
  <2>5. CASE late'[u] # late[u]
    <3>1. d.token = u /\ d.action \in Isolating /\ Unfounded(u)
      <4> HIDE DEF d
      <4> QED
        BY <1>0, <2>1, <2>5
    <3>2. ~NoneInHand(u)
      BY <2>2, <3>1 DEF NoneInHand
    <3>3. late[u] = 0
      BY <1>0, <3>1, <3>2
    <3>4. late'[u] = 1
      <4>1. late' = [late EXCEPT ![u] = AtMost(late[u] + 1, 2)]
        <5> HIDE DEF d
        <5> QED
          BY <2>1, <2>5, <3>1
      <4> QED
        BY <1>0, <3>3, <4>1 DEF AtMost
    <3>5. \A i \in DOMAIN out' : out'[i].token # u
      BY <2>2, <3>1 DEF OnceInHand
    <3>6. work'.token # u
      BY <2>1, NoWorkIsJob, Settings
    <3> QED
      BY <3>4, <3>5, <3>6 DEF NoneInHand
  <2> QED
    BY <2>4, <2>5
<1>6. ASSUME NEW t \in Tokens, Clamp(t) PROVE Goal
  <2>1. /\ since' = [since EXCEPT ![t] = 0] /\ late' = [late EXCEPT ![t] = 0]
        /\ UNCHANGED <<work, out>>
    BY <1>6 DEF Clamp
  <2>2. CASE u = t
    BY <1>0, <2>1, <2>2
  <2>3. CASE u # t
    <3>1. late'[u] = late[u] /\ since'[u] = since[u]
      BY <2>1, <2>3 DEF TypeOK
    <3> QED
      BY <1>0, <2>1, <3>1 DEF NoneInHand, Unfounded
  <2> QED
    BY <2>2, <2>3
<1>7. CASE Restart
  BY <1>7 DEF Restart
<1>8. ASSUME NEW t \in Tokens, NEW n \in 0 .. 2, Observe(t, n)
      PROVE  UNCHANGED <<work, out, since, late>>
  BY <1>8 DEF Observe
<1>9. ASSUME NEW t \in Tokens, Quiet(t) \/ Pass(t) \/ Exhaust(t)
      PROVE  UNCHANGED <<work, out, since, late>>
  BY <1>9 DEF Quiet, Pass, Exhaust
<1>10. ASSUME Snapshot \/ UNCHANGED vars PROVE UNCHANGED <<work, out, since, late>>
  BY <1>10 DEF Snapshot, vars
<1> QED
  BY <1>1, <1>2, <1>3, <1>4, <1>5, <1>6, <1>7, <1>8, <1>9, <1>10 DEF Next, Flush

\* A pass the scorer heard of is not forgotten by the next flush, for any number
\* of tokens and any valid settings: however the consumer's Clamp interleaves
\* with Flush and Apply, a score at the greylist threshold rests on a window at
\* the threshold scored after the last clamp or restart, and but for one
\* decision, under way when Clamp came, so does every isolation Run applies.
THEOREM ScoredAnewHolds == Spec => []ScoredAnew
<1> DEFINE Inv == TypeOK /\ ScoreBacked /\ OnceInHand /\ LateOnce
<1>1. Init => Inv
  <2>1. Init => ScoreBacked
    BY Settings DEF Init, NewScorer, ScoreBacked, Larger
  <2>2. Init => OnceInHand /\ LateOnce
    BY DEF Init, NewScorer, OnceInHand, LateOnce
  <2> QED
    BY <2>1, <2>2, InitType
<1>2. Inv /\ [Next]_vars => Inv'
  BY StepType, StepBacked, StepOnce, StepLate
<1>3. Inv => ScoredAnew
  <2> SUFFICES ASSUME TypeOK, ScoreBacked, LateOnce, NEW t \in Tokens
               PROVE  (score[t] >= Greylist => ~Unfounded(t)) /\ late[t] <= 1
    BY DEF ScoredAnew
  <2>1. score[t] \in 0 .. 100 /\ since[t] \in 0 .. 100
    BY DEF TypeOK
  <2>2. score[t] <= Larger(PassScore, since[t]) /\ late[t] <= 1
    BY DEF ScoreBacked, LateOnce
  <2> QED
    BY <2>1, <2>2, Settings DEF Larger, Unfounded
<1> QED
  BY <1>1, <1>2, <1>3, PTL DEF Spec

-------------------------------------------------------------------------------
(* No immediate block *)

Stronger(p) == (p * Decay + 100 * (100 - Decay)) \div 100

\* A window at full strength is mixed in like any other.
LEMMA StrongerIsMixed ==
  ASSUME NEW p \in 0 .. 100
  PROVE  Stronger(p) \in 0 .. 100 /\ Stronger(p) = Mixed(p, 100)
<1>0. p <= 100 /\ 100 <= 100 /\ 100 \in 0 .. 100
  OBVIOUS
<1>1. Mixed(p, 100) \in 0 .. 100
  BY <1>0, MixedMean
<1> QED
  BY <1>1 DEF Stronger, Mixed

\* g is the score history of a token whose first n windows are at full strength.
Climbs(g, n) ==
  /\ g \in [0 .. n -> 0 .. 100]
  /\ g = [k \in 0 .. n |-> IF k = 0 THEN 0 ELSE Stronger(g[k - 1])]

\* The recursion of FullStrength has a solution, found one window at a time.
LEMMA ClimbExists == \E g : Climbs(g, MaxRounds)
<1> DEFINE Good == {n \in Nat : \E g : Climbs(g, n)}
<1>1. 0 \in Good
  <2> DEFINE g == [k \in 0 .. 0 |-> 0]
  <2>1. Climbs(g, 0)
    BY DEF Climbs
  <2> HIDE DEF g
  <2> QED
    BY <2>1
<1>2. ASSUME NEW n \in 0 .. (MaxRounds - 1), n \in Good PROVE n + 1 \in Good
  <2>0. n \in Nat
    BY Settings
  <2>1. PICK g : Climbs(g, n)
    BY <1>2
  <2>2. g \in [0 .. n -> 0 .. 100]
    BY <2>1 DEF Climbs
  <2>3. \A k \in 0 .. n : g[k] = IF k = 0 THEN 0 ELSE Stronger(g[k - 1])
    BY <2>1 DEF Climbs
  <2> DEFINE h == [k \in 0 .. (n + 1) |-> IF k = n + 1 THEN Stronger(g[n]) ELSE g[k]]
  <2>4. Stronger(g[n]) \in 0 .. 100
    <3>1. g[n] \in 0 .. 100
      BY <2>0, <2>2
    <3> QED
      BY <3>1, StrongerIsMixed
  <2>5. h \in [0 .. (n + 1) -> 0 .. 100]
    BY <2>0, <2>2, <2>4
  <2>6. ASSUME NEW k \in 0 .. (n + 1)
        PROVE  h[k] = IF k = 0 THEN 0 ELSE Stronger(h[k - 1])
    <3>1. CASE k = n + 1
      <4>1. h[k] = Stronger(g[n]) /\ h[k - 1] = g[n] /\ k # 0
        BY <2>0, <3>1
      <4> QED
        BY <4>1
    <3>2. CASE k \in 1 .. n
      <4>1. h[k] = g[k] /\ h[k - 1] = g[k - 1] /\ k # 0 /\ k \in 0 .. n
        BY <2>0, <3>2
      <4> QED
        BY <2>3, <4>1
    <3>3. CASE k = 0
      <4>1. h[k] = g[k] /\ k \in 0 .. n
        BY <2>0, <3>3
      <4> QED
        BY <2>3, <3>3, <4>1
    <3> QED
      BY <2>0, <3>1, <3>2, <3>3
  <2>7. h = [k \in 0 .. (n + 1) |-> IF k = 0 THEN 0 ELSE Stronger(h[k - 1])]
    <3>1. h = [k \in 0 .. (n + 1) |-> h[k]]
      OBVIOUS
    <3> HIDE DEF h
    <3> QED
      BY <2>6, <3>1
  <2>8. Climbs(h, n + 1)
    <3> HIDE DEF h
    <3> QED
      BY <2>5, <2>7 DEF Climbs
  <2> HIDE DEF h
  <2> QED
    BY <2>0, <2>8
<1>3. \A k \in 0 .. MaxRounds : k \in Good
  <2> HIDE DEF Good
  <2> QED
    BY <1>1, <1>2, NumberInduction, Settings
<1> QED
  BY <1>3, Settings

\* The definition as an equation, and its range.
LEMMA FullStrengthFacts ==
  /\ FullStrength \in [0 .. MaxRounds -> 0 .. 100]
  /\ FullStrength[0] = 0
  /\ \A n \in 0 .. (MaxRounds - 1) : FullStrength[n + 1] = Stronger(FullStrength[n])
<1> DEFINE F(g) == [n \in 0 .. MaxRounds |-> IF n = 0 THEN 0 ELSE Stronger(g[n - 1])]
<1>1. FullStrength = CHOOSE g : g = F(g)
  BY DEF FullStrength, Stronger
<1>2. \E g : g = F(g)
  BY ClimbExists DEF Climbs
<1>3. FullStrength = F(FullStrength)
  BY <1>1, <1>2
<1>4. \A n \in 0 .. MaxRounds : FullStrength[n] = IF n = 0 THEN 0 ELSE Stronger(FullStrength[n - 1])
  BY <1>3
<1>5. FullStrength[0] = 0
  BY <1>4, Settings
<1>6. \A n \in 0 .. (MaxRounds - 1) : FullStrength[n + 1] = Stronger(FullStrength[n])
  <2> SUFFICES ASSUME NEW n \in 0 .. (MaxRounds - 1)
               PROVE  FullStrength[n + 1] = Stronger(FullStrength[n])
    OBVIOUS
  <2>1. n + 1 \in 0 .. MaxRounds /\ n + 1 # 0 /\ (n + 1) - 1 = n
    BY Settings
  <2> QED
    BY <1>4, <2>1
<1> DEFINE Good == {n \in 0 .. MaxRounds : FullStrength[n] \in 0 .. 100}
<1>7. 0 \in Good
  BY <1>5, Settings
<1>8. ASSUME NEW n \in 0 .. (MaxRounds - 1), n \in Good PROVE n + 1 \in Good
  <2>1. Stronger(FullStrength[n]) \in 0 .. 100
    BY <1>8, StrongerIsMixed
  <2> QED
    BY <1>6, <2>1, Settings
<1>9. \A n \in 0 .. MaxRounds : n \in Good
  <2> HIDE DEF Good
  <2> QED
    BY <1>7, <1>8, NumberInduction, Settings
<1>10. DOMAIN FullStrength = 0 .. MaxRounds /\ FullStrength = [n \in DOMAIN FullStrength |-> FullStrength[n]]
  <2>1. \A g : DOMAIN F(g) = 0 .. MaxRounds /\ F(g) = [n \in DOMAIN F(g) |-> F(g)[n]]
    OBVIOUS
  <2> HIDE DEF F
  <2> QED
    BY <1>3, <2>1
<1> QED
  BY <1>5, <1>6, <1>9, <1>10

\* A score can be reached in r windows (r counts no further than MaxRounds).
Reach(s, r) == r = MaxRounds \/ s <= FullStrength[r]

\* What NoHastyBlock needs: every score on its way to a decision can be reached
\* in the windows counted for it.
ReachInv ==
  /\ \A t \in Tokens : Reach(score[t], rounds[t])
  /\ work.step # "none" => Reach(work.score, work.rounds)
  /\ \A i \in DOMAIN out : out[i].action = "block" =>
       out[i].strong >= MinSignals /\ out[i].score >= Block /\ Reach(out[i].score, out[i].rounds)

\* One window more is one step of FullStrength at most.
LEMMA ReachSteps ==
  ASSUME NEW s \in 0 .. 100, NEW raw \in 0 .. 100, NEW r \in 0 .. MaxRounds, Reach(s, r)
  PROVE  Reach(Mixed(s, raw), AtMost(r + 1, MaxRounds))
<1>0. FullStrength[r] \in 0 .. 100
  BY FullStrengthFacts
<1>2. CASE r = MaxRounds
  BY <1>2, Settings DEF Reach, AtMost
<1>3. CASE r # MaxRounds
  <2>1. AtMost(r + 1, MaxRounds) = r + 1 /\ r \in 0 .. (MaxRounds - 1)
    BY <1>3, Settings DEF AtMost
  <2>2. FullStrength[r + 1] = Stronger(FullStrength[r])
    BY <2>1, FullStrengthFacts
  <2>3. FullStrength[r + 1] = Mixed(FullStrength[r], 100)
    BY <1>0, <2>2, StrongerIsMixed
  <2>4. s <= FullStrength[r] /\ raw <= 100 /\ 100 \in 0 .. 100
    BY <1>3 DEF Reach
  <2>5. Mixed(s, raw) <= Mixed(FullStrength[r], 100)
    BY <1>0, <2>4, MixedOrdered
  <2> QED
    BY <2>1, <2>3, <2>5 DEF Reach
<1> QED
  BY <1>2, <1>3

\* No score is ahead of the windows counted for it.
LEMMA ScoresReach ==
  ASSUME TypeOK, ReachInv, [Next]_vars
  PROVE  \A t \in Tokens : Reach(score'[t], rounds'[t])
<1> SUFFICES ASSUME NEW u \in Tokens PROVE Reach(score'[u], rounds'[u])
  OBVIOUS
<1>0. score[u] \in 0 .. 100 /\ rounds[u] \in 0 .. MaxRounds /\ Reach(score[u], rounds[u])
  BY DEF TypeOK, ReachInv
<1>1. CASE UNCHANGED <<score, since, rounds>>
  BY <1>0, <1>1
<1>2. ASSUME NEW t \in Tokens, NEW reading \in Readings, Accumulate(t, reading)
      PROVE  Reach(score'[u], rounds'[u])
  <2>1. /\ score' = [score EXCEPT ![t] = Mixed(score[t], Raw(reading))]
        /\ rounds' = [rounds EXCEPT ![t] = AtMost(rounds[t] + 1, MaxRounds)]
        /\ Raw(reading) \in 0 .. 100
    BY <1>2, AccumulateFacts, RawRange
  <2>2. CASE u = t
    <3>1. /\ score'[u] = Mixed(score[u], Raw(reading))
          /\ rounds'[u] = AtMost(rounds[u] + 1, MaxRounds)
      BY <2>1, <2>2 DEF TypeOK
    <3>2. Reach(Mixed(score[u], Raw(reading)), AtMost(rounds[u] + 1, MaxRounds))
      BY <1>0, <2>1, ReachSteps
    <3> QED
      BY <3>1, <3>2
  <2>3. CASE u # t
    <3>1. score'[u] = score[u] /\ rounds'[u] = rounds[u]
      BY <2>1, <2>3 DEF TypeOK
    <3> QED
      BY <1>0, <3>1
  <2> QED
    BY <2>2, <2>3
<1>3. ASSUME NEW t \in Tokens, Clamp(t) PROVE Reach(score'[u], rounds'[u])
  <2>1. score' = [score EXCEPT ![t] = Clamped(score[t])] /\ rounds' = rounds
    BY <1>3 DEF Clamp
  <2>2. CASE u = t
    <3>1. score'[u] = Clamped(score[u]) /\ rounds'[u] = rounds[u]
      BY <2>1, <2>2 DEF TypeOK
    <3>2. Clamped(score[u]) \in 0 .. score[u]
      BY <1>0, Settings DEF Clamped, AtMost
    <3>3. \A l \in 0 .. score[u] : Reach(l, rounds[u])
      <4>1. FullStrength[rounds[u]] \in 0 .. 100
        BY <1>0, FullStrengthFacts
      <4> QED
        BY <1>0, <4>1 DEF Reach
    <3> QED
      BY <3>1, <3>2, <3>3
  <2>3. CASE u # t
    <3>1. score'[u] = score[u] /\ rounds'[u] = rounds[u]
      BY <2>1, <2>3 DEF TypeOK
    <3> QED
      BY <1>0, <3>1
  <2> QED
    BY <2>2, <2>3
<1>4. CASE Restart
  <2>1. score'[u] = 0 /\ rounds'[u] = 0
    BY <1>4 DEF Restart
  <2> QED
    BY <2>1, FullStrengthFacts DEF Reach
<1> QED
  BY <1>1, <1>2, <1>3, <1>4, ScoreSteps

\* Nor is the score a decision is being made on.
LEMMA WorkReaches ==
  ASSUME TypeOK, ReachInv, [Next]_vars, work'.step # "none"
  PROVE  Reach(work'.score, work'.rounds)
<1>1. CASE UNCHANGED work
  BY <1>1 DEF ReachInv
<1>2. ASSUME NEW t \in Tokens, NEW reading \in Readings, Accumulate(t, reading)
      PROVE  Reach(work'.score, work'.rounds)
  <2>1. work'.score = score'[t] /\ work'.rounds = rounds'[t]
    BY <1>2, AccumulateFacts
  <2> QED
    BY <2>1, ScoresReach
<1>3. CASE Recall
  <2>1. work \in Jobs /\ work.step # "none"
    BY <1>3 DEF TypeOK, Jobs, Recall
  <2>2. work'.score = work.score /\ work'.rounds = work.rounds
    BY <1>3, <2>1 DEF Recall, Jobs
  <2> QED
    BY <2>1, <2>2 DEF ReachInv
<1>4. CASE Decide \/ Restart
  BY <1>4, NoWorkIsJob DEF Decide, Restart
<1>5. ASSUME NEW t \in Tokens, NEW n \in 0 .. 2, Observe(t, n) PROVE UNCHANGED work
  BY <1>5 DEF Observe
<1>6. ASSUME NEW t \in Tokens, Clamp(t) \/ Quiet(t) \/ Pass(t) \/ Exhaust(t) PROVE UNCHANGED work
  BY <1>6 DEF Clamp, Quiet, Pass, Exhaust
<1>7. ASSUME Snapshot \/ Apply \/ ApplyFails \/ UNCHANGED vars PROVE UNCHANGED work
  BY <1>7 DEF Snapshot, Apply, ApplyFails, vars
<1> QED
  BY <1>1, <1>2, <1>3, <1>4, <1>5, <1>6, <1>7 DEF Next, Flush

Proper(d) ==
  d.action = "block" => d.strong >= MinSignals /\ d.score >= Block /\ Reach(d.score, d.rounds)

\* Nor is the score of a decision made, and a block has its signals.
LEMMA OutProper ==
  ASSUME TypeOK, ReachInv, [Next]_vars
  PROVE  \A i \in DOMAIN out' : Proper(out'[i])
<1>0. out \in Seq(Decisions) /\ \A i \in DOMAIN out : Proper(out[i])
  BY DEF TypeOK, ReachInv, Proper
<1>1. CASE UNCHANGED out
  BY <1>0, <1>1
<1>2. CASE Decide
  <2>1. PICK d \in Decisions :
          /\ out' = Append(out, d) /\ d.score = work.score /\ d.rounds = work.rounds
          /\ d.action = "block" => d.score >= Block /\ d.strong >= MinSignals
    BY <1>2, DecideFacts
  <2>2. Reach(work.score, work.rounds)
    BY <1>2 DEF Decide, ReachInv
  <2>3. Proper(d)
    BY <2>1, <2>2 DEF Proper
  <2>4. \A i \in DOMAIN out' : out'[i] = d \/ (i \in DOMAIN out /\ out'[i] = out[i])
    BY <1>0, <2>1
  <2> QED
    BY <1>0, <2>3, <2>4
<1>3. CASE Apply \/ ApplyFails
  <2>1. out # << >> /\ out' = Tail(out)
    BY <1>3 DEF Apply, ApplyFails, Ready
  <2>2. \A i \in DOMAIN out' : i + 1 \in DOMAIN out /\ out'[i] = out[i + 1]
    BY <1>0, <2>1
  <2> QED
    BY <1>0, <2>2
<1>4. CASE Restart
  BY <1>4 DEF Restart
<1>5. ASSUME NEW t \in Tokens, NEW n \in 0 .. 2, Observe(t, n) PROVE UNCHANGED out
  BY <1>5 DEF Observe
<1>6. ASSUME NEW t \in Tokens, Clamp(t) \/ Quiet(t) \/ Pass(t) \/ Exhaust(t) PROVE UNCHANGED out
  BY <1>6 DEF Clamp, Quiet, Pass, Exhaust
<1>7. ASSUME Snapshot \/ Recall \/ UNCHANGED vars PROVE UNCHANGED out
  BY <1>7 DEF Snapshot, Recall, vars
<1>8. ASSUME NEW t \in Tokens, NEW reading \in Readings, Accumulate(t, reading) PROVE UNCHANGED out
  BY <1>8 DEF Accumulate
<1> QED
  BY <1>1, <1>2, <1>3, <1>4, <1>5, <1>6, <1>7, <1>8 DEF Next, Flush

\* No immediate block, for any number of tokens and signals and any valid
\* settings: a block on its way to Redis has MinSignals signals behind it and at
\* least as many windows since the process started as full-strength windows need
\* to climb to Block.  The hypothesis says that the history counts far enough:
\* within MaxRounds windows at full strength the threshold is reached.
THEOREM NoHastyBlockHolds == FullStrength[MaxRounds] >= Block => (Spec => []NoHastyBlock)
<1> SUFFICES ASSUME FullStrength[MaxRounds] >= Block PROVE Spec => []NoHastyBlock
  OBVIOUS
<1>1. Init => ReachInv
  BY FullStrengthFacts, NoWorkIsJob DEF Init, NewScorer, ReachInv, Reach
<1>2. (TypeOK /\ ReachInv) /\ [Next]_vars => (TypeOK /\ ReachInv)'
  <2> SUFFICES ASSUME TypeOK, ReachInv, [Next]_vars PROVE TypeOK' /\ ReachInv'
    OBVIOUS
  <2>1. TypeOK'
    BY StepType
  <2>2. \A i \in DOMAIN out' : Proper(out'[i])
    BY OutProper
  <2>3. (\A t \in Tokens : Reach(score[t], rounds[t]))'
    BY ScoresReach
  <2>4. (work.step # "none" => Reach(work.score, work.rounds))'
    BY WorkReaches
  <2> QED
    BY <2>1, <2>2, <2>3, <2>4 DEF ReachInv, Proper
<1>3. TypeOK /\ ReachInv => NoHastyBlock
  <2> SUFFICES ASSUME TypeOK, ReachInv, NEW i \in DOMAIN out, out[i].action = "block"
               PROVE  out[i].strong >= MinSignals /\ FullStrength[out[i].rounds] >= Block
    BY DEF NoHastyBlock
  <2>1. out[i].strong >= MinSignals /\ out[i].score >= Block /\ Reach(out[i].score, out[i].rounds)
    BY DEF ReachInv
  <2>2. out[i] \in Decisions
    BY DEF TypeOK
  <2>3. out[i].score \in 0 .. 100 /\ out[i].rounds \in 0 .. MaxRounds
    BY <2>2 DEF Decisions
  <2>4. FullStrength[out[i].rounds] \in 0 .. 100
    BY <2>3, FullStrengthFacts
  <2> QED
    BY <2>1, <2>3, <2>4, Settings DEF Reach
<1>4. Init => TypeOK
  BY InitType
<1> QED
  BY <1>1, <1>2, <1>3, <1>4, PTL DEF Spec

===============================================================================
