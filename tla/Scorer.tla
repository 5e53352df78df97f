-------------------------------- MODULE Scorer --------------------------------
(***************************************************************************)
(* One scorer process and what its decisions do to the ladder in Redis.     *)
(* Two goroutines share the scores and the ladder memory under one mutex:   *)
(* the consumer (Observe, Clamp) and Run (Flush, then Apply, one decision   *)
(* after the other, in the same goroutine).  Every critical section is an   *)
(* action.  The scripts behind Apply are in ShardQueue; here a token has    *)
(* the four rungs of the ladder and no place in a line.                     *)
(*                                                                         *)
(* Scores and signals are whole percent points, rounded down where the code *)
(* has fractions.                                                          *)
(***************************************************************************)
EXTENDS Integers, Sequences, FiniteSets, FiniteSetsExt

CONSTANTS
  Tokens, NoToken,
  Signals,         \* names of the signals
  Weight,          \* signal -> weight, in percent
  Readings,        \* what a window may show: signal -> 0 .. 100, 0 when missing
  MinContrib,      \* a signal of this size points at the token
  Decay,           \* share of the old score in the new one, in percent
  Greylist, Hold, Block, PassScore, MinSignals, MinSamples, MaxAttempts,
  MaxNotices,      \* bound: pass notices of a token under way
  MaxRounds        \* bound: windows a token's history counts

\* What config.Validate asks of the score settings.  A Decay of 100 is allowed.
ValidScores ==
  /\ 0 < Greylist /\ Greylist < Hold /\ Hold < Block /\ Block <= 100
  /\ 0 <= PassScore /\ PassScore < Greylist
  /\ MinSamples > 0 /\ MaxAttempts >= 1 /\ MinSignals >= 2
  /\ 0 < MinContrib /\ MinContrib <= 100
  /\ 0 < Decay /\ Decay <= 100
  /\ MapThenSumSet(LAMBDA s : Weight[s], Signals) = 100

ASSUME SettingsAreIntegers ==
  /\ {Greylist, Hold, Block, PassScore, MinSignals, MinSamples, MaxAttempts,
      MinContrib, Decay, MaxNotices, MaxRounds} \subseteq Int
  /\ Weight \in [Signals -> 0 .. 100]
  /\ Readings \subseteq [Signals -> 0 .. 100]
  /\ NoToken \notin Tokens /\ IsFiniteSet(Signals)
  /\ MaxNotices >= 0 /\ MaxRounds >= 0
ASSUME SettingsAreValid == ValidScores

VARIABLES
  window,    \* token -> [samples, recent]: what is in the window of its shard
  score,     \* token -> accumulated score
  ladder,    \* token -> last action decided ("none": no entry in states)
  todo,      \* tokens of the snapshot still to be decided
  work,      \* the decision being made
  out,       \* decisions made and not yet applied
  level,     \* token -> its rung in Redis
  attempts,  \* token -> re-challenges passed
  notices,   \* token -> pass notices between the gate and the consumer
  since,     \* history: strongest window since the last clamp or restart
  rounds,    \* history: windows scored since the last restart
  late       \* history: isolations since the last clamp or restart that no window
             \* since then accounts for (two or more count as two)

vars == <<window, score, ladder, todo, work, out, level, attempts, notices, since, rounds, late>>

-------------------------------------------------------------------------------
Actions == {"observe", "greylist", "hold", "block", "restore"}

NoWork == [token |-> NoToken, step |-> "none", raw |-> 0, score |-> 0,
           strong |-> 0, rounds |-> 0, prev |-> "none"]

Empty == [samples |-> 0, recent |-> FALSE]

AtMost(a, b) == IF a < b THEN a ELSE b
Larger(a, b) == IF a < b THEN b ELSE a

\* NewScorer, the way a restart leaves it.
NewScorer ==
  /\ window = [t \in Tokens |-> Empty]
  /\ score  = [t \in Tokens |-> 0]
  /\ ladder = [t \in Tokens |-> "none"]
  /\ todo = {} /\ work = NoWork /\ out = << >>
  /\ since  = [t \in Tokens |-> 0]
  /\ rounds = [t \in Tokens |-> 0]
  /\ late   = [t \in Tokens |-> 0]

Init ==
  /\ NewScorer
  /\ level    = [t \in Tokens |-> "waiting"]
  /\ attempts = [t \in Tokens |-> 0]
  /\ notices  = [t \in Tokens |-> 0]

-------------------------------------------------------------------------------
(* The consumer's goroutine *)

\* samples() counts beats and intervals: the first heartbeat brings one, a
\* later one two, any other event none.  The slices are capped far above
\* MinSamples.
Added(o, n) == [samples |-> AtMost(o.samples + n, MinSamples), recent |-> TRUE]

Observe(t, n) ==
  /\ window' = [window EXCEPT ![t] = Added(@, n)]
  /\ UNCHANGED <<score, ladder, todo, work, out, level, attempts, notices, since, rounds, late>>

\* Mutant: the ladder memory is cleared and the score left as it is.
ClampedNever(s) == s

Clamped(s) == AtMost(s, PassScore)

\* The notice of a passed re-challenge; after a restart of the consumer it may
\* be delivered once more.  The window keeps what it has seen, and a decision
\* under way goes on.
Clamp(t) ==
  /\ notices[t] > 0
  /\ score'  = [score EXCEPT ![t] = Clamped(@)]
  /\ ladder' = [ladder EXCEPT ![t] = "none"]
  /\ since'  = [since EXCEPT ![t] = 0]
  /\ late'   = [late EXCEPT ![t] = 0]
  /\ \/ notices' = [notices EXCEPT ![t] = @ - 1]
     \/ UNCHANGED notices
  /\ UNCHANGED <<window, todo, work, out, level, attempts, rounds>>

\* The window of a token passes without an event of it.
Quiet(t) ==
  /\ window[t].recent
  /\ window' = [window EXCEPT ![t].recent = FALSE]
  /\ UNCHANGED <<score, ladder, todo, work, out, level, attempts, notices, since, rounds, late>>

-------------------------------------------------------------------------------
(* Run's goroutine: Flush *)

Idle == todo = {} /\ work = NoWork /\ out = << >>

\* windows.snapshot: stale observations go, the rest are copied.
Snapshot ==
  /\ Idle
  /\ window' = [t \in Tokens |-> IF window[t].recent THEN window[t] ELSE Empty]
  /\ todo' = {t \in Tokens : window[t].recent /\ window[t].samples >= MinSamples}
  /\ UNCHANGED <<score, ladder, work, out, level, attempts, notices, since, rounds, late>>

\* combine: the weighted sum, and how many signals point at the token.
Raw(reading) ==
  LET weighted == [s \in Signals |-> Weight[s] * reading[s]]
  IN  AtMost(MapThenSumSet(LAMBDA s : weighted[s], Signals) \div 100, 100)
Strong(reading) == Cardinality({s \in Signals : reading[s] >= MinContrib})

\* Mutants: a strong window counts at once; the new window is not weighted.
MixedAtOnce(prev, raw) == Larger(prev, raw)
MixedSum(prev, raw) == ((prev * Decay) \div 100) + raw

Mixed(prev, raw) == (prev * Decay + raw * (100 - Decay)) \div 100

\* evaluate and accumulate.
Accumulate(t, reading) ==
  LET raw == Raw(reading)
      new == Mixed(score[t], raw)
  IN  /\ work = NoWork /\ t \in todo
      /\ score'  = [score EXCEPT ![t] = new]
      /\ since'  = [since EXCEPT ![t] = Larger(@, raw)]
      /\ rounds' = [rounds EXCEPT ![t] = AtMost(@ + 1, MaxRounds)]
      /\ work'   = [NoWork EXCEPT !.token = t, !.step = "scored", !.raw = raw, !.score = new,
                                  !.strong = Strong(reading), !.rounds = rounds'[t]]
      /\ todo'   = todo \ {t}
      /\ UNCHANGED <<window, ladder, out, level, attempts, notices, late>>

\* action, first critical section.
Recall ==
  /\ work.step = "scored"
  /\ work' = [work EXCEPT !.step = "recalled", !.prev = ladder[work.token]]
  /\ UNCHANGED <<window, score, ladder, todo, out, level, attempts, notices, since, rounds, late>>

\* Mutant: only the greylist is undone.
RungHoldKept(s, strong, prev) ==
  CASE s >= Block    -> IF strong < MinSignals THEN "hold" ELSE "block"
    [] s >= Hold     -> "hold"
    [] s >= Greylist -> "greylist"
    [] OTHER         -> IF prev = "greylist" THEN "restore" ELSE "observe"

Rung(s, strong, prev) ==
  CASE s >= Block    -> IF strong < MinSignals THEN "hold" ELSE "block"
    [] s >= Hold     -> "hold"
    [] s >= Greylist -> "greylist"
    [] OTHER         -> IF prev \in {"greylist", "hold"} THEN "restore" ELSE "observe"

\* action, second critical section; the decision is made.  Flush sorts its list
\* by shard and token before it returns: a token is on it once, and its decision
\* touches no other token, so the order of the list is left as it comes.
Decide ==
  LET next == Rung(work.score, work.strong, work.prev)
  IN  /\ work.step = "recalled"
      /\ ladder' = [ladder EXCEPT ![work.token] =
                      CASE next = "restore" -> "none"
                        [] next = "observe" -> @
                        [] OTHER            -> next]
      /\ out' = Append(out, [token |-> work.token, action |-> next, score |-> work.score,
                             strong |-> work.strong, rounds |-> work.rounds])
      /\ work' = NoWork
      /\ UNCHANGED <<window, score, todo, level, attempts, notices, since, rounds, late>>

-------------------------------------------------------------------------------
(* Run's goroutine: Actuator.Apply, on the list Flush returned *)

\* What the scripts make of a decision on a token at rung l.
Applied(l, action) ==
  CASE l = "blocked"                                        -> l
    [] action = "greylist" /\ l = "waiting"                 -> "greylist"
    [] action = "hold"                                      -> "held"
    [] action = "block"                                     -> "blocked"
    [] action = "restore" /\ l \in {"greylist", "held"}     -> "waiting"
    [] OTHER                                                -> l

Isolating == {"greylist", "hold", "block"}

\* No window scored since the last clamp was strong enough to isolate t.
Unfounded(t) == since[t] < Greylist

Ready == todo = {} /\ work = NoWork /\ out # << >>

Apply ==
  LET d == Head(out)
  IN  /\ Ready
      /\ out' = Tail(out)
      /\ level' = [level EXCEPT ![d.token] = Applied(@, d.action)]
      /\ late' = [late EXCEPT ![d.token] =
                    IF d.action \in Isolating /\ Unfounded(d.token) THEN AtMost(@ + 1, 2) ELSE @]
      /\ UNCHANGED <<window, score, ladder, todo, work, attempts, notices, since, rounds>>

\* The script did not run; the error is logged and the next decision follows.
ApplyFails ==
  /\ Ready
  /\ out' = Tail(out)
  /\ UNCHANGED <<window, score, ladder, todo, work, level, attempts, notices, since, rounds, late>>

\* The process dies and is started anew; the ladder in Redis and the notices in
\* Kafka stay.
Restart ==
  /\ window' = [t \in Tokens |-> Empty]
  /\ score'  = [t \in Tokens |-> 0]
  /\ ladder' = [t \in Tokens |-> "none"]
  /\ todo' = {} /\ work' = NoWork /\ out' = << >>
  /\ since'  = [t \in Tokens |-> 0]
  /\ rounds' = [t \in Tokens |-> 0]
  /\ late'   = [t \in Tokens |-> 0]
  /\ UNCHANGED <<level, attempts, notices>>

-------------------------------------------------------------------------------
(* The gate: a re-challenge is passed (reverify, rechallenge.lua) *)

\* Restored, and the notice is published or dropped on the way.
Pass(t) ==
  /\ level[t] = "greylist"
  /\ attempts[t] < MaxAttempts
  /\ attempts' = [attempts EXCEPT ![t] = @ + 1]
  /\ level'    = [level EXCEPT ![t] = "waiting"]
  /\ \/ notices[t] < MaxNotices /\ notices' = [notices EXCEPT ![t] = @ + 1]
     \/ UNCHANGED notices
  /\ UNCHANGED <<window, score, ladder, todo, work, out, since, rounds, late>>

\* Once too often: held, and nothing is published.
Exhaust(t) ==
  /\ level[t] = "greylist"
  /\ attempts[t] >= MaxAttempts
  /\ level' = [level EXCEPT ![t] = "held"]
  /\ UNCHANGED <<window, score, ladder, todo, work, out, attempts, notices, since, rounds, late>>

Flush ==
  \/ Snapshot
  \/ \E t \in Tokens, reading \in Readings : Accumulate(t, reading)
  \/ Recall
  \/ Decide

Next ==
  \/ Flush
  \/ Apply \/ ApplyFails
  \/ Restart
  \/ \E t \in Tokens :
       \/ \E n \in 0 .. 2 : Observe(t, n)
       \/ Clamp(t) \/ Quiet(t)
       \/ Pass(t) \/ Exhaust(t)

\* The ticker of Run fires for ever and Apply goes through its whole list.
Fairness == WF_vars(Flush) /\ WF_vars(Apply \/ ApplyFails)

Spec == Init /\ [][Next]_vars /\ Fairness

-------------------------------------------------------------------------------
(* Properties *)

Decisions ==
  [token : Tokens, action : Actions, score : 0 .. 100, strong : Nat, rounds : 0 .. MaxRounds]

\* Scores stay on the scale of the thresholds, and a step of Run is one of
\* flushing, deciding and applying.
TypeOK ==
  /\ window \in [Tokens -> [samples : 0 .. MinSamples, recent : BOOLEAN]]
  /\ score \in [Tokens -> 0 .. 100]
  /\ ladder \in [Tokens -> {"none", "greylist", "hold", "block"}]
  /\ todo \subseteq Tokens
  /\ work \in [token : Tokens \cup {NoToken}, step : {"none", "scored", "recalled"},
               raw : 0 .. 100, score : 0 .. 100, strong : Nat, rounds : 0 .. MaxRounds,
               prev : {"none", "greylist", "hold", "block"}]
  /\ work.step = "none" \/ work.token \in Tokens
  /\ out \in Seq(Decisions)
  /\ level \in [Tokens -> {"waiting", "greylist", "held", "blocked"}]
  /\ attempts \in [Tokens -> 0 .. MaxAttempts]
  /\ notices \in [Tokens -> 0 .. MaxNotices]
  /\ since \in [Tokens -> 0 .. 100]
  /\ rounds \in [Tokens -> 0 .. MaxRounds]
  /\ late \in [Tokens -> 0 .. 2]

\* A passed re-challenge is not forgotten by the next flush.  After the scorer
\* hears of it (or starts), a score isolates only if a window scored since then
\* was itself at the threshold, and a decision is applied without such a window
\* at most once: the one that Flush had under way when Clamp came, which Run
\* carries out all the same (Clamp, Flush, Run).  "Scored since then" is not
\* "seen since then": Clamp leaves the beats in the window, so the next window
\* may still show what came before the pass.
ScoredAnew ==
  \A t \in Tokens : (score[t] >= Greylist => ~Unfounded(t)) /\ late[t] <= 1

\* Score after n windows at full strength.
FullStrength[n \in 0 .. MaxRounds] == 
  IF n = 0 THEN 0 ELSE (FullStrength[n - 1] * Decay + 100 * (100 - Decay)) \div 100

\* No immediate block: a block that is about to be applied has at least
\* MinSignals signals behind it and so many windows scored since the process
\* started that even the strongest would have taken as many (accumulate: "more
\* than twenty windows" at the default decay).
NoHastyBlock ==
  \A i \in DOMAIN out : out[i].action = "block" =>
    out[i].strong >= MinSignals /\ FullStrength[out[i].rounds] >= Block

Isolated(t) == level[t] \in {"greylist", "held"}

\* The scorer still knows that it isolated t, or is about to set t free.
Remembers(t) ==
  Isolated(t) =>
    \/ ladder[t] \in {"greylist", "hold"}
    \/ work.token = t /\ work.prev \in {"greylist", "hold"}
    \/ \E i \in DOMAIN out : out[i].token = t /\ out[i].action = "restore"

Calm(t) == work.token = t => work.raw < Greylist

\* A false alarm ends: a token that is scored again and again and shows nothing
\* suspicious any more is free from some moment on, in whatever order decisions,
\* failures and passes came before, unless the scorer forgot the isolation
\* (action, restore_shard.lua).
FalseAlarmsEnd ==
  \A t \in Tokens :
    /\ <>[](Calm(t) /\ Remembers(t))
    /\ []<>(work.token = t)
    => <>[]~Isolated(t)
===============================================================================
