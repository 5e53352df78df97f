------------------------------- MODULE MCScorer -------------------------------
(* One token under every interleaving of consumer, flush, apply and gate. *)
EXTENDS Scorer, TLC

\* Two signals.  A window shows nothing, both signals in part or in full, or one in full
\* and the other below the size that counts.
MCWeight == "heartbeat" :> 60 @@ "correlation" :> 40
MCReadings ==
  {"heartbeat" :> h @@ "correlation" :> c : <<h, c>> \in {<<0, 0>>, <<55, 55>>, <<100, 80>>, <<100, 100>>}}

-------------------------------------------------------------------------------
(* What a comment says of Run, beyond what it does *)

\* Nobody passes a re-challenge and the process lives; all that goes wrong is
\* that now and then a script does not run.  Events keep coming in, and a
\* decision that is made again and again is applied at last.
LadderNext ==
  \/ Flush
  \/ Apply \/ ApplyFails
  \/ \E t \in Tokens : Observe(t, 2)

LadderSpec ==
  /\ Init /\ [][LadderNext]_vars /\ Fairness /\ SF_vars(Apply)
  /\ \A t \in Tokens : WF_vars(Observe(t, 2)) /\ SF_vars(\E reading \in Readings : Accumulate(t, reading))

\* "Even if apply fails the loop does not stop.  The action is only late"
\* (scorer.go:265): a held token that shows nothing suspicious any more is set
\* free, there being no other way out for it.
OnlyLate == \A t \in Tokens : <>[]Calm(t) => <>[](level[t] # "held")
===============================================================================
