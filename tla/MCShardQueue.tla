----------------------------- MODULE MCShardQueue -----------------------------
(* Small instances of ShardQueue. *)
EXTENDS ShardQueue, TLC

JtiSymmetry == Permutations(Jtis)

\* The ladder against the line, with the clock stopped: nothing expires and
\* nobody goes stale, so longer interleavings of the other scripts fit.
LadderNext ==
  \/ \E u \in Tokens :
       \/ \E d \in Draws : Enqueue(u, d)
       \/ \E j \in Jtis : Admit(u, j) \/ Redeem(u, j)
       \/ Decide(u)
       \/ Rechallenge(u)
  \/ \E g \in Grants : Refill(g)
  \/ CloseLottery

LadderSpec == Init /\ [][LadderNext]_vars

-------------------------------------------------------------------------------
(* What comments and documents say of the scripts, beyond what they do *)

\* "A user who has already exchanged does not get a new entry token but gets
\* the original jti back" (admit.lua:11): one token, one entry token.
SingleEntry ==
  \A u \in Tokens : Cardinality({j \in Jtis : minted[j] = u}) <= 1
===============================================================================
