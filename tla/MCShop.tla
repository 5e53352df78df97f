-------------------------------- MODULE MCShop --------------------------------
(* Requests of two buyers. *)
EXTENDS Shop, TLC

\* Token t1 holds two entry tokens (ShardQueue shows how); r1 and r2 are one
\* request sent twice, r3 the same buyer with another entry token and key, r4
\* the other buyer under the first account, r5 the first key with another
\* entry token.
MCOwner == "j1" :> "t1" @@ "j2" :> "t1" @@ "j3" :> "t2"
MCForm ==
  LET form(j, a, k) == [jti |-> j, account |-> a, key |-> k]
      forms == "r1" :> form("j1", "a1", "k1") @@ "r2" :> form("j1", "a1", "k1") @@
               "r3" :> form("j2", "a2", "k2") @@ "r4" :> form("j3", "a1", "k3") @@
               "r5" :> form("j2", "a2", "k1")
  IN  [r \in Requests |-> forms[r]]
===============================================================================
