------------------------------ MODULE WaitingLine ------------------------------
(***************************************************************************)
(* What a shard promises its users, without ZSETs, hashes or scripts: a     *)
(* token has a place, handed out once when it joins; it may be set aside    *)
(* and return, always to that place; it enters only from the line, only on  *)
(* a free seat and only when fewer tokens stand ahead than seats are free;  *)
(* being barred is final; and when the draw is over, newcomers stand behind *)
(* everybody.                                                               *)
(***************************************************************************)
EXTENDS Integers, FiniteSets

CONSTANTS Tokens, NoPlace, MaxSeats

VARIABLES phase, place, seats, draw

lineVars == <<phase, place, seats, draw>>

Ahead(u) ==
  {v \in Tokens : /\ phase[v] = "line"
                  /\ place[v] < place[u] \/ (place[v] = place[u] /\ v < u)}

Init ==
  /\ phase = [u \in Tokens |-> "out"]
  /\ place = [u \in Tokens |-> NoPlace]
  /\ seats = 0
  /\ draw = TRUE

Becomes(u, p) == phase' = [phase EXCEPT ![u] = p]

Join(u) ==
  /\ phase[u] = "out"
  /\ Becomes(u, "line")
  /\ place'[u] # NoPlace
  /\ place' = [place EXCEPT ![u] = place'[u]]
  /\ ~draw => \A v \in Tokens : place[v] < place'[u]
  /\ UNCHANGED <<seats, draw>>

Enter(u) ==
  /\ phase[u] = "line"
  /\ Cardinality(Ahead(u)) < seats
  /\ Becomes(u, "in")
  /\ seats' = seats - 1
  /\ UNCHANGED <<place, draw>>

\* A token that joined can be set aside until it is barred or gone, after it
\* entered or left as well.
SetAside(u) ==
  /\ place[u] # NoPlace
  /\ phase[u] \in {"line", "in", "out"}
  /\ Becomes(u, "aside")
  /\ UNCHANGED <<place, seats, draw>>

Return(u) ==
  /\ phase[u] = "aside"
  /\ Becomes(u, "line")
  /\ UNCHANGED <<place, seats, draw>>

Bar(u) ==
  /\ place[u] # NoPlace
  /\ Becomes(u, "barred")
  /\ UNCHANGED <<place, seats, draw>>

Grant ==
  /\ seats' \in 0 .. MaxSeats
  /\ UNCHANGED <<phase, place, draw>>

\* Time passes: some tokens leave the line, some are forgotten after leaving,
\* some are gone for good; free seats may lapse.
Passes(u) ==
  \/ phase'[u] = phase[u] /\ place'[u] = place[u]
  \/ phase[u] = "line" /\ phase'[u] = "out" /\ place'[u] = place[u]
  \/ phase[u] = "out"  /\ phase'[u] = "out" /\ place'[u] = NoPlace
  \/ phase[u] # "out"  /\ phase'[u] = "gone" /\ place'[u] = NoPlace

Elapse ==
  /\ DOMAIN phase' = Tokens /\ DOMAIN place' = Tokens
  /\ \A u \in Tokens : Passes(u)
  /\ seats' \in {0, seats}
  /\ UNCHANGED draw

CloseDraw ==
  /\ draw /\ draw' = FALSE
  /\ UNCHANGED <<phase, place, seats>>

Next ==
  \/ \E u \in Tokens : Join(u) \/ Enter(u) \/ SetAside(u) \/ Return(u) \/ Bar(u)
  \/ Grant
  \/ Elapse
  \/ CloseDraw

Spec == Init /\ [][Next]_lineVars
===============================================================================
