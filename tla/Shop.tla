--------------------------------- MODULE Shop ---------------------------------
(***************************************************************************)
(* The purchase behind the gate (ShopAPI.create): every request looks up    *)
(* its idempotency key in PostgreSQL, burns its entry token in Redis and    *)
(* inserts the order.  The three calls are atomic each and nothing spans    *)
(* them: requests interleave between them, a call may fail before or after  *)
(* its effect, the process may stop, an entry token may expire, and a Redis *)
(* failover may bring a burned one back.                                    *)
(***************************************************************************)
EXTENDS Integers, FiniteSets

CONSTANTS
  Requests,                 \* requests that passed the checks of header and body
  Jtis, Tokens, Accounts, Keys,
  Owner,                    \* jti -> the queue token its entry token was signed for
  Form,                     \* request -> [jti, account, key]
  MaxFailovers              \* bound

ASSUME FormAssumption ==
  /\ Owner \in [Jtis -> Tokens]
  /\ Form \in [Requests -> [jti : Jtis, account : Accounts, key : Keys]]
  /\ MaxFailovers \in Nat

VARIABLES
  entry,    \* jti -> is the entry token's record in Redis?
  orders,   \* rows of the orders table: [jti, account, key, by]
  pc,       \* request -> the call it makes next
  answer,   \* request -> [kind, order]: what the client was told, with which row
  through,  \* history: the requests whose burn succeeded
  failovers \* history: how often Redis failed over

history == <<through, failovers>>
vars == <<entry, orders, pc, answer, through, failovers>>

NoOrder == [jti |-> "", account |-> "", key |-> "", by |-> ""]
Waiting == [kind |-> "none", order |-> NoOrder]

Init ==
  /\ entry \in [Jtis -> BOOLEAN]
  /\ orders = {}
  /\ pc = [r \in Requests |-> "lookup"]
  /\ answer = [r \in Requests |-> Waiting]
  /\ through = {}
  /\ failovers = 0

Goto(r, p) == pc' = [pc EXCEPT ![r] = p] /\ UNCHANGED answer

Answer(r, kind, order) ==
  /\ pc' = [pc EXCEPT ![r] = "done"]
  /\ answer' = [answer EXCEPT ![r] = [kind |-> kind, order |-> order]]

-------------------------------------------------------------------------------
(* Orders.FindByIdempotencyKey, Orders.Create *)

WithKey(k) == {o \in orders : o.key = k}

Row(r) == [jti |-> Form[r].jti, account |-> Form[r].account, key |-> Form[r].key, by |-> r]

\* The UNIQUE constraints that a new row violates.
Violated(row) ==
  {c \in {"jti", "account", "key"} : \E o \in orders : o[c] = row[c]}
    \cup (IF \E o \in orders : Owner[o.jti] = Owner[row.jti] THEN {"token"} ELSE {})

-------------------------------------------------------------------------------
(* create *)

Lookup(r) ==
  /\ pc[r] = "lookup"
  /\ \/ \E o \in WithKey(Form[r].key) : Answer(r, "replayed", o)
     \/ WithKey(Form[r].key) = {} /\ Goto(r, "burn")
  /\ UNCHANGED <<entry, orders, history>>

\* Mutant: the script answers "burned" and leaves the record.
RedeemedKept(j) == entry

\* redeem.lua, the DEL.
Redeemed(j) == [entry EXCEPT ![j] = FALSE]

\* "mismatch" cannot happen: jti and token are signed together.
Burn(r) ==
  /\ pc[r] = "burn"
  /\ \/ /\ entry[Form[r].jti]
        /\ entry' = Redeemed(Form[r].jti)
        /\ through' = through \cup {r}
        /\ Goto(r, "insert")
     \/ /\ ~entry[Form[r].jti]
        /\ Answer(r, "entry_spent", NoOrder)
        /\ UNCHANGED <<entry, through>>
  /\ UNCHANGED <<orders, failovers>>

\* Mutant: a row lost to a concurrent request is taken for the own one.
RefusedUnnoticed(r, c) ==
  \/ c = "jti" /\ Answer(r, "entry_reused", NoOrder)
  \/ c = "key" /\ Answer(r, "created", Row(r))
  \/ c \in {"account", "token"} /\ Answer(r, "already_purchased", NoOrder)

\* Which of several violated constraints is reported is up to PostgreSQL.
Refused(r, c) ==
  \/ c = "jti" /\ Answer(r, "entry_reused", NoOrder)
  \/ c = "key" /\ Goto(r, "refetch")
  \/ c \in {"account", "token"} /\ Answer(r, "already_purchased", NoOrder)

Insert(r) ==
  /\ pc[r] = "insert"
  /\ \/ /\ Violated(Row(r)) = {}
        /\ orders' = orders \cup {Row(r)}
        /\ Answer(r, "created", Row(r))
     \/ /\ \E c \in Violated(Row(r)) : Refused(r, c)
        /\ UNCHANGED orders
  /\ UNCHANGED <<entry, history>>

Refetch(r) ==
  /\ pc[r] = "refetch"
  /\ \E o \in WithKey(Form[r].key) : Answer(r, "replayed", o)
  /\ UNCHANGED <<entry, orders, history>>

\* A call returns an error: before its effect or after it, nobody can tell.
Fails(r) ==
  /\ \/ /\ pc[r] = "lookup"
        /\ Answer(r, "unavailable", NoOrder)
        /\ UNCHANGED <<entry, orders>>
     \/ /\ pc[r] = "burn"
        /\ Answer(r, "unavailable", NoOrder)
        /\ entry' \in {entry, Redeemed(Form[r].jti)}
        /\ UNCHANGED orders
     \/ /\ pc[r] = "insert"
        /\ Answer(r, "unavailable", NoOrder)
        /\ orders' \in {orders, IF Violated(Row(r)) = {} THEN orders \cup {Row(r)} ELSE orders}
        /\ UNCHANGED entry
     \/ /\ pc[r] = "refetch"
        /\ Answer(r, "idempotency_conflict", NoOrder)
        /\ UNCHANGED <<entry, orders>>
  /\ UNCHANGED history

\* The process stops, or the answer never reaches the client.
Stops(r) ==
  /\ pc[r] # "done"
  /\ Answer(r, "lost", NoOrder)
  /\ UNCHANGED <<entry, orders, history>>

Expires(j) ==
  /\ entry[j]
  /\ entry' = [entry EXCEPT ![j] = FALSE]
  /\ UNCHANGED <<orders, pc, answer, history>>

\* Redis replicates asynchronously: the new primary may not know of some DELs.
Failover ==
  /\ failovers < MaxFailovers
  /\ \E back \in SUBSET {j \in Jtis : ~entry[j]} :
       entry' = [j \in Jtis |-> entry[j] \/ j \in back]
  /\ failovers' = failovers + 1
  /\ UNCHANGED <<orders, pc, answer, through>>

Serve(r) == Lookup(r) \/ Burn(r) \/ Insert(r) \/ Refetch(r)

Next ==
  \/ \E r \in Requests : Serve(r) \/ Fails(r) \/ Stops(r)
  \/ \E j \in Jtis : Expires(j)
  \/ Failover

Spec == Init /\ [][Next]_vars

-------------------------------------------------------------------------------
(* Properties *)

Same(o, p) ==
  o.account = p.account \/ o.key = p.key \/ o.jti = p.jti \/ Owner[o.jti] = Owner[p.jti]

Burners(j) == {r \in through : Form[r].jti = j}

\* Every order was paid with an entry token that its own request burned, and one
\* entry token lets one request through, and one more for each failover that may
\* have brought its record back: however requests race between look-up, burn and
\* insert, however often one is sent, and whether a failed burn had its effect
\* or not (ShopAPI.create, redeem.lua).
EntryPays ==
  /\ \A o \in orders : o.by \in through
  /\ \A j \in Jtis : Cardinality(Burners(j)) + (IF entry[j] THEN 1 ELSE 0) <= 1 + failovers

Told(r, kind) == answer[r].kind = kind

TrueFor(r) ==
  /\ Told(r, "created") => Row(r) \in orders /\ answer[r].order = Row(r)
  /\ Told(r, "replayed") => answer[r].order \in orders /\ answer[r].order.key = Form[r].key
  /\ answer[r].kind \in {"already_purchased", "entry_reused", "idempotency_conflict"} =>
       \E o \in orders : Same(o, Row(r)) /\ o.by # r

\* The client can rely on the answer: "created" is told to the one request whose
\* row it is, "replayed" shows a stored row of the request's own key, and a
\* refusal by a constraint has another request's order behind it.
Truthful == \A r \in Requests : TrueFor(r)
===============================================================================
