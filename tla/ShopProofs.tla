------------------------------ MODULE ShopProofs ------------------------------
(***************************************************************************)
(* For any number of requests, entry tokens, accounts and keys: no order    *)
(* without an entry token burned for it, no entry token burned twice but    *)
(* for failovers, and clients are told the truth about their order.         *)
(***************************************************************************)
EXTENDS Shop, FiniteSetTheorems, TLAPS

\* Who inserted a row is finished with it; a request sent back by its key's
\* constraint has a stored row to find.
Inserted ==
  \A o \in orders : o.by \in Requests /\ o = Row(o.by) /\ pc[o.by] = "done"
Findable ==
  \A r \in Requests : pc[r] = "refetch" => WithKey(Form[r].key) # {}
Shapes ==
  /\ pc \in [Requests -> {"lookup", "burn", "insert", "refetch", "done"}]
  /\ DOMAIN answer = Requests
  /\ \A r \in Requests : pc[r] # "done" => answer[r] = Waiting

OrdersInv == Inserted /\ Findable /\ Shapes /\ Truthful

\* An answer ends its request and no other; moving on answers nothing.
LEMMA AnswerFacts ==
  ASSUME Shapes, NEW r \in Requests, NEW kind, NEW order, Answer(r, kind, order)
  PROVE  /\ pc' = [pc EXCEPT ![r] = "done"]
         /\ pc'[r] = "done"
         /\ answer'[r] = [kind |-> kind, order |-> order]
         /\ \A q \in Requests \ {r} : pc'[q] = pc[q] /\ answer'[q] = answer[q]
         /\ Shapes'
BY DEF Answer, Shapes

\* A violated constraint has a stored row behind it.
LEMMA SomethingViolated ==
  ASSUME Inserted, NEW r \in Requests, pc[r] # "done", NEW c \in Violated(Row(r))
  PROVE  /\ \E o \in orders : Same(o, Row(r)) /\ o.by # r
         /\ c = "key" => WithKey(Form[r].key) # {}
         /\ c \in {"jti", "account", "key", "token"}
<1>1. \A o \in orders : o.by # r
  BY DEF Inserted
<1>2. CASE c = "token"
  BY <1>1, <1>2 DEF Violated, Same
<1>3. CASE c # "token"
  <2>1. PICK o \in orders : o[c] = Row(r)[c] /\ c \in {"jti", "account", "key"}
    BY <1>3 DEF Violated
  <2>2. o.jti = Row(r).jti \/ o.account = Row(r).account \/ o.key = Row(r).key
    BY <2>1
  <2>3. c = "key" => o.key = Form[r].key
    BY <2>1 DEF Row
  <2> QED
    BY <1>1, <2>1, <2>2, <2>3 DEF Same, WithKey
<1> QED
  BY <1>2, <1>3

\* A request's last step keeps the invariant if what it is told is true.
LEMMA Answered ==
  ASSUME OrdersInv, NEW r \in Requests, pc[r] # "done",
         NEW kind, NEW order, Answer(r, kind, order),
         orders \subseteq orders', Inserted', TrueFor(r)'
  PROVE  OrdersInv'
<1>1. Shapes' /\ \A q \in Requests \ {r} : pc'[q] = pc[q] /\ answer'[q] = answer[q]
  BY AnswerFacts DEF OrdersInv
<1>2. pc'[r] = "done"
  BY AnswerFacts DEF OrdersInv
<1>3. Findable'
  <2> SUFFICES ASSUME NEW q \in Requests, pc'[q] = "refetch"
               PROVE  WithKey(Form[q].key)' # {}
    BY DEF Findable
  <2>1. q # r /\ pc[q] = "refetch"
    BY <1>1, <1>2
  <2>2. WithKey(Form[q].key) # {}
    BY <2>1 DEF OrdersInv, Findable
  <2> QED
    BY <2>2 DEF WithKey
<1>4. Truthful'
  <2> SUFFICES ASSUME NEW q \in Requests \ {r} PROVE TrueFor(q)'
    BY DEF Truthful
  <2>1. TrueFor(q) /\ answer'[q] = answer[q]
    BY <1>1 DEF OrdersInv, Truthful
  <2> QED
    BY <2>1 DEF TrueFor, Told
<1> QED
  BY <1>1, <1>3, <1>4 DEF OrdersInv

\* A request that goes on to its next call keeps the invariant.
LEMMA Moved ==
  ASSUME OrdersInv, NEW r \in Requests, pc[r] # "done",
         NEW p \in {"burn", "insert", "refetch"}, Goto(r, p), orders' = orders,
         p = "refetch" => WithKey(Form[r].key) # {}
  PROVE  OrdersInv'
<1>1. /\ pc'[r] = p /\ answer' = answer
      /\ \A q \in Requests \ {r} : pc'[q] = pc[q]
  BY DEF Goto, OrdersInv, Shapes
<1>2. Shapes'
  BY DEF Goto, OrdersInv, Shapes
<1>3. Findable'
  BY <1>1 DEF OrdersInv, Findable, WithKey
<1>4. Inserted'
  <2> SUFFICES ASSUME NEW o \in orders
               PROVE  o.by \in Requests /\ o = Row(o.by) /\ pc'[o.by] = "done"
    BY DEF Inserted, Row
  <2>1. o.by \in Requests /\ o = Row(o.by) /\ pc[o.by] = "done"
    BY DEF OrdersInv, Inserted
  <2> QED
    BY <1>1, <2>1
<1>5. Truthful'
  BY <1>1 DEF OrdersInv, Truthful, TrueFor, Told, Same, Row
<1> QED
  BY <1>2, <1>3, <1>4, <1>5 DEF OrdersInv

\* With the table as it was, its part of the invariant stays when r is done.
LEMMA SameTable ==
  ASSUME OrdersInv, NEW r \in Requests, pc[r] # "done",
         NEW kind, NEW order, Answer(r, kind, order), orders' = orders
  PROVE  Inserted' /\ answer'[r] = [kind |-> kind, order |-> order]
<1>1. /\ \A q \in Requests \ {r} : pc'[q] = pc[q]
      /\ answer'[r] = [kind |-> kind, order |-> order]
  BY AnswerFacts DEF OrdersInv
<1>2. \A o \in orders : o.by \in Requests /\ o = Row(o.by) /\ pc[o.by] = "done"
  BY DEF OrdersInv, Inserted
<1>3. Inserted'
  BY <1>1, <1>2 DEF Inserted, Row
<1> QED
  BY <1>1, <1>3

\* The new row keeps the table's part of the invariant.
LEMMA NewRow ==
  ASSUME OrdersInv, NEW r \in Requests, pc[r] # "done", Violated(Row(r)) = {},
         NEW kind, NEW order, Answer(r, kind, order), orders' = orders \cup {Row(r)}
  PROVE  Inserted' /\ answer'[r] = [kind |-> kind, order |-> order]
<1>1. /\ pc'[r] = "done" /\ \A q \in Requests \ {r} : pc'[q] = pc[q]
      /\ answer'[r] = [kind |-> kind, order |-> order]
  BY AnswerFacts DEF OrdersInv
<1>2. \A o \in orders : o.by \in Requests /\ o = Row(o.by) /\ pc[o.by] = "done"
  BY DEF OrdersInv, Inserted
<1>3. Row(r).by = r
  BY DEF Row
<1>4. Inserted'
  <2> SUFFICES ASSUME NEW o \in orders'
               PROVE  o.by \in Requests /\ o = Row(o.by) /\ pc'[o.by] = "done"
    BY DEF Inserted, Row
  <2> QED
    BY <1>1, <1>2, <1>3
<1> QED
  BY <1>1, <1>4

\* Every step of one request keeps the invariant.
LEMMA RequestStep ==
  ASSUME OrdersInv, NEW r \in Requests, Serve(r) \/ Fails(r) \/ Stops(r)
  PROVE  OrdersInv'
<1>a. pc[r] # "done"
  BY DEF Serve, Fails, Stops, Lookup, Burn, Insert, Refetch
<1>b. Inserted
  BY DEF OrdersInv
<1>c. ASSUME NEW kind \in {"entry_spent", "unavailable", "lost"},
             Answer(r, kind, NoOrder), orders' = orders
      PROVE  OrdersInv'
  <2>1. /\ Inserted'
        /\ answer'[r] = [kind |-> kind, order |-> NoOrder]
    BY <1>a, <1>c, SameTable
  <2>2. TrueFor(r)'
    BY <2>1 DEF TrueFor, Told
  <2> QED
    BY <1>a, <1>c, <2>1, <2>2, Answered
<1>d. ASSUME NEW o \in WithKey(Form[r].key), Answer(r, "replayed", o), orders' = orders
      PROVE  OrdersInv'
  <2>1. /\ Inserted'
        /\ answer'[r] = [kind |-> "replayed", order |-> o]
    BY <1>a, <1>d, SameTable
  <2>2. TrueFor(r)'
    BY <1>d, <2>1 DEF TrueFor, Told, WithKey
  <2> QED
    BY <1>a, <1>d, <2>1, <2>2, Answered
<1>e. ASSUME NEW kind \in {"already_purchased", "entry_reused", "idempotency_conflict"},
             Answer(r, kind, NoOrder), orders' = orders,
             \E o \in orders : Same(o, Row(r)) /\ o.by # r
      PROVE  OrdersInv'
  <2>1. /\ Inserted'
        /\ answer'[r] = [kind |-> kind, order |-> NoOrder]
    BY <1>a, <1>e, SameTable
  <2>2. TrueFor(r)'
    BY <1>e, <2>1 DEF TrueFor, Told, Same, Row
  <2> QED
    BY <1>a, <1>e, <2>1, <2>2, Answered
<1>f. ASSUME NEW kind \in {"created", "unavailable"}, NEW order,
             kind = "created" => order = Row(r),
             Violated(Row(r)) = {}, Answer(r, kind, order), orders' = orders \cup {Row(r)}
      PROVE  OrdersInv'
  <2>1. /\ Inserted'
        /\ answer'[r] = [kind |-> kind, order |-> order]
    BY <1>a, <1>f, NewRow
  <2>2. TrueFor(r)'
    BY <1>f, <2>1 DEF TrueFor, Told, Row
  <2> QED
    BY <1>a, <1>f, <2>1, <2>2, Answered
<1>1. CASE Lookup(r)
  <2>1. CASE \E o \in WithKey(Form[r].key) : Answer(r, "replayed", o)
    BY <1>1, <1>d, <2>1 DEF Lookup
  <2>2. CASE Goto(r, "burn")
    BY <1>1, <1>a, <2>2, Moved DEF Lookup
  <2> QED
    BY <1>1, <2>1, <2>2 DEF Lookup
<1>2. CASE Burn(r)
  <2>1. CASE Goto(r, "insert")
    BY <1>2, <1>a, <2>1, Moved DEF Burn
  <2>2. CASE Answer(r, "entry_spent", NoOrder)
    BY <1>2, <1>c, <2>2 DEF Burn
  <2> QED
    BY <1>2, <2>1, <2>2 DEF Burn
<1>3. CASE Insert(r)
  <2>1. CASE Violated(Row(r)) = {} /\ orders' = orders \cup {Row(r)} /\ Answer(r, "created", Row(r))
    BY <1>f, <2>1
  <2>2. ASSUME NEW c \in Violated(Row(r)), Refused(r, c), orders' = orders
        PROVE  OrdersInv'
    <3>1. /\ \E o \in orders : Same(o, Row(r)) /\ o.by # r
          /\ c = "key" => WithKey(Form[r].key) # {}
      BY <1>a, <1>b, SomethingViolated
    <3>2. CASE c = "key" /\ Goto(r, "refetch")
      BY <1>a, <2>2, <3>1, <3>2, Moved
    <3>3. CASE Answer(r, "entry_reused", NoOrder)
      BY <1>e, <2>2, <3>1, <3>3
    <3>4. CASE Answer(r, "already_purchased", NoOrder)
      BY <1>e, <2>2, <3>1, <3>4
    <3> QED
      BY <2>2, <3>2, <3>3, <3>4 DEF Refused
  <2> QED
    BY <1>3, <2>1, <2>2 DEF Insert
<1>4. CASE Refetch(r)
  BY <1>4, <1>d DEF Refetch
<1>5. CASE Fails(r)
  <2>1. CASE Answer(r, "unavailable", NoOrder) /\ orders' = orders
    BY <1>c, <2>1
  <2>2. CASE Answer(r, "unavailable", NoOrder) /\ orders' # orders
    <3>1. Violated(Row(r)) = {} /\ orders' = orders \cup {Row(r)}
      BY <1>5, <2>2 DEF Fails
    <3> QED
      BY <1>f, <2>2, <3>1
  <2>3. CASE pc[r] = "refetch" /\ Answer(r, "idempotency_conflict", NoOrder) /\ orders' = orders
    <3>1. PICK o \in orders : o.key = Form[r].key
      BY <2>3 DEF OrdersInv, Findable, WithKey
    <3>2. Same(o, Row(r)) /\ o.by # r
      BY <1>a, <1>b, <3>1 DEF Same, Row, Inserted
    <3> QED
      BY <1>e, <2>3, <3>2
  <2> QED
    BY <1>5, <2>1, <2>2, <2>3 DEF Fails
<1>6. CASE Stops(r)
  BY <1>6, <1>c DEF Stops
<1> QED
  BY <1>1, <1>2, <1>3, <1>4, <1>5, <1>6 DEF Serve

\* The inductive invariant of the shop.
THEOREM OrdersInvHolds == Spec => []OrdersInv
<1>1. Init => OrdersInv
  BY DEF Init, OrdersInv, Inserted, Findable, Shapes, Truthful, TrueFor, Told, Waiting
<1>2. OrdersInv /\ [Next]_vars => OrdersInv'
  <2> SUFFICES ASSUME OrdersInv, [Next]_vars PROVE OrdersInv'
    OBVIOUS
  <2>1. ASSUME NEW r \in Requests, Serve(r) \/ Fails(r) \/ Stops(r) PROVE OrdersInv'
    BY <2>1, RequestStep
  <2>2. CASE UNCHANGED <<orders, pc, answer>>
    BY <2>2 DEF OrdersInv, Inserted, Findable, Shapes, Truthful, TrueFor, Told,
                Same, Row, WithKey
  <2>3. CASE Failover \/ \E j \in Jtis : Expires(j)
    BY <2>2, <2>3 DEF Expires, Failover
  <2> QED
    BY <2>1, <2>2, <2>3 DEF Next, vars
<1> QED
  BY <1>1, <1>2, PTL DEF Spec

-------------------------------------------------------------------------------
(* The entry tokens *)

\* Past its burn, a request is one of those let through, and so is nobody
\* before it.
Passed ==
  /\ through \subseteq Requests /\ IsFiniteSet(through)
  /\ \A r \in Requests : pc[r] \in {"insert", "refetch"} => r \in through
  /\ \A r \in through : pc[r] \notin {"lookup", "burn"}
Counters == entry \in [Jtis -> BOOLEAN] /\ failovers \in Nat

Flag(j) == IF entry[j] THEN 1 ELSE 0

PaidInv == Passed /\ Counters /\ EntryPays

\* Those let through by one entry token can be counted.
LEMMA BurnersCount ==
  ASSUME IsFiniteSet(through), NEW j
  PROVE  IsFiniteSet(Burners(j)) /\ Cardinality(Burners(j)) \in Nat
BY FS_Subset, FS_CardinalityType DEF Burners

\* A successful burn trades the record for one request let through.
LEMMA BurnPays ==
  ASSUME Shapes, PaidInv, NEW r \in Requests, pc[r] = "burn", entry[Form[r].jti],
         entry' = Redeemed(Form[r].jti), through' = through \cup {r}, Goto(r, "insert"),
         UNCHANGED <<orders, failovers>>
  PROVE  PaidInv'
<1>1. /\ pc' = [pc EXCEPT ![r] = "insert"] /\ r \notin through
      /\ pc \in [Requests -> {"lookup", "burn", "insert", "refetch", "done"}]
  BY DEF PaidInv, Passed, Goto, Shapes
<1>2. Form[r].jti \in Jtis
  BY FormAssumption
<1>3. Passed'
  <2>1. IsFiniteSet(through')
    BY FS_AddElement DEF PaidInv, Passed
  <2> QED
    BY <1>1, <2>1 DEF PaidInv, Passed
<1>4. Counters'
  BY <1>2 DEF PaidInv, Counters, Redeemed
<1>5. ASSUME NEW j \in Jtis
      PROVE  Cardinality(Burners(j))' + Flag(j)' <= 1 + failovers
  <2>1. Cardinality(Burners(j)) + Flag(j) <= 1 + failovers
    BY DEF PaidInv, EntryPays, Flag
  <2>2. IsFiniteSet(Burners(j)) /\ Cardinality(Burners(j)) \in Nat /\ failovers \in Nat
    BY BurnersCount DEF PaidInv, Passed, Counters
  <2>3. CASE j = Form[r].jti
    <3>1. Burners(j)' = Burners(j) \cup {r} /\ r \notin Burners(j)
      BY <1>1, <2>3 DEF Burners
    <3>2. Cardinality(Burners(j))' = Cardinality(Burners(j)) + 1
      BY <2>2, <3>1, FS_AddElement
    <3>3. Flag(j) = 1 /\ Flag(j)' = 0
      BY <2>3 DEF Flag, Redeemed, PaidInv, Counters
    <3> QED
      BY <2>1, <2>2, <3>2, <3>3
  <2>4. CASE j # Form[r].jti
    <3>1. Burners(j)' = Burners(j)
      BY <2>4 DEF Burners
    <3>2. Flag(j)' = Flag(j)
      BY <2>4 DEF Flag, Redeemed, PaidInv, Counters
    <3> QED
      BY <2>1, <3>1, <3>2
  <2> QED
    BY <2>3, <2>4
<1>6. EntryPays'
  BY <1>5 DEF PaidInv, EntryPays, Flag
<1> QED
  BY <1>3, <1>4, <1>6 DEF PaidInv

\* While nobody is let through, records may go, and a failover may bring any
\* of them back, once each.
LEMMA RecordsMove ==
  ASSUME Counters, IsFiniteSet(through), EntryPays, through' = through,
         \A o \in orders' : o.by \in through,
         Counters',
         \/ failovers' = failovers /\ \A j \in Jtis : entry'[j] => entry[j]
         \/ failovers' = failovers + 1
  PROVE  EntryPays'
<1>1. ASSUME NEW j \in Jtis
      PROVE  Cardinality(Burners(j))' + Flag(j)' <= 1 + failovers'
  <2>1. Cardinality(Burners(j)) + Flag(j) <= 1 + failovers
    BY DEF EntryPays, Flag
  <2>2. Burners(j)' = Burners(j) /\ Cardinality(Burners(j)) \in Nat
    BY BurnersCount DEF Burners
  <2>3. Flag(j) \in {0, 1} /\ Flag(j)' \in {0, 1} /\ (entry[j] \/ ~entry'[j] => Flag(j)' <= Flag(j))
    BY DEF Flag
  <2>4. failovers \in Nat
    BY DEF Counters
  <2> QED
    BY <2>1, <2>2, <2>3, <2>4
<1> QED
  BY <1>1 DEF EntryPays, Flag

\* Every step keeps account of who paid.
LEMMA PaidStep ==
  ASSUME OrdersInv, PaidInv, [Next]_vars
  PROVE  PaidInv'
<1>1. Shapes /\ Passed /\ Counters /\ EntryPays /\ IsFiniteSet(through)
  BY DEF OrdersInv, PaidInv, Passed
<1>2. pc \in [Requests -> {"lookup", "burn", "insert", "refetch", "done"}]
  BY <1>1 DEF Shapes
<1>3. \A o \in orders : o.by \in through
  BY <1>1 DEF EntryPays
<1>a. ASSUME NEW r \in Requests, NEW q \in {"burn", "refetch", "done"},
             q = "burn" => pc[r] = "lookup", q = "refetch" => pc[r] = "insert",
             pc' = [pc EXCEPT ![r] = q], through' = through
      PROVE  Passed'
  BY <1>1, <1>2, <1>a DEF Passed
<1>4. CASE UNCHANGED vars
  BY <1>1, <1>4 DEF vars, PaidInv, Passed, Counters, EntryPays, Burners
<1>5. ASSUME NEW r \in Requests, Serve(r) \/ Fails(r) \/ Stops(r) PROVE PaidInv'
  <2>1. CASE /\ Goto(r, "insert") /\ pc[r] = "burn" /\ entry[Form[r].jti]
             /\ entry' = Redeemed(Form[r].jti) /\ through' = through \cup {r}
             /\ UNCHANGED <<orders, failovers>>
    BY <1>1, <2>1, BurnPays DEF PaidInv
  <2>2. ASSUME UNCHANGED history, NEW q \in {"burn", "refetch", "done"},
               q = "burn" => pc[r] = "lookup", q = "refetch" => pc[r] = "insert",
               pc' = [pc EXCEPT ![r] = q],
               entry' \in {entry, Redeemed(Form[r].jti)},
               orders' \subseteq orders \cup {Row(r)}, pc[r] = "insert" \/ orders' = orders
        PROVE  PaidInv'
    <3>1. Passed'
      BY <1>a, <2>2 DEF history
    <3>2. Counters' /\ \A j \in Jtis : entry'[j] => entry[j]
      BY <1>1, <2>2 DEF Counters, history, Redeemed
    <3>3. \A o \in orders' : o.by \in through
      BY <1>1, <1>3, <2>2 DEF Passed, Row
    <3>4. EntryPays'
      BY <1>1, <2>2, <3>2, <3>3, RecordsMove DEF history
    <3> QED
      BY <3>1, <3>2, <3>4 DEF PaidInv
  <2>3. CASE Lookup(r)
    BY <2>2, <2>3 DEF Lookup, Goto, Answer
  <2>4. CASE Burn(r)
    BY <2>1, <2>2, <2>4 DEF Burn, Goto, Answer, history
  <2>5. CASE Insert(r)
    BY <2>2, <2>5 DEF Insert, Refused, Goto, Answer
  <2>6. CASE Refetch(r)
    BY <2>2, <2>6 DEF Refetch, Answer
  <2>7. CASE Fails(r)
    BY <2>2, <2>7 DEF Fails, Answer
  <2>8. CASE Stops(r)
    BY <2>2, <2>8 DEF Stops, Answer
  <2> QED
    BY <1>5, <2>3, <2>4, <2>5, <2>6, <2>7, <2>8 DEF Serve
<1>6. ASSUME NEW j \in Jtis, Expires(j) PROVE PaidInv'
  <2>1. Counters' /\ (\A i \in Jtis : entry'[i] => entry[i]) /\ failovers' = failovers
    BY <1>1, <1>6 DEF Expires, Counters, history
  <2>2. through' = through /\ orders' = orders /\ pc' = pc
    BY <1>6 DEF Expires, history
  <2> QED
    BY <1>1, <1>3, <2>1, <2>2, RecordsMove DEF PaidInv, Passed
<1>7. CASE Failover
  <2>1. Counters' /\ failovers' = failovers + 1
    BY <1>1, <1>7 DEF Failover, Counters
  <2>2. through' = through /\ orders' = orders /\ pc' = pc
    BY <1>7 DEF Failover
  <2> QED
    BY <1>1, <1>3, <2>1, <2>2, RecordsMove DEF PaidInv, Passed
<1> QED
  BY <1>4, <1>5, <1>6, <1>7 DEF Next

\* No order without an entry token burned by its own request, and an entry token
\* lets through one request and one more per failover, with any number of
\* requests, failures and failovers (ShopAPI.create, redeem.lua).
THEOREM EntryPaysHolds == Spec => []EntryPays
<1>1. Init => PaidInv
  <2> SUFFICES ASSUME Init PROVE PaidInv
    OBVIOUS
  <2>1. \A j \in Jtis : Burners(j) = {}
    BY DEF Init, Burners
  <2>2. EntryPays
    BY <2>1, FS_EmptySet DEF Init, EntryPays
  <2> QED
    BY <2>2, FS_EmptySet DEF Init, PaidInv, Passed, Counters
<1>2. OrdersInv /\ PaidInv /\ [Next]_vars => PaidInv'
  BY PaidStep
<1>3. PaidInv => EntryPays
  BY DEF PaidInv
<1> QED
  BY <1>1, <1>2, <1>3, OrdersInvHolds, PTL DEF Spec

\* No client is told of an order that is not there (ShopAPI.create).
THEOREM TruthfulHolds == Spec => []Truthful
BY OrdersInvHolds, PTL DEF OrdersInv
===============================================================================
