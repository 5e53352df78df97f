----------------------------- MODULE TrailsProofs -----------------------------
(***************************************************************************)
(* For any number of processes, channels, batches and logs of any length    *)
(* and any number of restarts: no event and no audit record disappears      *)
(* unaccounted for, no event overtakes another of its process, and a        *)
(* restart of the scorer costs one message.                                 *)
(***************************************************************************)
EXTENDS MCTrails, FiniteSetTheorems, TLAPS

-------------------------------------------------------------------------------
(* The elements of a sequence *)

\* The elements of a sequence, when one is appended.
LEMMA SetOfAppend ==
  ASSUME NEW S, NEW s \in Seq(S), NEW x
  PROVE  ToSet(Append(s, x)) = ToSet(s) \cup {x}
<1>1. DOMAIN Append(s, x) = 1 .. (Len(s) + 1) /\ Len(s) \in Nat /\ DOMAIN s = 1 .. Len(s)
  OBVIOUS
<1>2. \A i \in 1 .. Len(s) : Append(s, x)[i] = s[i]
  OBVIOUS
<1>3. Append(s, x)[Len(s) + 1] = x
  OBVIOUS
<1>4. ASSUME NEW y \in ToSet(Append(s, x)) PROVE y \in ToSet(s) \cup {x}
  <2>1. PICK i \in 1 .. (Len(s) + 1) : y = Append(s, x)[i]
    BY <1>1, <1>4 DEF ToSet
  <2>2. CASE i = Len(s) + 1
    BY <1>3, <2>1, <2>2
  <2>3. CASE i # Len(s) + 1
    <3>1. i \in DOMAIN s /\ y = s[i]
      BY <1>1, <1>2, <2>1, <2>3
    <3> QED
      BY <3>1 DEF ToSet
  <2> QED
    BY <2>2, <2>3
<1>5. x \in ToSet(Append(s, x))
  <2>1. Len(s) + 1 \in DOMAIN Append(s, x)
    BY <1>1
  <2> QED
    BY <1>3, <2>1 DEF ToSet
<1>6. ASSUME NEW y \in ToSet(s) PROVE y \in ToSet(Append(s, x))
  <2>1. PICK i \in DOMAIN s : y = s[i]
    BY <1>6 DEF ToSet
  <2>2. i \in DOMAIN Append(s, x) /\ y = Append(s, x)[i]
    BY <1>1, <1>2, <2>1
  <2> QED
    BY <2>2 DEF ToSet
<1> QED
  BY <1>4, <1>5, <1>6

\* The elements of a sequence, when the first is taken.
LEMMA SetOfTail ==
  ASSUME NEW S, NEW s \in Seq(S), s # << >>
  PROVE  /\ Head(s) \in S /\ Tail(s) \in Seq(S)
         /\ ToSet(s) = {Head(s)} \cup ToSet(Tail(s))
<1>1. /\ Head(s) = s[1] /\ Len(s) \in Nat \ {0} /\ DOMAIN s = 1 .. Len(s)
      /\ DOMAIN Tail(s) = 1 .. (Len(s) - 1)
      /\ Head(s) \in S /\ Tail(s) \in Seq(S)
  OBVIOUS
<1>2. \A i \in 1 .. (Len(s) - 1) : Tail(s)[i] = s[i + 1]
  OBVIOUS
<1>3. ASSUME NEW y \in ToSet(s) PROVE y \in {Head(s)} \cup ToSet(Tail(s))
  <2>1. PICK i \in 1 .. Len(s) : y = s[i]
    BY <1>1, <1>3 DEF ToSet
  <2>2. CASE i = 1
    BY <1>1, <2>1, <2>2
  <2>3. CASE i # 1
    <3>1. i - 1 \in DOMAIN Tail(s) /\ y = Tail(s)[i - 1]
      BY <1>1, <1>2, <2>1, <2>3
    <3> QED
      BY <3>1 DEF ToSet
  <2> QED
    BY <2>2, <2>3
<1>4. ASSUME NEW y \in ToSet(Tail(s)) PROVE y \in ToSet(s)
  <2>1. PICK i \in 1 .. (Len(s) - 1) : y = Tail(s)[i]
    BY <1>1, <1>4 DEF ToSet
  <2>2. i + 1 \in DOMAIN s /\ y = s[i + 1]
    BY <1>1, <1>2, <2>1
  <2> QED
    BY <2>2 DEF ToSet
<1>5. Head(s) \in ToSet(s)
  <2>1. 1 \in DOMAIN s
    BY <1>1
  <2> QED
    BY <1>1, <2>1 DEF ToSet
<1> QED
  BY <1>1, <1>3, <1>4, <1>5

\* The elements of two sequences in a row.
LEMMA SetOfConcat ==
  ASSUME NEW S, NEW s \in Seq(S), NEW t \in Seq(S)
  PROVE  s \o t \in Seq(S) /\ ToSet(s \o t) = ToSet(s) \cup ToSet(t)
<1>1. /\ s \o t \in Seq(S) /\ DOMAIN (s \o t) = 1 .. (Len(s) + Len(t))
      /\ Len(s) \in Nat /\ Len(t) \in Nat /\ DOMAIN s = 1 .. Len(s) /\ DOMAIN t = 1 .. Len(t)
  OBVIOUS
<1>2. \A i \in 1 .. (Len(s) + Len(t)) : (s \o t)[i] = IF i <= Len(s) THEN s[i] ELSE t[i - Len(s)]
  OBVIOUS
<1>3. ASSUME NEW y \in ToSet(s \o t) PROVE y \in ToSet(s) \cup ToSet(t)
  <2>1. PICK i \in 1 .. (Len(s) + Len(t)) : y = (s \o t)[i]
    BY <1>1, <1>3 DEF ToSet
  <2>2. CASE i <= Len(s)
    <3>1. i \in DOMAIN s /\ y = s[i]
      BY <1>1, <1>2, <2>1, <2>2
    <3> QED
      BY <3>1 DEF ToSet
  <2>3. CASE ~(i <= Len(s))
    <3>1. i - Len(s) \in DOMAIN t /\ y = t[i - Len(s)]
      BY <1>1, <1>2, <2>1, <2>3
    <3> QED
      BY <3>1 DEF ToSet
  <2> QED
    BY <2>2, <2>3
<1>4. ASSUME NEW y \in ToSet(s) PROVE y \in ToSet(s \o t)
  <2>1. PICK i \in DOMAIN s : y = s[i]
    BY <1>4 DEF ToSet
  <2>2. i \in DOMAIN (s \o t) /\ y = (s \o t)[i]
    BY <1>1, <1>2, <2>1
  <2> QED
    BY <2>2 DEF ToSet
<1>5. ASSUME NEW y \in ToSet(t) PROVE y \in ToSet(s \o t)
  <2>1. PICK i \in DOMAIN t : y = t[i]
    BY <1>5 DEF ToSet
  <2>2. i + Len(s) \in DOMAIN (s \o t) /\ y = (s \o t)[i + Len(s)]
    BY <1>1, <1>2, <2>1
  <2> QED
    BY <2>2 DEF ToSet
<1> QED
  BY <1>1, <1>3, <1>4, <1>5

\* The elements of a beginning of a sequence.
LEMMA SetOfPart ==
  ASSUME NEW S, NEW s \in Seq(S), NEW k \in 0 .. Len(s)
  PROVE  /\ SubSeq(s, 1, k) \in Seq(S) /\ Len(SubSeq(s, 1, k)) = k
         /\ \A i \in 1 .. k : SubSeq(s, 1, k)[i] = s[i]
         /\ ToSet(SubSeq(s, 1, k)) \subseteq ToSet(s)
<1>1. Len(SubSeq(s, 1, k)) = k /\ \A i \in 1 .. k : SubSeq(s, 1, k)[i] = s[i]
  OBVIOUS
<1>2. SubSeq(s, 1, k) \in Seq(S)
  OBVIOUS
<1>3. DOMAIN SubSeq(s, 1, k) = 1 .. k
  BY <1>1, <1>2
<1>4. \A i \in 1 .. k : i \in DOMAIN s
  OBVIOUS
<1>5. ToSet(SubSeq(s, 1, k)) \subseteq ToSet(s)
  BY <1>1, <1>3, <1>4 DEF ToSet
<1> QED
  BY <1>1, <1>2, <1>5

\* The empty sequence has no elements.
LEMMA SetOfNone == ToSet(<< >>) = {}
BY DEF ToSet

-------------------------------------------------------------------------------
(* Nothing disappears on the way to the scorer *)

\* The events a process may publish, and those of all of them.
Own(p) == {Event(p, n) : n \in Nat}
AllEvents == [by : Processes, no : Nat]

\* An event of a process is an event, and names its process and its number.
LEMMA OwnEvents ==
  ASSUME NEW p \in Processes
  PROVE  /\ Own(p) \subseteq AllEvents
         /\ \A e \in Own(p) : e.by = p /\ e.no \in Nat
         /\ \A n \in Nat : Event(p, n) \in Own(p) /\ Event(p, n).by = p /\ Event(p, n).no = n
BY DEF Own, AllEvents, Event

\* A channel and a batch hold events of their own process.
TypedLines ==
  /\ published \in [Processes -> Nat]
  /\ ch \in [Processes -> Seq(AllEvents)] /\ batch \in [Processes -> Seq(AllEvents)]
  /\ \A p \in Processes : ch[p] \in Seq(Own(p)) /\ batch[p] \in Seq(Own(p))
  /\ topic \in Seq(AllEvents)

\* What a write of the batch leaves in the log, whatever the broker answers.
LEMMA FlushFacts ==
  ASSUME TypedLines, NEW p \in Processes, Flush(p)
  PROVE  /\ ch' = ch /\ batch' = [batch EXCEPT ![p] = << >>]
         /\ published' = published /\ lost' = lost
         /\ \E k \in 0 .. Len(batch[p]) :
              LET part == SubSeq(batch[p], 1, k)
              IN  \/ topic' = topic \o part /\ counted' = counted \cup ToSet(batch[p])
                  \/ topic' = topic \o (part \o batch[p]) /\ counted' = counted
<1>1. batch' = [batch EXCEPT ![p] = << >>] /\ published' = published /\ lost' = lost
  BY DEF Flush
<1>2. PICK ok \in BOOLEAN : \E w \in Written(p, ok) :
        /\ topic' = topic \o w
        /\ counted' = IF ok THEN counted ELSE counted \cup ToSet(batch[p])
        /\ ch' = [ch EXCEPT ![p] = ch[p]]
  BY DEF Flush, ChannelAfter
<1>3. PICK w \in Written(p, ok) :
        /\ topic' = topic \o w
        /\ counted' = IF ok THEN counted ELSE counted \cup ToSet(batch[p])
        /\ ch' = [ch EXCEPT ![p] = ch[p]]
  BY <1>2
<1>4. ch' = ch
  BY <1>3 DEF TypedLines
<1> DEFINE parts == {SubSeq(batch[p], 1, k) : k \in 0 .. Len(batch[p])}
<1>5. CASE ok
  <2>1. w \in {part \o batch[p] : part \in parts}
    BY <1>3, <1>5 DEF Written
  <2>2. PICK k \in 0 .. Len(batch[p]) : w = SubSeq(batch[p], 1, k) \o batch[p]
    BY <2>1
  <2> QED
    BY <1>1, <1>3, <1>4, <1>5, <2>2
<1>6. CASE ~ok
  <2>1. w = << >> \/ w \in parts
    BY <1>3, <1>6 DEF Written
  <2>2. << >> = SubSeq(batch[p], 1, 0) /\ 0 \in 0 .. Len(batch[p])
    BY DEF TypedLines
  <2>3. \E k \in 0 .. Len(batch[p]) : w = SubSeq(batch[p], 1, k)
    BY <2>1, <2>2
  <2> QED
    BY <1>1, <1>3, <1>4, <1>6, <2>3
<1> QED
  BY <1>5, <1>6

\* What a flush takes from the batch is in the topic or counted.
LEMMA FlushSets ==
  ASSUME TypedLines, NEW p \in Processes, Flush(p)
  PROVE  /\ topic' \in Seq(AllEvents) /\ ToSet(topic') \subseteq ToSet(topic) \cup ToSet(batch[p])
         /\ ToSet(topic') \cup counted' = ToSet(topic) \cup counted \cup ToSet(batch[p])
<1> DEFINE b == batch[p]
<1>1. PICK k \in 0 .. Len(b) :
        \/ topic' = topic \o SubSeq(b, 1, k) /\ counted' = counted \cup ToSet(b)
        \/ topic' = topic \o (SubSeq(b, 1, k) \o b) /\ counted' = counted
  BY FlushFacts
<1> DEFINE part == SubSeq(b, 1, k)
<1>3. topic \in Seq(AllEvents) /\ b \in Seq(AllEvents)
  BY DEF TypedLines
<1> HIDE DEF b
<1>2. part \in Seq(AllEvents) /\ ToSet(part) \subseteq ToSet(b)
  BY <1>3, SetOfPart
<1>7. \/ topic' = topic \o part /\ counted' = counted \cup ToSet(b)
      \/ topic' = topic \o (part \o b) /\ counted' = counted
  BY <1>1
<1> HIDE DEF part
<1>4. part \o b \in Seq(AllEvents) /\ ToSet(part \o b) = ToSet(part) \cup ToSet(b)
  BY <1>2, <1>3, SetOfConcat
<1>5. topic \o part \in Seq(AllEvents) /\ ToSet(topic \o part) = ToSet(topic) \cup ToSet(part)
  BY <1>2, <1>3, SetOfConcat
<1>6. /\ topic \o (part \o b) \in Seq(AllEvents)
      /\ ToSet(topic \o (part \o b)) = ToSet(topic) \cup ToSet(part \o b)
  <2> DEFINE w == part \o b
  <2>1. w \in Seq(AllEvents)
    BY <1>4
  <2> HIDE DEF w
  <2>2. topic \o w \in Seq(AllEvents) /\ ToSet(topic \o w) = ToSet(topic) \cup ToSet(w)
    BY <1>3, <2>1, SetOfConcat
  <2> QED
    BY <2>2 DEF w
<1> QED
  BY <1>2, <1>4, <1>5, <1>6, <1>7 DEF b

\* Overwriting one value of a function keeps the others, and its range.
LEMMA Overwritten ==
  ASSUME NEW D, NEW R, NEW f \in [D -> R], NEW x \in D, NEW v \in R
  PROVE  /\ [f EXCEPT ![x] = v] \in [D -> R]
         /\ [f EXCEPT ![x] = v][x] = v
         /\ \A y \in D : y # x => [f EXCEPT ![x] = v][y] = f[y]
OBVIOUS

\* What publishing does to the lines of the process, and to no other.
LEMMA PublishFacts ==
  ASSUME TypedLines, NEW p \in Processes, Publish(p)
  PROVE  LET e == Event(p, published[p] + 1)
         IN  /\ e \in Own(p) /\ e \in AllEvents /\ e.no = published[p] + 1
             /\ published' = [published EXCEPT ![p] = published[p] + 1]
             /\ UNCHANGED <<batch, topic>>
             /\ \/ ch' = [ch EXCEPT ![p] = Append(ch[p], e)] /\ UNCHANGED <<counted, lost>>
                \/ counted' = counted \cup {e} /\ UNCHANGED <<ch, lost>>
                \/ lost' = lost \cup {e} /\ UNCHANGED <<ch, counted>>
<1> DEFINE n == published[p] + 1
           e == Event(p, n)
<1>1. n \in Nat
  BY DEF TypedLines
<1>2. e \in Own(p) /\ e \in AllEvents /\ e.no = n
  <2> HIDE DEF n
  <2> QED
    BY <1>1, OwnEvents
<1>3. /\ published' = [published EXCEPT ![p] = n]
      /\ UNCHANGED <<batch, topic>>
      /\ \/ ch' = [ch EXCEPT ![p] = Append(ch[p], e)] /\ UNCHANGED <<counted, lost>>
         \/ counted' = counted \cup {e} /\ UNCHANGED <<ch, lost>>
         \/ lost' = lost \cup {e} /\ UNCHANGED <<ch, counted>>
  BY DEF Publish, Overflow
<1> QED
  BY <1>2, <1>3

\* Every step of the telemetry keeps the lines in shape.
LEMMA StepLines == TypedLines /\ [TelemetryNext]_telemetryVars => TypedLines'
<1> SUFFICES ASSUME TypedLines, [TelemetryNext]_telemetryVars PROVE TypedLines'
  OBVIOUS
<1>0. /\ published \in [Processes -> Nat] /\ ch \in [Processes -> Seq(AllEvents)]
      /\ batch \in [Processes -> Seq(AllEvents)] /\ topic \in Seq(AllEvents)
      /\ \A p \in Processes : ch[p] \in Seq(Own(p)) /\ batch[p] \in Seq(Own(p))
  BY DEF TypedLines
<1>1. ASSUME NEW p \in Processes, Publish(p) PROVE TypedLines'
  <2> DEFINE n == published[p] + 1
             e == Event(p, n)
  <2>1. /\ e \in Own(p) /\ e \in AllEvents /\ published' = [published EXCEPT ![p] = n]
        /\ UNCHANGED <<batch, topic>>
        /\ ch' = [ch EXCEPT ![p] = Append(ch[p], e)] \/ ch' = ch
    BY <1>1, PublishFacts
  <2>2. n \in Nat
    BY <1>0
  <2> HIDE DEF n, e
  <2>3. published' \in [Processes -> Nat]
    BY <1>0, <2>1, <2>2, Overwritten
  <2> DEFINE c == Append(ch[p], e)
  <2>4. c \in Seq(AllEvents) /\ c \in Seq(Own(p))
    BY <1>0, <2>1
  <2>5. ch' = [ch EXCEPT ![p] = c] \/ ch' = ch
    BY <2>1
  <2> HIDE DEF c
  <2>6. ch' \in [Processes -> Seq(AllEvents)] /\ \A q \in Processes : ch'[q] \in Seq(Own(q))
    <3>1. CASE ch' = [ch EXCEPT ![p] = c]
      BY <1>0, <2>4, <3>1, Overwritten
    <3>2. CASE ch' = ch
      BY <1>0, <3>2
    <3> QED
      BY <2>5, <3>1, <3>2
  <2> QED
    BY <1>0, <2>1, <2>3, <2>6 DEF TypedLines
<1>2. ASSUME NEW p \in Processes, Take(p) PROVE TypedLines'
  <2> DEFINE c == Tail(ch[p])
             b == Append(batch[p], Head(ch[p]))
  <2>1. /\ ch[p] # << >> /\ batch' = [batch EXCEPT ![p] = b] /\ ch' = [ch EXCEPT ![p] = c]
        /\ UNCHANGED <<published, topic>>
    BY <1>2 DEF Take
  <2>2. /\ c \in Seq(AllEvents) /\ c \in Seq(Own(p))
        /\ Head(ch[p]) \in AllEvents /\ Head(ch[p]) \in Own(p)
    BY <1>0, <2>1
  <2>3. b \in Seq(AllEvents) /\ b \in Seq(Own(p))
    BY <1>0, <2>2
  <2> HIDE DEF b, c
  <2>4. /\ ch' \in [Processes -> Seq(AllEvents)] /\ \A q \in Processes : ch'[q] \in Seq(Own(q))
        /\ batch' \in [Processes -> Seq(AllEvents)] /\ \A q \in Processes : batch'[q] \in Seq(Own(q))
    BY <1>0, <2>1, <2>2, <2>3, Overwritten
  <2> QED
    BY <1>0, <2>1, <2>4 DEF TypedLines
<1> DEFINE none == << >>
<1>3. none \in Seq(AllEvents) /\ \A p \in Processes : none \in Seq(Own(p))
  OBVIOUS
<1>4. ASSUME NEW p \in Processes, Flush(p) PROVE TypedLines'
  <2>1. /\ ch' = ch /\ batch' = [batch EXCEPT ![p] = none] /\ published' = published
        /\ topic' \in Seq(AllEvents)
    BY <1>4, FlushFacts, FlushSets
  <2> HIDE DEF none
  <2>2. batch' \in [Processes -> Seq(AllEvents)] /\ \A q \in Processes : batch'[q] \in Seq(Own(q))
    BY <1>0, <1>3, <2>1, Overwritten
  <2> QED
    BY <1>0, <2>1, <2>2 DEF TypedLines
<1>5. ASSUME NEW p \in Processes, CloseChannel(p) \/ CloseReturns(p) PROVE TypedLines'
  BY <1>5 DEF CloseChannel, CloseReturns, TypedLines
<1>6. ASSUME NEW p \in Processes, ProducerEnds(p) PROVE TypedLines'
  <2>1. /\ ch' = [ch EXCEPT ![p] = none] /\ batch' = [batch EXCEPT ![p] = none]
        /\ UNCHANGED <<published, topic>>
    BY <1>6 DEF ProducerEnds
  <2> HIDE DEF none
  <2>2. /\ ch' \in [Processes -> Seq(AllEvents)] /\ \A q \in Processes : ch'[q] \in Seq(Own(q))
        /\ batch' \in [Processes -> Seq(AllEvents)] /\ \A q \in Processes : batch'[q] \in Seq(Own(q))
    BY <1>0, <1>3, <2>1, Overwritten
  <2> QED
    BY <1>0, <2>1, <2>2 DEF TypedLines
<1>7. CASE Join \/ Read \/ Handle \/ Commit \/ ConsumerRestarts
  BY <1>7 DEF Join, Read, Handle, Commit, ConsumerRestarts, producerVars, TypedLines
<1>8. CASE UNCHANGED telemetryVars
  BY <1>8 DEF telemetryVars, TypedLines
<1> QED
  BY <1>1, <1>2, <1>4, <1>5, <1>6, <1>7, <1>8 DEF TelemetryNext

\* What is published and what is held, by one process and by all.
EventsOf(f, p) == {Event(p, n) : n \in 1 .. f[p]}
HeldIn(c, b, p) == ToSet(c[p]) \cup ToSet(b[p])
AllOf(f) == UNION {EventsOf(f, p) : p \in Processes}
AllHeld(c, b) == UNION {HeldIn(c, b, p) : p \in Processes}

Elsewhere == ToSet(topic) \cup counted \cup lost

\* The property in these words, before a step and after it.
LEMMA AccountedMeans ==
  /\ Accounted <=> AllOf(published) = AllHeld(ch, batch) \cup Elsewhere
  /\ Accounted' <=> AllOf(published') = AllHeld(ch', batch') \cup Elsewhere'
<1>1. Events = AllOf(published) /\ UnderWay = AllHeld(ch, batch)
  BY DEF Events, AllOf, EventsOf, UnderWay, AllHeld, HeldIn
<1>2. Events' = AllOf(published') /\ UnderWay' = AllHeld(ch', batch')
  BY DEF Events, AllOf, EventsOf, UnderWay, AllHeld, HeldIn
<1>3. Accounted <=> Events = UnderWay \cup Elsewhere
  BY DEF Accounted, Elsewhere
<1>4. Accounted' <=> Events' = UnderWay' \cup Elsewhere'
  BY DEF Accounted, Elsewhere
<1> QED
  BY <1>1, <1>2, <1>3, <1>4

\* A step that touches the lines of one process alone keeps every event accounted
\* for if it keeps those that this process holds or publishes.
LEMMA OneAccounts ==
  ASSUME Accounted, NEW p \in Processes, NEW N,
         \A q \in Processes : q # p => published'[q] = published[q] /\ ch'[q] = ch[q] /\ batch'[q] = batch[q],
         EventsOf(published', p) = EventsOf(published, p) \cup N,
         HeldIn(ch', batch', p) \cup Elsewhere' = HeldIn(ch, batch, p) \cup Elsewhere \cup N
  PROVE  Accounted'
<1> DEFINE E == UNION {EventsOf(published, q) : q \in Processes \ {p}}
           H == UNION {HeldIn(ch, batch, q) : q \in Processes \ {p}}
<1>1. AllOf(published) = EventsOf(published, p) \cup E /\ AllHeld(ch, batch) = HeldIn(ch, batch, p) \cup H
  BY DEF AllOf, AllHeld
<1>2. \A q \in Processes \ {p} :
        EventsOf(published', q) = EventsOf(published, q) /\ HeldIn(ch', batch', q) = HeldIn(ch, batch, q)
  BY DEF EventsOf, HeldIn
<1>3. /\ AllOf(published') = EventsOf(published', p) \cup E
      /\ AllHeld(ch', batch') = HeldIn(ch', batch', p) \cup H
  BY <1>2 DEF AllOf, AllHeld
<1>4. AllOf(published) = AllHeld(ch, batch) \cup Elsewhere
  BY AccountedMeans
<1> HIDE DEF E, H
<1>5. AllOf(published') = AllHeld(ch', batch') \cup Elsewhere'
  BY <1>1, <1>3, <1>4
<1> QED
  BY <1>5, AccountedMeans

\* Every step of the telemetry keeps every event accounted for.
LEMMA StepAccounted == TypedLines /\ Accounted /\ [TelemetryNext]_telemetryVars => Accounted'
<1> SUFFICES ASSUME TypedLines, Accounted, [TelemetryNext]_telemetryVars PROVE Accounted'
  OBVIOUS
<1>0. /\ published \in [Processes -> Nat] /\ ch \in [Processes -> Seq(AllEvents)]
      /\ batch \in [Processes -> Seq(AllEvents)]
  BY DEF TypedLines
<1>1. ASSUME NEW p \in Processes, Publish(p) PROVE Accounted'
  <2> DEFINE n == published[p] + 1
             e == Event(p, n)
  <2>1. /\ published' = [published EXCEPT ![p] = n]
        /\ UNCHANGED <<batch, topic>>
        /\ \/ ch' = [ch EXCEPT ![p] = Append(ch[p], e)] /\ UNCHANGED <<counted, lost>>
           \/ counted' = counted \cup {e} /\ UNCHANGED <<ch, lost>>
           \/ lost' = lost \cup {e} /\ UNCHANGED <<ch, counted>>
    BY <1>1, PublishFacts
  <2>2. published'[p] = n /\ \A q \in Processes : q # p => published'[q] = published[q] /\ ch'[q] = ch[q]
    BY <1>0, <2>1
  <2>3. EventsOf(published', p) = EventsOf(published, p) \cup {e}
    <3>1. 1 .. n = (1 .. published[p]) \cup {n}
      BY <1>0
    <3> HIDE DEF n
    <3> QED
      BY <2>2, <3>1 DEF EventsOf
  <2>4. ToSet(Append(ch[p], e)) = ToSet(ch[p]) \cup {e}
    <3> HIDE DEF e
    <3> QED
      BY <1>0, SetOfAppend
  <2>5. ToSet(ch'[p]) \cup counted' \cup lost' = ToSet(ch[p]) \cup counted \cup lost \cup {e}
    <3>1. CASE ch' = [ch EXCEPT ![p] = Append(ch[p], e)] /\ UNCHANGED <<counted, lost>>
      <4>1. ch'[p] = Append(ch[p], e)
        BY <1>0, <3>1
      <4> QED
        BY <2>4, <3>1, <4>1
    <3>2. CASE ~(ch' = [ch EXCEPT ![p] = Append(ch[p], e)] /\ UNCHANGED <<counted, lost>>)
      <4> HIDE DEF e
      <4> QED
        BY <2>1, <3>2
    <3> QED
      BY <3>1, <3>2
  <2> HIDE DEF e
  <2>6. \A q \in Processes : q # p => published'[q] = published[q] /\ ch'[q] = ch[q] /\ batch'[q] = batch[q]
    BY <2>1, <2>2
  <2>7. HeldIn(ch', batch', p) \cup Elsewhere' = HeldIn(ch, batch, p) \cup Elsewhere \cup {e}
    BY <2>1, <2>5 DEF HeldIn, Elsewhere
  <2> QED
    BY <2>3, <2>6, <2>7, OneAccounts
<1>2. ASSUME NEW p \in Processes, Take(p) PROVE Accounted'
  <2>1. /\ ch[p] # << >> /\ batch' = [batch EXCEPT ![p] = Append(batch[p], Head(ch[p]))]
        /\ ch' = [ch EXCEPT ![p] = Tail(ch[p])]
        /\ UNCHANGED <<published, topic, counted, lost>>
    BY <1>2 DEF Take
  <2>2. /\ batch'[p] = Append(batch[p], Head(ch[p])) /\ ch'[p] = Tail(ch[p])
        /\ \A q \in Processes : q # p => batch'[q] = batch[q] /\ ch'[q] = ch[q]
    BY <1>0, <2>1
  <2>3. ToSet(batch'[p]) = ToSet(batch[p]) \cup {Head(ch[p])}
    BY <1>0, <2>2, SetOfAppend
  <2>4. ToSet(ch[p]) = {Head(ch[p])} \cup ToSet(ch'[p])
    BY <1>0, <2>1, <2>2, SetOfTail
  <2>5. EventsOf(published', p) = EventsOf(published, p) \cup {}
    BY <2>1
  <2>6. \A q \in Processes : q # p => published'[q] = published[q] /\ ch'[q] = ch[q] /\ batch'[q] = batch[q]
    BY <2>1, <2>2
  <2>7. HeldIn(ch', batch', p) \cup Elsewhere' = HeldIn(ch, batch, p) \cup Elsewhere \cup {}
    BY <2>1, <2>3, <2>4 DEF HeldIn, Elsewhere
  <2> QED
    BY <2>5, <2>6, <2>7, OneAccounts
<1>3. ASSUME NEW p \in Processes, Flush(p) PROVE Accounted'
  <2>1. ch' = ch /\ batch' = [batch EXCEPT ![p] = << >>] /\ published' = published /\ lost' = lost
    BY <1>3, FlushFacts
  <2>2. ToSet(topic') \cup counted' = ToSet(topic) \cup counted \cup ToSet(batch[p])
    BY <1>3, FlushSets
  <2>3. batch'[p] = << >> /\ \A q \in Processes : q # p => batch'[q] = batch[q]
    BY <1>0, <2>1
  <2>4. ToSet(batch'[p]) = {}
    BY <2>3, SetOfNone
  <2>5. EventsOf(published', p) = EventsOf(published, p) \cup {}
    BY <2>1
  <2>6. \A q \in Processes : q # p => published'[q] = published[q] /\ ch'[q] = ch[q] /\ batch'[q] = batch[q]
    BY <2>1, <2>3
  <2>7. HeldIn(ch', batch', p) \cup Elsewhere' = HeldIn(ch, batch, p) \cup Elsewhere \cup {}
    BY <2>1, <2>2, <2>4 DEF HeldIn, Elsewhere
  <2> QED
    BY <2>5, <2>6, <2>7, OneAccounts
<1>4. ASSUME NEW p \in Processes, CloseChannel(p) \/ CloseReturns(p) PROVE Accounted'
  BY <1>4, AccountedMeans DEF CloseChannel, CloseReturns, Elsewhere
<1>5. ASSUME NEW p \in Processes, ProducerEnds(p) PROVE Accounted'
  <2>1. /\ lost' = lost \cup ToSet(ch[p]) \cup ToSet(batch[p])
        /\ ch' = [ch EXCEPT ![p] = << >>] /\ batch' = [batch EXCEPT ![p] = << >>]
        /\ UNCHANGED <<published, topic, counted>>
    BY <1>5 DEF ProducerEnds
  <2>2. /\ batch'[p] = << >> /\ ch'[p] = << >>
        /\ \A q \in Processes : q # p => batch'[q] = batch[q] /\ ch'[q] = ch[q]
    BY <1>0, <2>1
  <2>3. ToSet(batch'[p]) = {} /\ ToSet(ch'[p]) = {}
    BY <2>2, SetOfNone
  <2>4. EventsOf(published', p) = EventsOf(published, p) \cup {}
    BY <2>1
  <2>5. \A q \in Processes : q # p => published'[q] = published[q] /\ ch'[q] = ch[q] /\ batch'[q] = batch[q]
    BY <2>1, <2>2
  <2>6. HeldIn(ch', batch', p) \cup Elsewhere' = HeldIn(ch, batch, p) \cup Elsewhere \cup {}
    BY <2>1, <2>3 DEF HeldIn, Elsewhere
  <2> QED
    BY <2>4, <2>5, <2>6, OneAccounts
<1>6. CASE Join \/ Read \/ Handle \/ Commit \/ ConsumerRestarts
  BY <1>6, AccountedMeans DEF Join, Read, Handle, Commit, ConsumerRestarts, producerVars, Elsewhere
<1>7. CASE UNCHANGED telemetryVars
  BY <1>7, AccountedMeans DEF telemetryVars, Elsewhere
<1> QED
  BY <1>1, <1>2, <1>3, <1>4, <1>5, <1>6, <1>7 DEF TelemetryNext

\* Telemetry that starts has nothing to account for.
LEMMA InitTelemetry == TelemetryInit => TypedLines /\ Accounted
<1> SUFFICES ASSUME TelemetryInit PROVE TypedLines /\ Accounted
  OBVIOUS
<1>1. TypedLines
  BY DEF TelemetryInit, TypedLines
<1>2. 1 .. 0 = {}
  OBVIOUS
<1>3. \A p \in Processes : published[p] = 0 /\ ch[p] = << >> /\ batch[p] = << >>
  BY DEF TelemetryInit
<1>4. topic = << >> /\ counted = {} /\ lost = {}
  BY DEF TelemetryInit
<1>5. Events = {}
  BY <1>2, <1>3 DEF Events
<1>6. UnderWay = {}
  BY <1>3, SetOfNone DEF UnderWay
<1> QED
  BY <1>1, <1>4, <1>5, <1>6, SetOfNone DEF Accounted

\* A step of both trails is a step of the first or leaves it alone, and the same
\* of the second.
LEMMA Sides == [TrailsNext]_TrailsVars => [TelemetryNext]_telemetryVars /\ [AuditNext]_auditVars
BY DEF TrailsNext, TrailsVars

\* What is published is under way, in the log, counted, or gone with its process,
\* for any sizes of channel and batch and whatever the broker answers (Publish,
\* flush).
THEOREM AccountedHolds == TrailsSpec => []Accounted
<1>1. (TypedLines /\ Accounted) /\ [TrailsNext]_TrailsVars => (TypedLines /\ Accounted)'
  BY Sides, StepLines, StepAccounted
<1>2. TrailsInit => TypedLines /\ Accounted
  BY InitTelemetry DEF TrailsInit
<1> QED
  BY <1>1, <1>2, PTL DEF TrailsSpec

-------------------------------------------------------------------------------
(* Nothing is overtaken *)

Rising(s) == \A i, j \in DOMAIN s : i < j => s[i].no < s[j].no

\* What A holds of a process was published before what B holds of it.
Below(A, B) == \A x \in A, y \in B : x.by = y.by => x.no < y.no

\* Of the events of p, those in the log lie before the batch, the batch before
\* the channel, and the channel before what is still to come.
Ordered(p) ==
  /\ Rising(batch[p]) /\ Rising(ch[p])
  /\ Below(ToSet(topic), ToSet(batch[p])) /\ Below(ToSet(topic), ToSet(ch[p]))
  /\ Below(ToSet(batch[p]), ToSet(ch[p]))
  /\ \A x \in ToSet(topic) \cup ToSet(batch[p]) \cup ToSet(ch[p]) : x.by = p => x.no <= published[p]

\* NoOvertaking speaks of the log alone and is not inductive.
InOrder == \A p \in Processes : Ordered(p)

\* An element of a sequence is in its set.
LEMMA InSet ==
  ASSUME NEW S, NEW s \in Seq(S)
  PROVE  /\ \A i \in DOMAIN s : s[i] \in ToSet(s)
         /\ ToSet(s) \subseteq S
BY DEF ToSet

\* A later event at the end keeps a sequence rising.
LEMMA RisingAppend ==
  ASSUME NEW s \in Seq(AllEvents), NEW x \in AllEvents, Rising(s), \A y \in ToSet(s) : y.no < x.no
  PROVE  Rising(Append(s, x))
<1> SUFFICES ASSUME NEW i \in DOMAIN Append(s, x), NEW j \in DOMAIN Append(s, x), i < j
             PROVE  Append(s, x)[i].no < Append(s, x)[j].no
  BY DEF Rising
<1>1. i \in 1 .. (Len(s) + 1) /\ j \in 1 .. (Len(s) + 1) /\ Len(s) \in Nat /\ DOMAIN s = 1 .. Len(s)
  OBVIOUS
<1>2. i \in DOMAIN s /\ Append(s, x)[i] = s[i]
  BY <1>1
<1>3. CASE j = Len(s) + 1
  <2>1. Append(s, x)[j] = x /\ s[i] \in ToSet(s)
    BY <1>2, <1>3, InSet
  <2> QED
    BY <1>2, <2>1
<1>4. CASE j # Len(s) + 1
  <2>1. j \in DOMAIN s /\ Append(s, x)[j] = s[j]
    BY <1>1, <1>4
  <2> QED
    BY <1>2, <2>1 DEF Rising
<1> QED
  BY <1>3, <1>4

\* Taking the first keeps a sequence rising, and the rest above it.
LEMMA RisingTail ==
  ASSUME NEW s \in Seq(AllEvents), s # << >>, Rising(s)
  PROVE  Rising(Tail(s)) /\ \A y \in ToSet(Tail(s)) : Head(s).no < y.no
<1>1. \A i \in DOMAIN Tail(s) : i \in Nat /\ i > 0 /\ i + 1 \in DOMAIN s /\ Tail(s)[i] = s[i + 1]
  OBVIOUS
<1>2. Head(s) = s[1] /\ 1 \in DOMAIN s
  OBVIOUS
<1>3. Rising(Tail(s))
  <2> SUFFICES ASSUME NEW i \in DOMAIN Tail(s), NEW j \in DOMAIN Tail(s), i < j
               PROVE  Tail(s)[i].no < Tail(s)[j].no
    BY DEF Rising
  <2>1. i + 1 \in DOMAIN s /\ j + 1 \in DOMAIN s /\ i + 1 < j + 1
    BY <1>1
  <2>2. s[i + 1].no < s[j + 1].no
    BY <2>1 DEF Rising
  <2> QED
    BY <1>1, <2>2
<1>4. ASSUME NEW y \in ToSet(Tail(s)) PROVE Head(s).no < y.no
  <2>1. PICK i \in DOMAIN Tail(s) : y = Tail(s)[i]
    BY <1>4 DEF ToSet
  <2>2. i + 1 \in DOMAIN s /\ 1 < i + 1 /\ y = s[i + 1]
    BY <1>1, <2>1
  <2> QED
    BY <1>2, <2>2 DEF Rising
<1> QED
  BY <1>3, <1>4

\* A step of one process leaves the others in order: what it adds to the log is
\* its own.
LEMMA OthersInOrder ==
  ASSUME NEW p \in Processes, NEW q \in Processes, q # p, Ordered(q),
         published'[q] = published[q], ch'[q] = ch[q], batch'[q] = batch[q],
         \A x \in ToSet(topic') : x \in ToSet(topic) \/ x.by = p,
         \A y \in ToSet(batch[q]) \cup ToSet(ch[q]) : y.by = q
  PROVE  Ordered(q)'
BY DEF Ordered, Below

\* Every step keeps the lines of every process in the order of publication.
LEMMA StepOrder == TypedLines /\ InOrder /\ [TelemetryNext]_telemetryVars => InOrder'
<1> SUFFICES ASSUME TypedLines, InOrder, [TelemetryNext]_telemetryVars, NEW q \in Processes
             PROVE  Ordered(q)'
  BY DEF InOrder
<1>0. /\ published \in [Processes -> Nat] /\ ch \in [Processes -> Seq(AllEvents)]
      /\ batch \in [Processes -> Seq(AllEvents)] /\ topic \in Seq(AllEvents)
      /\ Ordered(q)
  BY DEF TypedLines, InOrder
<1>1. /\ \A x \in ToSet(ch[q]) \cup ToSet(batch[q]) : x.by = q /\ x.no \in Nat
      /\ \A x \in ToSet(topic) : x.no \in Nat
  <2>1. ToSet(ch[q]) \subseteq Own(q) /\ ToSet(batch[q]) \subseteq Own(q) /\ ToSet(topic) \subseteq AllEvents
    BY InSet DEF TypedLines
  <2>2. \A x \in AllEvents : x.no \in Nat
    BY DEF AllEvents
  <2> QED
    BY <2>1, <2>2, OwnEvents
<1>2. ASSUME NEW p \in Processes, Publish(p) PROVE Ordered(q)'
  <2> DEFINE n == published[p] + 1
             e == Event(p, n)
  <2>1. /\ e \in Own(p) /\ e \in AllEvents /\ e.no = n
        /\ published' = [published EXCEPT ![p] = n] /\ UNCHANGED <<batch, topic>>
        /\ ch' = [ch EXCEPT ![p] = Append(ch[p], e)] \/ ch' = ch
    BY <1>2, PublishFacts
  <2>2. n \in Nat /\ n = published[p] + 1
    BY <1>0
  <2> HIDE DEF n, e
  <2>3. CASE q # p
    <3>1. published'[q] = published[q] /\ ch'[q] = ch[q] /\ batch'[q] = batch[q] /\ topic' = topic
      BY <1>0, <2>1, <2>3
    <3> QED
      BY <1>0, <1>1, <2>3, <3>1, OthersInOrder
  <2>4. CASE q = p
    <3>1. published'[p] = n /\ (ch'[p] = Append(ch[p], e) \/ ch'[p] = ch[p])
      BY <1>0, <2>1
    <3>2. \A x \in ToSet(topic) \cup ToSet(batch[p]) \cup ToSet(ch[p]) : x.by = p => x.no < n /\ x.no <= n
      BY <1>0, <1>1, <2>2, <2>4 DEF Ordered
    <3>3. CASE ch'[p] = ch[p]
      BY <1>0, <2>1, <2>4, <3>1, <3>2, <3>3 DEF Ordered
    <3>4. CASE ch'[p] = Append(ch[p], e)
      <4>1. ToSet(ch'[p]) = ToSet(ch[p]) \cup {e} /\ e.by = p
        BY <1>0, <2>1, <3>4, SetOfAppend, OwnEvents
      <4>2. Rising(ch'[p])
        <5>1. \A y \in ToSet(ch[p]) : y.no < e.no
          BY <1>1, <2>1, <2>4, <3>2
        <5>2. Rising(ch[p]) /\ ch[p] \in Seq(AllEvents)
          BY <1>0, <2>4 DEF Ordered
        <5> QED
          BY <2>1, <3>4, <5>1, <5>2, RisingAppend
      <4>3. Below(ToSet(topic), ToSet(ch'[p])) /\ Below(ToSet(batch[p]), ToSet(ch'[p]))
        BY <1>0, <2>1, <2>4, <3>2, <4>1 DEF Ordered, Below
      <4>4. \A x \in ToSet(topic) \cup ToSet(batch[p]) \cup ToSet(ch'[p]) : x.by = p => x.no <= n
        BY <2>1, <2>2, <3>2, <4>1
      <4> QED
        BY <1>0, <2>1, <2>4, <3>1, <4>2, <4>3, <4>4 DEF Ordered
    <3> QED
      BY <3>1, <3>3, <3>4
  <2> QED
    BY <2>3, <2>4
<1>3. ASSUME NEW p \in Processes, Take(p) PROVE Ordered(q)'
  <2>1. /\ ch[p] # << >> /\ batch' = [batch EXCEPT ![p] = Append(batch[p], Head(ch[p]))]
        /\ ch' = [ch EXCEPT ![p] = Tail(ch[p])] /\ UNCHANGED <<published, topic>>
    BY <1>3 DEF Take
  <2>2. CASE q # p
    <3>1. published'[q] = published[q] /\ ch'[q] = ch[q] /\ batch'[q] = batch[q] /\ topic' = topic
      BY <1>0, <2>1, <2>2
    <3> QED
      BY <1>0, <1>1, <2>2, <3>1, OthersInOrder
  <2>3. CASE q = p
    <3> DEFINE c == ch[p]
               b == batch[p]
    <3>0. /\ c \in Seq(AllEvents) /\ b \in Seq(AllEvents) /\ c # << >>
          /\ batch'[p] = Append(b, Head(c)) /\ ch'[p] = Tail(c)
      BY <1>0, <2>1
    <3>1. /\ Rising(b) /\ Rising(c)
          /\ Below(ToSet(topic), ToSet(b)) /\ Below(ToSet(topic), ToSet(c)) /\ Below(ToSet(b), ToSet(c))
          /\ \A x \in ToSet(topic) \cup ToSet(b) \cup ToSet(c) : x.by = p => x.no <= published[p]
      BY <1>0, <2>3 DEF Ordered
    <3>2. \A x \in ToSet(c) \cup ToSet(b) : x.by = p
      BY <1>1, <2>3
    <3> HIDE DEF b, c
    <3>3. ToSet(batch'[p]) = ToSet(b) \cup {Head(c)}
      BY <3>0, SetOfAppend
    <3>4. ToSet(c) = {Head(c)} \cup ToSet(ch'[p]) /\ Head(c) \in AllEvents
      BY <3>0, SetOfTail
    <3>5. Rising(ch'[p]) /\ \A y \in ToSet(ch'[p]) : Head(c).no < y.no
      BY <3>0, <3>1, RisingTail
    <3>6. Rising(batch'[p])
      <4>1. \A y \in ToSet(b) : y.no < Head(c).no
        BY <3>1, <3>2, <3>4 DEF Below
      <4> QED
        BY <3>0, <3>1, <3>4, <4>1, RisingAppend
    <3>7. /\ Below(ToSet(topic), ToSet(batch'[p])) /\ Below(ToSet(topic), ToSet(ch'[p]))
          /\ Below(ToSet(batch'[p]), ToSet(ch'[p]))
      BY <3>1, <3>3, <3>4, <3>5 DEF Below
    <3>8. \A x \in ToSet(topic) \cup ToSet(batch'[p]) \cup ToSet(ch'[p]) : x.by = p => x.no <= published[p]
      BY <3>1, <3>3, <3>4
    <3> QED
      BY <2>1, <2>3, <3>5, <3>6, <3>7, <3>8 DEF Ordered
  <2> QED
    BY <2>2, <2>3
<1>4. ASSUME NEW p \in Processes, Flush(p) PROVE Ordered(q)'
  <2>1. ch' = ch /\ batch' = [batch EXCEPT ![p] = << >>] /\ published' = published
    BY <1>4, FlushFacts
  <2>2. ToSet(topic') \subseteq ToSet(topic) \cup ToSet(batch[p])
    BY <1>4, FlushSets
  <2>3. CASE q # p
    <3>1. published'[q] = published[q] /\ ch'[q] = ch[q] /\ batch'[q] = batch[q]
      BY <1>0, <2>1, <2>3
    <3>2. \A x \in ToSet(batch[p]) : x.by = p
      BY InSet, OwnEvents DEF TypedLines
    <3> QED
      BY <1>0, <1>1, <2>2, <2>3, <3>1, <3>2, OthersInOrder
  <2>4. CASE q = p
    <3>1. batch'[p] = << >>
      BY <1>0, <2>1
    <3>2. ToSet(batch'[p]) = {} /\ Rising(batch'[p])
      BY <3>1, SetOfNone DEF Rising
    <3>3. Below(ToSet(topic'), ToSet(ch[p]))
      BY <1>0, <2>2, <2>4 DEF Ordered, Below
    <3>4. Below(ToSet(topic'), ToSet(batch'[p])) /\ Below(ToSet(batch'[p]), ToSet(ch[p]))
      BY <3>2 DEF Below
    <3>5. \A x \in ToSet(topic') \cup ToSet(batch'[p]) \cup ToSet(ch[p]) : x.by = p => x.no <= published[p]
      BY <1>0, <2>2, <2>4, <3>2 DEF Ordered
    <3>6. Rising(ch[p])
      BY <1>0, <2>4 DEF Ordered
    <3> QED
      BY <2>1, <2>4, <3>2, <3>3, <3>4, <3>5, <3>6 DEF Ordered
  <2> QED
    BY <2>3, <2>4
<1>5. ASSUME NEW p \in Processes, CloseChannel(p) \/ CloseReturns(p) PROVE Ordered(q)'
  BY <1>0, <1>5 DEF CloseChannel, CloseReturns, Ordered
<1>6. ASSUME NEW p \in Processes, ProducerEnds(p) PROVE Ordered(q)'
  <2>1. /\ ch' = [ch EXCEPT ![p] = << >>] /\ batch' = [batch EXCEPT ![p] = << >>]
        /\ UNCHANGED <<published, topic>>
    BY <1>6 DEF ProducerEnds
  <2>2. CASE q # p
    <3>1. published'[q] = published[q] /\ ch'[q] = ch[q] /\ batch'[q] = batch[q] /\ topic' = topic
      BY <1>0, <2>1, <2>2
    <3> QED
      BY <1>0, <1>1, <2>2, <3>1, OthersInOrder
  <2>3. CASE q = p
    <3>1. ch'[q] = << >> /\ batch'[q] = << >>
      BY <1>0, <2>1, <2>3
    <3>2. ToSet(ch'[q]) = {} /\ ToSet(batch'[q]) = {} /\ Rising(ch'[q]) /\ Rising(batch'[q])
      BY <3>1, SetOfNone DEF Rising
    <3>3. \A x \in ToSet(topic) : x.by = q => x.no <= published[q]
      BY <1>0 DEF Ordered
    <3> QED
      BY <2>1, <3>2, <3>3 DEF Ordered, Below
  <2> QED
    BY <2>2, <2>3
<1>7. CASE Join \/ Read \/ Handle \/ Commit \/ ConsumerRestarts
  BY <1>0, <1>7 DEF Join, Read, Handle, Commit, ConsumerRestarts, producerVars, Ordered
<1>8. CASE UNCHANGED telemetryVars
  BY <1>0, <1>8 DEF telemetryVars, Ordered
<1> QED
  BY <1>2, <1>3, <1>4, <1>5, <1>6, <1>7, <1>8 DEF TelemetryNext

\* What comes too early came before: NoOvertaking for any sequence.
Tame(s) ==
  \A i, j \in DOMAIN s :
    i < j /\ s[i].by = s[j].by /\ s[j].no < s[i].no => \E h \in 1 .. (i - 1) : s[h] = s[j]

\* The events of a sequence have numbers.
LEMMA Numbered ==
  ASSUME NEW s \in Seq(AllEvents)
  PROVE  \A i \in 1 .. Len(s) : i \in DOMAIN s /\ s[i].no \in Nat
<1>1. \A i \in 1 .. Len(s) : i \in DOMAIN s /\ s[i] \in AllEvents
  OBVIOUS
<1>2. \A x \in AllEvents : x.no \in Nat
  BY DEF AllEvents
<1> QED
  BY <1>1, <1>2

\* A beginning of a rising sequence overtakes nothing.
LEMMA TamePart ==
  ASSUME NEW b \in Seq(AllEvents), Rising(b), NEW k \in 0 .. Len(b)
  PROVE  Tame(SubSeq(b, 1, k))
<1> DEFINE p == SubSeq(b, 1, k)
<1>1. DOMAIN p = 1 .. k /\ \A i \in 1 .. k : p[i] = b[i] /\ i \in DOMAIN b /\ b[i].no \in Nat
  <2>1. p \in Seq(AllEvents) /\ Len(p) = k /\ \A i \in 1 .. k : p[i] = b[i]
    BY SetOfPart
  <2>2. \A i \in 1 .. k : i \in DOMAIN b /\ b[i].no \in Nat
    <3>1. \A i \in 1 .. k : i \in 1 .. Len(b)
      OBVIOUS
    <3> QED
      BY <3>1, Numbered
  <2> HIDE DEF p
  <2> QED
    BY <2>1, <2>2
<1> HIDE DEF p
<1>2. ASSUME NEW i \in DOMAIN p, NEW j \in DOMAIN p, i < j, p[j].no < p[i].no PROVE FALSE
  <2>1. b[i].no < b[j].no /\ b[i].no \in Nat /\ b[j].no \in Nat /\ p[i] = b[i] /\ p[j] = b[j]
    BY <1>1, <1>2 DEF Rising
  <2> QED
    BY <1>2, <2>1
<1> QED
  BY <1>2 DEF Tame, p

\* A part of the batch and then all of it, the way a repeated write leaves it.
LEMMA TameRepeated ==
  ASSUME NEW b \in Seq(AllEvents), Rising(b), NEW k \in 0 .. Len(b)
  PROVE  Tame(SubSeq(b, 1, k) \o b)
<1> DEFINE p == SubSeq(b, 1, k)
           w == p \o b
<1>1. p \in Seq(AllEvents) /\ Len(p) = k /\ \A i \in 1 .. k : p[i] = b[i]
  BY SetOfPart
<1>2. /\ k \in Nat /\ Len(b) \in Nat /\ DOMAIN b = 1 .. Len(b) /\ DOMAIN w = 1 .. (k + Len(b))
      /\ \A i \in 1 .. (k + Len(b)) : w[i] = IF i <= k THEN p[i] ELSE b[i - k]
  <2> HIDE DEF p
  <2> QED
    BY <1>1
<1>3. \A i \in 1 .. Len(b) : b[i].no \in Nat
  BY Numbered
<1> HIDE DEF p, w
<1>4. ASSUME NEW i \in DOMAIN w, NEW j \in DOMAIN w, i < j, w[i].by = w[j].by, w[j].no < w[i].no
      PROVE  \E h \in 1 .. (i - 1) : w[h] = w[j]
  <2>1. CASE j <= k
    <3>1. i \in DOMAIN b /\ j \in DOMAIN b /\ w[i] = b[i] /\ w[j] = b[j]
      BY <1>1, <1>2, <1>4, <2>1
    <3>2. b[i].no < b[j].no /\ b[i].no \in Nat /\ b[j].no \in Nat
      BY <1>2, <1>3, <1>4, <3>1 DEF Rising
    <3> QED
      BY <1>4, <3>1, <3>2
  <2>2. CASE i > k
    <3>1. i - k \in DOMAIN b /\ j - k \in DOMAIN b /\ w[i] = b[i - k] /\ w[j] = b[j - k] /\ i - k < j - k
      BY <1>2, <1>4, <2>2
    <3>2. b[i - k].no < b[j - k].no /\ b[i - k].no \in Nat /\ b[j - k].no \in Nat
      BY <1>2, <1>3, <3>1 DEF Rising
    <3> QED
      BY <1>4, <3>1, <3>2
  <2>3. CASE i <= k /\ j > k
    <3> DEFINE h == j - k
    <3>1. i \in DOMAIN b /\ h \in DOMAIN b /\ w[i] = b[i] /\ w[j] = b[h]
      BY <1>1, <1>2, <1>4, <2>3
    <3>2. b[i].no \in Nat /\ b[h].no \in Nat
      BY <1>2, <1>3, <3>1
    <3>3. h < i
      <4>1. CASE h = i
        BY <1>4, <3>1, <3>2, <4>1
      <4>2. CASE i < h
        BY <1>4, <3>1, <3>2, <4>2 DEF Rising
      <4> QED
        BY <1>2, <3>1, <4>1, <4>2
    <3>4. h \in 1 .. (i - 1) /\ h <= k
      BY <1>2, <2>3, <3>1, <3>3
    <3>5. w[h] = b[h]
      BY <1>1, <1>2, <3>4
    <3> QED
      BY <3>1, <3>4, <3>5
  <2> QED
    BY <1>2, <2>1, <2>2, <2>3
<1> QED
  BY <1>4 DEF Tame, p, w

\* Nor does a sequence behind one that lies below it.
LEMMA TameConcat ==
  ASSUME NEW s \in Seq(AllEvents), NEW t \in Seq(AllEvents), Tame(s), Tame(t), Below(ToSet(s), ToSet(t))
  PROVE  Tame(s \o t)
<1> DEFINE w == s \o t
           n == Len(s)
<1>1. /\ n \in Nat /\ Len(t) \in Nat /\ DOMAIN s = 1 .. n /\ DOMAIN t = 1 .. Len(t)
      /\ DOMAIN w = 1 .. (n + Len(t))
      /\ \A i \in 1 .. (n + Len(t)) : w[i] = IF i <= n THEN s[i] ELSE t[i - n]
  OBVIOUS
<1>2. /\ \A i \in DOMAIN s : s[i] \in ToSet(s) /\ s[i].no \in Nat
      /\ \A i \in DOMAIN t : t[i] \in ToSet(t) /\ t[i].no \in Nat
  <2>1. DOMAIN s = 1 .. Len(s) /\ DOMAIN t = 1 .. Len(t)
    OBVIOUS
  <2> QED
    BY <2>1, InSet, Numbered
<1> HIDE DEF w, n
<1>3. ASSUME NEW i \in DOMAIN w, NEW j \in DOMAIN w, i < j, w[i].by = w[j].by, w[j].no < w[i].no
      PROVE  \E h \in 1 .. (i - 1) : w[h] = w[j]
  <2>1. CASE j <= n
    <3>1. i \in DOMAIN s /\ j \in DOMAIN s /\ w[i] = s[i] /\ w[j] = s[j]
      BY <1>1, <1>3, <2>1
    <3>2. PICK h \in 1 .. (i - 1) : s[h] = s[j]
      BY <1>3, <3>1 DEF Tame
    <3>3. w[h] = s[h]
      BY <1>1, <3>1, <3>2
    <3> QED
      BY <3>1, <3>2, <3>3
  <2>2. CASE i > n
    <3>1. i - n \in DOMAIN t /\ j - n \in DOMAIN t /\ w[i] = t[i - n] /\ w[j] = t[j - n] /\ i - n < j - n
      BY <1>1, <1>3, <2>2
    <3>2. PICK h \in 1 .. ((i - n) - 1) : t[h] = t[j - n]
      BY <1>3, <3>1 DEF Tame
    <3>3. h + n \in 1 .. (i - 1) /\ w[h + n] = t[h]
      <4>1. h \in Nat /\ h >= 1 /\ h + n <= i - 1 /\ i \in 1 .. (n + Len(t))
        BY <1>1, <2>2, <3>2
      <4>2. h + n \in 1 .. (n + Len(t)) /\ ~(h + n <= n) /\ (h + n) - n = h /\ h + n \in 1 .. (i - 1)
        BY <1>1, <4>1
      <4> QED
        BY <1>1, <4>2
    <3> QED
      BY <3>1, <3>2, <3>3
  <2>3. CASE i <= n /\ j > n
    <3>1. i \in DOMAIN s /\ j - n \in DOMAIN t /\ w[i] = s[i] /\ w[j] = t[j - n]
      BY <1>1, <1>3, <2>3
    <3>2. s[i].no < t[j - n].no /\ s[i].no \in Nat /\ t[j - n].no \in Nat
      BY <1>2, <1>3, <3>1 DEF Below
    <3> QED
      BY <1>3, <3>1, <3>2
  <2>4. n \in Int /\ i \in Int /\ j \in Int
    BY <1>1
  <2>5. j <= n \/ i > n \/ (i <= n /\ j > n)
    BY <2>4
  <2> QED
    BY <2>1, <2>2, <2>3, <2>5
<1> QED
  BY <1>3 DEF Tame, w

\* Every step keeps the topic free of overtaking.
LEMMA StepTame == TypedLines /\ InOrder /\ NoOvertaking /\ [TelemetryNext]_telemetryVars => NoOvertaking'
<1> SUFFICES ASSUME TypedLines, InOrder, NoOvertaking, [TelemetryNext]_telemetryVars PROVE Tame(topic')
  BY DEF NoOvertaking, Tame
<1>0. Tame(topic) /\ topic \in Seq(AllEvents)
  BY DEF NoOvertaking, Tame, TypedLines
<1>1. CASE UNCHANGED topic
  BY <1>0, <1>1
<1>2. ASSUME NEW p \in Processes, Flush(p) PROVE Tame(topic')
  <2> DEFINE b == batch[p]
  <2>0. b \in Seq(AllEvents) /\ Rising(b) /\ Below(ToSet(topic), ToSet(b))
    BY DEF TypedLines, InOrder, Ordered
  <2>1. PICK k \in 0 .. Len(b) :
          topic' = topic \o SubSeq(b, 1, k) \/ topic' = topic \o (SubSeq(b, 1, k) \o b)
    BY <1>2, FlushFacts
  <2> DEFINE part == SubSeq(b, 1, k)
             twice == part \o b
  <2> HIDE DEF b
  <2>2. part \in Seq(AllEvents) /\ ToSet(part) \subseteq ToSet(b) /\ Tame(part)
    BY <2>0, SetOfPart, TamePart
  <2>3. twice \in Seq(AllEvents) /\ ToSet(twice) \subseteq ToSet(b) /\ Tame(twice)
    <3>1. Tame(twice)
      BY <2>0, TameRepeated
    <3> HIDE DEF part
    <3>2. twice \in Seq(AllEvents) /\ ToSet(twice) = ToSet(part) \cup ToSet(b)
      BY <2>0, <2>2, SetOfConcat
    <3> HIDE DEF twice
    <3> QED
      BY <2>2, <3>1, <3>2
  <2>4. topic' = topic \o part \/ topic' = topic \o twice
    BY <2>1
  <2> HIDE DEF part, twice
  <2>5. Below(ToSet(topic), ToSet(part)) /\ Below(ToSet(topic), ToSet(twice))
    BY <2>0, <2>2, <2>3 DEF Below
  <2>6. Tame(topic \o part)
    BY <1>0, <2>2, <2>5, TameConcat
  <2>7. Tame(topic \o twice)
    BY <1>0, <2>3, <2>5, TameConcat
  <2> QED
    BY <2>4, <2>6, <2>7
<1>3. ASSUME NEW p \in Processes,
             Publish(p) \/ Take(p) \/ CloseChannel(p) \/ CloseReturns(p) \/ ProducerEnds(p)
      PROVE  UNCHANGED topic
  BY <1>3 DEF Publish, Take, CloseChannel, CloseReturns, ProducerEnds
<1>4. ASSUME Join \/ Read \/ Handle \/ Commit \/ ConsumerRestarts PROVE UNCHANGED topic
  BY <1>4 DEF Join, Read, Handle, Commit, ConsumerRestarts
<1>5. ASSUME UNCHANGED telemetryVars PROVE UNCHANGED topic
  BY <1>5 DEF telemetryVars
<1> QED
  BY <1>1, <1>2, <1>3, <1>4, <1>5 DEF TelemetryNext

\* The scorer hears of what one process says of a shard in the order it was
\* published, for any number of processes and whatever the sizes, the failures
\* and the repeated writes (one channel and one loop per process, one partition).
THEOREM NoOvertakingHolds == TrailsSpec => []NoOvertaking
<1> DEFINE Inv == TypedLines /\ InOrder /\ NoOvertaking
<1>1. Inv /\ [TrailsNext]_TrailsVars => Inv'
  BY Sides, StepLines, StepOrder, StepTame
<1>2. TrailsInit => Inv
  <2>1. TrailsInit => TypedLines
    BY InitTelemetry DEF TrailsInit
  <2>2. TrailsInit => InOrder /\ NoOvertaking
    BY SetOfNone DEF TrailsInit, TelemetryInit, InOrder, Ordered, NoOvertaking, Rising, Below
  <2> QED
    BY <2>1, <2>2
<1> QED
  BY <1>1, <1>2, PTL DEF TrailsSpec

-------------------------------------------------------------------------------
(* A restart of the scorer costs one message *)

\* Messages this life of the consumer is done with.
Done == IF inHand THEN pos - 1 ELSE pos

Missed(n) == Cardinality((1 .. n) \ heard)

\* LossBounded counts the message in hand as missed even when it was handled in
\* an earlier life; what has been missed for good is inductive.
LossInv ==
  /\ pos \in Nat /\ committed \in Nat /\ restarts \in Nat /\ inHand \in BOOLEAN
  /\ committed <= pos /\ (inHand => pos > 0)
  /\ Missed(Done) <= restarts

\* How a count of missed positions grows: by one position at a time.
LEMMA MissedFacts ==
  ASSUME NEW h, NEW n \in Nat
  PROVE  /\ IsFiniteSet((1 .. n) \ h) /\ Cardinality((1 .. n) \ h) \in Nat
         /\ \A m \in 0 .. n : Cardinality((1 .. m) \ h) <= Cardinality((1 .. n) \ h)
         /\ Cardinality((1 .. (n + 1)) \ h) <= Cardinality((1 .. n) \ h) + 1
<1>1. \A m \in Nat : IsFiniteSet((1 .. m) \ h)
  <2> TAKE m \in Nat
  <2>1. IsFiniteSet(1 .. m)
    BY FS_Interval
  <2>2. (1 .. m) \ h \in SUBSET (1 .. m)
    OBVIOUS
  <2> QED
    BY <2>1, <2>2, FS_Subset
<1>2. Cardinality((1 .. n) \ h) \in Nat
  BY <1>1, FS_CardinalityType
<1>3. ASSUME NEW m \in 0 .. n PROVE Cardinality((1 .. m) \ h) <= Cardinality((1 .. n) \ h)
  <2>1. (1 .. m) \ h \in SUBSET ((1 .. n) \ h)
    OBVIOUS
  <2> QED
    BY <1>1, <2>1, FS_Subset
<1>4. Cardinality((1 .. (n + 1)) \ h) <= Cardinality((1 .. n) \ h) + 1
  <2> DEFINE S == (1 .. n) \ h
             T == (1 .. (n + 1)) \ h
  <2>1. T \in SUBSET (S \cup {n + 1}) /\ n + 1 \notin S
    OBVIOUS
  <2>2. IsFiniteSet(S)
    BY <1>1
  <2> HIDE DEF S, T
  <2>3. IsFiniteSet(S \cup {n + 1}) /\ Cardinality(S \cup {n + 1}) = Cardinality(S) + 1
    BY <2>1, <2>2, FS_AddElement
  <2>4. Cardinality(T) <= Cardinality(S \cup {n + 1})
    BY <2>1, <2>3, FS_Subset
  <2> QED
    BY <2>3, <2>4 DEF S, T
<1> QED
  BY <1>1, <1>2, <1>3, <1>4

\* Every step keeps what was missed within the restarts.
LEMMA StepLoss == LossInv /\ [TelemetryNext]_telemetryVars => LossInv'
<1> SUFFICES ASSUME LossInv, [TelemetryNext]_telemetryVars PROVE LossInv'
  OBVIOUS
<1>0. /\ pos \in Nat /\ committed \in Nat /\ restarts \in Nat /\ inHand \in BOOLEAN
      /\ committed <= pos /\ (inHand => pos > 0) /\ Missed(Done) <= restarts
  BY DEF LossInv
<1>1. CASE UNCHANGED consumerVars
  BY <1>1 DEF consumerVars, LossInv, Missed, Done
<1>2. CASE Join
  BY <1>2 DEF Join, LossInv, Missed, Done
<1>3. CASE Read
  <2>1. ~inHand /\ inHand' = TRUE /\ pos' = pos + 1 /\ UNCHANGED <<committed, heard, restarts>>
    BY <1>3 DEF Read
  <2>2. Done' = pos /\ Done = pos
    BY <1>0, <2>1 DEF Done
  <2> QED
    BY <1>0, <2>1, <2>2 DEF LossInv, Missed
<1>4. CASE Handle
  <2>1. inHand /\ inHand' = FALSE /\ heard' = heard \cup {pos} /\ UNCHANGED <<pos, committed, restarts>>
    BY <1>4 DEF Handle
  <2>2. Done' = pos /\ Done = pos - 1 /\ pos > 0
    BY <1>0, <2>1 DEF Done
  <2>3. (1 .. pos) \ heard' \in SUBSET ((1 .. (pos - 1)) \ heard)
    BY <1>0, <2>1
  <2>4. IsFiniteSet((1 .. (pos - 1)) \ heard) /\ Cardinality((1 .. (pos - 1)) \ heard) \in Nat
    <3>1. pos - 1 \in Nat
      BY <1>0, <2>2
    <3> QED
      BY <3>1, MissedFacts
  <2>5. Cardinality((1 .. pos) \ heard') <= Cardinality((1 .. (pos - 1)) \ heard)
    BY <2>3, <2>4, FS_Subset
  <2>6. Cardinality((1 .. pos) \ heard') \in Nat
    BY <1>0, MissedFacts
  <2>7. Missed(Done)' = Cardinality((1 .. pos) \ heard') /\ Missed(Done) = Cardinality((1 .. (pos - 1)) \ heard)
    BY <2>1, <2>2 DEF Missed
  <2>8. (Missed(Done) <= restarts)'
    BY <1>0, <2>1, <2>4, <2>5, <2>6, <2>7
  <2> QED
    BY <1>0, <2>1, <2>8 DEF LossInv
<1>5. CASE Commit
  <2>1. committed' = pos /\ UNCHANGED <<pos, inHand, heard, restarts>>
    BY <1>5 DEF Commit
  <2> QED
    BY <1>0, <2>1 DEF LossInv, Missed, Done
<1>6. CASE ConsumerRestarts
  <2>1. /\ restarts' = restarts + 1 /\ inHand' = FALSE /\ pos' = committed
        /\ UNCHANGED <<committed, heard>>
    BY <1>6 DEF ConsumerRestarts, Resume
  <2>2. Cardinality((1 .. pos) \ heard) <= restarts + 1 /\ Cardinality((1 .. pos) \ heard) \in Nat
    <3>1. CASE inHand
      <4> DEFINE n == pos - 1
      <4>1. n \in Nat /\ n + 1 = pos
        BY <1>0, <3>1
      <4>2. Cardinality((1 .. n) \ heard) <= restarts
        BY <1>0, <3>1 DEF Missed, Done
      <4> HIDE DEF n
      <4>3. /\ Cardinality((1 .. n) \ heard) \in Nat /\ Cardinality((1 .. (n + 1)) \ heard) \in Nat
            /\ Cardinality((1 .. (n + 1)) \ heard) <= Cardinality((1 .. n) \ heard) + 1
        <5>1. n + 1 \in Nat
          BY <4>1
        <5> QED
          BY <4>1, <5>1, MissedFacts
      <4> QED
        BY <1>0, <4>1, <4>2, <4>3
    <3>2. CASE ~inHand
      <4>1. Cardinality((1 .. pos) \ heard) <= restarts
        BY <1>0, <3>2 DEF Missed, Done
      <4>2. Cardinality((1 .. pos) \ heard) \in Nat
        BY <1>0, MissedFacts
      <4> QED
        BY <1>0, <4>1, <4>2
    <3> QED
      BY <3>1, <3>2
  <2>3. Cardinality((1 .. committed) \ heard) <= Cardinality((1 .. pos) \ heard)
    <3>1. committed \in 0 .. pos
      BY <1>0
    <3> QED
      BY <1>0, <3>1, MissedFacts
  <2>4. Cardinality((1 .. committed) \ heard) \in Nat
    BY <1>0, MissedFacts
  <2>5. Missed(Done)' = Cardinality((1 .. committed) \ heard)
    BY <2>1 DEF Missed, Done
  <2>6. (Missed(Done) <= restarts)'
    BY <1>0, <2>1, <2>2, <2>3, <2>4, <2>5
  <2>7. inHand' \in BOOLEAN /\ (inHand' => pos' > 0)
    BY <2>1, Zenon
  <2>8. pos' \in Nat /\ committed' \in Nat /\ restarts' \in Nat /\ committed' <= pos'
    BY <1>0, <2>1
  <2> QED
    BY <2>6, <2>7, <2>8 DEF LossInv
<1>7. ASSUME NEW p \in Processes,
             \/ Publish(p) \/ Take(p) \/ Flush(p)
             \/ CloseChannel(p) \/ CloseReturns(p) \/ ProducerEnds(p)
      PROVE  UNCHANGED consumerVars
  BY <1>7 DEF Publish, Take, Flush, CloseChannel, CloseReturns, ProducerEnds
<1>8. ASSUME UNCHANGED telemetryVars PROVE UNCHANGED consumerVars
  BY <1>8 DEF telemetryVars, consumerVars
<1> QED
  BY <1>1, <1>2, <1>3, <1>4, <1>5, <1>6, <1>7, <1>8 DEF TelemetryNext

\* However reads, commits and crashes of the consumer interleave, each restart
\* costs at most one message, the one committed before it was handled
\* (ReadMessage, CommitInterval).
THEOREM LossBoundedHolds == TrailsSpec => []LossBounded
<1>1. LossInv /\ [TrailsNext]_TrailsVars => LossInv'
  BY Sides, StepLoss
<1>2. TrailsInit => LossInv
  <2> SUFFICES ASSUME TrailsInit PROVE LossInv
    OBVIOUS
  <2>1. pos = 0 /\ inHand = FALSE /\ committed = 0 /\ heard = {} /\ restarts = 0
    BY DEF TrailsInit, TelemetryInit
  <2>2. (1 .. 0) \ {} = {}
    OBVIOUS
  <2>3. Missed(Done) = 0
    BY <2>1, <2>2, FS_EmptySet DEF Missed, Done
  <2>4. inHand \in BOOLEAN /\ (inHand => pos > 0)
    BY <2>1, Zenon
  <2> QED
    BY <2>1, <2>3, <2>4 DEF LossInv
<1>3. LossInv => LossBounded
  <2> SUFFICES ASSUME LossInv
               PROVE  Cardinality((1 .. pos) \ heard) <= restarts + (IF inHand THEN 1 ELSE 0)
    BY DEF LossBounded
  <2>0. pos \in Nat /\ restarts \in Nat /\ (inHand => pos > 0) /\ Missed(Done) <= restarts
    BY DEF LossInv
  <2>1. CASE inHand
    <3> DEFINE n == pos - 1
    <3>1. n \in Nat /\ n + 1 = pos
      BY <2>0, <2>1
    <3>2. Cardinality((1 .. n) \ heard) <= restarts
      BY <2>0, <2>1 DEF Missed, Done
    <3> HIDE DEF n
    <3>3. /\ Cardinality((1 .. n) \ heard) \in Nat /\ Cardinality((1 .. (n + 1)) \ heard) \in Nat
          /\ Cardinality((1 .. (n + 1)) \ heard) <= Cardinality((1 .. n) \ heard) + 1
      <4>1. n + 1 \in Nat
        BY <3>1
      <4> QED
        BY <3>1, <4>1, MissedFacts
    <3> QED
      BY <2>0, <2>1, <3>1, <3>2, <3>3
  <2>2. CASE ~inHand
    <3>1. Cardinality((1 .. pos) \ heard) <= restarts
      BY <2>0, <2>2 DEF Missed, Done
    <3>2. Cardinality((1 .. pos) \ heard) \in Nat
      BY <2>0, MissedFacts
    <3> QED
      BY <2>0, <2>2, <3>1, <3>2
  <2> QED
    BY <2>1, <2>2
<1> QED
  BY <1>1, <1>2, <1>3, PTL DEF TrailsSpec

-------------------------------------------------------------------------------
(* What becomes of a record *)

Kinds == {"audit", "block"}

Distinct(s) == \A i, j \in DOMAIN s : i # j => s[i] # s[j]

\* Records are enqueued once: without it, one taken from the channel might still
\* be in it.
TrailTyped ==
  made \in Seq(Kinds) /\ queued \in Seq(Nat) /\ pack \in Seq(Nat) /\ Distinct(queued)

\* Every element of A is in exactly one of five places.
Split(A, Q, P, S, U, V) ==
  /\ A = Q \cup P \cup S \cup U \cup V
  /\ Q \cap P = {} /\ Q \cap S = {} /\ Q \cap U = {} /\ Q \cap V = {}
  /\ P \cap S = {} /\ P \cap U = {} /\ P \cap V = {}
  /\ S \cap U = {} /\ S \cap V = {} /\ U \cap V = {}

\* In their table, counted as dropped, or both.
Settled == stored \cup dropped

TrailSplit == Split(DOMAIN made, ToSet(queued), ToSet(pack), Settled, unheard, vanished)

\* The five places, named one by one, are the places of the property.
LEMMA SplitIsAccounted == TrailSplit => TrailAccounted
<1> SUFFICES ASSUME TrailSplit PROVE TrailAccounted
  OBVIOUS
<1> DEFINE Q == ToSet(queued)
           P == ToSet(pack)
           places == <<Q, P, Settled, unheard, vanished>>
<1>0. Split(DOMAIN made, Q, P, Settled, unheard, vanished)
  BY DEF TrailSplit
<1> HIDE DEF Q, P
<1>1. /\ DOMAIN places = 1 .. 5
      /\ places[1] = Q /\ places[2] = P /\ places[3] = Settled /\ places[4] = unheard /\ places[5] = vanished
  OBVIOUS
<1>2. 1 .. 5 = {1, 2, 3, 4, 5}
  OBVIOUS
<1> HIDE DEF places
<1>3. \A i, j \in DOMAIN places : i # j => places[i] \cap places[j] = {}
  BY <1>0, <1>1, <1>2 DEF Split
<1>4. ToSet(places) = {Q, P, Settled, unheard, vanished}
  <2>1. ToSet(places) = {places[i] : i \in {1, 2, 3, 4, 5}}
    BY <1>1, <1>2 DEF ToSet
  <2> QED
    BY <1>1, <2>1
<1>5. DOMAIN made = UNION ToSet(places)
  BY <1>0, <1>4 DEF Split
<1> QED
  BY <1>3, <1>5 DEF TrailAccounted, places, Q, P, Settled

\* A new element at the end keeps a sequence free of repetitions.
LEMMA DistinctAppend ==
  ASSUME NEW s \in Seq(Nat), NEW x \in Nat, Distinct(s), x \notin ToSet(s)
  PROVE  Distinct(Append(s, x))
<1> SUFFICES ASSUME NEW i \in DOMAIN Append(s, x), NEW j \in DOMAIN Append(s, x), i # j
             PROVE  Append(s, x)[i] # Append(s, x)[j]
  BY DEF Distinct
<1>1. i \in 1 .. (Len(s) + 1) /\ j \in 1 .. (Len(s) + 1) /\ Len(s) \in Nat /\ DOMAIN s = 1 .. Len(s)
  OBVIOUS
<1>2. \A k \in DOMAIN s : Append(s, x)[k] = s[k] /\ s[k] # x
  BY InSet
<1>3. Append(s, x)[Len(s) + 1] = x
  OBVIOUS
<1>4. CASE i \in DOMAIN s /\ j \in DOMAIN s
  BY <1>2, <1>4 DEF Distinct
<1>5. CASE i = Len(s) + 1
  <2>1. j \in DOMAIN s
    BY <1>1, <1>5
  <2> QED
    BY <1>2, <1>3, <1>5, <2>1
<1>6. CASE j = Len(s) + 1
  <2>1. i \in DOMAIN s
    BY <1>1, <1>6
  <2> QED
    BY <1>2, <1>3, <1>6, <2>1
<1> QED
  BY <1>1, <1>4, <1>5, <1>6

\* Taking the first keeps it so, and leaves no copy behind.
LEMMA DistinctTail ==
  ASSUME NEW s \in Seq(Nat), s # << >>, Distinct(s)
  PROVE  Distinct(Tail(s)) /\ Head(s) \notin ToSet(Tail(s))
<1>1. \A i \in DOMAIN Tail(s) : i \in Nat /\ i > 0 /\ i + 1 \in DOMAIN s /\ Tail(s)[i] = s[i + 1]
  OBVIOUS
<1>2. Head(s) = s[1] /\ 1 \in DOMAIN s
  OBVIOUS
<1>3. Distinct(Tail(s))
  <2> SUFFICES ASSUME NEW i \in DOMAIN Tail(s), NEW j \in DOMAIN Tail(s), i # j
               PROVE  Tail(s)[i] # Tail(s)[j]
    BY DEF Distinct
  <2>1. i + 1 \in DOMAIN s /\ j + 1 \in DOMAIN s /\ i + 1 # j + 1
    BY <1>1
  <2>2. s[i + 1] # s[j + 1]
    BY <2>1 DEF Distinct
  <2> QED
    BY <1>1, <2>2
<1>4. ASSUME Head(s) \in ToSet(Tail(s)) PROVE FALSE
  <2>1. PICK i \in DOMAIN Tail(s) : Head(s) = Tail(s)[i]
    BY <1>4 DEF ToSet
  <2>2. i + 1 \in DOMAIN s /\ 1 # i + 1 /\ Head(s) = s[i + 1]
    BY <1>1, <2>1
  <2> QED
    BY <1>2, <2>2 DEF Distinct
<1> QED
  BY <1>3, <1>4

\* A new record goes to one place.
LEMMA EnqueueKeeps ==
  ASSUME TrailTyped, TrailSplit, NEW kind \in Kinds, Enqueue(kind)
  PROVE  TrailTyped' /\ TrailSplit'
<1> DEFINE r == Len(made) + 1
           Q == ToSet(queued)
           P == ToSet(pack)
<1>0. made \in Seq(Kinds) /\ queued \in Seq(Nat) /\ pack \in Seq(Nat) /\ Distinct(queued)
  BY DEF TrailTyped
<1>1. made' = Append(made, kind)
  BY DEF Enqueue
<1>2. /\ made' \in Seq(Kinds) /\ r \in Nat /\ r \notin DOMAIN made
      /\ DOMAIN made' = (DOMAIN made) \cup {r}
  BY <1>0, <1>1
<1>3. Split(DOMAIN made, Q, P, Settled, unheard, vanished)
  BY DEF TrailSplit
<1>4. \/ queued' = Append(queued, r) /\ UNCHANGED <<pack, Settled, unheard, vanished>>
      \/ Settled' = Settled \cup {r} /\ UNCHANGED <<queued, pack, unheard, vanished>>
      \/ /\ vanished' = vanished \cup Q \cup P \cup {r} /\ queued' = << >> /\ pack' = << >>
         /\ UNCHANGED <<Settled, unheard>>
  BY DEF Enqueue, Settled
<1> HIDE DEF r
<1>5. r \notin Q /\ r \notin P /\ r \notin Settled /\ r \notin unheard /\ r \notin vanished
  <2> HIDE DEF Q, P
  <2> QED
    BY <1>2, <1>3 DEF Split
<1>6. CASE queued' = Append(queued, r) /\ UNCHANGED <<pack, Settled, unheard, vanished>>
  <2>1. ToSet(queued') = Q \cup {r}
    BY <1>0, <1>6, SetOfAppend
  <2>2. Distinct(queued')
    BY <1>0, <1>2, <1>5, <1>6, DistinctAppend
  <2>3. queued' \in Seq(Nat)
    BY <1>0, <1>2, <1>6
  <2>4. Split(DOMAIN made', ToSet(queued'), P, Settled, unheard, vanished)
    <3> HIDE DEF Q, P
    <3> QED
      BY <1>2, <1>3, <1>5, <2>1 DEF Split
  <2> QED
    BY <1>0, <1>2, <1>6, <2>2, <2>3, <2>4 DEF TrailTyped, TrailSplit
<1>7. CASE Settled' = Settled \cup {r} /\ UNCHANGED <<queued, pack, unheard, vanished>>
  <2>1. Split(DOMAIN made', Q, P, Settled \cup {r}, unheard, vanished)
    <3> HIDE DEF Q, P
    <3> QED
      BY <1>2, <1>3, <1>5 DEF Split
  <2> QED
    BY <1>0, <1>2, <1>7, <2>1 DEF TrailTyped, TrailSplit
<1>8. CASE /\ vanished' = vanished \cup Q \cup P \cup {r} /\ queued' = << >> /\ pack' = << >>
           /\ UNCHANGED <<Settled, unheard>>
  <2>1. Split(DOMAIN made', {}, {}, Settled, unheard, vanished \cup Q \cup P \cup {r})
    <3> HIDE DEF Q, P
    <3> QED
      BY <1>2, <1>3, <1>5 DEF Split
  <2>2. Distinct(<< >>) /\ << >> \in Seq(Nat)
    BY DEF Distinct
  <2>3. ToSet(queued') = {} /\ ToSet(pack') = {}
    BY <1>8, SetOfNone
  <2> QED
    BY <1>2, <1>8, <2>1, <2>2, <2>3 DEF TrailTyped, TrailSplit
<1> QED
  BY <1>4, <1>6, <1>7, <1>8

\* Every step of the audit trail moves records from place to place.
LEMMA StepTrail == TrailTyped /\ TrailSplit /\ [AuditNext]_auditVars => TrailTyped' /\ TrailSplit'
<1> SUFFICES ASSUME TrailTyped, TrailSplit, [AuditNext]_auditVars PROVE TrailTyped' /\ TrailSplit'
  OBVIOUS
<1> DEFINE Q == ToSet(queued)
           P == ToSet(pack)
<1>0. /\ made \in Seq(Kinds) /\ queued \in Seq(Nat) /\ pack \in Seq(Nat) /\ Distinct(queued)
      /\ Split(DOMAIN made, Q, P, Settled, unheard, vanished)
      /\ Distinct(<< >>) /\ << >> \in Seq(Nat)
  BY DEF TrailTyped, TrailSplit, Distinct
<1>1. ASSUME NEW block \in BOOLEAN, Record(block) PROVE TrailTyped' /\ TrailSplit'
  BY <1>1, EnqueueKeeps DEF Record, Kinds
<1>2. CASE RecordBlock
  BY <1>2, EnqueueKeeps DEF RecordBlock, Kinds
<1>3. CASE TakeRecord
  <2>1. /\ queued # << >> /\ pack' = Append(pack, Head(queued)) /\ queued' = Tail(queued)
        /\ UNCHANGED <<made, Settled, unheard, vanished>>
    BY <1>3 DEF TakeRecord, Settled
  <2>2. ToSet(pack') = P \cup {Head(queued)}
    BY <1>0, <2>1, SetOfAppend
  <2>3. Q = {Head(queued)} \cup ToSet(queued') /\ Head(queued) \in Nat /\ queued' \in Seq(Nat)
    BY <1>0, <2>1, SetOfTail
  <2>4. Distinct(queued') /\ Head(queued) \notin ToSet(queued')
    BY <1>0, <2>1, DistinctTail
  <2>5. Split(DOMAIN made, ToSet(queued'), ToSet(pack'), Settled, unheard, vanished)
    <3> HIDE DEF Q, P
    <3> QED
      BY <1>0, <2>2, <2>3, <2>4 DEF Split
  <2>6. pack' \in Seq(Nat)
    BY <1>0, <2>1, <2>3
  <2> QED
    BY <1>0, <2>1, <2>3, <2>4, <2>5, <2>6 DEF TrailTyped, TrailSplit
<1>4. CASE WritePack
  <2>1. /\ pack' = << >> /\ UNCHANGED <<made, queued, vanished>>
        /\ \/ Settled' = Settled \cup P /\ unheard' = unheard
           \/ Settled' = Settled /\ unheard' = unheard \cup P
    <3>1. PICK inserted \in BOOLEAN, err \in BOOLEAN :
            /\ stored' = IF inserted THEN stored \cup P ELSE stored
            /\ dropped' = IF err THEN dropped \cup P ELSE dropped
            /\ unheard' = IF inserted \/ err THEN unheard ELSE unheard \cup P
      BY <1>4 DEF WritePack, DroppedAfter
    <3>2. pack' = << >> /\ UNCHANGED <<made, queued, vanished>>
      BY <1>4 DEF WritePack
    <3> HIDE DEF P
    <3>3. CASE inserted \/ err
      BY <3>1, <3>2, <3>3 DEF Settled
    <3>4. CASE ~inserted /\ ~err
      BY <3>1, <3>2, <3>4 DEF Settled
    <3> QED
      BY <3>3, <3>4
  <2>2. /\ Split(DOMAIN made, Q, {}, Settled \cup P, unheard, vanished)
        /\ Split(DOMAIN made, Q, {}, Settled, unheard \cup P, vanished)
    <3> HIDE DEF Q, P
    <3> QED
      BY <1>0 DEF Split
  <2>3. ToSet(pack') = {}
    BY <2>1, SetOfNone
  <2> QED
    BY <1>0, <2>1, <2>2, <2>3 DEF TrailTyped, TrailSplit
<1>5. CASE CloseTrail
  BY <1>5 DEF CloseTrail, TrailTyped, TrailSplit, Settled
<1>6. CASE NewTrail
  <2>1. /\ vanished' = vanished \cup Q \cup P /\ queued' = << >> /\ pack' = << >>
        /\ UNCHANGED <<made, Settled, unheard>>
    BY <1>6 DEF NewTrail, Settled
  <2>2. Split(DOMAIN made, {}, {}, Settled, unheard, vanished \cup Q \cup P)
    <3> HIDE DEF Q, P
    <3> QED
      BY <1>0 DEF Split
  <2>3. ToSet(queued') = {} /\ ToSet(pack') = {}
    BY <2>1, SetOfNone
  <2> QED
    BY <1>0, <2>1, <2>2, <2>3 DEF TrailTyped, TrailSplit
<1>7. CASE UNCHANGED auditVars
  BY <1>7 DEF auditVars, TrailTyped, TrailSplit, Settled
<1> QED
  BY <1>1, <1>2, <1>3, <1>4, <1>5, <1>6, <1>7 DEF AuditNext

\* Every record of the audit trail is under way, in the table or counted (or
\* both), gone with its process, or lost in a commit whose failure was not heard
\* of, and never two of these, for any sizes and however enqueues, inserts, the
\* answers to them, Close and crashes interleave (enqueue, write, flush).
THEOREM TrailAccountedHolds == TrailsSpec => []TrailAccounted
<1>1. (TrailTyped /\ TrailSplit) /\ [TrailsNext]_TrailsVars => (TrailTyped /\ TrailSplit)'
  BY Sides, StepTrail
<1>2. TrailsInit => TrailTyped /\ TrailSplit
  BY SetOfNone DEF TrailsInit, AuditInit, TrailTyped, TrailSplit, Settled, Split, Distinct
<1>3. TrailTyped /\ TrailSplit => TrailAccounted
  BY SplitIsAccounted
<1> QED
  BY <1>1, <1>2, <1>3, PTL DEF TrailsSpec

===============================================================================
