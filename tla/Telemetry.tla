------------------------------- MODULE Telemetry -------------------------------
(***************************************************************************)
(* The signal path: the producers of the gate, queue and admission          *)
(* processes (each a bounded channel and a loop that writes batches), one    *)
(* partition of the topic, where the events of a shard meet whoever          *)
(* published them, and the consumer in the scorer.  The events of a process  *)
(* are numbered as they are published; what they say is left out.  The sets  *)
(* of counted, lost and heard events are history: the code keeps counters,   *)
(* or nothing.                                                               *)
(***************************************************************************)
EXTENDS Integers, Sequences, FiniteSets, SequencesExt

CONSTANTS
  Processes,       \* those that publish; one that is started anew is another one
  BufferSize, BatchSize,
  MaxEvents,       \* bound: process -> events it publishes
  MaxLog,          \* bound: messages in the log
  MaxRestarts      \* bound: restarts of the consumer

ASSUME SizesAssumption ==
  /\ {BufferSize, BatchSize} \subseteq Nat \ {0} /\ {MaxLog, MaxRestarts} \subseteq Nat
  /\ MaxEvents \in [Processes -> Nat]

VARIABLES
  published,   \* process -> events handed to its Publish so far
  ch,          \* process -> its channel
  batch,       \* process -> what its loop has taken and not yet written
  producer,    \* process -> "open", "closing" (channel closed), "closed" (Close returned), "gone"
  topic,       \* the partition's log
  counted,     \* history: events some error counter has counted
  lost,        \* history: events that went with the process, or met a closed channel
  consumer,    \* "waiting" for the topic, "reading"; "idle" if assigned nothing
  pos,         \* messages read in this life of the consumer, from the log's start
  inHand,      \* is the last one read still to be handled?
  committed,   \* the group's offset
  heard,       \* history: positions of the log handled at least once
  restarts

producerVars == <<published, ch, batch, producer, counted, lost>>
consumerVars == <<consumer, pos, inHand, committed, heard, restarts>>
telemetryVars == <<published, ch, batch, producer, topic, counted, lost,
                   consumer, pos, inHand, committed, heard, restarts>>

TelemetryInit ==
  /\ published = [p \in Processes |-> 0]
  /\ ch = [p \in Processes |-> << >>] /\ batch = [p \in Processes |-> << >>]
  /\ producer = [p \in Processes |-> "open"]
  /\ topic = << >> /\ counted = {} /\ lost = {}
  /\ consumer = "waiting" /\ pos = 0 /\ inHand = FALSE
  /\ committed = 0 /\ heard = {} /\ restarts = 0

-------------------------------------------------------------------------------
(* Producer *)

Event(p, n) == [by |-> p, no |-> n]

\* Mutant: the event that finds the channel full is not counted.
OverflowSilent(e) == counted

Overflow(e) == counted \cup {e}

\* Called by a handler; it never waits.  A handler that outlives the shutdown
\* timeout meets a closed channel: the send panics, and the middleware recovers.
\* The handlers fill in all that Valid asks for.
Publish(p) ==
  LET e == Event(p, published[p] + 1)
  IN  /\ producer[p] # "gone" /\ published[p] < MaxEvents[p]
      /\ published' = [published EXCEPT ![p] = @ + 1]
      /\ \/ /\ producer[p] = "open" /\ Len(ch[p]) < BufferSize
            /\ ch' = [ch EXCEPT ![p] = Append(@, e)]
            /\ UNCHANGED <<counted, lost>>
         \/ /\ producer[p] = "open" /\ Len(ch[p]) = BufferSize
            /\ counted' = Overflow(e)
            /\ UNCHANGED <<ch, lost>>
         \/ /\ producer[p] # "open"
            /\ lost' = lost \cup {e}
            /\ UNCHANGED <<ch, counted>>
      /\ UNCHANGED <<batch, producer, topic, consumerVars>>

\* The loop takes an event; a full batch is written before the next is taken.
\* What came out of a JSON body can be encoded again.
Take(p) ==
  /\ producer[p] # "gone"
  /\ ch[p] # << >> /\ Len(batch[p]) < BatchSize
  /\ batch' = [batch EXCEPT ![p] = Append(@, Head(ch[p]))]
  /\ ch' = [ch EXCEPT ![p] = Tail(@)]
  /\ UNCHANGED <<published, producer, topic, counted, lost, consumerVars>>

\* Mutant: no ticker, only full batches are written.
FlushDueFull(p) == Len(batch[p]) = BatchSize

\* The ticker fires, the batch is full, or the channel is closed and empty.
FlushDue(p) == batch[p] # << >>

\* Mutant: a failed batch is put back into the channel.
ChannelAfterRequeue(p, ok) == IF ok THEN ch[p] ELSE ch[p] \o batch[p]

\* A failed batch is not tried again.
ChannelAfter(p, ok) == ch[p]

\* What a write of the batch may leave in the log: a part of it, if it fails;
\* all of it; and, as the writer tries again what it has no answer for, a part
\* and then all of it.  The writer keeps one line of batches per partition.
Written(p, ok) ==
  LET parts == {SubSeq(batch[p], 1, k) : k \in 0 .. Len(batch[p])}
  IN  IF producer[p] = "closed" THEN IF ok THEN {} ELSE {<< >>}
      ELSE IF ok THEN {part \o batch[p] : part \in parts} ELSE parts

\* flush: a batch is written as a whole, or counted as a whole.
Flush(p) ==
  /\ producer[p] # "gone" /\ FlushDue(p)
  /\ \E ok \in BOOLEAN : \E w \in Written(p, ok) :
       /\ Len(topic) + Len(w) <= MaxLog
       /\ topic' = topic \o w
       /\ counted' = IF ok THEN counted ELSE counted \cup ToSet(batch[p])
       /\ ch' = [ch EXCEPT ![p] = ChannelAfter(p, ok)]
  /\ batch' = [batch EXCEPT ![p] = << >>]
  /\ UNCHANGED <<published, producer, lost, consumerVars>>

\* Close, up to the wait.
CloseChannel(p) ==
  /\ producer[p] = "open"
  /\ producer' = [producer EXCEPT ![p] = "closing"]
  /\ UNCHANGED <<published, ch, batch, topic, counted, lost, consumerVars>>

\* The loop is done, or flushTimeout is over; then the writer is closed.
CloseReturns(p) ==
  /\ producer[p] = "closing"
  /\ producer' = [producer EXCEPT ![p] = "closed"]
  /\ UNCHANGED <<published, ch, batch, topic, counted, lost, consumerVars>>

\* The process ends: in order, or at any moment by a crash.
ProducerEnds(p) ==
  /\ producer[p] # "gone"
  /\ producer' = [producer EXCEPT ![p] = "gone"]
  /\ lost' = lost \cup ToSet(ch[p]) \cup ToSet(batch[p])
  /\ ch' = [ch EXCEPT ![p] = << >>] /\ batch' = [batch EXCEPT ![p] = << >>]
  /\ UNCHANGED <<published, topic, counted, consumerVars>>

-------------------------------------------------------------------------------
(* Consumer *)

\* Mutant: joins the group without waiting for the topic.
TopicReadyAlways == TRUE

\* The topic is made by the first write.
TopicReady == topic # << >>

\* waitForTopic, then the group is joined.  A member that joined before the
\* topic existed would be assigned nothing, for ever.
Join ==
  /\ consumer = "waiting"
  /\ TopicReady
  /\ consumer' = IF topic # << >> THEN "reading" ELSE "idle"
  /\ UNCHANGED <<producerVars, topic, pos, inHand, committed, heard, restarts>>

\* ReadMessage: from here on the message may be committed.
Read ==
  /\ consumer = "reading" /\ ~inHand
  /\ pos < Len(topic)
  /\ pos' = pos + 1 /\ inHand' = TRUE
  /\ UNCHANGED <<producerVars, topic, consumer, committed, heard, restarts>>

Handle ==
  /\ inHand
  /\ inHand' = FALSE
  /\ heard' = heard \cup {pos}
  /\ UNCHANGED <<producerVars, topic, consumer, pos, committed, restarts>>

\* Every commitEvery, whatever the consumer is doing.
Commit ==
  /\ consumer = "reading"
  /\ committed' = pos
  /\ UNCHANGED <<producerVars, topic, consumer, pos, inHand, heard, restarts>>

\* Mutant: the new member starts at the end of the log.
ResumeAtEnd == Len(topic)

\* The reader is a member of a group (GroupID) and names no StartOffset: a new one
\* goes on from the last commit of the group.
Resume == committed

\* The process ends, in order (then its last act is a commit) or in a crash, and
\* a new one starts.
ConsumerRestarts ==
  /\ restarts < MaxRestarts
  /\ restarts' = restarts + 1
  /\ consumer' = "waiting" /\ inHand' = FALSE
  /\ pos' = Resume
  /\ UNCHANGED <<producerVars, topic, committed, heard>>

-------------------------------------------------------------------------------
TelemetryNext ==
  \/ \E p \in Processes :
       \/ Publish(p) \/ Take(p) \/ Flush(p)
       \/ CloseChannel(p) \/ CloseReturns(p) \/ ProducerEnds(p)
  \/ Join \/ Read \/ Handle \/ Commit \/ ConsumerRestarts

\* The loops of living processes run, one per producer and one in the consumer;
\* nothing is asked of the handlers, of the commits, or of the broker, which may
\* refuse every batch.
TelemetryFairness ==
  /\ \A p \in Processes : WF_telemetryVars(Take(p) \/ Flush(p))
  /\ WF_telemetryVars(Join \/ Read \/ Handle)

-------------------------------------------------------------------------------
(* Properties *)

Events == UNION {{Event(p, n) : n \in 1 .. published[p]} : p \in Processes}

\* What the processes still hold.
UnderWay == UNION {ToSet(ch[p]) \cup ToSet(batch[p]) : p \in Processes}

\* Whatever is published is still on its way, has reached the log, or was
\* counted, unless it went down with its process: no batch, overflow or failed
\* write disappears silently (Publish, flush: "what is dropped is counted").
Accounted ==
  Events = UnderWay \cup ToSet(topic) \cup counted \cup lost

\* The scorer hears of what one process says of a shard in the order it was
\* published: a full channel and failed batches leave gaps, a repeated write
\* repeats, but nothing is overtaken, however the processes' batches mix in the
\* log (one channel and one loop per process, one partition per shard).  Of two
\* processes nothing is said: a gate's notice may arrive before or after a
\* heartbeat that reached the queue earlier.
NoOvertaking ==
  \A i, j \in DOMAIN topic :
    i < j /\ topic[i].by = topic[j].by /\ topic[j].no < topic[i].no =>
      \E h \in 1 .. (i - 1) : topic[h] = topic[j]

\* A restart of the scorer costs at most the one message that was committed
\* before it was handled; everything else read in vain is read again (ReadMessage
\* commits first, CommitInterval).
LossBounded ==
  LET passed == 1 .. pos
  IN  Cardinality(passed \ heard) <= restarts + (IF inHand THEN 1 ELSE 0)

\* The log is read to its end, however late the topic appeared and the consumer
\* started: what was written is handled, but for one message per restart
\* (waitForTopic, Run).
LogIsRead ==
  \A n \in 1 .. MaxLog :
    (Len(topic) >= n) ~> (Cardinality((1 .. n) \ heard) <= restarts)

\* An accepted event does not stay with the producer, whatever the broker does.
LeavesProducer ==
  \A p \in Processes : \A n \in 1 .. MaxEvents[p] :
    (Event(p, n) \in ToSet(ch[p])) ~> (Event(p, n) \in ToSet(topic) \cup counted \cup lost)
===============================================================================
