------------------------------- MODULE Delivery -------------------------------
(***************************************************************************)
(* The way of an event: from the transaction that writes it into the outbox*)
(* (usecase/order over OutboxRepo.Append), through the publishing job of   *)
(* the worker (worker.Outbox) and the partition of a venue in the orders   *)
(* topic, to the consumer of the venue (broker/kafka Consumer, Deduplicated*)
(* and InboxRepo).                                                         *)
(*                                                                         *)
(* Grain.  The identifier of a row is given out when the row is inserted   *)
(* and the row is seen when its transaction commits, so rows of two orders *)
(* can be committed against their identifiers; two changes of one order    *)
(* cannot, as they hold the row of the order one after the other.  A batch *)
(* is published inside a transaction that holds its rows: fetching, every  *)
(* message and the commit are steps of their own.  The consumer handles and*)
(* remembers an event in one transaction and commits the offset later.     *)
(*                                                                         *)
(* An event is known by the identifier of its row, which stands for its    *)
(* event_id: both are assigned at the insert and survive every retry.      *)
(***************************************************************************)
EXTENDS Naturals, Sequences, FiniteSets

CONSTANTS
  Aggregates,  \* orders of one venue
  Nobody,      \* the aggregate of a row not inserted yet
  Workers,     \* instances of the worker process
  Batch,       \* messages fetched at most
  MaxEvents,   \* bound: rows ever inserted
  MaxFaults    \* bound: failed sends, rolled back batches, consumer restarts

ASSUME DeliveryAssumption ==
  /\ MaxEvents \in Nat /\ MaxFaults \in Nat /\ Batch \in Nat \ {0}
  /\ Nobody \notin Aggregates

VARIABLES
  agg,       \* outbox_messages.aggregate_id
  row,       \* where a row is: inserted, visible and waiting, published
  last,      \* the last identifier given out
  past,      \* history variable: what was committed when a row was inserted
  held,      \* the rows each worker holds in its transaction
  sent,      \* those of them the broker has acknowledged
  broken,    \* a send of this batch has failed
  late,      \* sends that failed for the worker and may still be written
  topic,     \* the partition of the venue
  offset,    \* the committed offset of the venue
  position,  \* what the running consumer has handled
  known,     \* processed_events of the venue
  effects,   \* the events the kitchen has worked on, in order
  faults     \* faults so far

outboxVars == <<agg, row, last, past>>
workerVars == <<held, sent, broken>>
brokerVars == <<late, topic>>
consumerVars == <<offset, position, known, effects>>
vars == <<outboxVars, workerVars, brokerVars, consumerVars, faults>>

Ids == 1..MaxEvents
Lowest(ids) == CHOOSE id \in ids : \A other \in ids : id <= other
InTopic == {topic[k] : k \in 1..Len(topic)}

TypeOK ==
  /\ agg \in [Ids -> Aggregates \union {Nobody}]
  /\ row \in [Ids -> {"none", "inserted", "undone", "waiting", "published"}]
  /\ last \in 0..MaxEvents
  /\ past \in [Ids -> SUBSET Ids]
  /\ held \in [Workers -> SUBSET Ids]
  /\ sent \in [Workers -> SUBSET Ids]
  /\ broken \in [Workers -> BOOLEAN]
  /\ late \in SUBSET Ids
  /\ topic \in Seq(Ids)
  /\ position \in 0..Len(topic)
  /\ offset \in 0..position
  /\ known \in SUBSET Ids
  /\ effects \in Seq(Ids)
  /\ faults \in 0..MaxFaults

Init ==
  /\ agg = [id \in Ids |-> Nobody]
  /\ row = [id \in Ids |-> "none"]
  /\ last = 0
  /\ past = [id \in Ids |-> {}]
  /\ held = [w \in Workers |-> {}]
  /\ sent = [w \in Workers |-> {}]
  /\ broken = [w \in Workers |-> FALSE]
  /\ late = {}
  /\ topic = <<>>
  /\ offset = 0
  /\ position = 0
  /\ known = {}
  /\ effects = <<>>
  /\ faults = 0

Fault == faults < MaxFaults /\ faults' = faults + 1

----------------------------------------------------------------------------
(* The domain writes. *)

\* A change of an order holds the row of the order until it commits.
Insert(a) ==
  /\ last < MaxEvents
  /\ \A id \in Ids : row[id] = "inserted" => agg[id] # a
  /\ last' = last + 1
  /\ agg' = [agg EXCEPT ![last'] = a]
  /\ row' = [row EXCEPT ![last'] = "inserted"]
  /\ past' = [past EXCEPT ![last'] = {id \in Ids : row[id] \in {"waiting", "published"}}]
  /\ UNCHANGED <<workerVars, brokerVars, consumerVars, faults>>

\* The transaction ends, with its row or without it.
EndChange(id) ==
  /\ row[id] = "inserted"
  /\ \E end \in {"waiting", "undone"} : row' = [row EXCEPT ![id] = end]
  /\ UNCHANGED <<agg, last, past, workerVars, brokerVars, consumerVars, faults>>

----------------------------------------------------------------------------
(* The publishing job. *)

Waiting == {id \in Ids : row[id] = "waiting"}

\* Rows another worker is holding are skipped.
Free == {id \in Waiting : \A w \in Workers : id \notin held[w]}

\* The first of the free rows, as many as fit into a batch.
Fetch(w) ==
  /\ held[w] = {}
  /\ Free # {}
  /\ held' = [held EXCEPT ![w] =
                {id \in Free : Cardinality({other \in Free : other < id}) < Batch}]
  /\ UNCHANGED <<outboxVars, sent, broken, brokerVars, consumerVars, faults>>

Unsent(w) == held[w] \ sent[w]

Publish(w) ==
  /\ Unsent(w) # {}
  /\ ~broken[w]
  /\ LET id == Lowest(Unsent(w)) IN
       /\ topic' = Append(topic, id)
       /\ sent' = [sent EXCEPT ![w] = @ \union {id}]
  /\ UNCHANGED <<outboxVars, held, broken, late, consumerVars, faults>>

\* Mutant: the batch goes on with the next message.
PublishFailsAndGoesOn(w) ==
  /\ Unsent(w) # {}
  /\ Fault
  /\ held' = [held EXCEPT ![w] = @ \ {Lowest(Unsent(w))}]
  /\ UNCHANGED <<outboxVars, sent, broken, brokerVars, consumerVars>>

\* The send is refused, lost, or acknowledged too late: the brokers may still
\* write it, at any time.
PublishFails(w) ==
  /\ Unsent(w) # {}
  /\ ~broken[w]
  /\ Fault
  /\ broken' = [broken EXCEPT ![w] = TRUE]
  /\ late' \in {late, late \union {Lowest(Unsent(w))}}
  /\ UNCHANGED <<outboxVars, held, sent, topic, consumerVars>>

WrittenLate(id) ==
  /\ id \in late
  /\ late' = late \ {id}
  /\ topic' = Append(topic, id)
  /\ UNCHANGED <<outboxVars, workerVars, consumerVars, faults>>

LetGo(w) ==
  /\ held' = [held EXCEPT ![w] = {}]
  /\ sent' = [sent EXCEPT ![w] = {}]
  /\ broken' = [broken EXCEPT ![w] = FALSE]

\* Mutant: the whole batch is marked published, sent or not.
RecordWholeBatch(w) ==
  /\ held[w] # {}
  /\ Unsent(w) = {} \/ broken[w]
  /\ row' = [id \in Ids |-> IF id \in held[w] THEN "published" ELSE row[id]]
  /\ LetGo(w)
  /\ UNCHANGED <<agg, last, past, brokerVars, consumerVars, faults>>

\* MarkPublished for what was sent, MarkFailed for what was not, and the commit.
Record(w) ==
  /\ held[w] # {}
  /\ Unsent(w) = {} \/ broken[w]
  /\ row' = [id \in Ids |-> IF id \in sent[w] THEN "published" ELSE row[id]]
  /\ LetGo(w)
  /\ UNCHANGED <<agg, last, past, brokerVars, consumerVars, faults>>

\* The worker dies with its batch, or a statement or the commit fails: nothing
\* of what was sent is recorded.
RollBack(w) ==
  /\ held[w] # {}
  /\ Fault
  /\ LetGo(w)
  /\ UNCHANGED <<outboxVars, brokerVars, consumerVars>>

----------------------------------------------------------------------------
(* The consumer of the venue. *)

\* Mutant: an event seen before is handled again.
HandleEvery ==
  /\ position = offset
  /\ position < Len(topic)
  /\ position' = position + 1
  /\ known' = known \union {topic[position']}
  /\ effects' = Append(effects, topic[position'])
  /\ UNCHANGED <<outboxVars, workerVars, brokerVars, offset, faults>>

Remember(id) == known' = known \union {id}

\* The mark in the inbox and the work are one transaction; a handler that fails
\* leaves both out and is tried again.
Handle ==
  /\ position = offset
  /\ position < Len(topic)
  /\ position' = position + 1
  /\ LET id == topic[position'] IN
       /\ Remember(id)
       /\ effects' = IF id \in known THEN effects ELSE Append(effects, id)
  /\ UNCHANGED <<outboxVars, workerVars, brokerVars, offset, faults>>

CommitOffset ==
  /\ offset < position
  /\ offset' = position
  /\ UNCHANGED <<outboxVars, workerVars, brokerVars, position, known, effects, faults>>

\* The consumer starts again at the committed offset: it crashed, the broker
\* went away or the commit failed.
Resume ==
  /\ offset < position
  /\ Fault
  /\ position' = offset
  /\ UNCHANGED <<outboxVars, workerVars, brokerVars, offset, known, effects>>

----------------------------------------------------------------------------

Next ==
  \/ \E a \in Aggregates : Insert(a)
  \/ \E id \in Ids : EndChange(id) \/ WrittenLate(id)
  \/ \E w \in Workers :
       \/ Fetch(w)
       \/ Publish(w)
       \/ PublishFails(w)
       \/ Record(w)
       \/ RollBack(w)
  \/ Handle
  \/ CommitOffset
  \/ Resume

Spec == Init /\ [][Next]_vars

\* A transaction ends one way or the other; the publishing job polls for as
\* long as the process lives and so does the consumer.  The faults are finite.
\* A send that failed for the worker need not ever be written.
Fairness ==
  /\ \A id \in Ids : WF_vars(EndChange(id))
  /\ \A w \in Workers : WF_vars(Fetch(w)) /\ WF_vars(Publish(w)) /\ WF_vars(Record(w))
  /\ WF_vars(Handle)
  /\ WF_vars(CommitOffset)

FairSpec == Spec /\ Fairness

----------------------------------------------------------------------------
(* Properties *)

First(id) == CHOOSE k \in 1..Len(topic) :
               topic[k] = id /\ \A j \in 1..(k - 1) : topic[j] # id

Committed(id) == row[id] \in {"waiting", "published"}

\* Failures, retries and late writes repeat events in the topic, but the first
\* copies stand in the order of the changes, with none of them missing: whatever
\* had been committed when a change began is in front of it.  So the orders of a
\* venue keep their order, and the changes of one order, which never meet, keep
\* theirs without exception: the numbers of the status stream rely on that.
FirstCopiesInOrder ==
  \A id \in InTopic : \A earlier \in past[id] :
    earlier \in InTopic /\ First(earlier) < First(id)

EventsOf(a) == {id \in Ids : agg[id] = a}
CommittedOf(a) == {id \in EventsOf(a) : Committed(id)}
InOrderOfId == [k \in Ids |-> k]

\* What stands in seq and belongs to S, in its order.
Picks(seq, S) ==
  LET upTo[n \in 0..Len(seq)] ==
        IF n = 0 THEN <<>>
        ELSE IF seq[n] \in S THEN Append(upTo[n - 1], seq[n]) ELSE upTo[n - 1]
  IN upTo[Len(seq)]

\* The venue works on every event of an order once and in the order of the
\* changes: an order is never taken away before it was given, whatever is lost,
\* repeated or restarted on the way.
Promise == INSTANCE EventOrder WITH
  Events <- Ids,
  written <- [a \in Aggregates |-> Picks(InOrderOfId, CommittedOf(a))],
  done <- [a \in Aggregates |-> Picks(effects, EventsOf(a))]

ImplementsEventOrder == Promise!EventSpec

\* An event that has been committed takes effect, however often the broker, the
\* worker or the consumer has failed before.
EveryEventTakesEffect == \A id \in Ids : []<>(Committed(id) => id \in known)

=============================================================================
