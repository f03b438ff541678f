----------------------------- MODULE OrderStream -----------------------------
(***************************************************************************)
(* A customer watching one order: GET /orders/{id}/events with             *)
(* usecase/order Follow, the hub of the process (transport/sse) and the    *)
(* consumer of the status topic that feeds it (consumer.Status).           *)
(*                                                                         *)
(* The entries of the order's history are numbered 1, 2, 3... here: the    *)
(* numbers in the database have gaps, but only their order is used.  An    *)
(* entry is an event of the topic once its transaction has committed, the  *)
(* placement (entry 1) excepted; the topic keeps the order of the entries  *)
(* and repeats some (Delivery).                                            *)
(*                                                                         *)
(* Grain.  Subscribing, reading the order, reading its history, every entry*)
(* sent and every turn of the select loop are steps; the snapshot goes out *)
(* with the history.  The hub offers an update to the queue in one step,   *)
(* under its lock.  What is sent on an open stream is taken as received:   *)
(* losing it is the same as leaving before it.  Heartbeats carry nothing.  *)
(***************************************************************************)
EXTENDS Naturals, Sequences, FiniteSets

CONSTANTS
  Buffer,      \* updates a subscriber's queue holds
  MaxMoves,    \* bound: entries in the history of the order
  MaxRepeats   \* bound: updates the topic repeats

ASSUME OrderStreamAssumption ==
  Buffer \in Nat /\ MaxMoves \in Nat \ {0} /\ MaxRepeats \in Nat

VARIABLES
  moves,      \* entries in order_status_history
  ended,      \* the last of them is terminal
  joined,     \* the consumer of this process has its place in the topic
  heard,      \* the newest entry the hub has been offered, or passed over
  repeats,    \* updates repeated so far
  stream,     \* where the handler of the stream is
  queue,      \* Subscriber.updates
  stopped,    \* Subscriber.done is closed
  snapEnded,  \* the order was over when the handler read it
  upTo,       \* the last entry the handler found in the history
  seen,       \* the number of the last entry the customer has, 0 for none
  got,        \* every entry the customer has ever been sent
  told,       \* the customer knows that the order is over
  gaveUp,     \* history variable: the hub once gave up on this customer
  early       \* history variable: a stream was opened before the consumer joined

orderVars == <<moves, ended>>
hubVars == <<joined, heard, repeats>>
streamVars == <<stream, queue, stopped, snapEnded, upTo>>
customerVars == <<seen, got, told>>
reasonVars == <<gaveUp, early>>
vars == <<orderVars, hubVars, streamVars, customerVars, reasonVars>>

Entries == 1..MaxMoves
Terminal(entry) == ended /\ entry = moves

TypeOK ==
  /\ moves \in Entries /\ ended \in BOOLEAN
  /\ joined \in BOOLEAN /\ heard \in Entries /\ repeats \in 0..MaxRepeats
  /\ stream \in {"closed", "subscribed", "read", "answering", "following"}
  /\ queue \in Seq(Entries) /\ Len(queue) <= Buffer
  /\ stopped \in BOOLEAN /\ snapEnded \in BOOLEAN /\ upTo \in 0..MaxMoves
  /\ seen \in 0..MaxMoves /\ got \in SUBSET Entries /\ told \in BOOLEAN
  /\ gaveUp \in BOOLEAN /\ early \in BOOLEAN

Init ==
  /\ moves = 1
  /\ ended = FALSE
  /\ joined \in BOOLEAN
  /\ heard = 1
  /\ repeats = 0
  /\ stream = "closed"
  /\ queue = <<>>
  /\ stopped = FALSE
  /\ snapEnded = FALSE
  /\ upTo = 0
  /\ seen = 0
  /\ got = {}
  /\ told = FALSE
  /\ gaveUp = FALSE
  /\ early = FALSE

----------------------------------------------------------------------------
(* The order and its topic. *)

\* Somebody moves the order; the bound makes the last move the end of it.
MoveOrder ==
  /\ ~ended
  /\ moves < MaxMoves
  /\ moves' = moves + 1
  /\ ended' \in BOOLEAN
  /\ moves' = MaxMoves => ended'
  /\ UNCHANGED <<hubVars, streamVars, customerVars, reasonVars>>

\* The consumer group of a process is new and starts at the end of the topic:
\* it passes over what was published until then.
Join ==
  /\ ~joined
  /\ joined' = TRUE
  /\ heard' \in heard..moves
  /\ UNCHANGED <<orderVars, repeats, streamVars, customerVars, reasonVars>>

\* The next update, or one of an entry the topic has already carried: the topic
\* may repeat one, never skip one.
Hears(entry) ==
  /\ joined
  /\ entry \in 2..moves
  /\ \/ entry = heard + 1 /\ UNCHANGED repeats
     \/ entry <= heard /\ repeats < MaxRepeats /\ repeats' = repeats + 1
  /\ heard' = IF entry > heard THEN entry ELSE heard
  /\ UNCHANGED <<joined, orderVars, stream, snapEnded, upTo, customerVars, early>>

\* Mutant: the hub knows a stream only once it has read its order.
PublishToFollowers(entry) ==
  /\ Hears(entry)
  /\ IF stream # "following" THEN UNCHANGED <<queue, stopped, gaveUp>>
     ELSE IF Len(queue) < Buffer
     THEN queue' = Append(queue, entry) /\ UNCHANGED <<stopped, gaveUp>>
     ELSE stopped' = TRUE /\ gaveUp' = TRUE /\ UNCHANGED queue

\* A subscriber whose queue is full is asked to stop; it stays in the hub until
\* its handler has noticed.
Publish(entry) ==
  /\ Hears(entry)
  /\ IF stream = "closed" THEN UNCHANGED <<queue, stopped, gaveUp>>
     ELSE IF Len(queue) < Buffer
     THEN queue' = Append(queue, entry) /\ UNCHANGED <<stopped, gaveUp>>
     ELSE stopped' = TRUE /\ gaveUp' = TRUE /\ UNCHANGED queue

----------------------------------------------------------------------------
(* The stream. *)

\* Hub.Subscribe, before anything is read.  A customer who knows the end does
\* not come back.
Subscribe ==
  /\ stream = "closed"
  /\ ~told
  /\ stream' = "subscribed"
  /\ early' = (early \/ ~joined)
  /\ UNCHANGED <<orderVars, hubVars, queue, stopped, snapEnded, upTo, customerVars, gaveUp>>

\* Follow reads the order first...
ReadOrder ==
  /\ stream = "subscribed"
  /\ stream' = "read"
  /\ snapEnded' = ended
  /\ UNCHANGED <<orderVars, hubVars, queue, stopped, upTo, customerVars, reasonVars>>

\* The subscription and the queue go with the stream.
Unsubscribe ==
  /\ stream' = "closed"
  /\ queue' = <<>>
  /\ stopped' = FALSE
  /\ snapEnded' = FALSE
  /\ upTo' = 0

\* ... and then its history, in a statement of its own; the snapshot is sent.
ReadHistory ==
  /\ stream = "read"
  /\ stream' = "answering"
  /\ upTo' = moves
  /\ told' = snapEnded
  /\ UNCHANGED <<orderVars, hubVars, queue, stopped, snapEnded, seen, got, reasonVars>>

\* The entries made since the last one the customer has.
SendMissed ==
  /\ stream = "answering"
  /\ seen < upTo
  /\ seen' = seen + 1
  /\ got' = got \union {seen'}
  /\ told' = (told \/ Terminal(seen'))
  /\ UNCHANGED <<orderVars, hubVars, streamVars, reasonVars>>

\* An order that was over when it was read has nothing to follow.
Follow ==
  /\ stream = "answering"
  /\ seen >= upTo
  /\ IF snapEnded THEN Unsubscribe
     ELSE stream' = "following" /\ UNCHANGED <<queue, stopped, snapEnded, upTo>>
  /\ UNCHANGED <<orderVars, hubVars, customerVars, reasonVars>>

\* Mutant: an update is sent without looking at its number.
TakeAnyUpdate ==
  /\ stream = "following"
  /\ queue # <<>>
  /\ got' = got \union {Head(queue)}
  /\ seen' = Head(queue)
  /\ told' = (told \/ Terminal(Head(queue)))
  /\ IF Terminal(Head(queue)) THEN Unsubscribe
     ELSE queue' = Tail(queue) /\ UNCHANGED <<stream, stopped, snapEnded, upTo>>
  /\ UNCHANGED <<orderVars, hubVars, reasonVars>>

\* Mutant: the number after the last one is taken for one already seen.
TakeUpdateOffByOne ==
  /\ stream = "following"
  /\ queue # <<>>
  /\ LET entry == Head(queue) IN
       IF entry <= seen + 1
       THEN queue' = Tail(queue) /\ UNCHANGED <<stream, stopped, snapEnded, upTo, customerVars>>
       ELSE /\ got' = got \union {entry}
            /\ seen' = entry
            /\ told' = (told \/ Terminal(entry))
            /\ IF Terminal(entry) THEN Unsubscribe
               ELSE queue' = Tail(queue) /\ UNCHANGED <<stream, stopped, snapEnded, upTo>>
  /\ UNCHANGED <<orderVars, hubVars, reasonVars>>

\* An update is sent when it is newer than the last entry sent, and a terminal
\* one closes the stream; a queue that is not empty and a hub that has given up
\* are equally good reasons to wake up.
TakeUpdate ==
  /\ stream = "following"
  /\ queue # <<>>
  /\ LET entry == Head(queue) IN
       IF entry <= seen
       THEN queue' = Tail(queue) /\ UNCHANGED <<stream, stopped, snapEnded, upTo, customerVars>>
       ELSE /\ got' = got \union {entry}
            /\ seen' = entry
            /\ told' = (told \/ Terminal(entry))
            /\ IF Terminal(entry) THEN Unsubscribe
               ELSE queue' = Tail(queue) /\ UNCHANGED <<stream, stopped, snapEnded, upTo>>
  /\ UNCHANGED <<orderVars, hubVars, reasonVars>>

\* Subscriber.Done.
GiveUp ==
  /\ stream = "following"
  /\ stopped
  /\ Unsubscribe
  /\ UNCHANGED <<orderVars, hubVars, customerVars, reasonVars>>

\* The customer leaves, the connection breaks, or a query fails.
Leave ==
  /\ stream # "closed"
  /\ Unsubscribe
  /\ UNCHANGED <<orderVars, hubVars, customerVars, reasonVars>>

----------------------------------------------------------------------------

Next ==
  \/ MoveOrder
  \/ Join
  \/ \E entry \in Entries : Publish(entry)
  \/ Subscribe
  \/ ReadOrder
  \/ ReadHistory
  \/ SendMissed
  \/ Follow
  \/ TakeUpdate
  \/ GiveUp
  \/ Leave

Spec == Init /\ [][Next]_vars

\* The consumer joins its group and is given every event in the end (Delivery);
\* a customer who is still waiting for the end connects again; the handler goes
\* on, and of customers who connect again and again one is not always gone before
\* being answered (strong fairness).  An order need not move.
Fairness ==
  /\ WF_vars(Join)
  /\ \A entry \in Entries : WF_vars(entry > heard /\ Publish(entry))
  /\ WF_vars(Subscribe)
  /\ SF_vars(ReadOrder)
  /\ SF_vars(ReadHistory)
  /\ SF_vars(SendMissed)
  /\ SF_vars(Follow)
  /\ WF_vars(TakeUpdate)
  /\ WF_vars(GiveUp)

FairSpec == Spec /\ Fairness

\* The consumer had its place in the topic before anybody connected.
JoinedInit == Init /\ joined
JoinedSpec == JoinedInit /\ [][Next]_vars /\ Fairness

----------------------------------------------------------------------------
(* Properties *)

\* Snapshot, missed entries and live updates overlap and the topic repeats
\* itself, yet nothing is sent twice and nothing older than what was sent.
NeverGoesBack ==
  [][seen' >= seen /\ \A entry \in got' \ got : entry > seen]_vars

\* The history read after subscribing and the queue leave no hole between them:
\* a customer has every entry up to the last one, unless the hub once gave up on
\* them or they came before the consumer of the process had joined.
NoHoleWithoutAReason == got = 1..seen \/ gaveUp \/ early

\* A customer who keeps coming back learns that the order is over, whatever was
\* read before and after its last move.
EndIsLearned == ended ~> (told \/ early)

----------------------------------------------------------------------------
(* What comments of the code say and the stream does not do *)

\* "The operation ... answers with a stream that lives as long as the order
\* does": once the order is over the stream closes.
StreamEndsWithTheOrder == ended ~> stream = "closed"

=============================================================================
