-------------------------- MODULE OrderStreamProofs --------------------------
(***************************************************************************)
(* Proofs about OrderStream, for a queue of any size, a history of any     *)
(* length and any number of repeated updates.                              *)
(*                                                                         *)
(* That a customer is left with no hole rests on the subscription coming   *)
(* before the reading: whatever the hub has been offered and the history   *)
(* did not hold is in the queue, and behind everything between the two.    *)
(***************************************************************************)
EXTENDS OrderStream, SequenceTheorems, TLAPS

\* Neither reason for a hole has come up.
Whole == ~gaveUp /\ ~early

\* Nobody is ahead of the order.
WithinTheHistory ==
  /\ heard <= moves /\ upTo <= moves /\ seen <= moves
  /\ \A k \in 1..Len(queue) : queue[k] <= heard
  /\ stream = "answering" => seen <= upTo

\* A stream that is open began after the consumer had joined.
JoinedFirst == Whole /\ stream # "closed" => joined

\* The last entry the handler has or is going to send before it turns to the queue.
Base == IF stream = "following" THEN seen ELSE upTo

\* What the hub has been offered since is in the queue...
OfferedIsQueued ==
  Whole /\ stream \in {"answering", "following"} =>
    \A e \in (Base + 1)..heard : \E k \in 1..Len(queue) : queue[k] = e

\* ... and nothing in it comes before an entry that is missing.
QueueIsInOrder ==
  Whole /\ stream \in {"answering", "following"} =>
    \A k \in 1..Len(queue) : \A d \in (Base + 1)..(queue[k] - 1) :
      \E j \in 1..(k - 1) : queue[j] = d

IInv ==
  /\ TypeOK
  /\ WithinTheHistory
  /\ JoinedFirst
  /\ OfferedIsQueued
  /\ QueueIsInOrder
  /\ NoHoleWithoutAReason

\* The conjuncts that need no more than that the queue is gone.
LEMMA ClosedIsInOrder ==
  ASSUME stream' = "closed"
  PROVE  OfferedIsQueued' /\ QueueIsInOrder' /\ JoinedFirst'
BY DEF OfferedIsQueued, QueueIsInOrder, JoinedFirst

\* The queue of a new subscription.
LEMMA NothingIsQueued == <<>> \in Seq(Entries) /\ Len(<<>>) = 0
BY EmptySeq

LEMMA NoQueueIsTyped ==
  ASSUME OrderStreamAssumption, NEW q, q = <<>>
  PROVE  q \in Seq(Entries) /\ Len(q) <= Buffer
BY NothingIsQueued DEF OrderStreamAssumption

LEMMA StreamInit == ASSUME OrderStreamAssumption, Init PROVE IInv
<1> USE DEF Init
<1>0. queue \in Seq(Entries) /\ Len(queue) <= Buffer
  BY NoQueueIsTyped
<1>1. TypeOK
  <2>1. /\ moves \in Entries /\ heard \in Entries /\ upTo \in 0..MaxMoves /\ seen \in 0..MaxMoves
        /\ repeats \in 0..MaxRepeats /\ got \in SUBSET Entries
    BY DEF Entries, OrderStreamAssumption
  <2>2. /\ ended \in BOOLEAN /\ joined \in BOOLEAN /\ stopped \in BOOLEAN
        /\ snapEnded \in BOOLEAN /\ told \in BOOLEAN /\ gaveUp \in BOOLEAN /\ early \in BOOLEAN
    OBVIOUS
  <2> QED BY <1>0, <2>1, <2>2 DEF TypeOK
<1>2. WithinTheHistory /\ JoinedFirst /\ OfferedIsQueued /\ QueueIsInOrder
  BY DEF WithinTheHistory, JoinedFirst, OfferedIsQueued, QueueIsInOrder
<1>3. NoHoleWithoutAReason
  BY DEF NoHoleWithoutAReason
<1> QED BY <1>1, <1>2, <1>3 DEF IInv

----------------------------------------------------------------------------
(* Types *)

\* What is taken out of the queue is an entry, and what is left is a queue.
LEMMA QueueShrinks ==
  ASSUME NEW q \in Seq(Entries), q # <<>>
  PROVE  /\ Head(q) \in Entries /\ Head(q) = q[1] /\ Len(q) \in Nat /\ Len(q) >= 1
         /\ Tail(q) \in Seq(Entries) /\ Len(Tail(q)) = Len(q) - 1
         /\ \A k \in 1..(Len(q) - 1) : Tail(q)[k] = q[k + 1]
BY HeadTailProperties, EmptySeq

LEMMA QueueGrows ==
  ASSUME NEW q \in Seq(Entries), NEW e \in Entries
  PROVE  /\ Append(q, e) \in Seq(Entries) /\ Len(q) \in Nat /\ Len(Append(q, e)) = Len(q) + 1
         /\ \A k \in 1..Len(q) : Append(q, e)[k] = q[k]
         /\ Append(q, e)[Len(q) + 1] = e
BY AppendProperties

LEMMA UnsubscribeIsTyped ==
  ASSUME OrderStreamAssumption, Unsubscribe
  PROVE  /\ stream' = "closed" /\ queue' \in Seq(Entries) /\ Len(queue') <= Buffer
         /\ stopped' \in BOOLEAN /\ snapEnded' \in BOOLEAN /\ upTo' \in 0..MaxMoves
<1>1. queue' \in Seq(Entries) /\ Len(queue') <= Buffer
  BY NoQueueIsTyped DEF Unsubscribe
<1>2. 0 \in 0..MaxMoves
  BY DEF OrderStreamAssumption
<1> QED BY <1>1, <1>2 DEF Unsubscribe

LEMMA TypeStep == ASSUME OrderStreamAssumption, TypeOK, [Next]_vars PROVE TypeOK'
<1> USE DEF OrderStreamAssumption, TypeOK, orderVars, hubVars, streamVars, customerVars,
            reasonVars, Entries
<1>1. CASE MoveOrder
  BY <1>1 DEF MoveOrder
<1>2. CASE Join
  BY <1>2 DEF Join
<1>3. ASSUME NEW entry \in Entries, Publish(entry) PROVE TypeOK'
  <2>1. /\ UNCHANGED <<joined, orderVars, stream, snapEnded, upTo, customerVars, early>>
        /\ heard' \in Entries /\ repeats' \in 0..MaxRepeats
    BY <1>3 DEF Publish, Hears
  <2>2. /\ queue' \in Seq(Entries) /\ Len(queue') <= Buffer
        /\ stopped' \in BOOLEAN /\ gaveUp' \in BOOLEAN
    <3>1. CASE stream = "closed"
      BY <1>3, <3>1 DEF Publish
    <3>2. CASE stream # "closed" /\ Len(queue) < Buffer
      BY <1>3, <3>2, QueueGrows DEF Publish
    <3>3. CASE stream # "closed" /\ ~(Len(queue) < Buffer)
      BY <1>3, <3>3 DEF Publish
    <3> QED BY <3>1, <3>2, <3>3
  <2> QED BY <2>1, <2>2
<1>4. CASE Subscribe
  BY <1>4 DEF Subscribe
<1>5. CASE ReadOrder
  BY <1>5 DEF ReadOrder
<1>6. CASE ReadHistory
  BY <1>6 DEF ReadHistory
<1>7. CASE SendMissed
  BY <1>7 DEF SendMissed
<1>8. CASE Follow
  BY <1>8, UnsubscribeIsTyped DEF Follow
<1>9. CASE TakeUpdate
  <2>1. Head(queue) \in Entries /\ Tail(queue) \in Seq(Entries) /\ Len(Tail(queue)) <= Buffer
    BY <1>9, QueueShrinks DEF TakeUpdate
  <2>2. UNCHANGED <<orderVars, hubVars, reasonVars>>
    BY <1>9 DEF TakeUpdate
  <2>3. CASE Head(queue) <= seen
    BY <1>9, <2>1, <2>2, <2>3 DEF TakeUpdate
  <2>4. CASE ~(Head(queue) <= seen)
    <3>1. /\ got' = got \union {Head(queue)} /\ seen' = Head(queue)
          /\ told' = (told \/ Terminal(Head(queue)))
          /\ IF Terminal(Head(queue)) THEN Unsubscribe
             ELSE queue' = Tail(queue) /\ UNCHANGED <<stream, stopped, snapEnded, upTo>>
      BY <1>9, <2>4 DEF TakeUpdate
    <3>0. told' \in BOOLEAN /\ seen' \in 0..MaxMoves /\ got' \in SUBSET Entries
      <4>1. told' \in BOOLEAN
        BY <3>1, Zenon
      <4>2. got' \in SUBSET Entries
        BY <2>1, <3>1, Zenon
      <4>3. seen' \in 0..MaxMoves
        BY <2>1, <3>1
      <4> QED BY <4>1, <4>2, <4>3
    <3>2. CASE Terminal(Head(queue))
      BY <2>2, <3>0, <3>1, <3>2, UnsubscribeIsTyped
    <3>3. CASE ~Terminal(Head(queue))
      BY <2>1, <2>2, <3>0, <3>1, <3>3
    <3> QED BY <3>2, <3>3
  <2> QED BY <2>3, <2>4
<1>10. CASE GiveUp
  BY <1>10, UnsubscribeIsTyped DEF GiveUp
<1>11. CASE Leave
  BY <1>11, UnsubscribeIsTyped DEF Leave
<1>12. CASE UNCHANGED vars
  BY <1>12 DEF vars
<1> QED
  BY <1>1, <1>2, <1>3, <1>4, <1>5, <1>6, <1>7, <1>8, <1>9, <1>10, <1>11, <1>12 DEF Next

----------------------------------------------------------------------------
(* The invariant *)

\* What is closed is in order, whatever it was before.
LEMMA ClosingKeepsIInv ==
  ASSUME OrderStreamAssumption, IInv, TypeOK', Unsubscribe, NoHoleWithoutAReason',
         UNCHANGED <<moves, heard>>, seen' <= moves
  PROVE  IInv'
<1>1. WithinTheHistory'
  BY NothingIsQueued DEF IInv, WithinTheHistory, TypeOK, Unsubscribe, Entries
<1> QED BY <1>1, ClosedIsInOrder DEF IInv, Unsubscribe

LEMMA StreamStep == ASSUME OrderStreamAssumption, IInv, [Next]_vars PROVE IInv'
<1>0. TypeOK'
  BY TypeStep DEF IInv
<1> USE <1>0
<1>t. /\ moves \in Nat /\ heard \in Nat /\ seen \in Nat /\ upTo \in Nat
      /\ moves' \in Nat /\ heard' \in Nat /\ seen' \in Nat /\ upTo' \in Nat
      /\ queue \in Seq(Entries) /\ Len(queue) \in Nat /\ Len(queue') \in Nat
      /\ \A k \in 1..Len(queue) : queue[k] \in Nat
  BY DEF IInv, TypeOK, Entries
<1>1. CASE MoveOrder
  BY <1>t, <1>1 DEF MoveOrder, IInv, hubVars, streamVars, customerVars, reasonVars,
     WithinTheHistory, JoinedFirst, Whole, Base, OfferedIsQueued, QueueIsInOrder,
     NoHoleWithoutAReason
<1>2. CASE Join
  <2>1. /\ UNCHANGED <<moves, stream, queue, upTo, seen, got, gaveUp, early>>
        /\ ~joined /\ heard <= heard' /\ heard' <= moves
    BY <1>t, <1>2 DEF Join, orderVars, streamVars, customerVars, reasonVars
  <2>2. ~Whole \/ stream = "closed"
    BY <2>1 DEF IInv, JoinedFirst
  <2>3. WithinTheHistory'
    BY <1>t, <2>1 DEF IInv, WithinTheHistory
  <2>4. JoinedFirst' /\ OfferedIsQueued' /\ QueueIsInOrder'
    BY <2>1, <2>2 DEF JoinedFirst, OfferedIsQueued, QueueIsInOrder, Whole
  <2>5. NoHoleWithoutAReason'
    BY <2>1 DEF IInv, NoHoleWithoutAReason
  <2> QED BY <2>3, <2>4, <2>5 DEF IInv
<1>3. ASSUME NEW entry \in Entries, Publish(entry) PROVE IInv'
  <2>1. /\ UNCHANGED <<moves, joined, stream, upTo, seen, got, early>>
        /\ entry \in Nat /\ entry <= heard + 1 /\ entry <= moves
        /\ heard' = IF entry > heard THEN entry ELSE heard
    BY <1>t, <1>3 DEF Publish, Hears, orderVars, customerVars, Entries
  <2>2. CASE stream = "closed"
    <3>1. UNCHANGED <<queue, gaveUp>>
      BY <1>3, <2>2 DEF Publish
    <3>2. WithinTheHistory'
      BY <1>t, <2>1, <3>1 DEF IInv, WithinTheHistory
    <3> QED BY <2>1, <2>2, <3>1, <3>2, ClosedIsInOrder DEF IInv, NoHoleWithoutAReason
  <2>3. CASE stream # "closed" /\ ~(Len(queue) < Buffer)
    <3>1. gaveUp' /\ UNCHANGED queue
      BY <1>3, <2>3 DEF Publish
    <3>2. WithinTheHistory'
      BY <1>t, <2>1, <3>1 DEF IInv, WithinTheHistory
    <3> QED BY <3>1, <3>2 DEF IInv, JoinedFirst, OfferedIsQueued, QueueIsInOrder, Whole,
                              NoHoleWithoutAReason
  <2>4. CASE stream # "closed" /\ Len(queue) < Buffer
    <3>1. queue' = Append(queue, entry) /\ UNCHANGED gaveUp
      BY <1>3, <2>4 DEF Publish
    <3>2. /\ Len(queue') = Len(queue) + 1
          /\ \A k \in 1..Len(queue) : queue'[k] = queue[k]
          /\ queue'[Len(queue) + 1] = entry
      BY <1>t, <3>1, QueueGrows
    <3> HIDE <3>1
    <3>3. WithinTheHistory'
      BY <1>t, <2>1, <3>2 DEF IInv, WithinTheHistory
    <3>4. JoinedFirst' /\ NoHoleWithoutAReason'
      BY <2>1, <3>1 DEF IInv, JoinedFirst, Whole, NoHoleWithoutAReason
    <3> SUFFICES ASSUME Whole, stream \in {"answering", "following"}
                 PROVE  OfferedIsQueued' /\ QueueIsInOrder'
      BY <2>1, <3>1, <3>3, <3>4 DEF IInv, OfferedIsQueued, QueueIsInOrder, Whole
    <3>5. Base \in Nat /\ Base' = Base
      BY <1>t, <2>1 DEF Base
    <3>6. \A e \in (Base + 1)..heard : \E k \in 1..Len(queue) : queue[k] = e
      BY DEF IInv, OfferedIsQueued
    <3>7. \A e \in (Base + 1)..heard' : \E k \in 1..(Len(queue) + 1) : queue'[k] = e
      <4> TAKE e \in (Base + 1)..heard'
      <4>1. CASE e <= heard
        <5>1. PICK k \in 1..Len(queue) : queue[k] = e
          BY <1>t, <3>5, <3>6, <4>1
        <5> QED BY <1>t, <3>2, <5>1
      <4>2. CASE e > heard
        BY <1>t, <2>1, <3>2, <3>5, <4>2
      <4> QED BY <1>t, <3>5, <4>1, <4>2
    <3>8. ASSUME NEW k \in 1..(Len(queue) + 1), NEW d \in (Base + 1)..(queue'[k] - 1)
          PROVE  \E j \in 1..(k - 1) : queue'[j] = d
      <4>1. CASE k \in 1..Len(queue)
        <5>1. PICK j \in 1..(k - 1) : queue[j] = d
          BY <3>2, <4>1 DEF IInv, QueueIsInOrder
        <5> QED BY <1>t, <3>2, <4>1, <5>1
      <4>2. CASE k = Len(queue) + 1
        <5>1. d \in (Base + 1)..heard
          BY <1>t, <2>1, <3>2, <3>5, <4>2
        <5>2. PICK j \in 1..Len(queue) : queue[j] = d
          BY <3>6, <5>1
        <5> QED BY <1>t, <3>2, <4>2, <5>2
      <4> QED BY <1>t, <4>1, <4>2
    <3> QED BY <3>2, <3>5, <3>7, <3>8 DEF OfferedIsQueued, QueueIsInOrder
  <2> QED BY <2>2, <2>3, <2>4
<1>4. CASE Subscribe
  <2>1. /\ UNCHANGED <<moves, joined, heard, queue, upTo, seen, got, gaveUp>>
        /\ stream' = "subscribed" /\ early' = (early \/ ~joined)
    BY <1>4 DEF Subscribe, orderVars, hubVars, customerVars
  <2>2. WithinTheHistory' /\ OfferedIsQueued' /\ QueueIsInOrder'
    BY <2>1 DEF IInv, WithinTheHistory, OfferedIsQueued, QueueIsInOrder
  <2>3. JoinedFirst' /\ NoHoleWithoutAReason'
    BY <2>1 DEF IInv, JoinedFirst, NoHoleWithoutAReason, Whole
  <2> QED BY <2>2, <2>3 DEF IInv
<1>5. CASE ReadOrder
  <2>1. /\ UNCHANGED <<moves, joined, heard, queue, upTo, seen, got, gaveUp, early>>
        /\ stream = "subscribed" /\ stream' = "read"
    BY <1>5 DEF ReadOrder, orderVars, hubVars, customerVars, reasonVars
  <2> QED BY <2>1 DEF IInv, WithinTheHistory, OfferedIsQueued, QueueIsInOrder, JoinedFirst,
                      NoHoleWithoutAReason, Whole
<1>6. CASE ReadHistory
  <2>1. /\ UNCHANGED <<moves, joined, heard, queue, seen, got, gaveUp, early>>
        /\ stream = "read" /\ stream' = "answering" /\ upTo' = moves
    BY <1>6 DEF ReadHistory, orderVars, hubVars, reasonVars
  <2>2. WithinTheHistory'
    BY <1>t, <2>1 DEF IInv, WithinTheHistory
  <2>3. JoinedFirst' /\ NoHoleWithoutAReason'
    BY <2>1 DEF IInv, JoinedFirst, NoHoleWithoutAReason, Whole
  <2>4. Base' = moves /\ heard <= moves /\ \A k \in 1..Len(queue) : queue[k] <= moves
    BY <1>t, <2>1 DEF Base, IInv, WithinTheHistory
  <2>5. OfferedIsQueued'
    BY <1>t, <2>1, <2>4 DEF OfferedIsQueued
  <2>6. QueueIsInOrder'
    BY <1>t, <2>1, <2>4 DEF QueueIsInOrder
  <2> QED BY <2>2, <2>3, <2>5, <2>6 DEF IInv
<1>7. CASE SendMissed
  <2>1. /\ UNCHANGED <<moves, joined, heard, stream, queue, upTo, gaveUp, early>>
        /\ stream = "answering" /\ seen < upTo /\ seen' = seen + 1
        /\ got' = got \union {seen + 1}
    BY <1>7 DEF SendMissed, orderVars, hubVars, streamVars, reasonVars
  <2>2. WithinTheHistory'
    BY <1>t, <2>1 DEF IInv, WithinTheHistory
  <2>3. JoinedFirst' /\ OfferedIsQueued' /\ QueueIsInOrder'
    BY <2>1 DEF IInv, JoinedFirst, OfferedIsQueued, QueueIsInOrder, Whole, Base
  <2>4. NoHoleWithoutAReason'
    BY <1>t, <2>1 DEF IInv, NoHoleWithoutAReason
  <2> QED BY <2>2, <2>3, <2>4 DEF IInv
<1>8. CASE Follow
  <2>1. /\ UNCHANGED <<moves, joined, heard, seen, got, gaveUp, early>>
        /\ stream = "answering" /\ seen >= upTo
        /\ IF snapEnded THEN Unsubscribe ELSE stream' = "following" /\ UNCHANGED <<queue, upTo>>
    BY <1>8 DEF Follow, orderVars, hubVars, customerVars, reasonVars
  <2>2. NoHoleWithoutAReason' /\ seen' <= moves
    BY <2>1 DEF IInv, NoHoleWithoutAReason, WithinTheHistory
  <2>3. CASE snapEnded
    BY <2>1, <2>2, <2>3, ClosingKeepsIInv
  <2>4. CASE ~snapEnded
    <3>1. seen = upTo
      BY <1>t, <2>1 DEF IInv, WithinTheHistory
    <3>2. Base' = Base
      BY <2>1, <2>4, <3>1 DEF Base
    <3>3. WithinTheHistory' /\ JoinedFirst'
      BY <2>1, <2>4 DEF IInv, WithinTheHistory, JoinedFirst, Whole
    <3>4. OfferedIsQueued' /\ QueueIsInOrder'
      BY <2>1, <2>4, <3>2 DEF IInv, OfferedIsQueued, QueueIsInOrder, Whole
    <3> QED BY <2>2, <3>3, <3>4 DEF IInv
  <2> QED BY <2>3, <2>4
<1>9. CASE TakeUpdate
  <2> DEFINE h == queue[1]
  <2>1. /\ UNCHANGED <<moves, joined, heard, gaveUp, early>>
        /\ stream = "following" /\ queue # <<>>
    BY <1>9 DEF TakeUpdate, orderVars, hubVars, reasonVars
  <2>2. /\ Head(queue) = h /\ h \in Nat /\ h <= heard
        /\ Len(queue) >= 1 /\ Len(Tail(queue)) = Len(queue) - 1
        /\ \A k \in 1..(Len(queue) - 1) : Tail(queue)[k] = queue[k + 1]
    BY <1>t, <2>1, QueueShrinks DEF IInv, WithinTheHistory
  \* The oldest update is the next entry or one the customer has.
  <2>3. Whole => h <= seen + 1
    <3> SUFFICES ASSUME Whole, h > seen + 1 PROVE FALSE
      BY <1>t, <2>2
    <3>1. seen + 1 \in (seen + 1)..(h - 1) /\ 1 \in 1..Len(queue)
      BY <1>t, <2>2
    <3>2. \E j \in 1..(1 - 1) : queue[j] = seen + 1
      BY <2>1, <3>1 DEF IInv, QueueIsInOrder, Base
    <3> QED BY <3>2
  <2>4. CASE h <= seen
    <3>1. queue' = Tail(queue) /\ UNCHANGED <<stream, upTo, seen, got>>
      BY <1>9, <2>2, <2>4 DEF TakeUpdate, customerVars
    <3>2. WithinTheHistory'
      BY <1>t, <2>1, <2>2, <3>1 DEF IInv, WithinTheHistory
    <3>3. JoinedFirst' /\ NoHoleWithoutAReason'
      BY <2>1, <3>1 DEF IInv, JoinedFirst, Whole, NoHoleWithoutAReason
    <3> SUFFICES ASSUME Whole PROVE OfferedIsQueued' /\ QueueIsInOrder'
      BY <2>1, <3>2, <3>3 DEF IInv, OfferedIsQueued, QueueIsInOrder, Whole
    <3>4. \A e \in (seen + 1)..heard : \E k \in 1..(Len(queue) - 1) : queue[k + 1] = e
      <4> TAKE e \in (seen + 1)..heard
      <4>1. PICK k \in 1..Len(queue) : queue[k] = e
        BY <2>1 DEF IInv, OfferedIsQueued, Base
      <4>2. k # 1
        BY <1>t, <2>2, <2>4, <4>1
      <4>3. k - 1 \in 1..(Len(queue) - 1) /\ (k - 1) + 1 = k
        BY <1>t, <4>2
      <4> QED BY <4>1, <4>3
    <3>5. ASSUME NEW k \in 1..(Len(queue) - 1), NEW d \in (seen + 1)..(queue[k + 1] - 1)
          PROVE  \E j \in 1..(k - 1) : queue[j + 1] = d
      <4>0. k + 1 \in 1..Len(queue)
        BY <1>t
      <4>1. PICK j \in 1..((k + 1) - 1) : queue[j] = d
        BY <2>1, <4>0 DEF IInv, QueueIsInOrder, Base
      <4>2. j # 1
        BY <1>t, <2>2, <2>4, <4>1
      <4>3. j - 1 \in 1..(k - 1) /\ (j - 1) + 1 = j
        BY <1>t, <4>2
      <4> QED BY <4>1, <4>3
    <3>6. OfferedIsQueued'
      BY <1>t, <2>1, <2>2, <3>1, <3>4 DEF OfferedIsQueued, Base
    <3>7. QueueIsInOrder'
      <4> SUFFICES ASSUME NEW k \in 1..(Len(queue) - 1), NEW d \in (seen + 1)..(queue'[k] - 1)
                   PROVE  \E j \in 1..(k - 1) : queue'[j] = d
        BY <2>1, <2>2, <3>1 DEF QueueIsInOrder, Base
      <4>1. PICK j \in 1..(k - 1) : queue[j + 1] = d
        BY <2>2, <3>1, <3>5
      <4> QED BY <1>t, <2>2, <3>1, <4>1
    <3> QED BY <3>6, <3>7
  <2>5. CASE ~(h <= seen)
    <3>1. /\ got' = got \union {h} /\ seen' = h
          /\ IF Terminal(h) THEN Unsubscribe ELSE queue' = Tail(queue) /\ UNCHANGED <<stream, upTo>>
      BY <1>9, <2>2, <2>5 DEF TakeUpdate
    <3>2. NoHoleWithoutAReason' /\ h <= moves
      BY <1>t, <2>1, <2>2, <2>3, <2>5, <3>1 DEF IInv, NoHoleWithoutAReason, Whole,
                                               WithinTheHistory
    <3>3. CASE Terminal(h)
      BY <2>1, <3>1, <3>2, <3>3, ClosingKeepsIInv
    <3>4. CASE ~Terminal(h)
      <4>1. queue' = Tail(queue) /\ UNCHANGED <<stream, upTo>>
        BY <3>1, <3>4
      <4>2. WithinTheHistory'
        BY <1>t, <2>1, <2>2, <3>1, <3>2, <4>1 DEF IInv, WithinTheHistory
      <4>3. JoinedFirst'
        BY <2>1, <4>1 DEF IInv, JoinedFirst, Whole
      <4> SUFFICES ASSUME Whole PROVE OfferedIsQueued' /\ QueueIsInOrder'
        BY <2>1, <3>2, <4>2, <4>3 DEF IInv, OfferedIsQueued, QueueIsInOrder, Whole
      <4>4. h = seen + 1
        BY <1>t, <2>2, <2>3, <2>5
      <4>5. \A e \in (h + 1)..heard : \E k \in 1..(Len(queue) - 1) : queue[k + 1] = e
        <5> TAKE e \in (h + 1)..heard
        <5>1. PICK k \in 1..Len(queue) : queue[k] = e
          BY <1>t, <2>1, <4>4 DEF IInv, OfferedIsQueued, Base
        <5>2. k # 1
          BY <1>t, <2>2, <5>1
        <5>3. k - 1 \in 1..(Len(queue) - 1) /\ (k - 1) + 1 = k
          BY <1>t, <5>2
        <5> QED BY <5>1, <5>3
      <4>6. ASSUME NEW k \in 1..(Len(queue) - 1), NEW d \in (h + 1)..(queue[k + 1] - 1)
            PROVE  \E j \in 1..(k - 1) : queue[j + 1] = d
        <5>0. k + 1 \in 1..Len(queue) /\ d \in (seen + 1)..(queue[k + 1] - 1)
          BY <1>t, <4>4
        <5>1. PICK j \in 1..((k + 1) - 1) : queue[j] = d
          BY <2>1, <5>0 DEF IInv, QueueIsInOrder, Base
        <5>2. j # 1
          BY <1>t, <2>2, <5>1
        <5>3. j - 1 \in 1..(k - 1) /\ (j - 1) + 1 = j
          BY <1>t, <5>2
        <5> QED BY <5>1, <5>3
      <4>7. OfferedIsQueued'
        BY <1>t, <2>1, <2>2, <3>1, <4>1, <4>5 DEF OfferedIsQueued, Base
      <4>8. QueueIsInOrder'
        <5> SUFFICES ASSUME NEW k \in 1..(Len(queue) - 1), NEW d \in (h + 1)..(queue'[k] - 1)
                     PROVE  \E j \in 1..(k - 1) : queue'[j] = d
          BY <2>1, <2>2, <3>1, <4>1 DEF QueueIsInOrder, Base
        <5>1. PICK j \in 1..(k - 1) : queue[j + 1] = d
          BY <2>2, <4>1, <4>6
        <5> QED BY <1>t, <2>2, <4>1, <5>1
      <4> QED BY <4>7, <4>8
    <3> QED BY <3>3, <3>4
  <2> QED BY <2>4, <2>5
<1>10. CASE GiveUp \/ Leave
  BY <1>10, ClosingKeepsIInv DEF GiveUp, Leave, orderVars, hubVars, customerVars, reasonVars,
     IInv, NoHoleWithoutAReason, WithinTheHistory
<1>11. CASE UNCHANGED vars
  BY <1>11 DEF vars, orderVars, hubVars, streamVars, customerVars, reasonVars, IInv,
     WithinTheHistory, JoinedFirst, Whole, Base, OfferedIsQueued, QueueIsInOrder,
     NoHoleWithoutAReason
<1> QED
  BY <1>1, <1>2, <1>3, <1>4, <1>5, <1>6, <1>7, <1>8, <1>9, <1>10, <1>11 DEF Next

LEMMA AlwaysIInv == ASSUME OrderStreamAssumption PROVE Spec => []IInv
BY StreamInit, StreamStep, PTL DEF Spec

----------------------------------------------------------------------------

\* The stream, its queue and what the customer has stay what they are.
THEOREM TypeCorrect == ASSUME OrderStreamAssumption PROVE Spec => []TypeOK
BY AlwaysIInv, PTL DEF IInv

\* Nothing is sent twice and nothing older than what was sent.
THEOREM GoesForward == ASSUME OrderStreamAssumption PROVE Spec => NeverGoesBack
<1>1. ASSUME IInv, Next
      PROVE  seen' >= seen /\ \A entry \in got' \ got : entry > seen
  <2>1. seen \in Nat /\ queue \in Seq(Entries)
    BY <1>1 DEF IInv, TypeOK
  <2>2. CASE TakeUpdate
    <3>1. Head(queue) \in Nat
      BY <2>1, <2>2, QueueShrinks DEF TakeUpdate, Entries
    <3>2. CASE Head(queue) <= seen
      BY <2>1, <2>2, <3>2 DEF TakeUpdate, customerVars
    <3>3. CASE ~(Head(queue) <= seen)
      BY <2>1, <2>2, <3>1, <3>3 DEF TakeUpdate
    <3> QED BY <3>2, <3>3
  <2>3. CASE SendMissed
    BY <2>1, <2>3 DEF SendMissed
  <2>4. CASE ~TakeUpdate /\ ~SendMissed
    <3>1. UNCHANGED <<seen, got>>
      BY <1>1, <2>4 DEF Next, MoveOrder, Join, Publish, Hears, Subscribe, ReadOrder,
         ReadHistory, Follow, GiveUp, Leave, customerVars
    <3> QED BY <2>1, <3>1
  <2> QED BY <2>2, <2>3, <2>4
<1>2. IInv /\ [Next]_vars => [seen' >= seen /\ \A entry \in got' \ got : entry > seen]_vars
  BY <1>1
<1> QED BY AlwaysIInv, <1>2, PTL DEF Spec, NeverGoesBack

\* A customer has every entry up to the last one, unless the hub gave up on them
\* or they came before the consumer of the process had joined.
THEOREM LeavesNoHole == ASSUME OrderStreamAssumption PROVE Spec => []NoHoleWithoutAReason
BY AlwaysIInv, PTL DEF IInv

=============================================================================
