-------------------------- MODULE VenueKitchenProofs --------------------------
(***************************************************************************)
(* Proofs about VenueKitchen, for any number of orders and portions, any   *)
(* faults and any restarts.                                                *)
(*                                                                         *)
(* KitchenKeepsStep is about two books that are brought together by calls  *)
(* whose answers come late.  What carries it over the time between a call  *)
(* and its answer is that the autopilot makes one call at a time, that the *)
(* order it calls about is where it was read or has ended, and that nobody *)
(* else takes an order along the line.                                     *)
(***************************************************************************)
EXTENDS VenueKitchen, SetSums, SequenceTheorems, TLAPS

\* The books of the platform agree with each other, and an order the venue has
\* not heard of is new.
BooksAgree ==
  \A o \in OrderIds :
    /\ status[o] = "NONE" => state[o] = "NONE"
    /\ status[o] \notin Ended \union {"NONE"} => agreed[o] = Position(StateOf(status[o]))
    /\ status[o] # "NONE" /\ state[o] = "NONE" => agreed[o] = 1

\* An order is announced once, to a venue that does not have it; and an end that
\* is announced has come.
TopicIsTrue ==
  /\ \A k \in 1..Len(topic) :
       /\ status[topic[k].order] # "NONE"
       /\ topic[k].type = "order.cancelled" => status[topic[k].order] \in Ended
       /\ topic[k].type = "order.created" /\ k > offset => state[topic[k].order] = "NONE"
  /\ \A j, k \in 1..Len(topic) :
       topic[j].type = "order.created" /\ topic[k].type = "order.created"
         /\ topic[j].order = topic[k].order => j = k

\* The consumer reads the order whose end comes next.
ReadingIsOfTheNext ==
  reading # "NONE" => offset < Len(topic) /\ Coming.type = "order.cancelled"

\* An order of the run is where it was read, or has ended.
RipeIsCurrent ==
  /\ \A x \in ripe : Moving(x[2]) /\ state[x[1]] \in {x[2]} \union Ended
  /\ \A x, y \in ripe : x[1] = y[1] => x = y
  /\ phase # "orders" => ripe = {}

\* The answer to a call is still what the platform has for the order.
AnswerIsCurrent ==
  call # NoCall =>
    /\ <<call.order, call.from>> \in ripe
    /\ call.answer = "ok" => agreed[call.order] = Position(call.from) + 1
    /\ call.answer \in Ended => status[call.order] \in Ended
    /\ call.answer \notin Ended \union {"ok"} =>
         agreed[call.order] = Position(StateOf(call.answer))

IInv ==
  /\ TypeOK
  /\ BooksAgree
  /\ TopicIsTrue
  /\ ReadingIsOfTheNext
  /\ RipeIsCurrent
  /\ AnswerIsCurrent
  /\ KitchenKeepsStep

----------------------------------------------------------------------------
(* The line and the state machine *)

LEMMA LineIs ==
  /\ Len(Line) = 5
  /\ Line[1] = "NEW" /\ Line[2] = "ACCEPTED" /\ Line[3] = "COOKING" /\ Line[4] = "READY"
  /\ Line[5] = "HANDED_OVER"
BY DEF Line

LEMMA StatesAre ==
  States = {"NEW", "ACCEPTED", "COOKING", "READY", "HANDED_OVER", "REJECTED", "CANCELLED"}
BY LineIs DEF States

LEMMA Positions ==
  /\ Position("NEW") = 1 /\ Position("ACCEPTED") = 2 /\ Position("COOKING") = 3
  /\ Position("READY") = 4 /\ Position("HANDED_OVER") = 5
<1>1. ASSUME NEW n \in 1..5 PROVE Position(Line[n]) = n
  <2>1. \A k \in 1..Len(Line) : Line[k] = Line[n] <=> k = n
    BY LineIs
  <2>2. n \in 1..Len(Line)
    BY LineIs
  <2> QED BY <2>1, <2>2 DEF Position
<1>2. Position(Line[1]) = 1 /\ Position(Line[2]) = 2 /\ Position(Line[3]) = 3
      /\ Position(Line[4]) = 4 /\ Position(Line[5]) = 5
  BY <1>1
<1> QED BY <1>2, LineIs

\* Every step of the autopilot is one place along the line.
LEMMA StepsOfTheLine ==
  ASSUME NEW step \in pipeline
  PROVE  /\ step[1] \in States \ Ended /\ step[3] \in States \ Ended
         /\ Moving(step[1])
         /\ Position(step[3]) = Position(step[1]) + 1
         /\ Position(step[1]) \in 1..5 /\ Position(step[3]) \in 1..5
BY Positions, StatesAre DEF pipeline, Ended, Moving

LEMMA MovingIsInTheKitchen ==
  ASSUME NEW s, Moving(s)
  PROVE  s \in States \ Ended /\ s # "NONE"
BY StatesAre DEF pipeline, Ended, Moving

\* The state of a status is its place on the line.
LEMMA StateOfStatus ==
  ASSUME NEW s \in Statuses
  PROVE  /\ StateOf(s) \in States
         /\ s \in Ended <=> StateOf(s) \in Ended
         /\ s \in Ended => StateOf(s) = s
         /\ s \notin Ended => Position(StateOf(s)) \in 1..5
BY Positions, StatesAre DEF StateOf, Statuses, Ended

\* A move ends the order, delivers it, or is a step of the kitchen.
LEMMA KindsOfMoves ==
  ASSUME NEW s, NEW event, NEW to, <<s, event, to>> \in transitions
  PROVE  /\ s \in Statuses \ Ended /\ s # "NONE" /\ to \in Statuses
         /\ \/ to \in Ended
            \/ to \notin Ended /\ event = "deliver" /\ s = "DELIVERING" /\ to = "DELIVERED"
            \/ /\ to \notin Ended
               /\ \E step \in pipeline :
                    step[2] = event /\ StateOf(s) = step[1] /\ StateOf(to) = step[3]
BY DEF transitions, Statuses, Ended, StateOf, pipeline

\* The call of a step is made only by that step, and ends no order.
LEMMA CallsOfTheLine ==
  ASSUME NEW step \in pipeline, NEW s, NEW to, <<s, step[2], to>> \in transitions
  PROVE  to \notin Ended /\ StateOf(s) = step[1] /\ StateOf(to) = step[3]
BY DEF transitions, Ended, StateOf, pipeline

\* A call that repeats itself finds the order where it takes it.
LEMMA RepeatsAreThere ==
  ASSUME NEW step \in pipeline, NEW s, Repeats(s, step[2])
  PROVE  s \in Statuses \ Ended /\ StateOf(s) = step[3]
BY DEF Repeats, transitions, Statuses, Ended, StateOf, pipeline

LEMMA NamesDiffer ==
  /\ "NONE" \notin States /\ "NONE" \notin Statuses /\ "ok" \notin Statuses
  /\ Ended \subseteq Statuses /\ Ended \subseteq States
BY StatesAre DEF Statuses, Ended

LEMMA CallsAreCalls ==
  ASSUME NEW c \in Calls, c # NoCall
  PROVE  c.order \in OrderIds /\ c.from \in States /\ c.answer \in Statuses \union {"ok"}
BY DEF Calls

\* A record of a call is one.
LEMMA ACallIsSomething ==
  ASSUME NEW o, NEW from, NEW answer
  PROVE  [order |-> o, from |-> from, answer |-> answer] # NoCall
<1>1. DOMAIN [order |-> o, from |-> from, answer |-> answer] = {"order", "from", "answer"}
  OBVIOUS
<1>2. DOMAIN NoCall = {"order"}
  BY DEF NoCall
<1> QED BY <1>1, <1>2

----------------------------------------------------------------------------
(* Types *)

\* The type invariant, by owner.
PlatformTyped ==
  /\ status \in [OrderIds -> Statuses \union {"NONE"}]
  /\ qty \in [OrderIds -> 0..MaxQty]
  /\ sellable \in Nat
  /\ agreed \in [OrderIds -> 0..Len(Line)]
FlagsTyped ==
  /\ onSale \in BOOLEAN /\ listed \in BOOLEAN /\ stop \in BOOLEAN
  /\ raced \in BOOLEAN /\ unwritten \in BOOLEAN
TopicTyped == topic \in Seq(Event) /\ offset \in 0..Len(topic)
BooksTyped == state \in [OrderIds -> States \union {"NONE"}] /\ stock \in Nat
WorkTyped ==
  /\ reading \in States \union {"NONE"}
  /\ phase \in {"idle", "orders", "stop list", "told"}
  /\ ripe \in SUBSET (OrderIds \X States)
  /\ call \in Calls
CountsTyped == faults \in 0..MaxFaults /\ restarts \in 0..MaxRestarts /\ overdrawn \in Nat

LEMMA TypeParts ==
  TypeOK <=> /\ PlatformTyped /\ FlagsTyped /\ TopicTyped /\ BooksTyped /\ WorkTyped
             /\ CountsTyped
BY Zenon DEF TypeOK, PlatformTyped, FlagsTyped, TopicTyped, BooksTyped, WorkTyped, CountsTyped

LEMMA TypePartsNext ==
  TypeOK' <=> /\ PlatformTyped' /\ FlagsTyped' /\ TopicTyped' /\ BooksTyped' /\ WorkTyped'
              /\ CountsTyped'
BY Zenon DEF TypeOK, PlatformTyped, FlagsTyped, TopicTyped, BooksTyped, WorkTyped, CountsTyped

\* The numbers the actions count with.
LEMMA Numbers ==
  ASSUME VenueKitchenAssumption, TypeOK
  PROVE  /\ \A o \in OrderIds : qty[o] \in Nat
         /\ sellable \in Nat /\ stock \in Nat /\ overdrawn \in Nat
         /\ Len(topic) \in Nat /\ offset \in Nat /\ offset <= Len(topic)
<1>1. Len(topic) \in Nat
  BY TypeParts, LenProperties DEF TopicTyped
<1>2. offset \in Nat /\ offset <= Len(topic)
  BY <1>1, TypeParts DEF TopicTyped
<1>3. \A o \in OrderIds : qty[o] \in Nat
  <2>1. qty \in [OrderIds -> 0..MaxQty] /\ MaxQty \in Nat
    BY TypeParts DEF PlatformTyped, VenueKitchenAssumption
  <2> QED BY <2>1
<1> QED BY <1>1, <1>2, <1>3, TypeParts DEF PlatformTyped, BooksTyped, CountsTyped

LEMMA KitchenInit == ASSUME VenueKitchenAssumption, Init PROVE IInv
<1> USE DEF Init
<1>1. TypeOK
  <2>1. TopicTyped
    <3>1. topic = <<>> /\ offset = 0
      OBVIOUS
    <3>2. topic \in Seq(Event) /\ Len(topic) = 0
      BY <3>1, EmptySeq
    <3> QED BY <3>1, <3>2 DEF TopicTyped
  <2>2. PlatformTyped /\ BooksTyped
    BY LineIs DEF PlatformTyped, BooksTyped, VenueKitchenAssumption
  <2>3. FlagsTyped
    BY DEF FlagsTyped
  <2>4. WorkTyped
    BY DEF WorkTyped, Calls
  <2>5. CountsTyped
    BY DEF CountsTyped, VenueKitchenAssumption
  <2> QED BY <2>1, <2>2, <2>3, <2>4, <2>5, TypeParts
<1>2. BooksAgree /\ TopicIsTrue /\ ReadingIsOfTheNext /\ RipeIsCurrent /\ AnswerIsCurrent
  BY DEF BooksAgree, TopicIsTrue, ReadingIsOfTheNext, RipeIsCurrent, AnswerIsCurrent
<1>3. KitchenKeepsStep
  BY NamesDiffer DEF KitchenKeepsStep
<1> QED BY <1>1, <1>2, <1>3 DEF IInv

\* What a longer topic is.
LEMMA TopicGrows ==
  ASSUME NEW q \in Seq(Event), NEW e \in Event
  PROVE  /\ Append(q, e) \in Seq(Event) /\ Len(q) \in Nat /\ Len(Append(q, e)) = Len(q) + 1
         /\ \A k \in 1..Len(q) : Append(q, e)[k] = q[k]
         /\ Append(q, e)[Len(q) + 1] = e
BY AppendProperties, LenProperties

\* What comes next is an event.
LEMMA ComingIsAnEvent ==
  ASSUME VenueKitchenAssumption, TypeOK, offset < Len(topic)
  PROVE  /\ offset + 1 \in 1..Len(topic) /\ offset + 1 \in 0..Len(topic)
         /\ Coming \in Event /\ Coming.order \in OrderIds
<1>1. offset + 1 \in 1..Len(topic) /\ offset + 1 \in 0..Len(topic)
  BY Numbers
<1>2. topic[offset + 1] \in Event
  BY <1>1, ElementOfSeq, TypeParts DEF TopicTyped
<1>3. \A e \in Event : e.order \in OrderIds
  BY DEF Event
<1> QED BY <1>1, <1>2, <1>3 DEF Coming

\* A move of the platform, taken apart.
LEMMA MoveIs ==
  ASSUME VenueKitchenAssumption, TypeOK,
         NEW o \in OrderIds, NEW event, NEW actor, Move(o, event, actor)
  PROVE  \E to \in Statuses :
           /\ <<status[o], event, to>> \in transitions
           /\ status' = [status EXCEPT ![o] = to]
           /\ agreed' = [agreed EXCEPT ![o] = IF to \in Ended THEN agreed[o]
                                              ELSE Position(StateOf(to))]
           /\ sellable' \in Nat
           /\ \/ topic' = topic
              \/ /\ to \in Ended
                 /\ topic' = Append(topic, [type |-> "order.cancelled", order |-> o])
           /\ UNCHANGED <<qty, onSale>>
<1>1. PICK to \in Statuses :
        /\ <<status[o], event, to>> \in transitions
        /\ status' = [status EXCEPT ![o] = to]
        /\ agreed' = [agreed EXCEPT ![o] = IF to \in Ended THEN @ ELSE Position(StateOf(to))]
        /\ sellable' = IF ReturnsStock(to) THEN sellable + qty[o] ELSE sellable
        /\ topic' = IF TellsVenue(to, actor)
                    THEN Append(topic, [type |-> "order.cancelled", order |-> o])
                    ELSE topic
        /\ UNCHANGED <<qty, onSale>>
  BY DEF Move
<1>2. sellable' \in Nat
  <2>1. sellable \in Nat /\ qty[o] \in Nat
    BY Numbers
  <2>2. sellable' = sellable + qty[o] \/ sellable' = sellable
    BY <1>1
  <2> QED BY <2>1, <2>2
<1>3. TellsVenue(to, actor) => to \in Ended
  BY DEF TellsVenue, ReturnsStock, Ended
<1>4. \/ topic' = topic
      \/ to \in Ended /\ topic' = Append(topic, [type |-> "order.cancelled", order |-> o])
  <2>1. CASE TellsVenue(to, actor)
    BY <1>1, <1>3, <2>1, Zenon
  <2>2. CASE ~TellsVenue(to, actor)
    BY <1>1, <2>2 DEF TellsVenue, ReturnsStock
  <2> QED BY <2>1, <2>2
<1>5. agreed' = [agreed EXCEPT ![o] = IF to \in Ended THEN agreed[o]
                                     ELSE Position(StateOf(to))]
  BY <1>1
<1> QED BY <1>1, <1>2, <1>4, <1>5

LEMMA MoveIsTyped ==
  ASSUME VenueKitchenAssumption, TypeOK, NEW o \in OrderIds, NEW event, NEW actor,
         Move(o, event, actor)
  PROVE  PlatformTyped' /\ UNCHANGED <<qty, onSale>>
         /\ topic' \in Seq(Event) /\ Len(topic') \in Nat /\ Len(topic) <= Len(topic')
<1>1. PICK to \in Statuses :
        /\ status' = [status EXCEPT ![o] = to]
        /\ agreed' = [agreed EXCEPT ![o] = IF to \in Ended THEN agreed[o]
                                           ELSE Position(StateOf(to))]
        /\ sellable' \in Nat
        /\ \/ topic' = topic
           \/ topic' = Append(topic, [type |-> "order.cancelled", order |-> o])
        /\ UNCHANGED <<qty, onSale>>
  BY MoveIs
<1>2. PlatformTyped
  BY TypeParts
<1>3. agreed' \in [OrderIds -> 0..Len(Line)]
  <2>1. to \notin Ended => Position(StateOf(to)) \in 0..Len(Line)
    BY StateOfStatus, LineIs
  <2>2. agreed \in [OrderIds -> 0..Len(Line)]
    BY <1>2 DEF PlatformTyped
  <2>3. (IF to \in Ended THEN agreed[o] ELSE Position(StateOf(to))) \in 0..Len(Line)
    BY <2>1, <2>2
  <2> QED BY <1>1, <2>2, <2>3
<1>4. [type |-> "order.cancelled", order |-> o] \in Event
  BY DEF Event
<1>5. topic' \in Seq(Event) /\ Len(topic') \in Nat /\ Len(topic) <= Len(topic')
  <2>1. topic \in Seq(Event) /\ Len(topic) \in Nat
    BY Numbers, TypeParts DEF TopicTyped
  <2>2. CASE topic' = topic
    BY <2>1, <2>2
  <2>3. CASE topic' = Append(topic, [type |-> "order.cancelled", order |-> o])
    BY <2>1, <2>3, <1>4, TopicGrows
  <2> QED BY <1>1, <2>2, <2>3
<1>6. status' \in [OrderIds -> Statuses \union {"NONE"}] /\ qty' \in [OrderIds -> 0..MaxQty]
  BY <1>1, <1>2 DEF PlatformTyped
<1> QED BY <1>1, <1>3, <1>5, <1>6 DEF PlatformTyped

\* What settling leaves in the books of the venue.
LEMMA SettleIsTyped ==
  ASSUME VenueKitchenAssumption, TypeOK, NEW o \in OrderIds, NEW from, NEW to \in States,
         Settle(o, from, to)
  PROVE  BooksTyped'
<1>1. qty[o] \in Nat /\ stock \in Nat /\ BooksTyped
  BY Numbers, TypeParts
<1>2. CASE state[o] = from
  <2>1. state' = [state EXCEPT ![o] = to] /\ (stock' = stock + qty[o] \/ stock' = stock)
    BY <1>2 DEF Settle
  <2>2. stock' \in Nat
    BY <1>1, <2>1
  <2>3. state' \in [OrderIds -> States \union {"NONE"}]
    BY <1>1, <2>1 DEF BooksTyped
  <2> QED BY <2>2, <2>3 DEF BooksTyped
<1>3. CASE state[o] # from
  BY <1>1, <1>3 DEF Settle, BooksTyped, kitchenVars
<1> QED BY <1>2, <1>3

\* Hearing an answer is settling it, or nothing.
LEMMA HearIs ==
  ASSUME TypeOK, call # NoCall, Hear(call.order, call.from, call.answer)
  PROVE  \/ UNCHANGED kitchenVars
         \/ \E to \in States : Settle(call.order, call.from, to)
<1>1. call \in Calls
  BY TypeParts DEF WorkTyped
<1> QED BY <1>1, CallsAreCalls, StepsOfTheLine, StateOfStatus DEF Hear

----------------------------------------------------------------------------
(* The steps of the platform *)

\* The events of the topic, and what the invariant says of the orders in the run.
LEMMA EventsAreEvents ==
  ASSUME TypeOK
  PROVE  \A k \in 1..Len(topic) : topic[k] \in Event /\ topic[k].order \in OrderIds
<1>1. \A k \in 1..Len(topic) : topic[k] \in Event
  BY ElementOfSeq, TypeParts DEF TopicTyped
<1>2. \A e \in Event : e.order \in OrderIds
  BY DEF Event
<1> QED BY <1>1, <1>2

LEMMA RipeIsKnown ==
  ASSUME TypeOK, BooksAgree, RipeIsCurrent
  PROVE  \A x \in ripe :
           /\ x[1] \in OrderIds /\ x[2] \in States \ Ended
           /\ state[x[1]] # "NONE" /\ status[x[1]] \in Statuses
<1> SUFFICES ASSUME NEW x \in ripe
             PROVE  /\ x[1] \in OrderIds /\ x[2] \in States \ Ended
                    /\ state[x[1]] # "NONE" /\ status[x[1]] \in Statuses
  OBVIOUS
<1>1. x[1] \in OrderIds
  BY TypeParts DEF WorkTyped
<1>2. x[2] \in States \ Ended /\ x[2] # "NONE" /\ state[x[1]] \in {x[2]} \union Ended
  BY MovingIsInTheKitchen DEF RipeIsCurrent
<1>3. state[x[1]] # "NONE"
  BY <1>2 DEF Ended
<1>4. status[x[1]] # "NONE" /\ status[x[1]] \in Statuses \union {"NONE"}
  BY <1>1, <1>3, TypeParts DEF BooksAgree, PlatformTyped
<1> QED BY <1>1, <1>2, <1>3, <1>4

LEMMA PlaceStep ==
  ASSUME VenueKitchenAssumption, IInv, NEW o \in OrderIds, Place(o)
  PROVE  IInv'
<1> USE DEF IInv
<1>0. /\ UNCHANGED <<onSale, offset, reading, state, stock, listed, phase, ripe, call, stop>>
      /\ UNCHANGED <<faults, restarts, overdrawn, raced, unwritten>>
      /\ status[o] = "NONE"
  BY DEF Place, consumerVars, kitchenVars, pilotVars, historyVars
<1>1. /\ \A p \in OrderIds : status'[p] = IF p = o THEN "CREATED" ELSE status[p]
      /\ \A p \in OrderIds : agreed'[p] = IF p = o THEN 1 ELSE agreed[p]
  BY TypeParts DEF Place, PlatformTyped
<1>2. state[o] = "NONE"
  BY <1>0 DEF BooksAgree
<1>3. /\ topic' \in Seq(Event) /\ Len(topic) \in Nat /\ Len(topic') = Len(topic) + 1
      /\ \A k \in 1..Len(topic) : topic'[k] = topic[k]
      /\ topic'[Len(topic) + 1] = [type |-> "order.created", order |-> o]
  <2>1. [type |-> "order.created", order |-> o] \in Event
    BY DEF Event
  <2> QED BY <2>1, TopicGrows, TypeParts DEF Place, TopicTyped
<1>4. TypeOK'
  <2>1. PlatformTyped'
    <3>1. PICK n \in 1..MaxQty :
            n <= sellable /\ sellable' = sellable - n /\ qty' = [qty EXCEPT ![o] = n]
      BY DEF Place
    <3>2. sellable' \in Nat
      BY <3>1, Numbers DEF VenueKitchenAssumption
    <3>3. qty' \in [OrderIds -> 0..MaxQty]
      BY <3>1, TypeParts DEF PlatformTyped, VenueKitchenAssumption
    <3>4. status' \in [OrderIds -> Statuses \union {"NONE"}]
      BY TypeParts DEF Place, PlatformTyped, Statuses
    <3>5. agreed' \in [OrderIds -> 0..Len(Line)]
      <4>1. 1 \in 0..Len(Line)
        BY LineIs
      <4> QED BY <4>1, TypeParts DEF Place, PlatformTyped
    <3> QED BY <3>2, <3>3, <3>4, <3>5 DEF PlatformTyped
  <2>2. TopicTyped'
    BY <1>0, <1>3, Numbers DEF TopicTyped
  <2>3. FlagsTyped' /\ BooksTyped' /\ WorkTyped' /\ CountsTyped'
    BY <1>0, TypeParts, Zenon DEF FlagsTyped, BooksTyped, WorkTyped, CountsTyped
  <2> QED BY <2>1, <2>2, <2>3, TypePartsNext
<1>5. BooksAgree'
  BY <1>0, <1>1, <1>2, Positions DEF BooksAgree, StateOf, Ended
<1>6. TopicIsTrue'
  <2>1. \A k \in 1..Len(topic) : topic[k].order \in OrderIds \ {o}
    BY <1>0, EventsAreEvents DEF TopicIsTrue
  <2>2. \A k \in 1..Len(topic') :
          \/ k \in 1..Len(topic) /\ topic'[k] = topic[k] /\ topic[k].order \in OrderIds \ {o}
          \/ k = Len(topic) + 1 /\ topic'[k].type = "order.created" /\ topic'[k].order = o
    BY <1>3, <2>1
  <2>3. \A k \in 1..Len(topic') :
          /\ status'[topic'[k].order] # "NONE"
          /\ topic'[k].type = "order.cancelled" => status'[topic'[k].order] \in Ended
          /\ topic'[k].type = "order.created" /\ k > offset' => state'[topic'[k].order] = "NONE"
    BY <1>0, <1>1, <1>2, <2>2 DEF TopicIsTrue
  <2>4. \A j, k \in 1..Len(topic') :
          topic'[j].type = "order.created" /\ topic'[k].type = "order.created"
            /\ topic'[j].order = topic'[k].order => j = k
    BY <2>2 DEF TopicIsTrue
  <2> QED BY <2>3, <2>4 DEF TopicIsTrue
<1>7. ReadingIsOfTheNext'
  <2>1. offset < Len(topic) => offset + 1 \in 1..Len(topic) /\ offset < Len(topic')
    BY <1>3, Numbers
  <2>2. offset < Len(topic) => topic'[offset' + 1] = topic[offset + 1]
    BY <1>0, <1>3, <2>1
  <2> QED BY <1>0, <2>1, <2>2 DEF ReadingIsOfTheNext, Coming
<1>8. RipeIsCurrent'
  BY <1>0 DEF RipeIsCurrent, Moving
<1>9. AnswerIsCurrent'
  <2>1. call # NoCall => call.order \in OrderIds \ {o}
    BY <1>2, RipeIsKnown DEF AnswerIsCurrent
  <2> QED BY <1>0, <1>1, <2>1 DEF AnswerIsCurrent
<1>10. KitchenKeepsStep'
  BY <1>0, <1>1, <1>2, NamesDiffer DEF KitchenKeepsStep
<1> QED BY <1>4, <1>5, <1>6, <1>7, <1>8, <1>9, <1>10

\* A move of the platform, of an order the venue is told about, keeps the books.
LEMMA MoveStep ==
  ASSUME VenueKitchenAssumption, IInv, NEW o \in OrderIds, NEW event, NEW actor,
         Move(o, event, actor),
         UNCHANGED <<offset, reading, state, stock, phase, ripe>>,
         (\E step \in pipeline : step[2] = event) => state[o] = StateOf(status[o])
  PROVE  /\ PlatformTyped' /\ TopicTyped' /\ BooksAgree' /\ TopicIsTrue'
         /\ ReadingIsOfTheNext' /\ RipeIsCurrent' /\ KitchenKeepsStep'
         /\ \A p \in OrderIds : status[p] \in Ended => status'[p] \in Ended
         /\ ~(\E step \in pipeline : step[2] = event)
              => \A p \in OrderIds : agreed'[p] = agreed[p]
<1> USE DEF IInv
<1>1. PICK to \in Statuses :
        /\ <<status[o], event, to>> \in transitions
        /\ status' = [status EXCEPT ![o] = to]
        /\ agreed' = [agreed EXCEPT ![o] = IF to \in Ended THEN agreed[o]
                                           ELSE Position(StateOf(to))]
        /\ \/ topic' = topic
           \/ /\ to \in Ended
              /\ topic' = Append(topic, [type |-> "order.cancelled", order |-> o])
  BY MoveIs
<1>2. /\ \A p \in OrderIds : status'[p] = IF p = o THEN to ELSE status[p]
      /\ \A p \in OrderIds :
           agreed'[p] = IF p = o /\ to \notin Ended THEN Position(StateOf(to)) ELSE agreed[p]
  BY <1>1, TypeParts DEF PlatformTyped
<1>3. /\ status[o] \in Statuses \ Ended /\ status[o] # "NONE"
      /\ agreed[o] = Position(StateOf(status[o])) /\ to # "NONE"
  BY <1>1, KindsOfMoves, NamesDiffer DEF BooksAgree
<1>4. \/ to \in Ended
      \/ to \notin Ended /\ ~(\E step \in pipeline : step[2] = event)
           /\ Position(StateOf(to)) = agreed[o] /\ agreed[o] = 5
      \/ to \notin Ended /\ (\E step \in pipeline : step[2] = event)
           /\ state[o] \in States \ Ended
           /\ Position(StateOf(to)) = Position(state[o]) + 1
           /\ Position(state[o]) \in 1..5
  <2>1. CASE to \in Ended
    BY <2>1
  <2>2. CASE event = "deliver" /\ status[o] = "DELIVERING" /\ to = "DELIVERED"
    BY <2>2, <1>3, Positions DEF StateOf, pipeline, Ended
  <2>3. CASE /\ to \notin Ended
             /\ \E step \in pipeline :
                  step[2] = event /\ StateOf(status[o]) = step[1] /\ StateOf(to) = step[3]
    BY <2>3, StepsOfTheLine
  <2> QED BY <1>1, <2>1, <2>2, <2>3, KindsOfMoves
<1>5. PlatformTyped' /\ topic' \in Seq(Event) /\ Len(topic') \in Nat /\ Len(topic) <= Len(topic')
  BY MoveIsTyped
<1>6. TopicTyped'
  BY <1>5, Numbers DEF TopicTyped
<1>7. BooksAgree'
  <2>1. ~(to \notin Ended /\ state[o] = "NONE")
    BY <1>3, <1>4, NamesDiffer DEF BooksAgree
  <2> QED BY <1>2, <1>3, <2>1 DEF BooksAgree
<1>8. /\ \A k \in 1..Len(topic') :
           \/ k \in 1..Len(topic) /\ topic'[k] = topic[k] /\ topic[k].order \in OrderIds
           \/ k = Len(topic) + 1 /\ topic'[k].type = "order.cancelled"
                /\ topic'[k].order = o /\ to \in Ended
      /\ \A k \in 1..Len(topic) : topic'[k] = topic[k]
      /\ Len(topic') >= Len(topic)
  <2>1. topic \in Seq(Event) /\ Len(topic) \in Nat
    BY Numbers, TypeParts DEF TopicTyped
  <2>2. CASE topic' = topic
    BY <2>1, <2>2, EventsAreEvents
  <2>3. CASE /\ to \in Ended
             /\ topic' = Append(topic, [type |-> "order.cancelled", order |-> o])
    <3>1. [type |-> "order.cancelled", order |-> o] \in Event
      BY DEF Event
    <3>2. /\ Len(topic') = Len(topic) + 1
          /\ \A k \in 1..Len(topic) : topic'[k] = topic[k]
          /\ topic'[Len(topic) + 1] = [type |-> "order.cancelled", order |-> o]
      BY <2>1, <2>3, <3>1, TopicGrows
    <3> QED BY <2>1, <2>3, <3>2, EventsAreEvents
  <2> QED BY <1>1, <2>2, <2>3
<1>9. TopicIsTrue'
  <2>1. \A k \in 1..Len(topic') :
          /\ status'[topic'[k].order] # "NONE"
          /\ topic'[k].type = "order.cancelled" => status'[topic'[k].order] \in Ended
          /\ topic'[k].type = "order.created" /\ k > offset' => state'[topic'[k].order] = "NONE"
    BY <1>2, <1>3, <1>8 DEF TopicIsTrue
  <2>2. \A j, k \in 1..Len(topic') :
          topic'[j].type = "order.created" /\ topic'[k].type = "order.created"
            /\ topic'[j].order = topic'[k].order => j = k
    BY <1>8 DEF TopicIsTrue
  <2> QED BY <2>1, <2>2 DEF TopicIsTrue
<1>10. ReadingIsOfTheNext'
  BY <1>5, <1>8, Numbers DEF ReadingIsOfTheNext, Coming
<1>11. RipeIsCurrent'
  BY DEF RipeIsCurrent, Moving
<1>12. KitchenKeepsStep'
  <2>1. state[o] \notin Ended
    BY <1>3 DEF KitchenKeepsStep
  <2> QED BY <1>2, <1>3, <1>4, <2>1 DEF KitchenKeepsStep
<1>13. \A p \in OrderIds : status[p] \in Ended => status'[p] \in Ended
  BY <1>2, <1>3
<1>14. ~(\E step \in pipeline : step[2] = event) => \A p \in OrderIds : agreed'[p] = agreed[p]
  BY <1>2, <1>4
<1> QED BY <1>5, <1>6, <1>7, <1>9, <1>10, <1>11, <1>12, <1>13, <1>14

LEMMA OthersMoveStep ==
  ASSUME VenueKitchenAssumption, IInv, NEW o \in OrderIds, OthersMove(o)
  PROVE  IInv'
<1> USE DEF IInv
<1>0. /\ UNCHANGED <<offset, reading, state, stock, listed, phase, ripe, call, stop>>
      /\ UNCHANGED <<faults, restarts, overdrawn, raced, unwritten>>
  BY DEF OthersMove, consumerVars, kitchenVars, pilotVars, historyVars
<1>1. PICK event, actor :
        Move(o, event, actor) /\ ~(\E step \in pipeline : step[2] = event)
  BY DEF OthersMove, pipeline
<1>2. UNCHANGED onSale
  BY <1>1, MoveIs
<1>3. /\ PlatformTyped' /\ TopicTyped' /\ BooksAgree' /\ TopicIsTrue'
      /\ ReadingIsOfTheNext' /\ RipeIsCurrent' /\ KitchenKeepsStep'
      /\ \A p \in OrderIds : status[p] \in Ended => status'[p] \in Ended
      /\ \A p \in OrderIds : agreed'[p] = agreed[p]
  BY <1>0, <1>1, MoveStep
<1>4. FlagsTyped' /\ BooksTyped' /\ WorkTyped' /\ CountsTyped'
  BY <1>0, <1>2, TypeParts, Zenon DEF FlagsTyped, BooksTyped, WorkTyped, CountsTyped
<1>5. TypeOK'
  BY <1>3, <1>4, TypePartsNext
<1>6. AnswerIsCurrent'
  <2>1. call # NoCall => call.order \in OrderIds
    BY RipeIsKnown DEF AnswerIsCurrent
  <2> QED BY <1>0, <1>3, <2>1 DEF AnswerIsCurrent
<1> QED BY <1>3, <1>5, <1>6

\* The autopilot calls about an order that is where it was read or has ended, and
\* the answer is what the platform has then.
LEMMA CallStep ==
  ASSUME VenueKitchenAssumption, IInv, NEW o \in OrderIds, NEW from \in States, Call(o, from)
  PROVE  IInv'
<1> USE DEF IInv
<1>0. /\ UNCHANGED <<offset, reading, state, stock, listed, phase, ripe, stop>>
      /\ UNCHANGED <<faults, restarts, overdrawn, raced, unwritten>>
      /\ <<o, from>> \in ripe
  BY DEF Call, consumerVars, kitchenVars, historyVars
<1>1. PICK step \in pipeline :
        /\ step[1] = from
        /\ \/ Move(o, step[2], "venue")
           \/ /\ \A t \in transitions : ~(t[1] = status[o] /\ t[2] = step[2])
              /\ UNCHANGED <<platformVars, topic>>
        /\ call' = [order |-> o, from |-> from, answer |-> Answer(o, step[2])]
  BY DEF Call, Tell
<1>2. /\ state[o] \in {from} \union Ended /\ status[o] \in Statuses
      /\ Position(from) \in 1..5
  BY <1>0, <1>1, RipeIsKnown, StepsOfTheLine DEF RipeIsCurrent
<1>3. CASE Move(o, step[2], "venue")
  <2>1. PICK to \in Statuses :
          /\ <<status[o], step[2], to>> \in transitions
          /\ status' = [status EXCEPT ![o] = to]
          /\ agreed' = [agreed EXCEPT ![o] = IF to \in Ended THEN agreed[o]
                                             ELSE Position(StateOf(to))]
          /\ UNCHANGED <<qty, onSale>>
    BY <1>3, MoveIs
  <2>2. to \notin Ended /\ StateOf(status[o]) = from /\ StateOf(to) = step[3]
    BY <1>1, <2>1, CallsOfTheLine
  <2>3. status[o] \notin Ended
    BY <2>1, KindsOfMoves
  <2>4. state[o] = from
    BY <1>2, <2>3 DEF KitchenKeepsStep
  <2>5. /\ PlatformTyped' /\ TopicTyped' /\ BooksAgree' /\ TopicIsTrue'
        /\ ReadingIsOfTheNext' /\ RipeIsCurrent' /\ KitchenKeepsStep'
    BY <1>0, <1>3, <2>2, <2>4, MoveStep
  <2>6. Answer(o, step[2]) = "ok"
    <3>1. <<status[o], step[2], to>>[1] = status[o] /\ <<status[o], step[2], to>>[2] = step[2]
      OBVIOUS
    <3>2. \E t \in transitions : t[1] = status[o] /\ t[2] = step[2]
      BY <2>1, <3>1
    <3> QED BY <3>2 DEF Answer
  <2>7. AnswerIsCurrent'
    <3>1. agreed'[o] = Position(from) + 1
      BY <1>1, <2>1, <2>2, StepsOfTheLine, TypeParts DEF PlatformTyped
    <3>2. call'.order = o /\ call'.from = from /\ call'.answer = "ok"
      BY <1>1, <2>6
    <3> QED BY <1>0, <3>1, <3>2, NamesDiffer DEF AnswerIsCurrent
  <2>8. TypeOK'
    <3>1. call' \in Calls
      BY <1>1, <2>6 DEF Calls
    <3>2. FlagsTyped' /\ BooksTyped' /\ CountsTyped'
      BY <1>0, <2>1, TypeParts, Zenon DEF FlagsTyped, BooksTyped, CountsTyped
    <3>3. WorkTyped'
      BY <1>0, <3>1, TypeParts DEF WorkTyped
    <3> QED BY <2>5, <3>2, <3>3, TypePartsNext
  <2> QED BY <2>5, <2>7, <2>8
<1>4. CASE /\ \A t \in transitions : ~(t[1] = status[o] /\ t[2] = step[2])
           /\ UNCHANGED <<platformVars, topic>>
  <2>1. UNCHANGED <<status, qty, sellable, onSale, agreed, topic>>
    BY <1>4 DEF platformVars
  <2>2. \/ Answer(o, step[2]) = "ok" /\ Repeats(status[o], step[2])
        \/ Answer(o, step[2]) = status[o]
    BY <1>4 DEF Answer
  <2>3. call'.order = o /\ call'.from = from /\ call'.answer = Answer(o, step[2])
    BY <1>1
  <2>4. AnswerIsCurrent'
    <3>1. status[o] \notin Ended => agreed[o] = Position(StateOf(status[o]))
      BY <1>2, NamesDiffer DEF BooksAgree
    <3>2. CASE Answer(o, step[2]) = "ok" /\ Repeats(status[o], step[2])
      <4>1. status[o] \notin Ended /\ StateOf(status[o]) = step[3]
        BY <3>2, RepeatsAreThere
      <4>2. agreed[o] = Position(from) + 1
        BY <1>1, <3>1, <4>1, StepsOfTheLine
      <4> QED BY <1>0, <2>1, <2>3, <3>2, <4>2, NamesDiffer DEF AnswerIsCurrent
    <3>3. CASE Answer(o, step[2]) = status[o]
      BY <1>0, <1>2, <2>1, <2>3, <3>1, <3>3, NamesDiffer DEF AnswerIsCurrent
    <3> QED BY <2>2, <3>2, <3>3
  <2>5. TypeOK'
    <3>1. call' \in Calls
      BY <1>1, <1>2, <2>2 DEF Calls
    <3>2. PlatformTyped' /\ TopicTyped' /\ FlagsTyped' /\ BooksTyped' /\ CountsTyped'
      BY <1>0, <2>1, TypeParts, Zenon
         DEF PlatformTyped, TopicTyped, FlagsTyped, BooksTyped, CountsTyped
    <3>3. WorkTyped'
      BY <1>0, <3>1, TypeParts DEF WorkTyped
    <3> QED BY <3>2, <3>3, TypePartsNext
  <2>6. BooksAgree' /\ KitchenKeepsStep'
    BY <1>0, <2>1 DEF BooksAgree, KitchenKeepsStep
  <2>7. TopicIsTrue' /\ ReadingIsOfTheNext' /\ RipeIsCurrent'
    BY <1>0, <2>1 DEF TopicIsTrue, ReadingIsOfTheNext, Coming, RipeIsCurrent, Moving
  <2> QED BY <2>4, <2>5, <2>6, <2>7
<1> QED BY <1>1, <1>3, <1>4

----------------------------------------------------------------------------
(* The steps of the consumer *)

LEMMA ReceiveStep == ASSUME VenueKitchenAssumption, IInv, Receive PROVE IInv'
<1> USE DEF IInv
<1> DEFINE o == Coming.order
<1>0. /\ UNCHANGED <<status, qty, sellable, onSale, agreed, topic>>
      /\ UNCHANGED <<reading, listed, phase, ripe, call, stop>>
      /\ UNCHANGED <<faults, restarts, raced, unwritten>>
      /\ offset < Len(topic) /\ Coming.type = "order.created" /\ offset' = offset + 1
      /\ state' = [state EXCEPT ![o] = "NEW"]
      /\ stock' = Taken(stock, qty[o])
      /\ overdrawn' = overdrawn + (IF stock >= qty[o] THEN 0 ELSE qty[o] - stock)
  BY DEF Receive, platformVars, pilotVars
<1>1. o \in OrderIds /\ offset + 1 \in 1..Len(topic) /\ offset' \in 0..Len(topic)
  BY <1>0, ComingIsAnEvent
<1>2. state[o] = "NONE" /\ status[o] # "NONE" /\ agreed[o] = 1
  <2>1. offset + 1 > offset
    BY Numbers
  <2>2. state[o] = "NONE" /\ status[o] # "NONE"
    BY <1>0, <1>1, <2>1 DEF TopicIsTrue, Coming
  <2> QED BY <1>1, <2>2 DEF BooksAgree
<1>3. \A p \in OrderIds : state'[p] = IF p = o THEN "NEW" ELSE state[p]
  BY <1>0, TypeParts DEF BooksTyped
<1>4. TypeOK'
  <2>1. stock' \in Nat /\ overdrawn' \in Nat
    BY <1>0, <1>1, Numbers DEF Taken
  <2>2. state' \in [OrderIds -> States \union {"NONE"}]
    BY <1>0, StatesAre, TypeParts DEF BooksTyped
  <2>3. PlatformTyped' /\ FlagsTyped' /\ WorkTyped'
    BY <1>0, TypeParts, Zenon DEF PlatformTyped, FlagsTyped, WorkTyped
  <2>4. BooksTyped' /\ CountsTyped' /\ TopicTyped'
    BY <1>0, <1>1, <2>1, <2>2, TypeParts DEF BooksTyped, CountsTyped, TopicTyped
  <2> QED BY <2>3, <2>4, TypePartsNext
<1>5. BooksAgree'
  BY <1>0, <1>2, <1>3 DEF BooksAgree
<1>6. TopicIsTrue'
  <2>1. \A k \in 1..Len(topic) :
          topic[k].type = "order.created" /\ k > offset + 1 => topic[k].order # o
    BY <1>0, <1>1 DEF TopicIsTrue, Coming
  <2>2. \A k \in 1..Len(topic) : k > offset + 1 => k > offset
    BY Numbers
  <2>3. \A k \in 1..Len(topic) :
          topic[k].type = "order.created" /\ k > offset' => state'[topic[k].order] = "NONE"
    BY <1>0, <1>3, <2>1, <2>2, EventsAreEvents DEF TopicIsTrue
  <2> QED BY <1>0, <2>3 DEF TopicIsTrue
<1>7. ReadingIsOfTheNext'
  BY <1>0 DEF ReadingIsOfTheNext
<1>8. \A x \in ripe : x[1] \in OrderIds \ {o}
  BY <1>2, RipeIsKnown
<1>9. RipeIsCurrent'
  BY <1>0, <1>3, <1>8 DEF RipeIsCurrent, Moving
<1>10. AnswerIsCurrent'
  BY <1>0 DEF AnswerIsCurrent
<1>11. KitchenKeepsStep'
  <2>1. "NEW" \notin Ended /\ 1 - 1 = 0
    BY DEF Ended
  <2> QED BY <1>0, <1>2, <1>3, <2>1, Positions DEF KitchenKeepsStep
<1> QED BY <1>4, <1>5, <1>6, <1>7, <1>9, <1>10, <1>11

LEMMA CancelReadsStep == ASSUME VenueKitchenAssumption, IInv, CancelReads PROVE IInv'
<1> USE DEF IInv
<1>0. /\ UNCHANGED <<status, qty, sellable, onSale, agreed, topic, state, stock>>
      /\ UNCHANGED <<listed, phase, ripe, call, stop>>
      /\ UNCHANGED <<faults, restarts, overdrawn, raced, unwritten>>
      /\ offset < Len(topic) /\ Coming.type = "order.cancelled" /\ reading = "NONE"
  BY DEF CancelReads, platformVars, kitchenVars, pilotVars, historyVars
<1>1. \/ /\ Moving(state[Coming.order]) /\ reading' = state[Coming.order]
         /\ offset' = offset
      \/ offset' = offset + 1 /\ reading' = "NONE"
  BY <1>0, Zenon DEF CancelReads
<1>2. offset' \in 0..Len(topic) /\ offset' >= offset
  BY <1>0, <1>1, ComingIsAnEvent, Numbers
<1>3. TypeOK'
  <2>1. reading' \in States \union {"NONE"}
    BY <1>1, MovingIsInTheKitchen
  <2>2. WorkTyped'
    BY <1>0, <2>1, TypeParts DEF WorkTyped
  <2>3. PlatformTyped' /\ FlagsTyped' /\ BooksTyped' /\ CountsTyped'
    BY <1>0, TypeParts, Zenon DEF PlatformTyped, FlagsTyped, BooksTyped, CountsTyped
  <2>4. TopicTyped'
    BY <1>0, <1>2, TypeParts DEF TopicTyped
  <2> QED BY <2>2, <2>3, <2>4, TypePartsNext
<1>4. TopicIsTrue'
  <2>1. \A k \in 1..Len(topic) : k > offset' => k > offset
    BY <1>2, Numbers
  <2> QED BY <1>0, <2>1 DEF TopicIsTrue
<1>5. ReadingIsOfTheNext'
  BY <1>0, <1>1 DEF ReadingIsOfTheNext, Coming
<1>6. BooksAgree' /\ RipeIsCurrent' /\ AnswerIsCurrent' /\ KitchenKeepsStep'
  BY <1>0 DEF BooksAgree, RipeIsCurrent, Moving, AnswerIsCurrent, KitchenKeepsStep
<1> QED BY <1>3, <1>4, <1>5, <1>6

LEMMA CancelSettlesStep == ASSUME VenueKitchenAssumption, IInv, CancelSettles PROVE IInv'
<1> USE DEF IInv
<1> DEFINE o == Coming.order
<1>0. /\ UNCHANGED <<status, qty, sellable, onSale, agreed, topic>>
      /\ UNCHANGED <<listed, phase, ripe, call, stop>>
      /\ UNCHANGED <<faults, restarts, overdrawn, unwritten>>
      /\ Settle(o, reading, "CANCELLED")
      /\ raced' = (raced \/ Moving(state'[o]))
      /\ reading # "NONE" /\ offset' = offset + 1 /\ reading' = "NONE"
  BY DEF CancelSettles, platformVars, pilotVars
<1>1. offset < Len(topic) /\ Coming.type = "order.cancelled"
  BY <1>0 DEF ReadingIsOfTheNext
<1>2. o \in OrderIds /\ offset + 1 \in 1..Len(topic) /\ offset' \in 0..Len(topic)
  BY <1>0, <1>1, ComingIsAnEvent
<1>3. status[o] \in Ended
  BY <1>1, <1>2 DEF TopicIsTrue, Coming
<1>4. \A p \in OrderIds :
        \/ state'[p] = state[p]
        \/ p = o /\ state[p] # "NONE" /\ state'[p] = "CANCELLED"
  <2>1. CASE state[o] = reading
    BY <1>0, <1>2, <2>1, TypeParts DEF Settle, BooksTyped
  <2>2. CASE state[o] # reading
    BY <1>0, <2>2 DEF Settle, kitchenVars
  <2> QED BY <2>1, <2>2
<1>5. "CANCELLED" \in Ended /\ "CANCELLED" # "NONE"
  BY DEF Ended
<1>6. TypeOK'
  <2>1. BooksTyped'
    BY <1>0, <1>2, StatesAre, SettleIsTyped
  <2>2. PlatformTyped' /\ CountsTyped'
    BY <1>0, TypeParts, Zenon DEF PlatformTyped, CountsTyped
  <2>3. WorkTyped'
    BY <1>0, TypeParts DEF WorkTyped
  <2>4. FlagsTyped'
    <3>1. raced' \in BOOLEAN
      BY <1>0, Zenon
    <3> QED BY <1>0, <3>1, TypeParts, Zenon DEF FlagsTyped
  <2>5. TopicTyped'
    BY <1>0, <1>2, TypeParts DEF TopicTyped
  <2> QED BY <2>1, <2>2, <2>3, <2>4, <2>5, TypePartsNext
<1>7. BooksAgree'
  BY <1>0, <1>4, <1>5 DEF BooksAgree
<1>8. TopicIsTrue'
  <2>1. \A k \in 1..Len(topic) : k > offset' => k > offset
    BY <1>0, Numbers
  <2>2. \A k \in 1..Len(topic) :
          topic[k].type = "order.created" /\ k > offset' => state'[topic[k].order] = "NONE"
    BY <1>4, <2>1, EventsAreEvents DEF TopicIsTrue
  <2> QED BY <1>0, <2>2 DEF TopicIsTrue
<1>9. ReadingIsOfTheNext'
  BY <1>0 DEF ReadingIsOfTheNext
<1>10. RipeIsCurrent'
  <2>1. \A x \in ripe : x[1] \in OrderIds
    BY RipeIsKnown
  <2>2. \A x \in ripe : state'[x[1]] \in {x[2]} \union Ended
    BY <1>4, <1>5, <2>1 DEF RipeIsCurrent
  <2> QED BY <1>0, <2>2 DEF RipeIsCurrent, Moving
<1>11. AnswerIsCurrent'
  BY <1>0 DEF AnswerIsCurrent
<1>12. KitchenKeepsStep'
  BY <1>0, <1>3, <1>4, <1>5 DEF KitchenKeepsStep
<1> QED BY <1>6, <1>7, <1>8, <1>9, <1>10, <1>11, <1>12

----------------------------------------------------------------------------
(* The steps of the autopilot *)

\* What an answer does to the order it is about: nothing, a step along the line
\* that the platform has agreed to, or an end the platform has come to.
LEMMA HearingKeepsStep ==
  ASSUME VenueKitchenAssumption, IInv, call # NoCall,
         Hear(call.order, call.from, call.answer)
  PROVE  LET o == call.order IN
         \/ UNCHANGED kitchenVars
         \/ \E to \in States :
              /\ Settle(o, call.from, to)
              /\ to \in Ended => status[o] \in Ended
              /\ to \notin Ended => agreed[o] = Position(to) /\ Position(to) \in 1..5
<1> USE DEF IInv
<1> DEFINE o == call.order
<1>1. call.from \in States /\ call.answer \in Statuses \union {"ok"}
  BY CallsAreCalls, TypeParts DEF WorkTyped
<1>2. CASE call.answer = "ok"
  <2>1. PICK step \in pipeline : step[1] = call.from /\ Settle(o, call.from, step[3])
    BY <1>2 DEF Hear
  <2>2. agreed[o] = Position(step[3])
    BY <1>2, <2>1, StepsOfTheLine DEF AnswerIsCurrent
  <2> QED BY <2>1, <2>2, StepsOfTheLine
<1>3. CASE call.answer # "ok" /\ StateOf(call.answer) = call.from
  BY <1>3 DEF Hear
<1>4. CASE call.answer # "ok" /\ StateOf(call.answer) # call.from
  <2>1. Settle(o, call.from, StateOf(call.answer)) /\ call.answer \in Statuses
    BY <1>1, <1>4 DEF Hear
  <2>2. StateOf(call.answer) \in Ended => status[o] \in Ended
    BY <2>1, StateOfStatus DEF AnswerIsCurrent
  <2>3. StateOf(call.answer) \notin Ended =>
          /\ agreed[o] = Position(StateOf(call.answer))
          /\ Position(StateOf(call.answer)) \in 1..5
    BY <1>4, <2>1, StateOfStatus DEF AnswerIsCurrent
  <2> QED BY <2>1, <2>2, <2>3, StateOfStatus
<1> QED BY <1>2, <1>3, <1>4

LEMMA AdvanceStep == ASSUME VenueKitchenAssumption, IInv, Advance PROVE IInv'
<1> USE DEF IInv
<1> DEFINE o == call.order
<1>0. /\ UNCHANGED <<status, qty, sellable, onSale, agreed, topic>>
      /\ UNCHANGED <<offset, reading, listed, phase, stop>>
      /\ UNCHANGED <<faults, restarts, overdrawn, raced, unwritten>>
      /\ call # NoCall /\ Hear(o, call.from, call.answer)
      /\ ripe' = ripe \ {<<o, call.from>>} /\ call' = NoCall
  BY DEF Advance, platformVars, consumerVars, historyVars
<1>1. /\ <<o, call.from>> \in ripe /\ o \in OrderIds
      /\ state[o] # "NONE" /\ status[o] # "NONE"
  BY <1>0, RipeIsKnown, NamesDiffer DEF AnswerIsCurrent
<1>2. \A p \in OrderIds :
        \/ state'[p] = state[p]
        \/ /\ p = o /\ state'[o] \in States
           /\ state'[o] \in Ended => status[o] \in Ended
           /\ state'[o] \notin Ended =>
                agreed[o] = Position(state'[o]) /\ Position(state'[o]) \in 1..5
  <2>1. CASE UNCHANGED kitchenVars
    BY <2>1 DEF kitchenVars
  <2>2. CASE \E to \in States :
               /\ Settle(o, call.from, to)
               /\ to \in Ended => status[o] \in Ended
               /\ to \notin Ended => agreed[o] = Position(to) /\ Position(to) \in 1..5
    <3>1. PICK to \in States :
            /\ Settle(o, call.from, to)
            /\ to \in Ended => status[o] \in Ended
            /\ to \notin Ended => agreed[o] = Position(to) /\ Position(to) \in 1..5
      BY <2>2
    <3>2. CASE state[o] = call.from
      <4>1. state' = [state EXCEPT ![o] = to]
        BY <3>1, <3>2 DEF Settle
      <4> QED BY <1>1, <3>1, <4>1, TypeParts DEF BooksTyped
    <3>3. CASE state[o] # call.from
      BY <3>1, <3>3 DEF Settle, kitchenVars
    <3> QED BY <3>2, <3>3
  <2> QED BY <1>0, <2>1, <2>2, HearingKeepsStep
<1>3. TypeOK'
  <2>1. BooksTyped'
    <3>1. CASE UNCHANGED kitchenVars
      BY <3>1, TypeParts DEF kitchenVars, BooksTyped
    <3>2. CASE \E to \in States : Settle(o, call.from, to)
      BY <1>1, <3>2, SettleIsTyped
    <3> QED BY <1>0, <3>1, <3>2, HearIs
  <2>2. WorkTyped'
    BY <1>0, TypeParts DEF WorkTyped, Calls
  <2>3. PlatformTyped' /\ FlagsTyped' /\ TopicTyped' /\ CountsTyped'
    BY <1>0, TypeParts, Zenon DEF PlatformTyped, FlagsTyped, TopicTyped, CountsTyped
  <2> QED BY <2>1, <2>2, <2>3, TypePartsNext
<1>4. BooksAgree'
  BY <1>0, <1>1, <1>2, NamesDiffer DEF BooksAgree
<1>5. TopicIsTrue'
  <2>1. \A k \in 1..Len(topic) :
          topic[k].type = "order.created" /\ k > offset => state'[topic[k].order] = "NONE"
    BY <1>1, <1>2, EventsAreEvents DEF TopicIsTrue
  <2> QED BY <1>0, <2>1 DEF TopicIsTrue
<1>6. ReadingIsOfTheNext'
  BY <1>0 DEF ReadingIsOfTheNext, Coming
<1>7. RipeIsCurrent'
  <2>1. \A x \in ripe' : x \in ripe /\ x[1] \in OrderIds \ {o}
    BY <1>0, <1>1, RipeIsKnown DEF RipeIsCurrent
  <2>2. \A x \in ripe' : Moving(x[2]) /\ state'[x[1]] \in {x[2]} \union Ended
    BY <1>2, <2>1 DEF RipeIsCurrent
  <2>3. phase' # "orders" => ripe' = {}
    BY <1>0 DEF RipeIsCurrent
  <2> QED BY <2>1, <2>2, <2>3 DEF RipeIsCurrent, Moving
<1>8. AnswerIsCurrent'
  BY <1>0 DEF AnswerIsCurrent
<1>9. KitchenKeepsStep'
  <2>1. \A p \in OrderIds : state'[p] \in Ended => status[p] \in Ended
    BY <1>2 DEF KitchenKeepsStep
  <2>2. \A p \in OrderIds : state'[p] \in States \ Ended =>
                             agreed[p] - Position(state'[p]) \in {0, 1}
    <3> SUFFICES ASSUME NEW p \in OrderIds, state'[p] \in States \ Ended
                 PROVE  agreed[p] - Position(state'[p]) \in {0, 1}
      OBVIOUS
    <3>1. CASE state'[p] = state[p]
      BY <3>1 DEF KitchenKeepsStep
    <3>2. CASE agreed[p] = Position(state'[p]) /\ Position(state'[p]) \in 1..5
      BY <3>2
    <3> QED BY <1>2, <3>1, <3>2
  <2> QED BY <1>0, <2>1, <2>2 DEF KitchenKeepsStep
<1> QED BY <1>3, <1>4, <1>5, <1>6, <1>7, <1>8, <1>9

LEMMA ReadRipeStep == ASSUME VenueKitchenAssumption, IInv, ReadRipe PROVE IInv'
<1> USE DEF IInv
<1>0. /\ UNCHANGED <<status, qty, sellable, onSale, agreed, topic>>
      /\ UNCHANGED <<offset, reading, state, stock, listed, call, stop>>
      /\ UNCHANGED <<faults, restarts, overdrawn, raced, unwritten>>
      /\ phase = "idle" /\ phase' = "orders"
      /\ ripe' = {<<o, state[o]>> : o \in {p \in OrderIds : Moving(state[p])}}
  BY DEF ReadRipe, platformVars, consumerVars, kitchenVars, historyVars
<1>1. call = NoCall
  BY <1>0 DEF RipeIsCurrent, AnswerIsCurrent
<1>2. \A x \in ripe' :
        x[1] \in OrderIds /\ Moving(x[2]) /\ x = <<x[1], x[2]>> /\ x[2] = state[x[1]]
  BY <1>0
<1>3. TypeOK'
  <2>1. \A x \in ripe' : x \in OrderIds \X States
    BY <1>2, MovingIsInTheKitchen
  <2>2. WorkTyped'
    BY <1>0, <2>1, TypeParts DEF WorkTyped
  <2>3. PlatformTyped' /\ FlagsTyped' /\ TopicTyped' /\ BooksTyped' /\ CountsTyped'
    BY <1>0, TypeParts, Zenon DEF PlatformTyped, FlagsTyped, TopicTyped, BooksTyped, CountsTyped
  <2> QED BY <2>2, <2>3, TypePartsNext
<1>4. RipeIsCurrent'
  BY <1>0, <1>2 DEF RipeIsCurrent, Moving
<1>5. AnswerIsCurrent'
  BY <1>0, <1>1 DEF AnswerIsCurrent
<1>6. BooksAgree' /\ TopicIsTrue' /\ ReadingIsOfTheNext' /\ KitchenKeepsStep'
  BY <1>0 DEF BooksAgree, TopicIsTrue, ReadingIsOfTheNext, Coming, KitchenKeepsStep
<1> QED BY <1>3, <1>4, <1>5, <1>6

\* A step that touches neither book, and leaves its work where it is or drops it.
LEMMA QuietStep ==
  ASSUME VenueKitchenAssumption, IInv, FlagsTyped', CountsTyped', sellable' \in Nat,
         phase' \in {"idle", "orders", "stop list", "told"},
         UNCHANGED <<status, qty, agreed, topic, offset, state, stock>>,
         reading' \in {reading, "NONE"},
         \/ UNCHANGED <<ripe, call>> /\ ripe = {}
         \/ UNCHANGED <<ripe, call, phase>>
         \/ ripe' = {} /\ call' = NoCall
  PROVE  IInv'
<1> USE DEF IInv
<1>1. TypeOK'
  <2>1. WorkTyped'
    BY TypeParts DEF WorkTyped, Calls
  <2>2. PlatformTyped' /\ TopicTyped' /\ BooksTyped'
    BY TypeParts DEF PlatformTyped, TopicTyped, BooksTyped
  <2> QED BY <2>1, <2>2, TypePartsNext
<1>2. BooksAgree' /\ TopicIsTrue' /\ ReadingIsOfTheNext' /\ KitchenKeepsStep'
  BY DEF BooksAgree, TopicIsTrue, ReadingIsOfTheNext, Coming, KitchenKeepsStep
<1>3. RipeIsCurrent'
  BY DEF RipeIsCurrent, Moving
<1>4. AnswerIsCurrent'
  <2>1. CASE UNCHANGED <<ripe, call>>
    BY <2>1 DEF AnswerIsCurrent
  <2>2. CASE call' = NoCall
    BY <2>2 DEF AnswerIsCurrent
  <2> QED BY <2>1, <2>2
<1> QED BY <1>1, <1>2, <1>3, <1>4

LEMMA FaultCounts ==
  ASSUME VenueKitchenAssumption, TypeOK, Fault
  PROVE  CountsTyped' /\ UNCHANGED raced
BY TypeParts DEF Fault, CountsTyped, VenueKitchenAssumption

LEMMA OtherSteps ==
  ASSUME VenueKitchenAssumption, IInv,
         \/ CancelFails \/ ReadDishes \/ SetItemAvailability \/ SetAvailable
         \/ RunFails \/ Restart \/ UNCHANGED vars
  PROVE  IInv'
<1> USE DEF IInv
<1>0. /\ FlagsTyped /\ CountsTyped /\ sellable \in Nat /\ stock \in Nat
      /\ phase \in {"idle", "orders", "stop list", "told"}
  BY TypeParts DEF PlatformTyped, BooksTyped, WorkTyped
<1>1. CASE CancelFails
  <2>1. FlagsTyped' /\ CountsTyped'
    <3>1. CountsTyped' /\ UNCHANGED <<onSale, listed, stop, raced, unwritten>>
      BY <1>1, FaultCounts DEF CancelFails, platformVars, pilotVars
    <3> QED BY <1>0, <3>1, Zenon DEF FlagsTyped
  <2> QED BY <1>0, <1>1, <2>1, QuietStep DEF CancelFails, platformVars, kitchenVars, pilotVars
<1>2. CASE ReadDishes
  <2>1. CountsTyped' /\ phase' \in {"idle", "orders", "stop list", "told"}
    BY <1>0, <1>2 DEF ReadDishes, CountsTyped, historyVars
  <2>2. FlagsTyped'
    <3>1. stop' \in BOOLEAN
      <4>1. stop' = (stock > 0)
        BY <1>2 DEF ReadDishes
      <4>2. CASE stock > 0
        BY <4>1, <4>2, SMT
      <4>3. CASE ~(stock > 0)
        BY <4>1, <4>3, SMT
      <4> QED BY <4>2, <4>3
    <3>2. UNCHANGED <<onSale, listed, raced, unwritten>>
      BY <1>2 DEF ReadDishes, platformVars, historyVars
    <3> QED BY <1>0, <3>1, <3>2, Zenon DEF FlagsTyped
  <2> QED BY <1>0, <1>2, <2>1, <2>2, QuietStep
          DEF ReadDishes, platformVars, consumerVars, kitchenVars
<1>3. CASE SetItemAvailability
  <2>1. ripe = {} /\ phase' = "told" /\ CountsTyped'
    BY <1>0, <1>3 DEF SetItemAvailability, RipeIsCurrent, CountsTyped, historyVars
  <2>2. FlagsTyped'
    <3>1. onSale' = stop /\ UNCHANGED <<listed, stop, raced, unwritten>>
      BY <1>3 DEF SetItemAvailability, historyVars
    <3> QED BY <1>0, <3>1, Zenon DEF FlagsTyped
  <2> QED BY <1>0, <1>3, <2>1, <2>2, QuietStep
          DEF SetItemAvailability, consumerVars, kitchenVars
<1>4. CASE SetAvailable
  <2>1. ripe = {} /\ phase' = "idle" /\ CountsTyped'
    BY <1>0, <1>4 DEF SetAvailable, RipeIsCurrent, CountsTyped
  <2>2. FlagsTyped'
    <3>1. listed' = stop /\ unwritten' = FALSE /\ UNCHANGED <<onSale, stop, raced>>
      BY <1>4 DEF SetAvailable, platformVars
    <3> QED BY <1>0, <3>1, Zenon DEF FlagsTyped
  <2> QED BY <1>0, <1>4, <2>1, <2>2, QuietStep
          DEF SetAvailable, platformVars, consumerVars, kitchenVars
<1>5. CASE RunFails
  <2>1. phase' = "idle" /\ ripe' = {} /\ call' = NoCall /\ CountsTyped'
    BY <1>5, FaultCounts DEF RunFails, Rest
  <2>2. FlagsTyped'
    <3>1. unwritten' \in BOOLEAN
      BY <1>5, Zenon DEF RunFails
    <3>2. UNCHANGED <<onSale, listed, stop, raced>>
      BY <1>5, FaultCounts DEF RunFails, Rest, platformVars
    <3> QED BY <1>0, <3>1, <3>2, Zenon DEF FlagsTyped
  <2> QED BY <1>0, <1>5, <2>1, <2>2, QuietStep
          DEF RunFails, platformVars, consumerVars, kitchenVars
<1>6. CASE Restart
  <2>1. /\ phase' = "idle" /\ ripe' = {} /\ call' = NoCall
        /\ restarts < MaxRestarts /\ restarts' = restarts + 1
        /\ UNCHANGED <<faults, overdrawn>>
    BY <1>6 DEF Restart, Rest
  <2>2. CountsTyped'
    <3>1. restarts \in Nat /\ MaxRestarts \in Nat
      <4>1. MaxRestarts \in Nat /\ restarts \in 0..MaxRestarts
        BY <1>0 DEF CountsTyped, VenueKitchenAssumption
      <4> QED BY <4>1
    <3>2. restarts' \in 0..MaxRestarts
      BY <2>1, <3>1
    <3> QED BY <1>0, <2>1, <3>2 DEF CountsTyped
  <2>3. FlagsTyped'
    <3>1. onSale' = listed /\ unwritten' = FALSE /\ UNCHANGED <<listed, stop, raced>>
      BY <1>6 DEF Restart, Rest
    <3> QED BY <1>0, <3>1, Zenon DEF FlagsTyped
  <2> QED BY <1>0, <1>6, <2>1, <2>2, <2>3, QuietStep DEF Restart, kitchenVars
<1>7. CASE UNCHANGED vars
  <2>1. FlagsTyped' /\ CountsTyped'
    BY <1>0, <1>7 DEF FlagsTyped, CountsTyped, vars, platformVars, pilotVars, historyVars
  <2> QED BY <1>0, <1>7, <2>1, QuietStep
          DEF vars, platformVars, consumerVars, kitchenVars, pilotVars
<1> QED BY <1>1, <1>2, <1>3, <1>4, <1>5, <1>6, <1>7

----------------------------------------------------------------------------
(* The theorems *)

LEMMA NextStep == ASSUME VenueKitchenAssumption, IInv, [Next]_vars PROVE IInv'
<1>1. ASSUME NEW o \in OrderIds, Place(o) PROVE IInv'
  BY <1>1, PlaceStep
<1>2. ASSUME NEW o \in OrderIds, OthersMove(o) PROVE IInv'
  BY <1>2, OthersMoveStep
<1>3. ASSUME NEW o \in OrderIds, NEW from \in States, Call(o, from) PROVE IInv'
  BY <1>3, CallStep
<1>4. CASE Receive
  BY <1>4, ReceiveStep
<1>5. CASE CancelReads
  BY <1>5, CancelReadsStep
<1>6. CASE CancelSettles
  BY <1>6, CancelSettlesStep
<1>7. CASE Advance
  BY <1>7, AdvanceStep
<1>8. CASE ReadRipe
  BY <1>8, ReadRipeStep
<1>9. CASE \/ CancelFails \/ ReadDishes \/ SetItemAvailability \/ SetAvailable
           \/ RunFails \/ Restart \/ UNCHANGED vars
  BY <1>9, OtherSteps
<1> QED BY <1>1, <1>2, <1>3, <1>4, <1>5, <1>6, <1>7, <1>8, <1>9 DEF Next

LEMMA AlwaysIInv == Spec => []IInv
<1>1. Init => IInv
  BY VenueKitchenAssumption, KitchenInit
<1>2. IInv /\ [Next]_vars => IInv'
  BY VenueKitchenAssumption, NextStep
<1> QED BY <1>1, <1>2, PTL DEF Spec

\* The two books of the venue and the platform hold what they are meant to, for
\* any number of orders.
THEOREM TypeCorrect == Spec => []TypeOK
<1>1. IInv => TypeOK
  BY DEF IInv
<1> QED BY <1>1, AlwaysIInv, PTL

\* The kitchen works on an order as far as the platform has agreed or one step
\* less, and throws none away that the platform keeps, whatever answers are lost
\* and whatever ends the order between a call and its answer.
THEOREM KeepsStep == Spec => []KitchenKeepsStep
<1>1. IInv => KitchenKeepsStep
  BY DEF IInv
<1> QED BY <1>1, AlwaysIInv, PTL

----------------------------------------------------------------------------
(* The portions.  The menu of the platform covers what it has promised at  *)
(* every point of the topic, and the books of the venue follow the topic:  *)
(* an order comes in when what the venue still holds, and that order, had  *)
(* been promised together.                                                 *)

\* What the first k events of the topic say of an order.
Announced(k, o) == \E j \in 1..k : topic[j].type = "order.created" /\ topic[j].order = o
CalledOff(k, o) == \E j \in 1..k : topic[j].type = "order.cancelled" /\ topic[j].order = o

\* The portions promised to the customers after the first k events.
Live(k) ==
  [o \in OrderIds |-> IF Announced(k, o) /\ ~CalledOff(k, o) THEN qty[o] ELSE 0]
Promised(k) == SumFunctionOnSet(Live(k), OrderIds)

\* Only an order in the kitchen is about to be cancelled.
ReadingIsCooking == reading # "NONE" => Moving(reading)

\* The topic tells of every order and of every end, and an order has not come far
\* when it ends.
NewsIsComplete ==
  \A o \in OrderIds :
    /\ status[o] # "NONE" => Announced(Len(topic), o)
    /\ status[o] \in Ended => CalledOff(Len(topic), o) /\ agreed[o] <= 2

\* An order is announced before it is called off.
NewsIsInOrder ==
  \A k \in 1..Len(topic) :
    topic[k].type = "order.cancelled" => Announced(k, topic[k].order)

\* Without a restart, the platform sells what it has not promised.
MenuCovers ==
  restarts = 0 =>
    \A k \in 0..Len(topic) :
      /\ Promised(k) <= Portions
      /\ k = Len(topic) => sellable + Promised(k) = Portions

\* An order in the books has been announced, and has not been called off unless
\* its cancellation has lost a race.
BooksFollow ==
  \A o \in OrderIds :
    state[o] \notin Ended \union {"NONE"} =>
      Announced(offset, o) /\ (raced \/ ~CalledOff(offset, o))

SalesInv ==
  /\ DishesBalance
  /\ ReadingIsCooking
  /\ NewsIsComplete
  /\ NewsIsInOrder
  /\ MenuCovers
  /\ BooksFollow

LEMMA OrdersAreFinite == ASSUME VenueKitchenAssumption PROVE IsFiniteSet(OrderIds)
BY FS_Interval DEF OrderIds, VenueKitchenAssumption

LEMMA PortionsAreNatural ==
  ASSUME VenueKitchenAssumption, TypeOK
  PROVE  /\ \A o \in OrderIds : InTheBooks[o] \in Nat
         /\ Held \in Nat
         /\ \A k : (\A o \in OrderIds : Live(k)[o] \in Nat) /\ Promised(k) \in Nat
<1>1. \A o \in OrderIds : InTheBooks[o] \in Nat
  BY Numbers DEF InTheBooks
<1>2. Held \in Nat
  BY <1>1, OrdersAreFinite, SumIsNatural DEF Held
<1>3. ASSUME NEW k PROVE \A o \in OrderIds : Live(k)[o] \in Nat
  BY Numbers DEF Live
<1>4. ASSUME NEW k PROVE Promised(k) \in Nat
  BY <1>3, OrdersAreFinite, SumIsNatural DEF Promised
<1> QED BY <1>1, <1>2, <1>3, <1>4

LEMMA PortionsAreNaturalNext ==
  ASSUME VenueKitchenAssumption, TypeOK'
  PROVE  /\ \A o \in OrderIds : InTheBooks'[o] \in Nat
         /\ Held' \in Nat
         /\ \A k : (\A o \in OrderIds : Live(k)'[o] \in Nat) /\ Promised(k)' \in Nat
<1>1. \A o \in OrderIds : qty'[o] \in Nat
  <2>1. qty' \in [OrderIds -> 0..MaxQty] /\ MaxQty \in Nat
    BY TypePartsNext DEF PlatformTyped, VenueKitchenAssumption
  <2> QED BY <2>1
<1>2. \A o \in OrderIds : InTheBooks'[o] \in Nat
  BY <1>1 DEF InTheBooks
<1>3. Held' \in Nat
  BY <1>2, OrdersAreFinite, SumIsNatural DEF Held
<1>4. ASSUME NEW k PROVE \A o \in OrderIds : Live(k)'[o] \in Nat
  BY <1>1 DEF Live
<1>5. ASSUME NEW k PROVE Promised(k)' \in Nat
  BY <1>4, OrdersAreFinite, SumIsNatural DEF Promised
<1> QED BY <1>2, <1>3, <1>4, <1>5

\* One order changes: what the venue holds changes by as much.
LEMMA HeldChanges ==
  ASSUME VenueKitchenAssumption, TypeOK, TypeOK', NEW o \in OrderIds,
         \A p \in OrderIds \ {o} : InTheBooks'[p] = InTheBooks[p]
  PROVE  Held' + InTheBooks[o] = Held + InTheBooks'[o]
BY OrdersAreFinite, PortionsAreNatural, PortionsAreNaturalNext, SumChanges DEF Held

LEMMA PromisedChanges ==
  ASSUME VenueKitchenAssumption, TypeOK, TypeOK', NEW o \in OrderIds, NEW j, NEW k,
         \A p \in OrderIds \ {o} : Live(k)'[p] = Live(j)[p]
  PROVE  Promised(k)' + Live(j)[o] = Promised(j) + Live(k)'[o]
BY OrdersAreFinite, PortionsAreNatural, PortionsAreNaturalNext, SumChanges DEF Promised

\* What is said of the orders up to an event stays said.
LEMMA NewsGrows ==
  ASSUME VenueKitchenAssumption, TypeOK, NEW e \in Event, topic' = Append(topic, e)
  PROVE  /\ Len(topic') = Len(topic) + 1 /\ Len(topic) \in Nat
         /\ \A k \in 1..Len(topic) : topic'[k] = topic[k]
         /\ topic'[Len(topic) + 1] = e
         /\ \A k \in 0..Len(topic), o \in OrderIds :
              /\ Announced(k, o)' <=> Announced(k, o)
              /\ CalledOff(k, o)' <=> CalledOff(k, o)
         /\ \A o \in OrderIds :
              /\ Announced(Len(topic), o)'
                   <=> Announced(Len(topic), o) \/ (e.type = "order.created" /\ e.order = o)
              /\ CalledOff(Len(topic), o)'
                   <=> CalledOff(Len(topic), o) \/ (e.type = "order.cancelled" /\ e.order = o)
         /\ \A k \in Nat, o \in OrderIds : k = Len(topic) + 1 =>
              /\ Announced(k, o)' <=> Announced(Len(topic), o)'
              /\ CalledOff(k, o)' <=> CalledOff(Len(topic), o)'
<1>1. /\ Len(topic') = Len(topic) + 1 /\ Len(topic) \in Nat
      /\ \A k \in 1..Len(topic) : topic'[k] = topic[k]
      /\ topic'[Len(topic) + 1] = e
  BY TopicGrows, TypeParts DEF TopicTyped
<1>2. ASSUME NEW k \in 0..Len(topic), NEW o \in OrderIds
      PROVE  (Announced(k, o)' <=> Announced(k, o)) /\ (CalledOff(k, o)' <=> CalledOff(k, o))
  <2>1. \A j \in 1..k : topic'[j] = topic[j]
    BY <1>1
  <2> QED BY <2>1 DEF Announced, CalledOff
<1>3. ASSUME NEW o \in OrderIds
      PROVE  /\ Announced(Len(topic), o)'
                  <=> Announced(Len(topic), o) \/ (e.type = "order.created" /\ e.order = o)
             /\ CalledOff(Len(topic), o)'
                  <=> CalledOff(Len(topic), o) \/ (e.type = "order.cancelled" /\ e.order = o)
  <2>1. 1..Len(topic') = 1..Len(topic) \union {Len(topic) + 1}
    BY <1>1
  <2> QED BY <1>1, <2>1 DEF Announced, CalledOff
<1>4. ASSUME NEW k \in Nat, NEW o \in OrderIds, k = Len(topic) + 1
      PROVE  /\ Announced(k, o)' <=> Announced(Len(topic), o)'
             /\ CalledOff(k, o)' <=> CalledOff(Len(topic), o)'
  <2>1. k = Len(topic')
    BY <1>1, <1>4
  <2> QED BY <2>1 DEF Announced, CalledOff
<1> QED BY <1>1, <1>2, <1>3, <1>4

LEMMA InOrderGrows ==
  ASSUME VenueKitchenAssumption, TypeOK, NEW e \in Event, topic' = Append(topic, e),
         NewsIsInOrder, e.type = "order.cancelled" => Announced(Len(topic), e.order)
  PROVE  NewsIsInOrder'
<1>1. /\ Len(topic') = Len(topic) + 1 /\ Len(topic) \in Nat
      /\ \A k \in 1..Len(topic) : topic'[k] = topic[k]
      /\ topic'[Len(topic) + 1] = e
  BY NewsGrows
<1>2. ASSUME NEW k \in 1..Len(topic'), topic'[k].type = "order.cancelled"
      PROVE  \E j \in 1..k :
               topic'[j].type = "order.created" /\ topic'[j].order = topic'[k].order
  <2>1. CASE k \in 1..Len(topic)
    <3>1. topic'[k] = topic[k]
      BY <1>1, <2>1
    <3>2. PICK j \in 1..k : topic[j].type = "order.created" /\ topic[j].order = topic[k].order
      BY <1>2, <2>1, <3>1 DEF NewsIsInOrder, Announced
    <3>3. j \in 1..Len(topic)
      BY <1>1, <2>1
    <3>4. topic'[j] = topic[j]
      BY <1>1, <3>3
    <3> QED BY <3>1, <3>2, <3>4
  <2>2. CASE k = Len(topic) + 1
    <3>1. PICK j \in 1..Len(topic) : topic[j].type = "order.created" /\ topic[j].order = e.order
      BY <1>1, <1>2, <2>2 DEF Announced
    <3>2. topic'[j] = topic[j] /\ j \in 1..k
      BY <1>1, <2>2
    <3> QED BY <1>1, <2>2, <3>1, <3>2
  <2> QED BY <1>1, <2>1, <2>2
<1> QED BY <1>2 DEF NewsIsInOrder, Announced

LEMMA FollowGrows ==
  ASSUME VenueKitchenAssumption, TypeOK, NEW e \in Event, topic' = Append(topic, e),
         UNCHANGED <<offset, state, raced>>, BooksFollow
  PROVE  BooksFollow'
<1>1. offset \in 0..Len(topic)
  BY TypeParts DEF TopicTyped
<1>2. \A j \in 1..offset : topic'[j] = topic[j]
  <2>1. \A k \in 1..Len(topic) : topic'[k] = topic[k]
    BY NewsGrows
  <2>2. \A j \in 1..offset : j \in 1..Len(topic)
    BY Numbers
  <2> QED BY <2>1, <2>2
<1>3. ASSUME NEW p \in OrderIds, state'[p] \notin Ended \union {"NONE"}
      PROVE  Announced(offset, p)' /\ (raced' \/ ~CalledOff(offset, p)')
  <2>1. Announced(offset, p) /\ (raced \/ ~CalledOff(offset, p))
    BY <1>3 DEF BooksFollow
  <2> QED BY <1>2, <2>1 DEF Announced, CalledOff
<1> QED BY <1>3 DEF BooksFollow

\* What the topic says grows with it, event by event.
LEMMA NewsOfTheNext ==
  ASSUME VenueKitchenAssumption, TypeOK, offset < Len(topic), NEW o \in OrderIds
  PROVE  /\ Announced(offset + 1, o)
              <=> Announced(offset, o) \/ (Coming.type = "order.created" /\ Coming.order = o)
         /\ CalledOff(offset + 1, o)
              <=> CalledOff(offset, o) \/ (Coming.type = "order.cancelled" /\ Coming.order = o)
<1>1. 1..(offset + 1) = 1..offset \union {offset + 1}
  BY Numbers
<1> QED BY <1>1 DEF Announced, CalledOff, Coming

LEMMA SalesInit == ASSUME VenueKitchenAssumption, Init PROVE SalesInv
<1> USE DEF Init
<1>1. \A o \in OrderIds : InTheBooks[o] = 0
  BY DEF InTheBooks
<1>2. Held = 0
  BY <1>1, OrdersAreFinite, SumOfZeros DEF Held
<1>3. Len(topic) = 0 /\ topic = <<>>
  BY EmptySeq
<1>4. ASSUME NEW k \in 0..Len(topic) PROVE Promised(k) = 0
  <2>1. \A o \in OrderIds : Live(k)[o] = 0
    BY DEF Live
  <2> QED BY <2>1, OrdersAreFinite, SumOfZeros DEF Promised
<1>5. DishesBalance /\ MenuCovers
  BY <1>2, <1>3, <1>4 DEF DishesBalance, MenuCovers, VenueKitchenAssumption
<1>6. ReadingIsCooking /\ NewsIsComplete /\ NewsIsInOrder /\ BooksFollow
  BY <1>3 DEF ReadingIsCooking, NewsIsComplete, NewsIsInOrder, BooksFollow, Ended
<1> QED BY <1>5, <1>6 DEF SalesInv

\* A new order: what it takes from the menu is what it is promised.
LEMMA PlaceSells ==
  ASSUME VenueKitchenAssumption, IInv, SalesInv, IInv', NEW o \in OrderIds, Place(o)
  PROVE  SalesInv'
<1> USE DEF IInv, SalesInv
<1>0. /\ UNCHANGED <<onSale, offset, reading, state, stock>>
      /\ UNCHANGED <<restarts, overdrawn, raced>>
      /\ status[o] = "NONE" /\ state[o] = "NONE"
  BY DEF Place, consumerVars, kitchenVars, pilotVars, historyVars, BooksAgree
<1> DEFINE e == [type |-> "order.created", order |-> o]
<1>1. e \in Event /\ topic' = Append(topic, e) /\ e.type = "order.created" /\ e.order = o
  BY DEF Event, Place
<1>2. PICK n \in 1..MaxQty :
        n <= sellable /\ sellable' = sellable - n /\ qty' = [qty EXCEPT ![o] = n]
  BY DEF Place
<1>3. \A p \in OrderIds : qty'[p] = IF p = o THEN n ELSE qty[p]
  BY <1>2, TypeParts DEF PlatformTyped
<1>4. /\ \A p \in OrderIds : status'[p] = IF p = o THEN "CREATED" ELSE status[p]
      /\ \A p \in OrderIds : agreed'[p] = IF p = o THEN 1 ELSE agreed[p]
  BY TypeParts DEF Place, PlatformTyped
<1> HIDE DEF e
<1>5. \A k \in 0..Len(topic) : ~Announced(k, o) /\ ~CalledOff(k, o)
  <2>1. \A k \in 1..Len(topic) : topic[k].order # o
    BY <1>0 DEF TopicIsTrue
  <2>2. Len(topic) \in Nat
    BY Numbers
  <2> QED BY <2>1, <2>2 DEF Announced, CalledOff
<1>6. DishesBalance'
  <2>1. \A p \in OrderIds : InTheBooks'[p] = InTheBooks[p]
    BY <1>0, <1>3 DEF InTheBooks
  <2>2. Held' = Held
    BY <2>1, OrdersAreFinite, SameSum DEF Held
  <2> QED BY <1>0, <2>2 DEF DishesBalance
<1>7. ReadingIsCooking'
  BY <1>0 DEF ReadingIsCooking, Moving
<1>8. NewsIsComplete'
  <2>1. "CREATED" \notin Ended
    BY DEF Ended
  <2> QED BY <1>1, <1>4, <2>1, NewsGrows DEF NewsIsComplete
<1>9. NewsIsInOrder'
  BY <1>1, InOrderGrows
<1>10. MenuCovers'
  <2> SUFFICES ASSUME restarts' = 0, NEW k \in 0..Len(topic')
               PROVE  /\ Promised(k)' <= Portions
                      /\ k = Len(topic') => sellable' + Promised(k)' = Portions
    BY DEF MenuCovers
  <2>1. restarts = 0 /\ Len(topic) \in 0..Len(topic)
    BY <1>0, Numbers
  <2>2. CASE k \in 0..Len(topic)
    <3>1. \A p \in OrderIds : Live(k)'[p] = Live(k)[p]
      BY <1>1, <1>3, <1>5, <2>2, NewsGrows DEF Live
    <3>2. Promised(k)' = Promised(k)
      BY <3>1, OrdersAreFinite, SameSum DEF Promised
    <3> QED BY <1>1, <2>1, <2>2, <3>2, NewsGrows DEF MenuCovers
  <2>3. CASE k = Len(topic) + 1
    <3> DEFINE l == Len(topic)
    <3>0. \A p \in OrderIds :
            /\ Announced(k, p)' <=> Announced(l, p) \/ p = o
            /\ CalledOff(k, p)' <=> CalledOff(l, p)
      BY <1>1, <2>3, NewsGrows
    <3>1. \A p \in OrderIds \ {o} : Live(k)'[p] = Live(l)[p]
      BY <1>3, <3>0 DEF Live
    <3>2. Live(l)[o] = 0 /\ Live(k)'[o] = n
      BY <1>3, <1>5, <2>1, <3>0 DEF Live
    <3> HIDE DEF l
    <3>3. Promised(k)' + 0 = Promised(l) + n
      BY <3>1, <3>2, PromisedChanges
    <3> USE DEF l
    <3>4. sellable + Promised(l) = Portions /\ Promised(l) \in Nat
      BY <2>1, PortionsAreNatural DEF MenuCovers
    <3>5. Promised(k)' \in Nat
      BY PortionsAreNaturalNext
    <3>6. n \in Nat /\ sellable \in Nat
      BY Numbers DEF VenueKitchenAssumption
    <3> HIDE DEF l
    <3> QED BY <1>2, <3>3, <3>4, <3>5, <3>6
  <2> QED BY <1>1, <2>2, <2>3, NewsGrows
<1>11. BooksFollow'
  BY <1>0, <1>1, FollowGrows
<1> QED BY <1>6, <1>7, <1>8, <1>9, <1>10, <1>11

\* The portions of an order that does not change hands: the venue holds as much.
LEMMA HeldStays ==
  ASSUME VenueKitchenAssumption, TypeOK, UNCHANGED <<state, stock, overdrawn, qty>>, DishesBalance
  PROVE  DishesBalance'
<1>1. \A p \in OrderIds : InTheBooks'[p] = InTheBooks[p]
  BY DEF InTheBooks
<1>2. Held' = Held
  BY <1>1, OrdersAreFinite, SameSum DEF Held
<1> QED BY <1>2 DEF DishesBalance

LEMMA MenuStays ==
  ASSUME VenueKitchenAssumption, TypeOK, UNCHANGED <<topic, qty, sellable, restarts>>, MenuCovers
  PROVE  MenuCovers'
<1>1. ASSUME NEW k PROVE Promised(k)' = Promised(k)
  <2>1. \A p \in OrderIds : Live(k)'[p] = Live(k)[p]
    BY DEF Live, Announced, CalledOff
  <2> QED BY <2>1, OrdersAreFinite, SameSum DEF Promised
<1> QED BY <1>1 DEF MenuCovers

\* A move: an order that ends gives back what it was promised, and the topic says so.
LEMMA MoveSells ==
  ASSUME VenueKitchenAssumption, IInv, SalesInv, IInv', NEW o \in OrderIds, NEW event, NEW actor,
         Move(o, event, actor), actor # "venue" \/ \E step \in pipeline : step[2] = event,
         UNCHANGED <<offset, reading, state, stock, overdrawn, restarts, raced>>
  PROVE  SalesInv'
<1> USE DEF IInv, SalesInv
<1> DEFINE e == [type |-> "order.cancelled", order |-> o]
<1>1. PICK to \in Statuses :
        /\ <<status[o], event, to>> \in transitions
        /\ status' = [status EXCEPT ![o] = to]
        /\ agreed' = [agreed EXCEPT ![o] = IF to \in Ended THEN @ ELSE Position(StateOf(to))]
        /\ sellable' = IF ReturnsStock(to) THEN sellable + qty[o] ELSE sellable
        /\ topic' = IF TellsVenue(to, actor) THEN Append(topic, e) ELSE topic
        /\ qty' = qty
  BY DEF Move
<1>2. /\ \A p \in OrderIds : status'[p] = IF p = o THEN to ELSE status[p]
      /\ \A p \in OrderIds :
           agreed'[p] = IF p = o /\ to \notin Ended THEN Position(StateOf(to)) ELSE agreed[p]
  BY <1>1, TypeParts DEF PlatformTyped
<1>3. status[o] \in Statuses \ Ended /\ status[o] # "NONE"
  BY <1>1, KindsOfMoves
<1>4. DishesBalance' /\ ReadingIsCooking'
  BY <1>1, HeldStays DEF ReadingIsCooking, Moving
<1>5. e \in Event /\ e.type = "order.cancelled" /\ e.order = o
  BY DEF Event
<1> HIDE DEF e
<1>6. CASE to \notin Ended
  <2>1. topic' = topic /\ sellable' = sellable
    BY <1>1, <1>6 DEF TellsVenue, ReturnsStock, Ended
  <2>2. NewsIsComplete'
    BY <1>2, <1>3, <1>6, <2>1 DEF NewsIsComplete, Announced, CalledOff
  <2>3. MenuCovers'
    BY <1>1, <2>1, MenuStays
  <2>4. NewsIsInOrder' /\ BooksFollow'
    BY <2>1 DEF NewsIsInOrder, BooksFollow, Announced, CalledOff
  <2> QED BY <1>4, <2>2, <2>3, <2>4
<1>7. CASE to \in Ended
  <2>1. topic' = Append(topic, e) /\ sellable' = sellable + qty[o]
    <3>1. actor # "venue"
      BY <1>1, <1>7, CallsOfTheLine
    <3>2. ReturnsStock(to) /\ TellsVenue(to, actor)
      BY <1>7, <3>1 DEF ReturnsStock, TellsVenue, Ended
    <3> QED BY <1>1, <3>2
  <2>2. agreed[o] <= 2
    <3>1. agreed[o] = Position(StateOf(status[o]))
      BY <1>3 DEF BooksAgree
    <3>2. StateOf(status[o]) \in {"NEW", "ACCEPTED"}
      BY <1>1, <1>7 DEF transitions, Ended, StateOf
    <3> QED BY <3>1, <3>2, Positions
  <2>3. Announced(Len(topic), o) /\ ~CalledOff(Len(topic), o)
    <3>1. Announced(Len(topic), o)
      BY <1>3 DEF NewsIsComplete
    <3>2. ~CalledOff(Len(topic), o)
      BY <1>3 DEF TopicIsTrue, CalledOff
    <3> QED BY <3>1, <3>2
  <2>4. NewsIsComplete'
    BY <1>2, <1>3, <1>5, <1>7, <2>1, <2>2, <2>3, NewsGrows DEF NewsIsComplete
  <2>5. NewsIsInOrder'
    BY <1>5, <2>1, <2>3, InOrderGrows
  <2>6. BooksFollow'
    BY <1>5, <2>1, FollowGrows
  <2>7. MenuCovers'
    <3> SUFFICES ASSUME restarts' = 0, NEW k \in 0..Len(topic')
                 PROVE  /\ Promised(k)' <= Portions
                        /\ k = Len(topic') => sellable' + Promised(k)' = Portions
      BY DEF MenuCovers
    <3>1. restarts = 0 /\ Len(topic) \in 0..Len(topic)
      BY Numbers
    <3>2. CASE k \in 0..Len(topic)
      <4>1. \A p \in OrderIds : Live(k)'[p] = Live(k)[p]
        BY <1>1, <1>5, <2>1, <3>2, NewsGrows DEF Live
      <4>2. Promised(k)' = Promised(k)
        BY <4>1, OrdersAreFinite, SameSum DEF Promised
      <4> QED BY <1>5, <2>1, <3>1, <3>2, <4>2, NewsGrows DEF MenuCovers
    <3>3. CASE k = Len(topic) + 1
      <4> DEFINE l == Len(topic)
      <4>0. \A p \in OrderIds :
              /\ Announced(k, p)' <=> Announced(l, p)
              /\ CalledOff(k, p)' <=> CalledOff(l, p) \/ p = o
        BY <1>5, <2>1, <3>3, NewsGrows
      <4>1. \A p \in OrderIds \ {o} : Live(k)'[p] = Live(l)[p]
        BY <1>1, <4>0 DEF Live
      <4>2. Live(l)[o] = qty[o] /\ Live(k)'[o] = 0
        BY <2>3, <4>0 DEF Live
      <4> HIDE DEF l
      <4>3. Promised(k)' + qty[o] = Promised(l) + 0
        BY <4>1, <4>2, PromisedChanges
      <4> USE DEF l
      <4>4. sellable + Promised(l) = Portions /\ Promised(l) \in Nat
        BY <3>1, PortionsAreNatural DEF MenuCovers
      <4>5. Promised(k)' \in Nat
        BY PortionsAreNaturalNext
      <4>6. qty[o] \in Nat /\ sellable \in Nat
        BY Numbers
      <4> HIDE DEF l
      <4> QED BY <2>1, <4>3, <4>4, <4>5, <4>6
    <3> QED BY <1>5, <2>1, <3>2, <3>3, NewsGrows
  <2> QED BY <1>4, <2>4, <2>5, <2>6, <2>7
<1> QED BY <1>6, <1>7

\* Not a step of the line is left to an order that has ended.
LEMMA EndedIsMoving ==
  ASSUME VenueKitchenAssumption, IInv, NewsIsComplete, NEW o \in OrderIds, status[o] \in Ended,
         state[o] \notin Ended \union {"NONE"}
  PROVE  Moving(state[o])
<1>1. state[o] \in States \ Ended /\ agreed[o] <= 2
  BY TypeParts DEF IInv, BooksTyped, NewsIsComplete
<1>2. agreed[o] - Position(state[o]) \in {0, 1}
  BY <1>1 DEF IInv, KitchenKeepsStep
<1>3. state[o] # "HANDED_OVER"
  <2>1. agreed[o] \in Nat
    BY LineIs, TypeParts DEF IInv, PlatformTyped
  <2> QED BY <1>1, <1>2, <2>1, Positions
<1> QED BY <1>1, <1>3, StatesAre DEF Moving, pipeline, Ended

\* What settling does to the portions: they are given back with the order.
LEMMA SettlingBalances ==
  ASSUME VenueKitchenAssumption, IInv, TypeOK', NEW o \in OrderIds, NEW from, NEW to \in States,
         Moving(from), Settle(o, from, to), UNCHANGED <<qty, overdrawn>>, DishesBalance
  PROVE  DishesBalance'
<1> USE DEF IInv
<1>1. CASE state[o] # from
  BY <1>1, HeldStays DEF Settle, kitchenVars
<1>2. CASE state[o] = from
  <2>1. /\ state' = [state EXCEPT ![o] = to]
        /\ stock' = IF to \in Ended THEN stock + qty[o] ELSE stock
    BY <1>2 DEF Settle, GivesBack, Ended
  <2>2. \A p \in OrderIds : state'[p] = IF p = o THEN to ELSE state[p]
    BY <2>1, TypeParts DEF BooksTyped
  <2>3. \A p \in OrderIds \ {o} : InTheBooks'[p] = InTheBooks[p]
    BY <2>2 DEF InTheBooks
  <2>4. InTheBooks[o] = qty[o]
    BY <1>2, MovingIsInTheKitchen DEF InTheBooks
  <2>5. InTheBooks'[o] = IF to \in Ended THEN 0 ELSE qty[o]
    BY <2>2, NamesDiffer DEF InTheBooks
  <2>6. Held' + InTheBooks[o] = Held + InTheBooks'[o]
    BY <2>3, HeldChanges
  <2>7. Held \in Nat /\ Held' \in Nat /\ stock \in Nat /\ qty[o] \in Nat /\ overdrawn \in Nat
    BY PortionsAreNatural, PortionsAreNaturalNext, Numbers
  <2> QED BY <2>1, <2>4, <2>5, <2>6, <2>7 DEF DishesBalance, VenueKitchenAssumption
<1> QED BY <1>1, <1>2

\* An order that comes in was promised together with what the venue holds.
LEMMA ReceiveSells ==
  ASSUME VenueKitchenAssumption, IInv, SalesInv, IInv', Receive
  PROVE  SalesInv' /\ (restarts = 0 => raced \/ stock >= qty[Coming.order])
<1> USE DEF IInv, SalesInv
<1> DEFINE o == Coming.order
<1>0. /\ UNCHANGED <<status, qty, sellable, agreed, topic, reading, restarts, raced>>
      /\ offset < Len(topic) /\ Coming.type = "order.created" /\ offset' = offset + 1
      /\ state' = [state EXCEPT ![o] = "NEW"]
      /\ stock' = Taken(stock, qty[o])
      /\ overdrawn' = overdrawn + (IF stock >= qty[o] THEN 0 ELSE qty[o] - stock)
  BY DEF Receive, platformVars
<1>1. o \in OrderIds /\ offset + 1 \in 1..Len(topic)
  BY <1>0, ComingIsAnEvent
<1>2. state[o] = "NONE"
  <2>1. offset + 1 > offset
    BY Numbers
  <2> QED BY <1>0, <1>1, <2>1 DEF TopicIsTrue, Coming
<1>3. \A p \in OrderIds : state'[p] = IF p = o THEN "NEW" ELSE state[p]
  BY <1>0, TypeParts DEF BooksTyped
<1>4. DishesBalance'
  <2>1. \A p \in OrderIds \ {o} : InTheBooks'[p] = InTheBooks[p]
    BY <1>0, <1>3 DEF InTheBooks
  <2>2. InTheBooks[o] = 0 /\ InTheBooks'[o] = qty[o]
    BY <1>0, <1>1, <1>2, <1>3 DEF InTheBooks, Ended
  <2> HIDE DEF o
  <2>3. Held' + 0 = Held + qty[o]
    BY <1>1, <2>1, <2>2, HeldChanges
  <2>4. Held \in Nat /\ Held' \in Nat /\ stock \in Nat /\ qty[o] \in Nat /\ overdrawn \in Nat
    BY <1>1, PortionsAreNatural, PortionsAreNaturalNext, Numbers
  <2>5. stock + Held = Portions + overdrawn /\ Portions \in Nat
    BY DEF DishesBalance, VenueKitchenAssumption
  <2>6. stock' + Held' = Portions + overdrawn'
    <3>1. CASE stock >= qty[o]
      <4>1. stock' = stock - qty[o] /\ overdrawn' = overdrawn
        BY <1>0, <2>4, <3>1 DEF Taken
      <4> QED BY <2>3, <2>4, <2>5, <4>1
    <3>2. CASE ~(stock >= qty[o])
      <4>1. stock' = 0 /\ overdrawn' = overdrawn + (qty[o] - stock)
        BY <1>0, <2>4, <3>2 DEF Taken
      <4> QED BY <2>3, <2>4, <2>5, <4>1
    <3> QED BY <3>1, <3>2
  <2> QED BY <2>6 DEF DishesBalance
<1>5. ReadingIsCooking' /\ NewsIsComplete' /\ NewsIsInOrder' /\ MenuCovers'
  <2>1. ReadingIsCooking' /\ NewsIsComplete' /\ NewsIsInOrder'
    BY <1>0 DEF ReadingIsCooking, Moving, NewsIsComplete, NewsIsInOrder, Announced, CalledOff
  <2>2. MenuCovers'
    BY <1>0, MenuStays
  <2> QED BY <2>1, <2>2
<1>6. \A p \in OrderIds :
        /\ Announced(offset + 1, p) <=> Announced(offset, p) \/ p = o
        /\ CalledOff(offset + 1, p) <=> CalledOff(offset, p)
  BY <1>0, NewsOfTheNext
<1>7. ~CalledOff(offset, o)
  <2> SUFFICES ASSUME NEW j \in 1..offset, topic[j].type = "order.cancelled", topic[j].order = o
               PROVE  FALSE
    BY DEF CalledOff
  <2>1. j \in 1..Len(topic) /\ \A i \in 1..j : i \in 1..Len(topic) /\ i # offset + 1
    BY <1>0, Numbers
  <2>2. PICK i \in 1..j : topic[i].type = "order.created" /\ topic[i].order = o
    BY <2>1 DEF NewsIsInOrder, Announced
  <2> QED BY <1>0, <1>1, <2>1, <2>2 DEF TopicIsTrue, Coming
<1>8. BooksFollow'
  <2> SUFFICES ASSUME NEW p \in OrderIds, state'[p] \notin Ended \union {"NONE"}
               PROVE  Announced(offset, p)' /\ (raced' \/ ~CalledOff(offset, p)')
    BY DEF BooksFollow
  <2>1. Announced(offset + 1, p) /\ (raced \/ ~CalledOff(offset + 1, p))
    BY <1>3, <1>6, <1>7 DEF BooksFollow
  <2> QED BY <1>0, <2>1 DEF Announced, CalledOff
<1>9. ASSUME restarts = 0, ~raced PROVE stock >= qty[o]
  <2> DEFINE h == [InTheBooks EXCEPT ![o] = qty[o]]
             k == offset + 1
  <2>1. \A p \in OrderIds : h[p] = IF p = o THEN qty[o] ELSE InTheBooks[p]
    BY DEF InTheBooks
  <2>2. \A p \in OrderIds : h[p] \in Nat
    BY <1>1, <2>1, PortionsAreNatural, Numbers
  <2>3. \A p \in OrderIds : h[p] <= Live(k)[p]
    <3>1. ASSUME NEW p \in OrderIds PROVE h[p] = 0 \/ h[p] = Live(k)[p]
      BY <1>6, <1>7, <1>9, <2>1 DEF BooksFollow, InTheBooks, Live
    <3> QED BY <2>2, <3>1, PortionsAreNatural
  <2>4. InTheBooks[o] = 0 /\ h[o] = qty[o]
    BY <1>1, <1>2, <2>1 DEF InTheBooks
  <2>5. \A p \in OrderIds \ {o} : h[p] = InTheBooks[p]
    BY <2>1
  <2> HIDE DEF h, o
  <2>6. SumFunctionOnSet(h, OrderIds) + InTheBooks[o] = Held + h[o]
    BY <1>1, <2>2, <2>5, OrdersAreFinite, PortionsAreNatural, SumChanges DEF Held
  <2>7. SumFunctionOnSet(h, OrderIds) <= Promised(k)
    BY <2>2, <2>3, OrdersAreFinite, PortionsAreNatural, SumIsMonotone DEF Promised
  <2>8. Promised(k) <= Portions
    <3>1. k \in 0..Len(topic)
      BY <1>1, Numbers
    <3> QED BY <1>9, <3>1 DEF MenuCovers
  <2>9. SumFunctionOnSet(h, OrderIds) \in Nat
    BY <2>2, OrdersAreFinite, SumIsNatural
  <2>10. /\ Promised(k) \in Nat /\ Held \in Nat /\ qty[o] \in Nat /\ stock \in Nat
         /\ overdrawn \in Nat /\ Portions \in Nat
    BY <1>1, PortionsAreNatural, Numbers DEF VenueKitchenAssumption
  <2> HIDE DEF k
  <2> QED BY <2>4, <2>6, <2>7, <2>8, <2>9, <2>10 DEF DishesBalance
<1> QED BY <1>4, <1>5, <1>8, <1>9

\* The books follow where the topic goes: an order of the books that is passed by
\* its cancellation is one that has lost the race.
LEMMA CancelReadsSells ==
  ASSUME VenueKitchenAssumption, IInv, SalesInv, IInv', CancelReads
  PROVE  SalesInv'
<1> USE DEF IInv, SalesInv
<1>0. /\ UNCHANGED <<status, qty, sellable, agreed, topic, state, stock>>
      /\ UNCHANGED <<restarts, overdrawn, raced>>
      /\ offset < Len(topic) /\ Coming.type = "order.cancelled"
  BY DEF CancelReads, platformVars, kitchenVars, historyVars
<1>1. \/ Moving(state[Coming.order]) /\ reading' = state[Coming.order] /\ offset' = offset
      \/ ~Moving(state[Coming.order]) /\ offset' = offset + 1 /\ reading' = "NONE"
  BY Zenon DEF CancelReads
<1>2. DishesBalance' /\ MenuCovers'
  BY <1>0, HeldStays, MenuStays
<1>3. NewsIsComplete' /\ NewsIsInOrder'
  BY <1>0 DEF NewsIsComplete, NewsIsInOrder, Announced, CalledOff
<1>4. ReadingIsCooking'
  BY <1>1 DEF ReadingIsCooking, Moving
<1>5. BooksFollow'
  <2>1. CASE offset' = offset
    BY <1>0, <2>1 DEF BooksFollow, Announced, CalledOff
  <2>2. CASE ~Moving(state[Coming.order]) /\ offset' = offset + 1
    <3>1. Coming.order \in OrderIds /\ status[Coming.order] \in Ended
      BY <1>0, ComingIsAnEvent DEF TopicIsTrue, Coming
    <3>2. state[Coming.order] \in Ended \union {"NONE"}
      BY <2>2, <3>1, EndedIsMoving
    <3>3. ASSUME NEW p \in OrderIds, state'[p] \notin Ended \union {"NONE"}
          PROVE  Announced(offset, p)' /\ (raced' \/ ~CalledOff(offset, p)')
      <4>1. Announced(offset + 1, p) /\ (raced \/ ~CalledOff(offset + 1, p))
        BY <1>0, <3>2, <3>3, NewsOfTheNext DEF BooksFollow
      <4> QED BY <1>0, <2>2, <4>1 DEF Announced, CalledOff
    <3> QED BY <3>3 DEF BooksFollow
  <2> QED BY <1>1, <2>1, <2>2
<1> QED BY <1>2, <1>3, <1>4, <1>5

LEMMA CancelSettlesSells ==
  ASSUME VenueKitchenAssumption, IInv, SalesInv, IInv', CancelSettles
  PROVE  SalesInv'
<1> USE DEF IInv, SalesInv
<1> DEFINE o == Coming.order
<1>0. /\ UNCHANGED <<status, qty, sellable, agreed, topic, restarts, overdrawn>>
      /\ Settle(o, reading, "CANCELLED")
      /\ raced' = (raced \/ Moving(state'[o]))
      /\ reading # "NONE" /\ offset' = offset + 1 /\ reading' = "NONE"
  BY DEF CancelSettles, platformVars
<1>1. offset < Len(topic) /\ Coming.type = "order.cancelled" /\ Moving(reading)
  BY <1>0 DEF ReadingIsOfTheNext, ReadingIsCooking
<1>2. o \in OrderIds /\ status[o] \in Ended
  BY <1>1, ComingIsAnEvent DEF TopicIsTrue, Coming
<1>3. DishesBalance'
  BY <1>0, <1>1, <1>2, StatesAre, SettlingBalances
<1>4. MenuCovers' /\ ReadingIsCooking'
  BY <1>0, MenuStays DEF ReadingIsCooking
<1>5. NewsIsComplete' /\ NewsIsInOrder'
  BY <1>0 DEF NewsIsComplete, NewsIsInOrder, Announced, CalledOff
<1>6. \A p \in OrderIds :
        \/ state'[p] = state[p]
        \/ p = o /\ state'[p] = "CANCELLED"
  <2>1. CASE state[o] = reading
    BY <1>0, <1>2, <2>1, TypeParts DEF Settle, BooksTyped
  <2>2. CASE state[o] # reading
    BY <1>0, <2>2 DEF Settle, kitchenVars
  <2> QED BY <2>1, <2>2
<1>7. state'[o] \notin Ended \union {"NONE"} => raced'
  <2>1. ASSUME state'[o] \notin Ended \union {"NONE"} PROVE Moving(state'[o])
    <3>1. state'[o] = state[o]
      BY <1>2, <1>6, <2>1 DEF Ended
    <3>2. Moving(state[o])
      BY <1>2, <2>1, <3>1, EndedIsMoving
    <3> QED BY <3>1, <3>2
  <2> HIDE DEF o
  <2> QED BY <1>0, <2>1, Zenon
<1>8. raced => raced'
  <2> HIDE DEF o
  <2> QED BY <1>0, Zenon
<1>9. BooksFollow'
  <2> SUFFICES ASSUME NEW p \in OrderIds, state'[p] \notin Ended \union {"NONE"}
               PROVE  Announced(offset, p)' /\ (raced' \/ ~CalledOff(offset, p)')
    BY DEF BooksFollow
  <2>1. state[p] \notin Ended \union {"NONE"}
    BY <1>6 DEF Ended
  <2>2. /\ Announced(offset + 1, p) <=> Announced(offset, p)
        /\ CalledOff(offset + 1, p) <=> CalledOff(offset, p) \/ p = o
    BY <1>1, NewsOfTheNext
  <2>3. Announced(offset, p) /\ (raced \/ ~CalledOff(offset, p))
    BY <2>1 DEF BooksFollow
  <2>4. Announced(offset + 1, p) /\ (raced' \/ ~CalledOff(offset + 1, p))
    BY <1>7, <1>8, <2>2, <2>3
  <2>5. Announced(offset, p)' <=> Announced(offset + 1, p)
    BY <1>0 DEF Announced
  <2>6. CalledOff(offset, p)' <=> CalledOff(offset + 1, p)
    BY <1>0 DEF CalledOff
  <2> QED BY <2>4, <2>5, <2>6
<1> QED BY <1>3, <1>4, <1>5, <1>9

LEMMA AdvanceSells ==
  ASSUME VenueKitchenAssumption, IInv, SalesInv, IInv', Advance
  PROVE  SalesInv'
<1> USE DEF IInv, SalesInv
<1> DEFINE o == call.order
<1>0. /\ UNCHANGED <<status, qty, sellable, agreed, topic, offset, reading>>
      /\ UNCHANGED <<restarts, overdrawn, raced>>
      /\ call # NoCall /\ Hear(o, call.from, call.answer)
  BY DEF Advance, platformVars, consumerVars, historyVars
<1>1. o \in OrderIds /\ Moving(call.from) /\ state[o] # "NONE"
  BY <1>0, RipeIsKnown DEF AnswerIsCurrent, RipeIsCurrent
<1>2. MenuCovers' /\ ReadingIsCooking' /\ NewsIsComplete' /\ NewsIsInOrder'
  <2>1. MenuCovers'
    BY <1>0, MenuStays
  <2>2. ReadingIsCooking' /\ NewsIsComplete' /\ NewsIsInOrder'
    BY <1>0 DEF ReadingIsCooking, Moving, NewsIsComplete, NewsIsInOrder, Announced, CalledOff
  <2> QED BY <2>1, <2>2
<1>3. UNCHANGED kitchenVars \/ \E to \in States : Settle(o, call.from, to)
  BY <1>0, HearIs
<1>4. CASE UNCHANGED kitchenVars
  <2>1. UNCHANGED <<state, stock>>
    BY <1>4 DEF kitchenVars
  <2>2. DishesBalance' /\ BooksFollow'
    BY <1>0, <2>1, HeldStays DEF BooksFollow, Announced, CalledOff
  <2> QED BY <1>2, <2>2
<1>5. ASSUME NEW to \in States, Settle(o, call.from, to) PROVE SalesInv'
  <2>1. DishesBalance'
    BY <1>0, <1>1, <1>5, SettlingBalances
  <2>2. \A p \in OrderIds :
          \/ state'[p] = state[p]
          \/ p = o /\ state[p] = call.from
    <3> HIDE DEF o
    <3>1. CASE state[o] = call.from
      <4>1. state' = [state EXCEPT ![o] = to]
        BY <1>5, <3>1 DEF Settle
      <4> QED BY <1>1, <3>1, <4>1, TypeParts DEF BooksTyped
    <3>2. CASE state[o] # call.from
      <4>1. state' = state
        BY <1>5, <3>2 DEF Settle, kitchenVars
      <4> QED BY <4>1
    <3> QED BY <3>1, <3>2
  <2>3. call.from \notin Ended \union {"NONE"}
    BY <1>1, MovingIsInTheKitchen
  <2>4. BooksFollow'
    <3> SUFFICES ASSUME NEW p \in OrderIds, state'[p] \notin Ended \union {"NONE"}
                 PROVE  Announced(offset, p)' /\ (raced' \/ ~CalledOff(offset, p)')
      BY DEF BooksFollow
    <3>1. Announced(offset, p) /\ (raced \/ ~CalledOff(offset, p))
      BY <2>2, <2>3 DEF BooksFollow
    <3> QED BY <1>0, <3>1 DEF Announced, CalledOff
  <2> QED BY <1>2, <2>1, <2>4
<1> QED BY <1>3, <1>4, <1>5

\* A step that touches neither book leaves the portions alone; a restart sets the
\* menu to what the venue has, and no promise is kept from then on.
LEMMA QuietSells ==
  ASSUME VenueKitchenAssumption, IInv, SalesInv,
         UNCHANGED <<status, qty, agreed, topic, offset, state, stock, overdrawn, raced>>,
         reading' \in {reading, "NONE"},
         UNCHANGED <<sellable, restarts>> \/ restarts' # 0
  PROVE  SalesInv'
<1> USE DEF IInv, SalesInv
<1>1. DishesBalance'
  BY HeldStays
<1>2. MenuCovers'
  <2>1. CASE UNCHANGED <<sellable, restarts>>
    BY <2>1, MenuStays
  <2>2. CASE restarts' # 0
    BY <2>2 DEF MenuCovers
  <2> QED BY <2>1, <2>2
<1>3. ReadingIsCooking' /\ NewsIsComplete' /\ NewsIsInOrder'
  BY DEF ReadingIsCooking, Moving, NewsIsComplete, NewsIsInOrder, Announced, CalledOff
<1>4. BooksFollow'
  BY DEF BooksFollow, Announced, CalledOff
<1> QED BY <1>1, <1>2, <1>3, <1>4

LEMMA NextSells ==
  ASSUME VenueKitchenAssumption, IInv, SalesInv, [Next]_vars PROVE SalesInv'
<1>0. IInv'
  BY NextStep
<1>1. ASSUME NEW o \in OrderIds, Place(o) PROVE SalesInv'
  BY <1>0, <1>1, PlaceSells
<1>2. ASSUME NEW o \in OrderIds, OthersMove(o) PROVE SalesInv'
  <2>1. PICK event, actor : Move(o, event, actor) /\ actor # "venue"
    BY <1>2 DEF OthersMove
  <2>2. UNCHANGED <<offset, reading, state, stock, overdrawn, restarts, raced>>
    BY <1>2 DEF OthersMove, consumerVars, kitchenVars, historyVars
  <2> QED BY <1>0, <2>1, <2>2, MoveSells
<1>3. ASSUME NEW o \in OrderIds, NEW from \in States, Call(o, from) PROVE SalesInv'
  <2>1. UNCHANGED <<offset, reading, state, stock, overdrawn, restarts, raced>>
    BY <1>3 DEF Call, consumerVars, kitchenVars, historyVars
  <2>2. PICK step \in pipeline :
          Move(o, step[2], "venue") \/ UNCHANGED <<platformVars, topic>>
    BY <1>3 DEF Call, Tell
  <2>3. CASE Move(o, step[2], "venue")
    BY <1>0, <2>1, <2>3, MoveSells
  <2>4. CASE UNCHANGED <<platformVars, topic>>
    BY <2>1, <2>4, QuietSells DEF platformVars
  <2> QED BY <2>2, <2>3, <2>4
<1>4. CASE Receive
  BY <1>0, <1>4, ReceiveSells
<1>5. CASE CancelReads
  BY <1>0, <1>5, CancelReadsSells
<1>6. CASE CancelSettles
  BY <1>0, <1>6, CancelSettlesSells
<1>7. CASE Advance
  BY <1>0, <1>7, AdvanceSells
<1>8. CASE CancelFails \/ ReadRipe \/ ReadDishes \/ SetItemAvailability \/ SetAvailable \/ RunFails
           \/ UNCHANGED vars
  <2>1. /\ UNCHANGED <<status, qty, agreed, topic, offset, state, stock, overdrawn, raced>>
        /\ UNCHANGED <<sellable, restarts>> /\ reading' \in {reading, "NONE"}
    BY <1>8 DEF CancelFails, ReadRipe, ReadDishes, SetItemAvailability, SetAvailable, RunFails,
                Fault, vars, platformVars, consumerVars, kitchenVars, historyVars
  <2> QED BY <2>1, QuietSells
<1>9. CASE Restart
  <2>1. restarts' = restarts + 1 /\ reading' = "NONE"
        /\ UNCHANGED <<status, qty, agreed, topic, offset, state, stock, overdrawn, raced>>
    BY <1>9 DEF Restart, kitchenVars
  <2>2. restarts' # 0
    <3>1. restarts \in 0..MaxRestarts /\ MaxRestarts \in Nat
      BY TypeParts DEF IInv, CountsTyped, VenueKitchenAssumption
    <3> QED BY <2>1, <3>1
  <2> QED BY <2>1, <2>2, QuietSells
<1> QED BY <1>1, <1>2, <1>3, <1>4, <1>5, <1>6, <1>7, <1>8, <1>9 DEF Next

\* Whoever takes an order out of the kitchen, its dishes are given back once: what
\* the venue has and what its orders hold add up to what it began with, and to
\* what it gave out without having it.
THEOREM DishesAddUp == Spec => []DishesBalance
<1>1. Init => SalesInv
  BY VenueKitchenAssumption, SalesInit
<1>2. IInv /\ SalesInv /\ [Next]_vars => SalesInv'
  BY VenueKitchenAssumption, NextSells
<1>3. SalesInv => DishesBalance
  BY DEF SalesInv
<1> QED BY <1>1, <1>2, <1>3, AlwaysIInv, PTL DEF Spec

\* As long as the venue is not restarted and no cancellation loses its race, every
\* order that comes in finds its portions: the two counts, kept apart and brought
\* together by messages that lag behind, never promise the same portion twice.
THEOREM NeverSoldTwice == Spec => []NothingIsSoldTwice
<1>1. Init => SalesInv /\ NothingIsSoldTwice
  BY VenueKitchenAssumption, SalesInit DEF Init, NothingIsSoldTwice
<1>2. IInv /\ SalesInv /\ [Next]_vars => SalesInv'
  BY VenueKitchenAssumption, NextSells
<1>3. ASSUME IInv, SalesInv, NothingIsSoldTwice, [Next]_vars PROVE NothingIsSoldTwice'
  <2>1. (restarts > 0 => restarts' > 0) /\ (raced => raced')
    <3>1. restarts \in Nat
      <4>1. restarts \in 0..MaxRestarts /\ MaxRestarts \in Nat
        BY <1>3, VenueKitchenAssumption, TypeParts
        DEF IInv, CountsTyped, VenueKitchenAssumption
      <4> QED BY <4>1
    <3>2. restarts' = restarts \/ restarts' = restarts + 1
      BY <1>3 DEF Next, Place, OthersMove, Call, Receive, CancelReads, CancelSettles, CancelFails,
                  ReadRipe, Advance, ReadDishes, SetItemAvailability, SetAvailable, RunFails,
                  Restart, Fault, vars, historyVars
    <3>3. raced' = raced \/ raced' = (raced \/ Moving(state'[Coming.order]))
      BY <1>3 DEF Next, Place, OthersMove, Call, Receive, CancelReads, CancelSettles, CancelFails,
                  ReadRipe, Advance, ReadDishes, SetItemAvailability, SetAvailable, RunFails,
                  Restart, Fault, vars, historyVars
    <3>4. raced => raced'
      BY <3>3, Zenon
    <3>5. restarts > 0 => restarts' > 0
      BY <3>1, <3>2
    <3> QED BY <3>4, <3>5
  <2>2. CASE overdrawn' = overdrawn
    BY <1>3, <2>1, <2>2, Zenon DEF NothingIsSoldTwice
  <2>3. CASE Receive
    <3>1. /\ overdrawn' = overdrawn + (IF stock >= qty[Coming.order] THEN 0
                                       ELSE qty[Coming.order] - stock)
          /\ UNCHANGED <<restarts, raced>>
      BY <2>3 DEF Receive
    <3>2. restarts = 0 => raced \/ stock >= qty[Coming.order]
      BY <1>3, <2>3, VenueKitchenAssumption, NextStep, ReceiveSells
    <3>3. restarts = 0 \/ restarts > 0
      <4>1. restarts \in 0..MaxRestarts /\ MaxRestarts \in Nat
        BY <1>3, VenueKitchenAssumption, TypeParts DEF IInv, CountsTyped, VenueKitchenAssumption
      <4> QED BY <4>1
    <3>4. CASE restarts > 0 \/ raced
      BY <3>1, <3>4, Zenon DEF NothingIsSoldTwice
    <3>5. CASE overdrawn = 0 /\ restarts = 0 /\ ~raced
      <4>1. overdrawn' = 0
        BY <3>1, <3>2, <3>5
      <4> QED BY <4>1 DEF NothingIsSoldTwice
    <3> QED BY <1>3, <3>3, <3>4, <3>5, Zenon DEF NothingIsSoldTwice
  <2>4. overdrawn' = overdrawn \/ Receive
    BY <1>3 DEF Next, Place, OthersMove, Call, CancelReads, CancelSettles, CancelFails, ReadRipe,
                Advance, ReadDishes, SetItemAvailability, SetAvailable, RunFails, Restart, Fault,
                vars, historyVars
  <2> QED BY <2>2, <2>3, <2>4
<1> QED BY <1>1, <1>2, <1>3, AlwaysIInv, PTL DEF Spec

=============================================================================
