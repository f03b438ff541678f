----------------------------- MODULE VenueKitchen -----------------------------
(***************************************************************************)
(* The venue service: its kitchen (usecase/kitchen), the consumer of the   *)
(* orders topic, the autopilot and the bootstrap, against the part of the  *)
(* platform they reach.  The venue and the platform keep their own books:  *)
(* a state and a status for every order, two counts of the portions of a   *)
(* dish, and two opinions on whether it is on sale.                        *)
(*                                                                         *)
(* Grain.  Every call of the partner API is one transaction of the platform*)
(* (Orders) and a step; so are the answer written down, every statement of *)
(* a cancellation and every step of the stop list.  Receiving an order is  *)
(* one transaction.  The topic hands every event over once, in the order in*)
(* which the platform has committed them (Delivery, EventOrder); a change  *)
(* that depends on another one is committed after it.  Time is left out: an*)
(* order is ripe as soon as it is in a state the autopilot moves.          *)
(*                                                                         *)
(* One dish with a count is modelled.  The shift stays open.               *)
(***************************************************************************)
EXTENDS OrderFsm, Naturals, Sequences, FiniteSets, Functions

CONSTANTS
  MaxOrders,   \* bound: orders ever placed
  MaxQty,      \* bound: portions in one order
  Portions,    \* portions of the dish on the first day
  MaxFaults,   \* bound: lost answers, failed calls, statements and transactions
  MaxRestarts  \* bound: restarts of the venue service

ASSUME VenueKitchenAssumption ==
  /\ MaxOrders \in Nat /\ MaxQty \in Nat /\ Portions \in Nat
  /\ MaxFaults \in Nat /\ MaxRestarts \in Nat

VARIABLES
  status,     \* orders.status of the platform
  qty,        \* order_items.qty
  sellable,   \* menu_items.stock_qty of the platform
  onSale,     \* menu_items.is_available of the platform
  topic,      \* the events of the venue, in the order they are handed over
  offset,     \* how many of them the consumer has handled
  reading,    \* the state Cancel has read, while it is at work
  state,      \* incoming_orders.state of the venue
  stock,      \* dishes.stock of the venue
  listed,     \* dishes.is_available of the venue
  phase,      \* where the autopilot is
  ripe,       \* the orders of its run still to be moved, as they were read
  call,       \* the call it has made, and the answer
  stop,       \* what it is about to tell of the dish
  faults,     \* faults so far
  restarts,   \* restarts so far
  overdrawn,  \* history variable: portions given out that the venue did not have
  raced,      \* history variable: a cancellation has found its order moved on
  unwritten,  \* history variable: the platform was told what the venue did not note
  agreed      \* history variable: how far along the line the platform has had an order

platformVars == <<status, qty, sellable, onSale, agreed>>
consumerVars == <<offset, reading>>
kitchenVars == <<state, stock>>
pilotVars == <<phase, ripe, call, stop>>
historyVars == <<faults, restarts, overdrawn, raced, unwritten>>
vars == <<platformVars, topic, consumerVars, kitchenVars, listed, pilotVars, historyVars>>

OrderIds == 1..MaxOrders

\* The states an order passes through in the kitchen, in order.
Line == <<"NEW", "ACCEPTED", "COOKING", "READY", "HANDED_OVER">>
Position(s) == CHOOSE k \in 1..Len(Line) : Line[k] = s
States == {Line[k] : k \in 1..Len(Line)} \union {"REJECTED", "CANCELLED"}

\* kitchen.pipeline: the call that takes an order out of a state, and where to.
pipeline ==
  { <<"NEW",      "accept",   "ACCEPTED">>,
    <<"ACCEPTED", "start",    "COOKING">>,
    <<"COOKING",  "ready",    "READY">>,
    <<"READY",    "handover", "HANDED_OVER">> }

Moving(s) == \E step \in pipeline : step[1] = s

\* kitchen.states
StateOf(s) ==
  CASE s = "CREATED" -> "NEW"
    [] s \in {"DELIVERING", "DELIVERED"} -> "HANDED_OVER"
    [] OTHER -> s

\* Mutant: the dishes of a cancelled order are taken for cooked.
GivesBackRejected(s) == s = "REJECTED"

\* kitchen.ReturnsStock
GivesBack(s) == s \in {"REJECTED", "CANCELLED"}

Ended == {"REJECTED", "CANCELLED"}
Event == [type : {"order.created", "order.cancelled"}, order : OrderIds]
NoCall == [order |-> 0]
Calls == {NoCall} \union
  [order : OrderIds, from : States, answer : Statuses \union {"ok"}]

TypeOK ==
  /\ status \in [OrderIds -> Statuses \union {"NONE"}]
  /\ qty \in [OrderIds -> 0..MaxQty]
  /\ sellable \in Nat /\ onSale \in BOOLEAN
  /\ topic \in Seq(Event) /\ offset \in 0..Len(topic)
  /\ reading \in States \union {"NONE"}
  /\ state \in [OrderIds -> States \union {"NONE"}]
  /\ stock \in Nat /\ listed \in BOOLEAN
  /\ phase \in {"idle", "orders", "stop list", "told"}
  /\ ripe \in SUBSET (OrderIds \X States)
  /\ call \in Calls /\ stop \in BOOLEAN
  /\ faults \in 0..MaxFaults /\ restarts \in 0..MaxRestarts
  /\ overdrawn \in Nat /\ raced \in BOOLEAN /\ unwritten \in BOOLEAN
  /\ agreed \in [OrderIds -> 0..Len(Line)]

\* The venue has come online and handed its menu over.
Init ==
  /\ status = [o \in OrderIds |-> "NONE"]
  /\ qty = [o \in OrderIds |-> 0]
  /\ sellable = Portions /\ onSale = TRUE
  /\ topic = <<>> /\ offset = 0 /\ reading = "NONE"
  /\ state = [o \in OrderIds |-> "NONE"]
  /\ stock = Portions /\ listed = TRUE
  /\ phase = "idle" /\ ripe = {} /\ call = NoCall /\ stop = FALSE
  /\ faults = 0 /\ restarts = 0 /\ overdrawn = 0 /\ raced = FALSE /\ unwritten = FALSE
  /\ agreed = [o \in OrderIds |-> 0]

Fault ==
  /\ faults < MaxFaults
  /\ faults' = faults + 1
  /\ UNCHANGED <<restarts, overdrawn, raced>>

----------------------------------------------------------------------------
(* The platform, as Orders has it. *)

Place(o) ==
  /\ status[o] = "NONE"
  /\ \A p \in 1..(o - 1) : status[p] # "NONE"
  /\ onSale
  /\ \E n \in 1..MaxQty :
       /\ n <= sellable
       /\ sellable' = sellable - n
       /\ qty' = [qty EXCEPT ![o] = n]
  /\ status' = [status EXCEPT ![o] = "CREATED"]
  /\ agreed' = [agreed EXCEPT ![o] = 1]
  /\ topic' = Append(topic, [type |-> "order.created", order |-> o])
  /\ UNCHANGED <<onSale, consumerVars, kitchenVars, listed, pilotVars, historyVars>>

\* A move of the platform: what it gives back and whom it tells.
Move(o, event, actor) ==
  /\ \E to \in Statuses :
       /\ <<status[o], event, to>> \in transitions
       /\ status' = [status EXCEPT ![o] = to]
       /\ agreed' = [agreed EXCEPT ![o] = IF to \in Ended THEN @ ELSE Position(StateOf(to))]
       /\ sellable' = IF ReturnsStock(to) THEN sellable + qty[o] ELSE sellable
       /\ topic' = IF TellsVenue(to, actor)
                   THEN Append(topic, [type |-> "order.cancelled", order |-> o])
                   ELSE topic
  /\ UNCHANGED <<qty, onSale>>

\* The customer, the reaper and the courier.
OthersMove(o) ==
  /\ \/ Move(o, "cancel", "customer")
     \/ status[o] = "CREATED" /\ Move(o, "reject", "system")
     \/ Move(o, "deliver", "system")
  /\ UNCHANGED <<consumerVars, kitchenVars, listed, pilotVars, historyVars>>

----------------------------------------------------------------------------
(* The consumer of the venue. *)

\* Mutant: what runs short is taken below zero.
TakenBelowZero(count, n) == count - n

Taken(count, n) == IF count >= n THEN count - n ELSE 0

Coming == topic[offset + 1]

Receive ==
  /\ offset < Len(topic)
  /\ Coming.type = "order.created"
  /\ LET o == Coming.order IN
       /\ state' = [state EXCEPT ![o] = "NEW"]
       /\ stock' = Taken(stock, qty[o])
       /\ overdrawn' = overdrawn + (IF stock >= qty[o] THEN 0 ELSE qty[o] - stock)
  /\ offset' = offset + 1
  /\ UNCHANGED <<platformVars, topic, reading, listed, pilotVars, faults, restarts, raced,
                 unwritten>>

\* Cancel reads the order: one that has left the kitchen is left alone...
CancelReads ==
  /\ offset < Len(topic)
  /\ Coming.type = "order.cancelled"
  /\ reading = "NONE"
  /\ LET s == state[Coming.order] IN
       IF Moving(s) THEN reading' = s /\ UNCHANGED offset
                    ELSE offset' = offset + 1 /\ UNCHANGED reading
  /\ UNCHANGED <<platformVars, topic, kitchenVars, listed, pilotVars, historyVars>>

\* Mutant: the dishes are given back whether the order has been moved or not.
SettleAnyway(o, from, to) ==
  /\ state' = IF state[o] = from THEN [state EXCEPT ![o] = to] ELSE state
  /\ stock' = IF GivesBack(to) THEN stock + qty[o] ELSE stock

\* settle: the order moves if it is still in the state it was read in, and only
\* then gives its dishes back.
Settle(o, from, to) ==
  IF state[o] = from
  THEN /\ state' = [state EXCEPT ![o] = to]
       /\ stock' = IF GivesBack(to) THEN stock + qty[o] ELSE stock
  ELSE UNCHANGED kitchenVars

\* ... and moves it if it is still where it was read.  Either way the event is
\* done with.
CancelSettles ==
  /\ reading # "NONE"
  /\ LET o == Coming.order IN
       /\ Settle(o, reading, "CANCELLED")
       /\ raced' = (raced \/ Moving(state'[o]))
  /\ offset' = offset + 1
  /\ reading' = "NONE"
  /\ UNCHANGED <<platformVars, topic, listed, pilotVars, faults, restarts, overdrawn,
                 unwritten>>

\* The transaction is rolled back and the event is handled again.
CancelFails ==
  /\ reading # "NONE"
  /\ Fault
  /\ reading' = "NONE"
  /\ UNCHANGED <<unwritten, platformVars, topic, offset, kitchenVars, listed, pilotVars>>

----------------------------------------------------------------------------
(* The autopilot. *)

Rest == phase' = "idle" /\ ripe' = {} /\ call' = NoCall /\ UNCHANGED stop

ReadRipe ==
  /\ phase = "idle"
  /\ phase' = "orders"
  /\ ripe' = {<<o, state[o]>> : o \in {p \in OrderIds : Moving(state[p])}}
  /\ UNCHANGED <<platformVars, topic, consumerVars, kitchenVars, listed, call, stop, historyVars>>

\* The answer of the platform to an event: a move, a repetition or a refusal.
Answer(o, event) ==
  IF Repeats(status[o], event) \/ \E t \in transitions : t[1] = status[o] /\ t[2] = event
  THEN "ok" ELSE status[o]

\* What the call does to the platform.
Tell(o, from) ==
  \E step \in pipeline :
    /\ step[1] = from
    /\ \/ Move(o, step[2], "venue")
       \/ /\ \A t \in transitions : ~(t[1] = status[o] /\ t[2] = step[2])
          /\ UNCHANGED <<platformVars, topic>>
    /\ call' = [order |-> o, from |-> from, answer |-> Answer(o, step[2])]

Call(o, from) ==
  /\ <<o, from>> \in ripe
  /\ call = NoCall
  /\ Tell(o, from)
  /\ UNCHANGED <<consumerVars, kitchenVars, listed, phase, ripe, stop, historyVars>>

\* Mutant: the venue goes on, whatever the answer.
HearOnlyYes(o, from, answer) ==
  \E step \in pipeline : step[1] = from /\ Settle(o, from, step[3])

\* Mutant: a refusal is an error like any other.
HearNoRefusal(o, from, answer) ==
  IF answer = "ok" THEN \E step \in pipeline : step[1] = from /\ Settle(o, from, step[3])
  ELSE UNCHANGED kitchenVars

\* Advance writes down the step that was agreed to, or else (resync) where the
\* platform says the order is.
Hear(o, from, answer) ==
  IF answer = "ok" THEN \E step \in pipeline : step[1] = from /\ Settle(o, from, step[3])
  ELSE IF StateOf(answer) = from THEN UNCHANGED kitchenVars
  ELSE Settle(o, from, StateOf(answer))

Advance ==
  /\ call # NoCall
  /\ Hear(call.order, call.from, call.answer)
  /\ ripe' = ripe \ {<<call.order, call.from>>}
  /\ call' = NoCall
  /\ UNCHANGED <<platformVars, topic, consumerVars, listed, phase, stop, historyVars>>

\* Mutant: the venue writes down what it is about to tell.
WriteBeforeTelling ==
  /\ phase = "orders"
  /\ ripe = {}
  /\ LET inStock == stock > 0 IN
       /\ phase' = IF inStock = listed THEN "idle" ELSE "stop list"
       /\ stop' = inStock
       /\ listed' = inStock
  /\ UNCHANGED <<platformVars, topic, consumerVars, kitchenVars, ripe, call, historyVars>>

\* SyncStopList reads the dish, tells the platform what has changed about it...
ReadDishes ==
  /\ phase = "orders"
  /\ ripe = {}
  /\ LET inStock == stock > 0 IN
       /\ phase' = IF inStock = listed THEN "idle" ELSE "stop list"
       /\ stop' = inStock
  /\ UNCHANGED <<platformVars, topic, consumerVars, kitchenVars, listed, ripe, call, historyVars>>

SetItemAvailability ==
  /\ phase = "stop list"
  /\ phase' = "told"
  /\ onSale' = stop
  /\ UNCHANGED <<status, qty, sellable, agreed, topic, consumerVars, kitchenVars, listed, ripe,
                 call, stop, historyVars>>

\* ... and writes down what it has told.
SetAvailable ==
  /\ phase = "told"
  /\ phase' = "idle"
  /\ listed' = stop
  /\ unwritten' = FALSE
  /\ UNCHANGED <<platformVars, topic, consumerVars, kitchenVars, ripe, call, stop, faults,
                 restarts, overdrawn, raced>>

\* A call that never arrives, an answer that never does, a statement that fails:
\* the run ends there and the next one starts afresh.
RunFails ==
  /\ phase # "idle"
  /\ Fault
  /\ Rest
  /\ unwritten' = (unwritten \/ phase = "told")
  /\ UNCHANGED <<platformVars, topic, consumerVars, kitchenVars, listed>>

----------------------------------------------------------------------------

\* The process dies with everything in progress; coming up it hands over its
\* menu, with the counts of its own books, before it reads the topic again.
Restart ==
  /\ restarts < MaxRestarts
  /\ restarts' = restarts + 1
  /\ reading' = "NONE"
  /\ Rest
  /\ sellable' = stock
  /\ onSale' = listed
  /\ unwritten' = FALSE
  /\ UNCHANGED <<status, qty, topic, offset, kitchenVars, listed, faults, overdrawn, raced,
                 agreed>>

----------------------------------------------------------------------------

Next ==
  \/ \E o \in OrderIds :
       \/ Place(o)
       \/ OthersMove(o)
       \/ \E from \in States : Call(o, from)
  \/ Receive
  \/ CancelReads
  \/ CancelSettles
  \/ CancelFails
  \/ ReadRipe
  \/ Advance
  \/ ReadDishes
  \/ SetItemAvailability
  \/ SetAvailable
  \/ RunFails
  \/ Restart

Spec == Init /\ [][Next]_vars

\* The consumer and the autopilot work for as long as the service lives, and
\* faults end.  Customers and couriers owe nothing.
Fairness ==
  /\ WF_vars(Receive)
  /\ WF_vars(CancelReads)
  /\ WF_vars(CancelSettles)
  /\ WF_vars(ReadRipe)
  /\ WF_vars(\E o \in OrderIds, from \in States : Call(o, from))
  /\ WF_vars(Advance)
  /\ WF_vars(ReadDishes)
  /\ WF_vars(SetItemAvailability)
  /\ WF_vars(SetAvailable)

FairSpec == Spec /\ Fairness

----------------------------------------------------------------------------
(* Properties *)

\* The kitchen works on an order exactly as far as the platform has agreed to it,
\* or one step less, and throws away no order the platform has not ended: through
\* lost answers, repeated calls and cancellations in between.
KitchenKeepsStep ==
  \A o \in OrderIds :
    /\ state[o] \in Ended => status[o] \in Ended
    /\ state[o] \in States \ Ended => agreed[o] - Position(state[o]) \in {0, 1}

\* What the orders in the books of the venue hold.
InTheBooks == [o \in OrderIds |-> IF state[o] \in Ended \union {"NONE"} THEN 0 ELSE qty[o]]
Held == SumFunctionOnSet(InTheBooks, OrderIds)

\* The dishes of an order are given back once, by whoever takes it out of the
\* kitchen: the consumer, or the autopilot catching up with the platform.
DishesBalance == stock + Held = Portions + overdrawn

\* The two books promise the same portions: no order comes in that the venue
\* cannot serve, unless the venue was restarted with orders on their way to it
\* or a cancellation has lost its race.
NothingIsSoldTwice == overdrawn = 0 \/ restarts > 0 \/ raced

\* No order that the platform has ended stays in the kitchen: what the event
\* about it has missed, the next call of the autopilot finds out.
EndedOrdersLeaveTheKitchen ==
  \A o \in OrderIds : [](status[o] \in Ended => <>[]~Moving(state[o]))

\* Once no more orders come, the platform sells the dish exactly if there is
\* some of it left, whatever failed before it was told.
StopListCatchesUp == <>[](onSale = (stock > 0) \/ unwritten)

----------------------------------------------------------------------------
(* What a comment of the code says and a failure between two steps undoes *)

\* "What the platform was last told is what the venue keeps": whatever fails on
\* the way, in the end a dish is on sale exactly if there is some of it left.
StopListIsNeverLost == <>[](onSale = (stock > 0))

=============================================================================
