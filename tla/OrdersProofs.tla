---------------------------- MODULE OrdersProofs ----------------------------
(***************************************************************************)
(* Proofs about Orders, for any number of customers, requests, items and   *)
(* orders, any bounds and any size of a sweep's batch.                     *)
(***************************************************************************)
EXTENDS Orders, SetSums, SequenceTheorems, TLAPS

----------------------------------------------------------------------------
(* The state machine *)

\* A repeated event is never mistaken for a new one: once an event has moved
\* an order, fsm.go's Next answers the same event with "nothing changed", and
\* no event both moves an order and repeats.
THEOREM RepeatIsSilent ==
  \A t \in transitions : Repeats(t[3], t[2]) /\ ~Repeats(t[1], t[2])
BY DEF transitions, Repeats

\* What the table says, spelled out for the proofs below.
LEMMA TransitionFacts ==
  ASSUME NEW from, NEW event, NEW to, <<from, event, to>> \in transitions
  PROVE  /\ from \in Statuses /\ to \in Statuses /\ event \in Events
         /\ from \notin Ended /\ from # "NONE" /\ from # "DELIVERED"
         /\ to # "CREATED" /\ to # "NONE" /\ to # from
         /\ to \in Ended => from \in {"CREATED", "ACCEPTED"}
BY DEF transitions, Statuses, Events, Ended

----------------------------------------------------------------------------
(* Type correctness *)

LEMMA BasketFacts == Nothing \in Basket
BY OrdersAssumption DEF Nothing, Basket

LEMMA InitTypeOK == Init => TypeOK
<1> SUFFICES ASSUME Init PROVE TypeOK
  OBVIOUS
<1> USE OrdersAssumption, BasketFacts DEF Init
<1>1. /\ isOpen \in BOOLEAN /\ available \in [Items -> BOOLEAN]
      /\ restocks \in 0..MaxRestocks /\ placed \in 0..MaxOrders
      /\ overdue \in 0..MaxOrders
  OBVIOUS
<1>2. stock \in [Items -> Counts]
  BY DEF Counts
<1>3. /\ hasCart \in SUBSET Users
      /\ cart \in [Users -> Basket]
      /\ draft \in [Requests -> Drafts]
      /\ moving \in SUBSET Moves
  BY DEF Drafts
<1>4. /\ owner \in [OrderIds -> Users \union {Nobody}]
      /\ basket \in [OrderIds -> Basket]
      /\ status \in [OrderIds -> Statuses \union {"NONE"}]
      /\ version \in [OrderIds -> Nat]
  OBVIOUS
<1>5. /\ history \in [OrderIds -> Seq(StatusEntry)]
      /\ toVenue \in [OrderIds -> Seq(VenueMessage)]
      /\ toStatus \in [OrderIds -> Seq(StatusMessage)]
  OBVIOUS
<1>6. reaping \in SUBSET OrderIds /\ driving \in SUBSET OrderIds
  OBVIOUS
<1> QED BY <1>1, <1>2, <1>3, <1>4, <1>5, <1>6 DEF TypeOK

\* What a basket takes from a count, and what comes back to it, is a count.
LEMMA CountFacts ==
  ASSUME TypeOK, NEW qty \in Basket
  PROVE  /\ [i \in Items |-> More(stock[i], qty[i])] \in [Items -> Counts]
         /\ Reservable(qty) => [i \in Items |-> Less(stock[i], qty[i])] \in [Items -> Counts]
<1> USE OrdersAssumption
<1>1. ASSUME NEW i \in Items
      PROVE  /\ stock[i] \in Counts /\ qty[i] \in Nat
             /\ stock[i] # Uncounted => stock[i] \in Nat
  BY DEF TypeOK, Counts, Basket
<1>2. ASSUME NEW i \in Items PROVE More(stock[i], qty[i]) \in Counts
  BY <1>1 DEF More, Counts
<1>3. ASSUME Reservable(qty), NEW i \in Items PROVE Less(stock[i], qty[i]) \in Counts
  <2>1. CASE stock[i] = Uncounted
    BY <2>1 DEF Less, Counts
  <2>2. CASE stock[i] # Uncounted
    <3>1. qty[i] > 0 => stock[i] >= qty[i]
      BY <1>3, <2>2 DEF Reservable, Covers, Held
    <3>2. stock[i] - qty[i] \in Nat
      BY <1>1, <2>2, <3>1
    <3> QED BY <2>2, <3>2 DEF Less, Counts
  <2> QED BY <2>1, <2>2
<1> QED BY <1>2, <1>3


----------------------------------------------------------------------------
(* What a step can be *)

\* The calls that move an order, and who makes them; the platform moves orders
\* by its sweeps.
Calls ==
  {<<"cancel", "customer">>, <<"accept", "venue">>, <<"reject", "venue">>,
   <<"start", "venue">>, <<"ready", "venue">>, <<"handover", "venue">>}

Commands == Calls \union {<<"reject", "system">>, <<"deliver", "system">>}

\* An order is moved by one such call; the reaper rejects only an order that is
\* still CREATED under its lock.
Commanded(o, event, to, actor) ==
  /\ <<event, actor>> \in Commands
  /\ <<status[o], event, to>> \in transitions
  /\ actor = "system" /\ event = "reject" => status[o] = "CREATED"
  /\ Apply(o, status[o], to, actor)

AnyCommand == \E o \in OrderIds, event \in Events, to \in Statuses, actor \in Actors :
                Commanded(o, event, to, actor)

\* What a move under way has read still stands, because it alone holds the row
\* of its order, and so what it has decided is still the right thing to write.
Stands(m) ==
  /\ m.from = status[m.order]
  /\ \E event \in Events :
       <<event, m.actor>> \in Calls /\ <<m.from, event, m.to>> \in transitions
  /\ \A n \in moving : n.order = m.order => n = m

MovesStand == \A m \in moving : Stands(m)

\* A sweep moves an order nobody holds.
Swept(o, event) == OrderIsFree(o) /\ \E to \in Statuses : Commanded(o, event, to, "system")

LEMMA SweepIsCommanded ==
  ASSUME NEW o \in OrderIds
  PROVE  /\ Reap(o) => Swept(o, "reject") /\ UNCHANGED moving
         /\ Deliver(o) => Swept(o, "deliver") /\ UNCHANGED moving
<1>1. ASSUME Reap(o) PROVE Swept(o, "reject") /\ UNCHANGED moving
  BY <1>1 DEF Reap, Move, Swept, Commanded, Commands
<1>2. ASSUME Deliver(o) PROVE Swept(o, "deliver") /\ UNCHANGED moving
  BY <1>2 DEF Deliver, Move, Swept, Commanded, Commands
<1> QED BY <1>1, <1>2

\* A call that decides: which one, and what it leaves under way.
Decides(o, event, actor, to) ==
  /\ <<event, actor>> \in Calls
  /\ OrderIsFree(o)
  /\ <<status[o], event, to>> \in transitions
  /\ moving' = moving \union
       {[order |-> o, from |-> status[o], to |-> to, actor |-> actor]}
  /\ UNCHANGED <<menuVars, cartVars, draft, orderVars, sweepVars>>

AnyDecision == \E o \in OrderIds, event \in Events, actor \in Actors, to \in Statuses :
                 Decides(o, event, actor, to)

LEMMA CallDecides ==
  ASSUME NEW o \in OrderIds, NEW event, NEW actor, <<event, actor>> \in Calls,
         Decide(o, event, actor)
  PROVE  AnyDecision
<1>1. event \in Events /\ actor \in Actors
  BY DEF Calls, Events, Actors
<1>2. \E to \in Statuses : Decides(o, event, actor, to)
  BY DEF Decide, Decides
<1> QED BY <1>1, <1>2 DEF AnyDecision

\* A step by which customers and venues move orders.
LEMMA MoveKinds ==
  ASSUME MoveStep
  PROVE  AnyDecision \/ \E m \in moving : Finish(m) \/ MoveFails(m)
<1> PICK o \in OrderIds : \/ Cancel(o) \/ Accept(o) \/ Reject(o) \/ StartCooking(o)
                          \/ MarkReady(o) \/ Handover(o) \/ EndOfMove(o)
  BY DEF MoveStep
<1>1. CASE Cancel(o)
  BY <1>1, CallDecides DEF Cancel, Calls
<1>2. CASE Accept(o)
  BY <1>2, CallDecides DEF Accept, Calls
<1>3. CASE Reject(o)
  BY <1>3, CallDecides DEF Reject, Calls
<1>4. CASE StartCooking(o)
  BY <1>4, CallDecides DEF StartCooking, Calls
<1>5. CASE MarkReady(o)
  BY <1>5, CallDecides DEF MarkReady, Calls
<1>6. CASE Handover(o)
  BY <1>6, CallDecides DEF Handover, Calls
<1>7. CASE EndOfMove(o)
  BY <1>7 DEF EndOfMove
<1> QED BY <1>1, <1>2, <1>3, <1>4, <1>5, <1>6, <1>7

\* A step of the sweeps.
LEMMA SweepKinds ==
  ASSUME SweepStep
  PROVE  \/ UNCHANGED <<menuVars, cartVars, openVars, orderVars>>
         \/ UNCHANGED moving /\ \E o \in OrderIds, event \in Events : Swept(o, event)
<1>1. CASE TimePasses \/ StaleUnaccepted \/ StaleDelivering \/ ReaperFails \/ CourierFails
  BY <1>1 DEF TimePasses, StaleUnaccepted, StaleDelivering, ReaperFails, CourierFails
<1>2. ASSUME NEW o \in OrderIds, Reap(o) \/ Deliver(o)
      PROVE  UNCHANGED moving /\ \E event \in Events : Swept(o, event)
  BY <1>2, SweepIsCommanded DEF Events
<1>3. ASSUME NEW o \in OrderIds, ReapMisses(o) \/ DeliverMisses(o)
      PROVE  UNCHANGED <<menuVars, cartVars, openVars, orderVars>>
  BY <1>3 DEF ReapMisses, DeliverMisses
<1> QED BY <1>1, <1>2, <1>3 DEF SweepStep

\* A move that still stands is the command it was decided as.
LEMMA FinishIsCommanded ==
  ASSUME TypeOK, MovesStand, NEW m \in moving, Finish(m)
  PROVE  AnyCommand
<1>1. /\ m \in Moves
      /\ m.order \in OrderIds /\ m.to \in Statuses /\ m.actor \in Actors
  BY DEF TypeOK, Moves
<1>2. PICK event \in Events :
        <<event, m.actor>> \in Calls /\ <<m.from, event, m.to>> \in transitions
  BY DEF MovesStand, Stands
<1>3. m.from = status[m.order] /\ m.actor # "system"
  BY <1>2 DEF MovesStand, Stands, Calls
<1>4. <<event, m.actor>> \in Commands
  BY <1>2 DEF Commands
<1>5. Commanded(m.order, event, m.to, m.actor)
  BY <1>2, <1>3, <1>4 DEF Commanded, Finish
<1> QED BY <1>1, <1>5 DEF AnyCommand

LEMMA SweptIsCommand ==
  ASSUME NEW o \in OrderIds, NEW event \in Events, Swept(o, event)
  PROVE  AnyCommand
BY DEF Swept, AnyCommand, Actors

\* Whatever the step, the orders are left alone, or one is placed, or one is
\* moved by one of the commands.
LEMMA StepKinds ==
  ASSUME TypeOK, MovesStand, [Next]_vars
  PROVE  UNCHANGED orderVars \/ (\E r \in Requests : Place(r)) \/ AnyCommand
<1>1. CASE UNCHANGED vars
  BY <1>1 DEF vars
<1>2. CASE VenueStep
  BY <1>2 DEF VenueStep, SetShift, PatchItem, SyncMenu
<1>3. CASE CartStep
  BY <1>3 DEF CartStep, PutIntoCart, RemoveFromCart, ClearCart
<1>4. CASE PlacementStep
  BY <1>4 DEF PlacementStep, LockNothing, Draft, Abandon
<1>5. CASE MoveStep
  <2>1. CASE AnyDecision
    BY <2>1 DEF AnyDecision, Decides
  <2>2. ASSUME NEW m \in moving, Finish(m) PROVE AnyCommand
    BY <2>2, FinishIsCommanded
  <2>3. ASSUME NEW m \in moving, MoveFails(m) PROVE UNCHANGED orderVars
    BY <2>3 DEF MoveFails
  <2> QED BY <1>5, <2>1, <2>2, <2>3, MoveKinds
<1>6. CASE SweepStep
  BY <1>6, SweepKinds, SweptIsCommand
<1> QED BY <1>1, <1>2, <1>3, <1>4, <1>5, <1>6 DEF Next

----------------------------------------------------------------------------
(* Every step keeps the types *)

OrdersTyped ==
  /\ placed \in 0..MaxOrders
  /\ owner \in [OrderIds -> Users \union {Nobody}]
  /\ basket \in [OrderIds -> Basket]
  /\ status \in [OrderIds -> Statuses \union {"NONE"}]
  /\ version \in [OrderIds -> Nat]
  /\ history \in [OrderIds -> Seq(StatusEntry)]
  /\ toVenue \in [OrderIds -> Seq(VenueMessage)]
  /\ toStatus \in [OrderIds -> Seq(StatusMessage)]

ShopTyped ==
  /\ isOpen \in BOOLEAN
  /\ available \in [Items -> BOOLEAN]
  /\ stock \in [Items -> Counts]
  /\ restocks \in 0..MaxRestocks
  /\ hasCart \in SUBSET Users
  /\ cart \in [Users -> Basket]
  /\ draft \in [Requests -> Drafts]
  /\ moving \in SUBSET Moves

SweepsTyped ==
  /\ overdue \in 0..MaxOrders
  /\ reaping \in SUBSET OrderIds
  /\ driving \in SUBSET OrderIds

LEMMA TypeOKParts == TypeOK <=> OrdersTyped /\ ShopTyped /\ SweepsTyped
BY DEF TypeOK, OrdersTyped, ShopTyped, SweepsTyped

\* A placed order is an order like any other, and a draft becomes nothing.
LEMMA PlaceTypes ==
  ASSUME TypeOK, NEW r \in Requests, Place(r)
  PROVE  OrdersTyped' /\ ShopTyped'
<1> USE OrdersAssumption
<1> DEFINE o == placed + 1
           d == draft[r]
           entry == [from |-> "NONE", to |-> "CREATED", actor |-> "customer"]
           message == [type |-> "order.created", version |-> 1]
<1>1. o \in OrderIds /\ o \in 0..MaxOrders
  BY DEF Place, CreateOrder, TypeOK, OrderIds
<1>2. d.user \in Users /\ d.basket \in Basket
  BY DEF Place, CreateOrder, TypeOK, Drafts, NoDraft
<1>4. entry \in StatusEntry /\ message \in VenueMessage
  BY DEF StatusEntry, VenueMessage, Statuses, Actors
<1>5. <<entry>> \in Seq(StatusEntry) /\ <<message>> \in Seq(VenueMessage)
  BY <1>4
<1>6. OrdersTyped'
  <2>1. placed' \in 0..MaxOrders /\ owner' \in [OrderIds -> Users \union {Nobody}]
    BY <1>1, <1>2 DEF Place, CreateOrder, TypeOK
  <2>2. basket' \in [OrderIds -> Basket]
    BY <1>1, <1>2 DEF Place, CreateOrder, TypeOK
  <2>3. /\ status' \in [OrderIds -> Statuses \union {"NONE"}]
        /\ version' \in [OrderIds -> Nat]
    BY <1>1 DEF Place, CreateOrder, TypeOK, Statuses
  <2>4. history' \in [OrderIds -> Seq(StatusEntry)]
    BY <1>1, <1>5 DEF Place, CreateOrder, TypeOK
  <2>5. toVenue' \in [OrderIds -> Seq(VenueMessage)]
    BY <1>1, <1>5 DEF Place, CreateOrder, TypeOK
  <2>6. toStatus' \in [OrderIds -> Seq(StatusMessage)]
    BY DEF Place, CreateOrder, TypeOK
  <2> QED BY <2>1, <2>2, <2>3, <2>4, <2>5, <2>6 DEF OrdersTyped
<1>7. ShopTyped'
  <2>1. stock' \in [Items -> Counts]
    BY <1>2, CountFacts DEF Place
  <2>2. cart' \in [Users -> Basket]
    BY <1>2, BasketFacts DEF Place, ClearsItsCart, TypeOK
  <2>3. draft' \in [Requests -> Drafts]
    BY DEF Place, TypeOK, Drafts
  <2>4. hasCart' \in SUBSET Users /\ moving' \in SUBSET Moves
    BY DEF Place, ClearsItsCart, TypeOK
  <2> QED BY <2>1, <2>2, <2>3, <2>4 DEF ShopTyped, Place, TypeOK
<1> QED BY <1>6, <1>7

\* A moved order is an order like any other.
LEMMA ApplyTypes ==
  ASSUME TypeOK, NEW o \in OrderIds, NEW from \in Statuses, NEW to \in Statuses,
         NEW actor \in Actors, Apply(o, from, to, actor), moving' \subseteq moving
  PROVE  OrdersTyped' /\ ShopTyped'
<1> USE OrdersAssumption
<1>1. [from |-> from, to |-> to, actor |-> actor] \in StatusEntry
  BY DEF StatusEntry
<1>2. StatusChanged(o, to) \in StatusMessage
  <2>1. Len(history[o]) \in Nat
    BY DEF TypeOK
  <2> QED BY <2>1 DEF StatusChanged, StatusMessage, TypeOK
<1>3. OrderCancelled(o) \in VenueMessage
  BY DEF OrderCancelled, VenueMessage, TypeOK
<1>4. OrdersTyped'
  <2>1. /\ status' \in [OrderIds -> Statuses \union {"NONE"}]
        /\ version' \in [OrderIds -> Nat]
    BY DEF Apply, ApplyStatus, TypeOK
  <2>2. history' \in [OrderIds -> Seq(StatusEntry)]
    BY <1>1 DEF Apply, ApplyStatus, TypeOK
  <2>3. toVenue' \in [OrderIds -> Seq(VenueMessage)]
    BY <1>3 DEF Apply, ApplyStatus, TypeOK
  <2>4. toStatus' \in [OrderIds -> Seq(StatusMessage)]
    BY <1>2 DEF Apply, ApplyStatus, TypeOK
  <2> QED BY <2>1, <2>2, <2>3, <2>4 DEF OrdersTyped, Apply, ApplyStatus, TypeOK
<1>5. ShopTyped'
  <2>1. stock' \in [Items -> Counts]
    <3>1. basket[o] \in Basket
      BY DEF TypeOK
    <3>2. Returned(o) \in [Items -> Counts]
      BY <3>1, CountFacts DEF Returned
    <3> QED BY <3>2 DEF Apply, TypeOK
  <2> QED BY <2>1 DEF ShopTyped, Apply, TypeOK, cartVars
<1> QED BY <1>4, <1>5

\* The lists of the sweeps are lists of orders.
LEMMA SweepTypes ==
  ASSUME TypeOK, MoveStep \/ SweepStep
  PROVE  SweepsTyped'
<1> USE DEF SweepsTyped
<1>1. SweepsTyped
  BY DEF TypeOK
<1>2. CASE MoveStep
  BY <1>1, <1>2, MoveKinds DEF AnyDecision, Decides, Finish, MoveFails, sweepVars
<1>3. CASE TimePasses
  BY <1>3, OrdersAssumption DEF TimePasses, TypeOK
<1>4. CASE StaleUnaccepted
  <2>1. Late \subseteq OrderIds
    BY OrdersAssumption DEF Late, TypeOK, OrderIds
  <2>2. reaping' \subseteq Late /\ UNCHANGED <<overdue, driving>>
    BY <1>4 DEF StaleUnaccepted
  <2> QED BY <1>1, <2>1, <2>2
<1>5. CASE StaleDelivering
  <2>1. driving' \subseteq OrderIds /\ UNCHANGED <<overdue, reaping>>
    BY <1>5 DEF StaleDelivering
  <2> QED BY <1>1, <2>1
<1>6. CASE ReaperFails \/ CourierFails
  BY <1>1, <1>6 DEF ReaperFails, CourierFails
<1>7. ASSUME NEW o \in OrderIds, Reap(o) \/ ReapMisses(o) \/ Deliver(o) \/ DeliverMisses(o)
      PROVE  SweepsTyped'
  BY <1>1, <1>7 DEF Reap, ReapMisses, Deliver, DeliverMisses
<1> QED BY <1>2, <1>3, <1>4, <1>5, <1>6, <1>7 DEF SweepStep

LEMMA NextTypeOK ==
  ASSUME TypeOK, [Next]_vars
  PROVE  TypeOK'
<1> USE OrdersAssumption
<1>1. CASE UNCHANGED vars
  BY <1>1 DEF vars, menuVars, cartVars, openVars, orderVars, sweepVars, TypeOK
<1>2. CASE VenueStep
  <2>1. ASSUME NEW open \in BOOLEAN, SetShift(open) PROVE TypeOK'
    BY <2>1 DEF SetShift, TypeOK, cartVars, openVars, orderVars, sweepVars
  <2>2. ASSUME NEW i \in Items, PatchItem(i) PROVE TypeOK'
    <3>1. available' \in [Items -> BOOLEAN]
      BY <2>2 DEF PatchItem, TypeOK
    <3>2. restocks' \in 0..MaxRestocks
      BY <2>2 DEF PatchItem, TypeOK
    <3>4. stock' \in [Items -> Counts]
      <4>1. \/ stock' = stock
            \/ \E n \in 0..MaxStock : stock' = [stock EXCEPT ![i] = n]
        BY <2>2 DEF PatchItem
      <4>2. ASSUME NEW n \in 0..MaxStock, stock' = [stock EXCEPT ![i] = n]
            PROVE  stock' \in [Items -> Counts]
        BY <4>2 DEF TypeOK, Counts
      <4> QED BY <4>1, <4>2 DEF TypeOK
    <3>3. UNCHANGED <<isOpen, cartVars, openVars, orderVars, sweepVars>>
      BY <2>2 DEF PatchItem
    <3> QED BY <3>1, <3>2, <3>3, <3>4 DEF TypeOK, cartVars, openVars, orderVars, sweepVars
  <2>3. CASE SyncMenu
    <3>1. available' \in [Items -> BOOLEAN] /\ restocks' \in 0..MaxRestocks
      BY <2>3 DEF SyncMenu, TypeOK
    <3>2. stock' \in [Items -> Counts]
      <4> PICK named \in SUBSET Items :
            \E count \in [named -> 0..MaxStock \union {Uncounted}] :
              stock' = [i \in Items |-> IF i \in named THEN count[i] ELSE stock[i]]
        BY <2>3 DEF SyncMenu
      <4> QED BY DEF TypeOK, Counts
    <3> QED BY <2>3, <3>1, <3>2 DEF SyncMenu, TypeOK, cartVars, openVars, orderVars, sweepVars
  <2> QED BY <1>2, <2>1, <2>2, <2>3 DEF VenueStep
<1>3. CASE CartStep
  <2> PICK u \in Users : \/ \E i \in Items : PutIntoCart(u, i) \/ RemoveFromCart(u, i)
                         \/ ClearCart(u)
    BY <1>3 DEF CartStep
  <2>1. cart' \in [Users -> Basket]
    <3>1. ASSUME NEW i \in Items, NEW n \in 0..MaxQty, cart' = [cart EXCEPT ![u][i] = n]
          PROVE  cart' \in [Users -> Basket]
      <4>1. [cart[u] EXCEPT ![i] = n] \in Basket
        BY DEF TypeOK, Basket
      <4> QED BY <3>1, <4>1 DEF TypeOK
    <3>2. ASSUME cart' = [cart EXCEPT ![u] = Nothing] PROVE cart' \in [Users -> Basket]
      BY <3>2, BasketFacts DEF TypeOK
    <3> QED BY <3>1, <3>2 DEF PutIntoCart, RemoveFromCart, ClearCart
  <2> QED BY <2>1 DEF PutIntoCart, RemoveFromCart, ClearCart, TypeOK, menuVars,
                      openVars, orderVars, sweepVars
<1>4. CASE PlacementStep
  <2> PICK r \in Requests : \/ \E u \in Users : LockNothing(r, u) \/ Draft(r, u)
                            \/ Place(r)
                            \/ Abandon(r)
    BY <1>4 DEF PlacementStep
  <2>1. ASSUME NEW u \in Users, LockNothing(r, u) \/ Draft(r, u) PROVE TypeOK'
    <3>1. \E d \in Drafts : draft' = [draft EXCEPT ![r] = d]
      BY <2>1, BasketFacts DEF LockNothing, Draft, Drafts, TypeOK
    <3>2. UNCHANGED <<menuVars, cartVars, moving, orderVars, sweepVars>>
      BY <2>1 DEF LockNothing, Draft
    <3> QED BY <3>1, <3>2 DEF TypeOK, menuVars, cartVars, orderVars, sweepVars
  <2>2. CASE Place(r)
    <3>1. SweepsTyped'
      BY <2>2 DEF Place, SweepsTyped, TypeOK, sweepVars
    <3>2. OrdersTyped' /\ ShopTyped'
      BY <2>2, PlaceTypes
    <3> QED BY <3>1, <3>2 DEF TypeOK, OrdersTyped, ShopTyped, SweepsTyped
  <2>3. CASE Abandon(r)
    BY <2>3 DEF Abandon, TypeOK, Drafts, menuVars, cartVars, orderVars, sweepVars
  <2> QED BY <2>1, <2>2, <2>3
<1>5. ASSUME UNCHANGED <<menuVars, cartVars, draft, orderVars>>, moving' \in SUBSET Moves
      PROVE  OrdersTyped' /\ ShopTyped'
  BY <1>5 DEF OrdersTyped, ShopTyped, TypeOK, menuVars, cartVars, orderVars
<1>6. CASE MoveStep
  <2>1. SweepsTyped'
    BY <1>6, SweepTypes
  <2>2. CASE AnyDecision
    <3> PICK o \in OrderIds, event \in Events, actor \in Actors, to \in Statuses :
          Decides(o, event, actor, to)
      BY <2>2 DEF AnyDecision
    <3>1. status[o] \in Statuses
      BY TransitionFacts DEF Decides
    <3>2. [order |-> o, from |-> status[o], to |-> to, actor |-> actor] \in Moves
      BY <3>1 DEF Moves
    <3>3. moving' \in SUBSET Moves
      BY <3>2 DEF Decides, TypeOK
    <3>4. OrdersTyped' /\ ShopTyped'
      BY <1>5, <3>3 DEF Decides
    <3> QED BY <2>1, <3>4 DEF TypeOK, OrdersTyped, ShopTyped, SweepsTyped
  <2>3. ASSUME NEW m \in moving, Finish(m) PROVE TypeOK'
    <3>1. /\ m.order \in OrderIds /\ m.from \in Statuses
          /\ m.to \in Statuses /\ m.actor \in Actors
      BY DEF TypeOK, Moves
    <3>2. OrdersTyped' /\ ShopTyped'
      BY <2>3, <3>1, ApplyTypes DEF Finish
    <3> QED BY <2>1, <3>2 DEF TypeOK, OrdersTyped, ShopTyped, SweepsTyped
  <2>4. ASSUME NEW m \in moving, MoveFails(m) PROVE TypeOK'
    <3>1. OrdersTyped' /\ ShopTyped'
      BY <1>5, <2>4 DEF MoveFails, TypeOK
    <3> QED BY <2>1, <3>1 DEF TypeOK, OrdersTyped, ShopTyped, SweepsTyped
  <2> QED BY <1>6, <2>2, <2>3, <2>4, MoveKinds
<1>7. CASE SweepStep
  <2>1. SweepsTyped'
    BY <1>7, SweepTypes
  <2>2. ASSUME UNCHANGED <<menuVars, cartVars, openVars, orderVars>>
        PROVE  OrdersTyped' /\ ShopTyped'
    BY <1>5, <2>2 DEF openVars, TypeOK
  <2>3. ASSUME UNCHANGED moving, NEW o \in OrderIds, NEW event \in Events, Swept(o, event)
        PROVE  OrdersTyped' /\ ShopTyped'
    <3> PICK to \in Statuses : Commanded(o, event, to, "system")
      BY <2>3 DEF Swept
    <3>1. status[o] \in Statuses
      BY TransitionFacts DEF Commanded
    <3> QED BY <2>3, <3>1, ApplyTypes DEF Commanded, Actors
  <2> QED BY <1>7, <2>1, <2>2, <2>3, SweepKinds DEF TypeOK, OrdersTyped, ShopTyped, SweepsTyped
<1> QED BY <1>1, <1>2, <1>3, <1>4, <1>6, <1>7 DEF Next

\* The tables hold what their columns can hold: no count of portions ever goes
\* below zero, whatever placements, returns and recounts do to it together.
THEOREM TypeCorrect == Spec => []TypeOK
<1>1. Init => TypeOK
  BY InitTypeOK
<1>2. TypeOK /\ [Next]_vars => TypeOK'
  BY NextTypeOK
<1> QED BY <1>1, <1>2, PTL DEF Spec

----------------------------------------------------------------------------
(* The inductive invariant *)

\* The orders that exist are the numbers given out.
Numbered == \A o \in OrderIds : status[o] = "NONE" <=> o \notin 1..placed

\* What was written of an order is only right because the state of the order
\* and everything told of it have moved together so far.
IInv ==
  /\ TypeOK
  /\ Numbered
  /\ MovesStand
  /\ HistoryIsTheLife
  /\ StatusEventsTellTheHistory
  /\ VenueIsToldOnce

\* The invariants, said of what is kept of one order: the number of its entries
\* `v', its status `s', its history `h', its status events `es', and the
\* messages `w' to its venue.
WalkOf(v, s, h) ==
  /\ v = Len(h)
  /\ Len(h) = 0 <=> s = "NONE"
  /\ Len(h) > 0 => /\ s = h[Len(h)].to
                   /\ h[1] = [from |-> "NONE", to |-> "CREATED", actor |-> "customer"]
  /\ \A k \in 2..Len(h) : h[k].from = h[k - 1].to /\ Moved(h[k])

EventsOf(h, es) ==
  /\ Len(h) > 0 => Len(es) = Len(h) - 1
  /\ Len(h) = 0 => es = <<>>
  /\ \A k \in 1..Len(es) : es[k] = [to |-> h[k + 1].to, seq |-> k + 1, version |-> k + 1]

MessagesOf(exists, v, s, h, w) ==
  /\ ~exists => w = <<>>
  /\ exists => Len(w) \in 1..2 /\ w[1] = [type |-> "order.created", version |-> 1]
  /\ Len(w) = 2 => w[2] = [type |-> "order.cancelled", version |-> v]
  /\ exists => (Len(w) = 2 <=> s \in Ended /\ h[Len(h)].actor # "venue")

OrderOK(exists, v, s, h, es, w) ==
  /\ s = "NONE" <=> ~exists
  /\ WalkOf(v, s, h)
  /\ EventsOf(h, es)
  /\ MessagesOf(exists, v, s, h, w)

OrdersOK == \A o \in OrderIds :
  OrderOK(o \in 1..placed, version[o], status[o], history[o], toStatus[o], toVenue[o])

LEMMA OneByOne ==
  OrdersOK <=> /\ Numbered
               /\ HistoryIsTheLife
               /\ StatusEventsTellTheHistory
               /\ VenueIsToldOnce
BY DEF OrdersOK, OrderOK, WalkOf, EventsOf, MessagesOf, Numbered, HistoryIsTheLife,
       StatusEventsTellTheHistory, VenueIsToldOnce

LEMMA InitOrdersOK == Init => OrdersOK
BY DEF Init, OrdersOK, OrderOK, WalkOf, EventsOf, MessagesOf, OrderIds

\* What a placement writes.
LEMMA NewOrder ==
  OrderOK(TRUE, 1, "CREATED",
          <<[from |-> "NONE", to |-> "CREATED", actor |-> "customer"]>>,
          <<>>, <<[type |-> "order.created", version |-> 1]>>)
<1> DEFINE h == <<[from |-> "NONE", to |-> "CREATED", actor |-> "customer"]>>
           w == <<[type |-> "order.created", version |-> 1]>>
<1>1. /\ Len(h) = 1 /\ h[1] = [from |-> "NONE", to |-> "CREATED", actor |-> "customer"]
      /\ Len(w) = 1 /\ w[1] = [type |-> "order.created", version |-> 1]
  OBVIOUS
<1> HIDE DEF h, w
<1>2. WalkOf(1, "CREATED", h)
  BY <1>1 DEF WalkOf
<1>3. EventsOf(h, <<>>)
  BY <1>1 DEF EventsOf
<1>4. MessagesOf(TRUE, 1, "CREATED", h, w)
  BY <1>1 DEF MessagesOf, Ended
<1>5. OrderOK(TRUE, 1, "CREATED", h, <<>>, w)
  BY <1>2, <1>3, <1>4 DEF OrderOK
<1> QED BY <1>5 DEF h, w

\* What a move adds: one entry, one version and one event together, and a
\* message to the venue when somebody else ends the order.
LEMMA MovedOrder ==
  ASSUME NEW v, NEW s \in Statuses, NEW h \in Seq(StatusEntry),
         NEW es \in Seq(StatusMessage), NEW w \in Seq(VenueMessage),
         OrderOK(TRUE, v, s, h, es, w),
         NEW event, NEW to \in Statuses, NEW actor \in Actors,
         <<s, event, to>> \in transitions
  PROVE  OrderOK(TRUE, v + 1, to,
                 Append(h, [from |-> s, to |-> to, actor |-> actor]),
                 Append(es, [to |-> to, seq |-> Len(h) + 1, version |-> v + 1]),
                 IF TellsVenue(to, actor)
                 THEN Append(w, [type |-> "order.cancelled", version |-> v + 1]) ELSE w)
<1> DEFINE n == Len(h)
           entry == [from |-> s, to |-> to, actor |-> actor]
           told == [to |-> to, seq |-> n + 1, version |-> v + 1]
           over == [type |-> "order.cancelled", version |-> v + 1]
           H == Append(h, entry)
           E == Append(es, told)
           W == IF TellsVenue(to, actor) THEN Append(w, over) ELSE w
<1>1. /\ s \notin Ended /\ s # "NONE" /\ to # "NONE" /\ event \in Events
  BY TransitionFacts
<1>2. n \in Nat /\ n > 0 /\ v = n
  BY <1>1 DEF OrderOK, WalkOf
<1>3. Len(es) = n - 1 /\ n - 1 \in Nat
  BY <1>2 DEF OrderOK, EventsOf
<1>4. Len(w) = 1 /\ w[1] = [type |-> "order.created", version |-> 1]
  BY <1>1 DEF OrderOK, MessagesOf
<1>5. Len(H) = n + 1 /\ H[n + 1] = entry /\ \A k \in 1..n : H[k] = h[k]
  BY <1>2
<1>6. Len(E) = n /\ E[n] = told /\ \A k \in 1..(n - 1) : E[k] = es[k]
  BY <1>3
<1>7. /\ TellsVenue(to, actor) => Len(W) = 2 /\ W[1] = w[1] /\ W[2] = over
      /\ ~TellsVenue(to, actor) => W = w
  <2>1. over \in VenueMessage
    BY <1>2 DEF VenueMessage
  <2> HIDE DEF over
  <2>2. Len(w) = 1
    BY <1>4
  <2>3. Len(Append(w, over)) = 2 /\ Append(w, over)[1] = w[1] /\ Append(w, over)[2] = over
    <3> DEFINE q == Append(w, over)
    <3>1. /\ Len(q) = Len(w) + 1 /\ q[Len(w) + 1] = over
          /\ \A k \in 1..Len(w) : q[k] = w[k]
      BY <2>1, AppendProperties
    <3> HIDE DEF q
    <3>2. Len(q) = 2 /\ q[1] = w[1] /\ q[2] = over
      BY <2>2, <3>1
    <3> QED BY <3>2 DEF q
  <2> QED BY <2>3
<1>8. Moved(entry)
  BY <1>1 DEF Moved
<1> HIDE DEF H, E, W
<1>9. WalkOf(v + 1, to, H)
  <2>1. ASSUME NEW k \in 2..(n + 1) PROVE H[k].from = H[k - 1].to /\ Moved(H[k])
    <3>1. CASE k = n + 1
      <4>1. H[k - 1] = h[n] /\ h[n].to = s
        BY <1>2, <1>5, <3>1 DEF OrderOK, WalkOf
      <4> QED BY <1>5, <1>8, <3>1, <4>1
    <3>2. CASE k \in 2..n
      <4>1. H[k] = h[k] /\ H[k - 1] = h[k - 1]
        BY <1>2, <1>5, <3>2
      <4> QED BY <3>2, <4>1 DEF OrderOK, WalkOf
    <3> QED BY <1>2, <3>1, <3>2
  <2>2. H[1] = [from |-> "NONE", to |-> "CREATED", actor |-> "customer"]
    BY <1>2, <1>5 DEF OrderOK, WalkOf
  <2> QED BY <1>1, <1>2, <1>5, <2>1, <2>2 DEF WalkOf
<1>10. EventsOf(H, E)
  <2>1. ASSUME NEW k \in 1..n
        PROVE  E[k] = [to |-> H[k + 1].to, seq |-> k + 1, version |-> k + 1]
    <3>1. CASE k = n
      BY <1>2, <1>5, <1>6, <3>1
    <3>2. CASE k \in 1..(n - 1)
      <4>1. E[k] = es[k] /\ H[k + 1] = h[k + 1]
        BY <1>2, <1>5, <1>6, <3>2
      <4>2. es[k] = [to |-> h[k + 1].to, seq |-> k + 1, version |-> k + 1]
        BY <1>3, <3>2 DEF OrderOK, EventsOf
      <4> QED BY <4>1, <4>2
    <3> QED BY <1>2, <3>1, <3>2
  <2> QED BY <1>2, <1>5, <1>6, <2>1 DEF EventsOf
<1>11. MessagesOf(TRUE, v + 1, to, H, W)
  <2>1. TellsVenue(to, actor) <=> to \in Ended /\ H[Len(H)].actor # "venue"
    BY <1>2, <1>5 DEF TellsVenue, ReturnsStock, Ended
  <2>2. CASE TellsVenue(to, actor)
    <3>1. /\ Len(W) = 2 /\ Len(W) \in 1..2 /\ W[2] = over
          /\ W[1] = [type |-> "order.created", version |-> 1]
      BY <1>4, <1>7, <2>2
    <3> QED BY <2>1, <2>2, <3>1 DEF MessagesOf
  <2>3. CASE ~TellsVenue(to, actor)
    <3>1. /\ Len(W) = 1 /\ Len(W) \in 1..2 /\ Len(W) # 2
          /\ W[1] = [type |-> "order.created", version |-> 1]
      BY <1>4, <1>7, <2>3
    <3> QED BY <2>1, <2>3, <3>1 DEF MessagesOf
  <2> QED BY <2>2, <2>3
<1>12. OrderOK(TRUE, v + 1, to, H, E, W)
  BY <1>1, <1>9, <1>10, <1>11 DEF OrderOK
<1> QED BY <1>12 DEF H, E, W

LEMMA InitIInv == Init => IInv
<1>1. Init => MovesStand
  BY DEF Init, MovesStand
<1> QED BY <1>1, InitTypeOK, InitOrdersOK, OneByOne DEF IInv

\* What is decided keeps standing: the row of its order is held, so nobody else
\* decides about that order, sweeps it or writes it, until the move has ended.
LEMMA NextMovesStand ==
  ASSUME TypeOK, Numbered, MovesStand, [Next]_vars
  PROVE  MovesStand'
<1> USE OrdersAssumption
<1>1. ASSUME status' = status, moving' \subseteq moving PROVE MovesStand'
  BY <1>1 DEF MovesStand, Stands
<1>2. ASSUME NEW o \in OrderIds, NEW to, status' = [status EXCEPT ![o] = to],
             moving' \subseteq moving, \A m \in moving' : m.order # o
      PROVE  MovesStand'
  <2>1. ASSUME NEW m \in moving' PROVE m \in moving /\ status'[m.order] = status[m.order]
    <3>1. m \in moving /\ m.order \in OrderIds /\ m.order # o
      BY <1>2, <2>1 DEF TypeOK, Moves
    <3> QED BY <1>2, <3>1 DEF TypeOK
  <2> QED BY <1>2, <2>1 DEF MovesStand, Stands
<1>3. CASE UNCHANGED vars
  BY <1>1, <1>3 DEF vars, openVars, orderVars
<1>4. CASE VenueStep \/ CartStep
  BY <1>1, <1>4 DEF VenueStep, SetShift, PatchItem, SyncMenu, CartStep, PutIntoCart,
                    RemoveFromCart, ClearCart, openVars, orderVars
<1>5. CASE PlacementStep
  <2>1. ASSUME NEW r \in Requests, Place(r) PROVE MovesStand'
    <3> DEFINE o == placed + 1
    <3>1. o \in OrderIds /\ o \notin 1..placed
      BY <2>1 DEF Place, TypeOK, OrderIds
    <3>2. status[o] = "NONE"
      BY <3>1 DEF Numbered
    <3>3. ASSUME NEW m \in moving PROVE m.order # o
      BY <3>2 DEF MovesStand, Stands, TypeOK, Moves, Statuses
    <3>4. status' = [status EXCEPT ![o] = "CREATED"] /\ moving' = moving
      BY <2>1 DEF Place, CreateOrder
    <3> QED BY <1>2, <3>1, <3>3, <3>4
  <2>2. ASSUME NEW r \in Requests,
               Abandon(r) \/ \E u \in Users : LockNothing(r, u) \/ Draft(r, u)
        PROVE  MovesStand'
    BY <1>1, <2>2 DEF Abandon, LockNothing, Draft, orderVars
  <2> QED BY <1>5, <2>1, <2>2 DEF PlacementStep
<1>6. CASE MoveStep
  <2>1. CASE AnyDecision
    <3> PICK o \in OrderIds, event \in Events, actor \in Actors, to \in Statuses :
          Decides(o, event, actor, to)
      BY <2>1 DEF AnyDecision
    <3> DEFINE d == [order |-> o, from |-> status[o], to |-> to, actor |-> actor]
    <3>1. moving' = moving \union {d} /\ status' = status
      BY DEF Decides, orderVars
    <3>2. ASSUME NEW m \in moving PROVE m.order # o
      BY DEF Decides, OrderIsFree
    <3>3. d.order = o /\ d.from = status[o] /\ d.to = to /\ d.actor = actor
      OBVIOUS
    <3>4. <<event, actor>> \in Calls /\ <<status[o], event, to>> \in transitions
      BY DEF Decides
    <3> HIDE DEF d
    <3>5. ASSUME NEW m \in moving' PROVE Stands(m)'
      <4>1. CASE m = d
        BY <3>1, <3>2, <3>3, <3>4, <4>1 DEF Stands
      <4>2. CASE m \in moving
        <5>1. m.order # o
          BY <3>2, <4>2
        <5>2. Stands(m)
          BY <4>2 DEF MovesStand
        <5> QED BY <3>1, <3>3, <5>1, <5>2 DEF Stands
      <4> QED BY <3>1, <4>1, <4>2
    <3> QED BY <3>5 DEF MovesStand
  <2>2. ASSUME NEW m \in moving, Finish(m) PROVE MovesStand'
    <3>1. m.order \in OrderIds
      BY DEF TypeOK, Moves
    <3>2. \A n \in moving' : n.order # m.order
      BY <2>2 DEF Finish, MovesStand, Stands
    <3>3. /\ status' = [status EXCEPT ![m.order] = m.to]
          /\ moving' \subseteq moving
      BY <2>2 DEF Finish, Apply, ApplyStatus
    <3> QED BY <1>2, <3>1, <3>2, <3>3
  <2>3. ASSUME NEW m \in moving, MoveFails(m) PROVE MovesStand'
    BY <1>1, <2>3 DEF MoveFails, orderVars
  <2> QED BY <1>6, <2>1, <2>2, <2>3, MoveKinds
<1>7. CASE SweepStep
  <2>1. ASSUME UNCHANGED <<menuVars, cartVars, openVars, orderVars>> PROVE MovesStand'
    BY <1>1, <2>1 DEF openVars, orderVars
  <2>2. ASSUME UNCHANGED moving, NEW o \in OrderIds, NEW event \in Events, Swept(o, event)
        PROVE  MovesStand'
    <3>1. PICK to \in Statuses : status' = [status EXCEPT ![o] = to]
      BY <2>2 DEF Swept, Commanded, Apply, ApplyStatus
    <3>2. \A m \in moving' : m.order # o
      BY <2>2 DEF Swept, OrderIsFree
    <3> QED BY <1>2, <2>2, <3>1, <3>2
  <2> QED BY <1>7, <2>1, <2>2, SweepKinds
<1> QED BY <1>3, <1>4, <1>5, <1>6, <1>7 DEF Next

LEMMA NextOrdersOK ==
  ASSUME TypeOK, OrdersOK, MovesStand, [Next]_vars
  PROVE  OrdersOK'
<1> USE OrdersAssumption
<1>1. CASE UNCHANGED orderVars
  BY <1>1 DEF orderVars, OrdersOK
<1>2. ASSUME NEW r \in Requests, Place(r) PROVE OrdersOK'
  <2> DEFINE o == placed + 1
  <2>1. o \in OrderIds /\ o \notin 1..placed /\ placed \in Nat /\ placed' = o
    BY <1>2 DEF Place, CreateOrder, TypeOK, OrderIds
  <2>2. toStatus[o] = <<>>
    BY <2>1 DEF OrdersOK, OrderOK, WalkOf, EventsOf
  <2>3. OrderOK(TRUE, version'[o], status'[o], history'[o], toStatus'[o], toVenue'[o])
    BY <1>2, <2>1, <2>2, NewOrder DEF Place, CreateOrder, TypeOK
  <2>4. ASSUME NEW p \in OrderIds, p # o
        PROVE  /\ version'[p] = version[p] /\ status'[p] = status[p]
               /\ history'[p] = history[p] /\ toStatus'[p] = toStatus[p]
               /\ toVenue'[p] = toVenue[p] /\ (p \in 1..placed' <=> p \in 1..placed)
    BY <1>2, <2>1, <2>4 DEF Place, CreateOrder, TypeOK, OrderIds
  <2>5. ASSUME NEW p \in OrderIds
        PROVE  OrderOK(p \in 1..placed', version'[p], status'[p], history'[p],
                       toStatus'[p], toVenue'[p])
    <3>1. CASE p = o
      <4>1. p \in 1..placed'
        BY <2>1, <3>1
      <4> QED BY <2>3, <3>1, <4>1 DEF OrderOK, MessagesOf
    <3>2. CASE p # o
      BY <2>4, <3>2 DEF OrdersOK, OrderOK, MessagesOf
    <3> QED BY <3>1, <3>2
  <2> QED BY <2>5 DEF OrdersOK, OrderIds
<1>3. ASSUME NEW o \in OrderIds, NEW event \in Events, NEW to \in Statuses,
             NEW actor \in Actors, Commanded(o, event, to, actor)
      PROVE  OrdersOK'
  <2>1. <<status[o], event, to>> \in transitions /\ Apply(o, status[o], to, actor)
    BY <1>3 DEF Commanded
  <2>2. status[o] \in Statuses /\ placed' = placed
    BY <2>1, TransitionFacts DEF Apply, ApplyStatus
  <2>3. o \in 1..placed
    BY <2>2 DEF OrdersOK, OrderOK, Statuses
  <2>4. OrderOK(TRUE, version[o], status[o], history[o], toStatus[o], toVenue[o])
    BY <2>3 DEF OrdersOK, OrderOK, MessagesOf
  <2>5. OrderOK(TRUE, version'[o], status'[o], history'[o], toStatus'[o], toVenue'[o])
    <3>1. /\ history[o] \in Seq(StatusEntry) /\ toStatus[o] \in Seq(StatusMessage)
          /\ toVenue[o] \in Seq(VenueMessage)
      BY DEF TypeOK
    <3>2. /\ version'[o] = version[o] + 1 /\ status'[o] = to
          /\ history'[o] = Append(history[o], [from |-> status[o], to |-> to, actor |-> actor])
          /\ toStatus'[o] = Append(toStatus[o], StatusChanged(o, to))
          /\ toVenue'[o] = IF TellsVenue(to, actor)
                           THEN Append(toVenue[o], OrderCancelled(o)) ELSE toVenue[o]
      BY <2>1 DEF Apply, ApplyStatus, TypeOK
    <3>3. OrderOK(TRUE, version[o] + 1, to,
                  Append(history[o], [from |-> status[o], to |-> to, actor |-> actor]),
                  Append(toStatus[o], StatusChanged(o, to)),
                  IF TellsVenue(to, actor)
                  THEN Append(toVenue[o], OrderCancelled(o)) ELSE toVenue[o])
      BY <2>1, <2>2, <2>4, <3>1, MovedOrder DEF StatusChanged, OrderCancelled
    <3> QED BY <3>2, <3>3
  <2>6. ASSUME NEW p \in OrderIds
        PROVE  OrderOK(p \in 1..placed', version'[p], status'[p], history'[p],
                       toStatus'[p], toVenue'[p])
    <3>1. CASE p = o
      BY <2>2, <2>3, <2>5, <3>1 DEF OrderOK, MessagesOf
    <3>2. CASE p # o
      <4>1. /\ version'[p] = version[p] /\ status'[p] = status[p]
            /\ history'[p] = history[p] /\ toStatus'[p] = toStatus[p]
            /\ toVenue'[p] = toVenue[p]
        BY <2>1, <3>2 DEF Apply, ApplyStatus, TypeOK
      <4> QED BY <2>2, <4>1 DEF OrdersOK
    <3> QED BY <3>1, <3>2
  <2> QED BY <2>6 DEF OrdersOK, OrderIds
<1> QED BY <1>1, <1>2, <1>3, StepKinds DEF AnyCommand

LEMMA NextIInv ==
  ASSUME IInv, [Next]_vars
  PROVE  IInv'
<1>1. TypeOK' /\ OrdersOK' /\ MovesStand'
  BY NextTypeOK, NextOrdersOK, NextMovesStand, OneByOne DEF IInv
<1>2. (OrdersOK <=> /\ Numbered
                    /\ HistoryIsTheLife
                    /\ StatusEventsTellTheHistory
                    /\ VenueIsToldOnce)'
  BY OneByOne, PTL
<1> QED BY <1>1, <1>2 DEF IInv

LEMMA AlwaysIInv == Spec => []IInv
<1>1. Init => IInv
  BY InitIInv
<1>2. IInv /\ [Next]_vars => IInv'
  BY NextIInv
<1> QED BY <1>1, <1>2, PTL DEF Spec

\* Whoever races for an order, its history is one walk along the state machine
\* that ends where the order is, and its version is the length of the walk.
THEOREM HistoryTold == Spec => []HistoryIsTheLife
BY AlwaysIInv, PTL DEF IInv

\* The status topic carries exactly the moves of the history, numbered as the
\* history numbers them.
THEOREM StatusTold == Spec => []StatusEventsTellTheHistory
BY AlwaysIInv, PTL DEF IInv

\* The venue hears of every order once, and of its end exactly when somebody
\* else ended it.
THEOREM VenueTold == Spec => []VenueIsToldOnce
BY AlwaysIInv, PTL DEF IInv

----------------------------------------------------------------------------
(* Orders implements OrderLife *)

\* What OrderLife sees of the messages to a venue.
Knows(w) == CASE Len(w) = 0 -> "nothing" [] Len(w) = 1 -> "given" [] OTHER -> "taken away"

\* A step that writes one order changes only that order's life.
LEMMA LifeOfOne ==
  ASSUME TypeOK, NEW o \in OrderIds, NEW to, NEW knows,
         status' = [status EXCEPT ![o] = to],
         \A p \in OrderIds : p # o => toVenue'[p] = toVenue[p],
         Knows(toVenue'[o]) = knows,
         NEW from, status[o] \in from
  PROVE  Life!GoesTo(o, from, to, knows)
<1>1. [p \in OrderIds |-> Knows(toVenue'[p])]
        = [[p \in OrderIds |-> Knows(toVenue[p])] EXCEPT ![o] = knows]
  OBVIOUS
<1> QED BY <1>1 DEF Life!GoesTo, Knows

LEMMA InitLife == Init => Life!LifeInit
<1> SUFFICES ASSUME Init PROVE Life!LifeInit
  OBVIOUS
<1>1. \A o \in OrderIds : Len(toVenue[o]) = 0
  BY DEF Init
<1> QED BY <1>1 DEF Init, Life!LifeInit

\* Placing is Placed; what the venue hears of a move depends on who ends it.
LEMMA NextLife ==
  ASSUME IInv, [Next]_vars
  PROVE  [Life!LifeNext]_(Life!lifeVars)
<1> USE OrdersAssumption
<1>1. CASE UNCHANGED orderVars
  BY <1>1 DEF orderVars, Life!lifeVars
<1>2. ASSUME NEW r \in Requests, Place(r) PROVE Life!LifeNext
  <2> DEFINE o == placed + 1
  <2>1. o \in OrderIds /\ o \notin 1..placed
    BY <1>2 DEF IInv, Place, CreateOrder, TypeOK, OrderIds
  <2>2. status[o] = "NONE"
    BY <2>1 DEF IInv, Numbered
  <2>3. /\ status' = [status EXCEPT ![o] = "CREATED"]
        /\ toVenue'[o] = <<[type |-> "order.created", version |-> 1]>>
        /\ \A p \in OrderIds : p # o => toVenue'[p] = toVenue[p]
    BY <1>2, <2>1 DEF IInv, Place, CreateOrder, TypeOK
  <2>4. Knows(toVenue'[o]) = "given"
    BY <2>3 DEF Knows
  <2>5. Life!GoesTo(o, {"NONE"}, "CREATED", "given")
    BY <2>1, <2>2, <2>3, <2>4, LifeOfOne DEF IInv
  <2>6. \E p \in OrderIds : Life!GoesTo(p, {"NONE"}, "CREATED", "given")
    BY <2>1, <2>5
  <2> QED BY <2>6 DEF Life!LifeNext, Life!Placed
<1>3. ASSUME NEW o \in OrderIds, NEW event \in Events, NEW to \in Statuses,
             NEW actor \in Actors, Commanded(o, event, to, actor)
      PROVE  Life!LifeNext
  <2> DEFINE from == status[o]
  <2>1. /\ <<from, event, to>> \in transitions
        /\ <<event, actor>> \in Commands
        /\ actor = "system" /\ event = "reject" => from = "CREATED"
    BY <1>3 DEF Commanded
  <2>2. from \notin Ended /\ from # "NONE"
    BY <2>1, TransitionFacts
  <2>3. Len(toVenue[o]) = 1 /\ toVenue[o] \in Seq(VenueMessage)
    <3>1. o \in 1..placed /\ toVenue[o] \in Seq(VenueMessage)
      BY <2>2 DEF IInv, TypeOK, Numbered
    <3>2. Len(toVenue[o]) \in 1..2 /\ Len(toVenue[o]) # 2
      BY <2>2, <3>1 DEF IInv, VenueIsToldOnce
    <3> QED BY <3>1, <3>2
  <2>4. /\ status' = [status EXCEPT ![o] = to]
        /\ \A p \in OrderIds : p # o => toVenue'[p] = toVenue[p]
        /\ toVenue'[o] = IF TellsVenue(to, actor)
                         THEN Append(toVenue[o], OrderCancelled(o)) ELSE toVenue[o]
    BY <1>3 DEF Commanded, Apply, ApplyStatus, IInv, TypeOK
  <2>5. Knows(toVenue'[o]) = IF TellsVenue(to, actor) THEN "taken away" ELSE "given"
    <3>1. CASE TellsVenue(to, actor)
      <4>1. Len(toVenue'[o]) = 2
        BY <2>3, <2>4, <3>1
      <4> QED BY <3>1, <4>1 DEF Knows
    <3>2. CASE ~TellsVenue(to, actor)
      BY <2>3, <2>4, <3>2 DEF Knows
    <3> QED BY <3>1, <3>2
  <2>6. ASSUME NEW froms, from \in froms
        PROVE  Life!GoesTo(o, froms, to, IF TellsVenue(to, actor) THEN "taken away" ELSE "given")
    BY <2>4, <2>5, <2>6, LifeOfOne DEF IInv
  <2>7. CASE event \in {"accept", "start", "ready", "handover"}
    <3>1. ~TellsVenue(to, actor)
      BY <2>1, <2>7 DEF transitions, TellsVenue, ReturnsStock
    <3>2. Life!WalkedByVenue(o)
      BY <2>1, <2>6, <2>7, <3>1 DEF transitions, Life!WalkedByVenue
    <3> QED BY <3>2 DEF Life!LifeNext
  <2>8. CASE event = "deliver"
    <3>1. /\ from = "DELIVERING" /\ to = "DELIVERED" /\ ~TellsVenue(to, actor)
      BY <2>1, <2>8 DEF transitions, TellsVenue, ReturnsStock
    <3>2. Life!Delivered(o)
      BY <2>6, <3>1 DEF Life!Delivered
    <3> QED BY <3>2 DEF Life!LifeNext
  <2>9. CASE event = "reject" /\ actor = "venue"
    <3>1. from \in {"CREATED", "ACCEPTED"} /\ to = "REJECTED" /\ ~TellsVenue(to, actor)
      BY <2>1, <2>9 DEF transitions, TellsVenue
    <3>2. Life!RefusedByVenue(o)
      BY <2>6, <3>1 DEF Life!RefusedByVenue
    <3> QED BY <3>2 DEF Life!LifeNext
  <2>10. CASE event = "reject" /\ actor = "system"
    <3>1. from \in {"CREATED"} /\ to = "REJECTED" /\ TellsVenue(to, actor)
      BY <2>1, <2>10 DEF transitions, TellsVenue, ReturnsStock
    <3>2. Life!GivenUp(o)
      BY <2>6, <3>1 DEF Life!GivenUp
    <3> QED BY <3>2 DEF Life!LifeNext
  <2>11. CASE event = "cancel"
    <3>1. /\ from \in {"CREATED", "ACCEPTED"} /\ to = "CANCELLED"
          /\ actor = "customer" /\ TellsVenue(to, actor)
      BY <2>1, <2>11 DEF transitions, Calls, Commands, TellsVenue, ReturnsStock
    <3>2. Life!Withdrawn(o)
      BY <2>6, <3>1 DEF Life!Withdrawn
    <3> QED BY <3>2 DEF Life!LifeNext
  <2> QED BY <2>1, <2>7, <2>8, <2>9, <2>10, <2>11 DEF Calls, Commands
<1> QED BY <1>1, <1>2, <1>3, StepKinds DEF IInv, AnyCommand

\* Placements, moves and sweeps of stale lists together never show an order
\* doing what OrderLife does not promise: an order being cooked is not ended
\* by anyone, and its venue is told in step with it.
THEOREM OrdersImplementLife == Spec => ImplementsLife
<1>1. Init => Life!LifeInit
  BY InitLife
<1>2. IInv /\ [Next]_vars => [Life!LifeNext]_(Life!lifeVars)
  BY NextLife
<1> QED BY <1>1, <1>2, AlwaysIInv, PTL DEF Spec, ImplementsLife, Life!LifeSpec

----------------------------------------------------------------------------
(* Two placements race for one cart *)

\* A placement that has locked a cart owns it: no other one locks it, and nobody
\* empties it.
CartIsHeld ==
  \A r \in Requests : draft[r].locked =>
    /\ draft[r].user \in Users
    /\ cart[draft[r].user] # Nothing
    /\ \A q \in Requests : q # r /\ draft[q].locked => draft[q].user # draft[r].user

CInv == IInv /\ CartIsHeld

LEMMA InitCartIsHeld == Init => CartIsHeld
BY DEF Init, CartIsHeld, NoDraft

LEMMA NextCartIsHeld ==
  ASSUME CInv, [Next]_vars
  PROVE  CartIsHeld'
<1> USE OrdersAssumption DEF CInv, IInv
<1>1. CASE UNCHANGED <<cart, draft>>
  BY <1>1 DEF CartIsHeld
<1>2. ASSUME NEW u \in Users, UNCHANGED draft,
             \A v \in Users : v # u => cart'[v] = cart[v],
             CartIsFree(u) \/ cart'[u] # Nothing
      PROVE  CartIsHeld'
  BY <1>2 DEF CartIsHeld, CartIsFree
<1>3. CASE CartStep
  <2> PICK u \in Users : \/ \E i \in Items : PutIntoCart(u, i) \/ RemoveFromCart(u, i)
                         \/ ClearCart(u)
    BY <1>3 DEF CartStep
  <2>1. \A v \in Users : v # u => cart'[v] = cart[v]
    BY DEF PutIntoCart, RemoveFromCart, ClearCart, TypeOK
  <2>2. UNCHANGED draft /\ (CartIsFree(u) \/ cart'[u] # Nothing)
    BY DEF PutIntoCart, RemoveFromCart, ClearCart, openVars
  <2> QED BY <1>2, <2>1, <2>2
<1>4. ASSUME NEW r \in Requests, NEW u \in Users, LockNothing(r, u) \/ Draft(r, u)
      PROVE  CartIsHeld'
  <2>1. \E d : draft' = [draft EXCEPT ![r] = d]
    BY <1>4 DEF LockNothing, Draft
  <2>2. \A q \in Requests : q # r => draft'[q] = draft[q]
    BY <2>1 DEF TypeOK
  <2>3. UNCHANGED cart /\ draft'[r].user = u
    BY <1>4 DEF LockNothing, Draft, TypeOK, cartVars
  <2>4. ASSUME draft'[r].locked PROVE CartIsFree(u) /\ cart[u] # Nothing
    <3>1. ~LockNothing(r, u)
      BY <2>4 DEF LockNothing, TypeOK
    <3>2. draft[r] = NoDraft
      <4>1. draft'[r] = [user |-> u, basket |-> cart[u], locked |-> draft[r] = NoDraft]
        BY <1>4, <3>1 DEF Draft, TypeOK
      <4>2. draft'[r].locked = (draft[r] = NoDraft)
        BY <4>1
      <4> QED BY <2>4, <4>2, Zenon
    <3>3. NoDraft # [user |-> u, basket |-> Nothing, locked |-> FALSE]
      BY DEF NoDraft
    <3> QED BY <1>4, <3>1, <3>2, <3>3 DEF Draft, Orderable
  <2> QED BY <2>2, <2>3, <2>4 DEF CartIsHeld, CartIsFree
<1>5. ASSUME NEW r \in Requests, draft' = [draft EXCEPT ![r] = NoDraft],
             \A q \in Requests \ {r} :
               draft[q].locked => cart'[draft[q].user] = cart[draft[q].user]
      PROVE  CartIsHeld'
  <2>1. ~draft'[r].locked /\ \A q \in Requests : q # r => draft'[q] = draft[q]
    BY <1>5 DEF TypeOK, NoDraft
  <2> QED BY <1>5, <2>1 DEF CartIsHeld
<1>6. ASSUME NEW r \in Requests, Place(r) PROVE CartIsHeld'
  <2>1. ASSUME NEW q \in Requests \ {r}, draft[q].locked
        PROVE  cart'[draft[q].user] = cart[draft[q].user]
    <3>1. draft[q].user \in Users /\ cart[draft[q].user] # Nothing
      BY <2>1 DEF CartIsHeld
    <3>2. draft[q].user # draft[r].user
      BY <1>6, <2>1, <3>1 DEF Place, ClearsItsCart
    <3> QED BY <1>6, <3>1, <3>2 DEF Place, ClearsItsCart, TypeOK
  <2> QED BY <1>5, <1>6, <2>1 DEF Place
<1>7. ASSUME NEW r \in Requests, Abandon(r) PROVE CartIsHeld'
  BY <1>5, <1>7 DEF Abandon, cartVars
<1>8. CASE VenueStep
  BY <1>1, <1>8 DEF VenueStep, SetShift, PatchItem, SyncMenu, cartVars, openVars
<1>9. CASE MoveStep \/ SweepStep
  <2>1. CASE MoveStep
    BY <1>1, <2>1, MoveKinds DEF AnyDecision, Decides, Finish, MoveFails, Apply, cartVars
  <2>2. CASE SweepStep
    BY <1>1, <2>2, SweepKinds DEF Swept, Commanded, Apply, cartVars, openVars
  <2> QED BY <1>9, <2>1, <2>2
<1>10. CASE UNCHANGED vars
  BY <1>1, <1>10 DEF vars, cartVars, openVars
<1> QED BY <1>3, <1>4, <1>6, <1>7, <1>8, <1>9, <1>10 DEF Next, PlacementStep

\* However many placements of one customer are being handled at once, one that
\* has locked the cart finds it still full when it places its order, and leaves
\* it empty.
THEOREM CartIsSpentOnce == Spec => OrderSpendsTheCart
<1>1. Init => CInv
  BY InitIInv, InitCartIsHeld DEF CInv
<1>2. CInv /\ [Next]_vars => CInv'
  BY NextIInv, NextCartIsHeld DEF CInv
<1>3. ASSUME CInv, [Next]_vars, placed' > placed, NEW r \in Requests,
             draft[r].locked, ~draft'[r].locked
      PROVE  LET u == owner'[placed'] IN cart[u] # Nothing /\ cart'[u] = Nothing
  <2>1. placed \in Nat
    BY <1>3, OrdersAssumption DEF CInv, IInv, TypeOK
  <2>2. PICK q \in Requests : Place(q)
    <3>1. placed' # placed
      BY <1>3, <2>1
    <3>2. ~AnyCommand
      BY <3>1 DEF AnyCommand, Commanded, Apply
    <3>3. ~UNCHANGED orderVars
      BY <3>1 DEF orderVars
    <3> QED BY <1>3, <3>2, <3>3, StepKinds DEF CInv, IInv
  <2>3. q = r
    BY <1>3, <2>2 DEF Place, CreateOrder, CInv, IInv, TypeOK
  <2>4. placed' \in OrderIds /\ owner'[placed'] = draft[r].user
    BY <2>1, <2>2, <2>3, <1>3, OrdersAssumption DEF Place, CreateOrder, CInv, IInv, TypeOK, OrderIds
  <2>5. draft[r].user \in Users /\ cart[draft[r].user] # Nothing
    BY <1>3 DEF CInv, CartIsHeld
  <2>6. cart'[draft[r].user] = Nothing
    BY <1>3, <2>2, <2>3, <2>5 DEF Place, CreateOrder, ClearsItsCart, CInv, IInv, TypeOK
  <2> QED BY <2>4, <2>5, <2>6
<1>4. CInv /\ [Next]_vars =>
        [placed' > placed =>
           \A r \in Requests : draft[r].locked /\ ~draft'[r].locked =>
             LET u == owner'[placed'] IN cart[u] # Nothing /\ cart'[u] = Nothing]_vars
  BY <1>3
<1> QED BY <1>1, <1>2, <1>4, PTL DEF Spec, OrderSpendsTheCart

----------------------------------------------------------------------------
(* The portions of an item *)

\* An order that does not exist yet holds nothing.
NothingYet == \A o \in OrderIds : status[o] = "NONE" => basket[o] = Nothing

BooksInv == IInv /\ NothingYet

LEMMA InitNothingYet == Init => NothingYet
BY DEF Init, NothingYet

LEMMA NextNothingYet ==
  ASSUME BooksInv, [Next]_vars
  PROVE  NothingYet'
<1> USE DEF BooksInv, IInv
<1>1. CASE UNCHANGED orderVars
  BY <1>1 DEF orderVars, NothingYet
<1>2. ASSUME NEW r \in Requests, Place(r) PROVE NothingYet'
  BY <1>2 DEF Place, CreateOrder, NothingYet, TypeOK
<1>3. CASE AnyCommand
  <2> PICK o \in OrderIds, event \in Events, to \in Statuses, actor \in Actors :
        Commanded(o, event, to, actor)
    BY <1>3 DEF AnyCommand
  <2>1. to # "NONE"
    BY TransitionFacts DEF Commanded
  <2> QED BY <2>1 DEF Commanded, Apply, ApplyStatus, NothingYet, TypeOK
<1> QED BY <1>1, <1>2, <1>3, StepKinds

LEMMA OrdersAreFinite == IsFiniteSet(OrderIds)
BY FS_Interval, OrdersAssumption DEF OrderIds

LEMMA PortionsAreNatural ==
  ASSUME TypeOK, NEW i \in Items
  PROVE  /\ \A o \in OrderIds : Portions(i)[o] \in Nat
         /\ Spoken(i) \in Nat
<1>1. \A o \in OrderIds : Portions(i)[o] \in Nat
  BY OrdersAssumption DEF TypeOK, Basket, Portions
<1>2. SumFunctionOnSet(Portions(i), OrderIds) \in Nat
  BY <1>1, OrdersAreFinite, SumIsNatural
<1> QED BY <1>1, <1>2 DEF Spoken

\* A step that writes one order changes what is spoken for by what that order
\* holds more or less.
LEMMA OneOrderSpeaks ==
  ASSUME TypeOK, TypeOK', NEW i \in Items, NEW o \in OrderIds,
         \A p \in OrderIds \ {o} : Portions(i)'[p] = Portions(i)[p]
  PROVE  Spoken(i)' + Portions(i)[o] = Spoken(i) + Portions(i)'[o]
<1>1. \A p \in OrderIds : Portions(i)[p] \in Nat
  BY PortionsAreNatural
<1>2. (\A p \in OrderIds : Portions(i)[p] \in Nat)'
  BY OrdersAssumption DEF TypeOK, Basket, Portions
<1> DEFINE before == Portions(i)
           after == Portions(i)'
<1>3. /\ \A p \in OrderIds : before[p] \in Nat
      /\ after[o] \in Nat
      /\ \A p \in OrderIds \ {o} : after[p] = before[p]
  BY <1>1, <1>2
<1>4. Spoken(i) = SumFunctionOnSet(before, OrderIds) /\ Spoken(i)' = SumFunctionOnSet(after, OrderIds)
  BY DEF Spoken
<1> HIDE DEF before, after
<1>5. SumFunctionOnSet(after, OrderIds) + before[o] = SumFunctionOnSet(before, OrderIds) + after[o]
  BY <1>3, OrdersAreFinite, SumChanges
<1> QED BY <1>4, <1>5 DEF before, after

\* Unless the venue declares a count, only placements and moves touch one.
LEMMA StockKinds ==
  ASSUME IInv, [Next]_vars, restocks' = restocks
  PROVE  UNCHANGED <<stock, status, basket>> \/ (\E r \in Requests : Place(r)) \/ AnyCommand
<1>1. CASE UNCHANGED vars
  BY <1>1 DEF vars, menuVars, orderVars
<1>2. CASE VenueStep
  <2>1. restocks \in Nat
    BY OrdersAssumption DEF IInv, TypeOK
  <2>2. CASE SyncMenu
    BY <2>1, <2>2 DEF SyncMenu
  <2>3. ASSUME NEW i \in Items, PatchItem(i) PROVE UNCHANGED <<stock, status, basket>>
    BY <2>1, <2>3 DEF PatchItem, orderVars
  <2> QED BY <1>2, <2>2, <2>3 DEF VenueStep, SetShift, orderVars
<1>3. CASE CartStep
  BY <1>3 DEF CartStep, PutIntoCart, RemoveFromCart, ClearCart, menuVars, orderVars
<1>4. CASE PlacementStep
  BY <1>4 DEF PlacementStep, LockNothing, Draft, Abandon, menuVars, orderVars
<1>5. CASE MoveStep
  <2>1. ASSUME NEW m \in moving, Finish(m) PROVE AnyCommand
    BY <2>1, FinishIsCommanded DEF IInv
  <2> QED BY <1>5, <2>1, MoveKinds DEF AnyDecision, Decides, MoveFails, menuVars, orderVars
<1>6. CASE SweepStep
  BY <1>6, SweepKinds, SweptIsCommand DEF menuVars, orderVars
<1> QED BY <1>1, <1>2, <1>3, <1>4, <1>5, <1>6 DEF Next

LEMMA PlaceConserves ==
  ASSUME BooksInv, TypeOK', NEW r \in Requests, Place(r), NEW i \in Items, stock[i] # Uncounted
  PROVE  stock'[i] + Spoken(i)' = stock[i] + Spoken(i)
<1> USE OrdersAssumption DEF BooksInv, IInv
<1> DEFINE o == placed + 1
           n == draft[r].basket[i]
<1>1. o \in OrderIds /\ o \notin 1..placed
  BY DEF Place, TypeOK, OrderIds
<1>2. draft[r].basket \in Basket /\ n \in Nat
  BY DEF Place, TypeOK, Drafts, NoDraft, Basket
<1>3. Portions(i)[o] = 0
  <2>1. status[o] = "NONE"
    BY <1>1 DEF Numbered
  <2> QED BY <1>1, <2>1 DEF NothingYet, Nothing, Ended, Portions
<1>4. Portions(i)'[o] = n
  BY <1>1 DEF Place, CreateOrder, TypeOK, Ended, Portions
<1>5. \A p \in OrderIds \ {o} : Portions(i)'[p] = Portions(i)[p]
  BY <1>1 DEF Place, CreateOrder, TypeOK, Portions
<1>6. Spoken(i)' + 0 = Spoken(i) + n
  BY <1>1, <1>3, <1>4, <1>5, OneOrderSpeaks
<1>7. stock'[i] = stock[i] - n /\ stock[i] \in Nat
  BY DEF Place, Less, TypeOK, Counts
<1>8. Spoken(i) \in Nat
  BY PortionsAreNatural
<1>9. (Spoken(i) \in Nat)'
  BY PortionsAreNatural, PTL
<1> QED BY <1>2, <1>6, <1>7, <1>8, <1>9

LEMMA MoveConserves ==
  ASSUME BooksInv, TypeOK', AnyCommand, NEW i \in Items, stock[i] # Uncounted
  PROVE  stock'[i] + Spoken(i)' = stock[i] + Spoken(i)
<1> USE OrdersAssumption DEF BooksInv, IInv
<1> PICK o \in OrderIds, event \in Events, to \in Statuses, actor \in Actors :
      Commanded(o, event, to, actor)
  BY DEF AnyCommand
<1>1. status[o] \notin Ended /\ (ReturnsStock(to) <=> to \in Ended)
  BY TransitionFacts DEF Commanded, ReturnsStock, Ended
<1>2. status' = [status EXCEPT ![o] = to] /\ basket' = basket
  BY DEF Commanded, Apply, ApplyStatus
<1>3. Portions(i)[o] = basket[o][i] /\ basket[o][i] \in Nat
  BY <1>1 DEF Portions, TypeOK, Basket
<1>4. Portions(i)'[o] = IF to \in Ended THEN 0 ELSE basket[o][i]
  BY <1>2 DEF Portions, TypeOK
<1>5. \A p \in OrderIds \ {o} : Portions(i)'[p] = Portions(i)[p]
  BY <1>2 DEF Portions, TypeOK
<1>6. Spoken(i)' + Portions(i)[o] = Spoken(i) + Portions(i)'[o]
  BY <1>5, OneOrderSpeaks
<1>7. stock'[i] = IF to \in Ended THEN stock[i] + basket[o][i] ELSE stock[i]
  BY <1>1 DEF Commanded, Apply, Returned, More
<1>8. Spoken(i) \in Nat /\ stock[i] \in Nat
  BY PortionsAreNatural DEF TypeOK, Counts
<1>9. (Spoken(i) \in Nat)'
  BY PortionsAreNatural, PTL
<1> QED BY <1>3, <1>4, <1>6, <1>7, <1>8, <1>9

\* Whoever races for an order or for the last portions, the count of an item and
\* what its orders hold add up to the same until the venue declares a new count:
\* no portion is lost and none is given back twice.
THEOREM PortionsAddUp == Spec => StockIsConserved
<1>1. Init => BooksInv
  BY InitIInv, InitNothingYet DEF BooksInv
<1>2. BooksInv /\ [Next]_vars => BooksInv'
  BY NextIInv, NextNothingYet DEF BooksInv
<1>3. ASSUME BooksInv, [Next]_vars, restocks' = restocks, NEW i \in Items, stock[i] # Uncounted
      PROVE  stock'[i] + Spoken(i)' = stock[i] + Spoken(i)
  <2>1. TypeOK /\ TypeOK'
    BY <1>3, NextTypeOK DEF BooksInv, IInv
  <2>2. CASE UNCHANGED <<stock, status, basket>>
    BY <2>2 DEF Spoken, Portions
  <2>3. CASE \E r \in Requests : Place(r)
    BY <1>3, <2>1, <2>3, PlaceConserves
  <2>4. CASE AnyCommand
    BY <1>3, <2>1, <2>4, MoveConserves
  <2> QED BY <1>3, <2>1, <2>2, <2>3, <2>4, StockKinds DEF BooksInv
<1>4. BooksInv /\ [Next]_vars =>
        [restocks' = restocks =>
           \A i \in Items :
             stock[i] # Uncounted => stock'[i] + Spoken(i)' = stock[i] + Spoken(i)]_vars
  BY <1>3
<1> QED BY <1>1, <1>2, <1>4, PTL DEF Spec, StockIsConserved

=============================================================================
