------------------------------- MODULE Orders -------------------------------
(***************************************************************************)
(* Placing an order and moving it: internal/usecase/order over the orders, *)
(* order_status_history, menu_items, venues, carts and outbox tables, and  *)
(* the two sweeps of the worker process.                                   *)
(*                                                                         *)
(* Grain.  PostgreSQL runs at READ COMMITTED.  A customer or a venue that  *)
(* moves an order reads it under a row lock and decides by what it reads   *)
(* (Decide), then writes everything and commits (Finish) or is rolled back *)
(* (MoveFails); the row is held in between and others wait for it.  A move *)
(* of a sweep skips an order whose row is held, waits for nobody else and  *)
(* is one step.  Create is two: the cart, the shift and the menu           *)
(* are read first (Draft, holding only the lock of the cart) and the stock *)
(* is taken later (Place), with anything committed by others in between;   *)
(* from the reservation to the commit it holds the rows of the items and   *)
(* writes rows nobody else can see, so the rest is one step.  A cart that  *)
(* has a row is locked and read in one step, one without a row in two: then*)
(* there is nothing to lock and the row may appear in between.  Two        *)
(* transactions waiting for each other end with one of them abandoned, as  *)
(* PostgreSQL detects a deadlock and rolls one back.  A sweep reads        *)
(* its list without a lock and moves each order of it in a transaction of  *)
(* its own.  A refused or failed request leaves everything as it was.      *)
(*                                                                         *)
(* One venue is modelled: orders of two venues share nothing but the       *)
(* sweeps.  A basket maps every item to a quantity, 0 when it is not in it.*)
(***************************************************************************)
EXTENDS OrderFsm, Naturals, Sequences, FiniteSets, Functions

CONSTANTS
  Users,         \* customers
  Requests,      \* order placements being handled at one time
  Items,         \* menu items of the venue
  Nobody,        \* the owner of an order that does not exist
  Uncounted,     \* the stock of an item the venue keeps no count of
  MaxOrders,     \* bound: orders ever placed
  MaxQty,        \* bound: portions of one item in a cart
  MaxStock,      \* bound: the largest count a venue declares
  MaxRestocks,   \* bound: times the venue declares a count
  Batch          \* orders one sweep lists at most (0 turns the sweeps off)

ASSUME OrdersAssumption ==
  /\ MaxOrders \in Nat /\ MaxQty \in Nat /\ MaxStock \in Nat
  /\ MaxRestocks \in Nat /\ Batch \in Nat
  /\ Uncounted \notin Nat
  /\ Nobody \notin Users

VARIABLES
  isOpen,     \* venues.is_open
  available,  \* menu_items.is_available
  stock,      \* menu_items.stock_qty
  restocks,   \* how many times the venue has declared a count
  hasCart,    \* customers with a row in carts; it is never deleted
  cart,       \* cart_items of each customer
  draft,      \* what each request has drafted, and whether it holds the cart locked
  moving,     \* moves decided and not yet written; each holds the row of its order
  placed,     \* how many orders there are; they are numbered as they come
  owner,      \* orders.user_id
  basket,     \* order_items
  status,     \* orders.status
  version,    \* orders.version
  history,    \* order_status_history of each order
  toVenue,    \* outbox rows of each order for the orders topic
  toStatus,   \* outbox rows of each order for the status topic
  overdue,    \* orders 1..overdue have waited past the accept timeout
  reaping,    \* what is left of the list of the current reaper sweep
  driving     \* what is left of the list of the current courier sweep

menuVars == <<isOpen, available, stock, restocks>>
orderVars == <<placed, owner, basket, status, version, history,
               toVenue, toStatus>>
cartVars == <<hasCart, cart>>
sweepVars == <<overdue, reaping, driving>>
openVars == <<draft, moving>>   \* transactions that are open
vars == <<menuVars, cartVars, openVars, orderVars, sweepVars>>

OrderIds == 1..MaxOrders
Basket == [Items -> 0..MaxQty]
Nothing == [i \in Items |-> 0]
NoDraft == [user |-> Nobody, basket |-> Nothing, locked |-> FALSE]
Drafts == [user : Users, basket : Basket, locked : BOOLEAN] \union {NoDraft}
Counts == Nat \union {Uncounted}
Held(qty) == {i \in Items : qty[i] > 0}

Moves == [order : OrderIds, from : Statuses, to : Statuses, actor : Actors]
StatusEntry == [from : Statuses \union {"NONE"}, to : Statuses, actor : Actors]
VenueMessage == [type : {"order.created", "order.cancelled"}, version : Nat]
StatusMessage == [to : Statuses, seq : Nat, version : Nat]

TypeOK ==
  /\ isOpen \in BOOLEAN
  /\ available \in [Items -> BOOLEAN]
  /\ stock \in [Items -> Counts]
  /\ restocks \in 0..MaxRestocks
  /\ hasCart \in SUBSET Users
  /\ cart \in [Users -> Basket]
  /\ draft \in [Requests -> Drafts]
  /\ moving \in SUBSET Moves
  /\ placed \in 0..MaxOrders
  /\ owner \in [OrderIds -> Users \union {Nobody}]
  /\ basket \in [OrderIds -> Basket]
  /\ status \in [OrderIds -> Statuses \union {"NONE"}]
  /\ version \in [OrderIds -> Nat]
  /\ history \in [OrderIds -> Seq(StatusEntry)]
  /\ toVenue \in [OrderIds -> Seq(VenueMessage)]
  /\ toStatus \in [OrderIds -> Seq(StatusMessage)]
  /\ overdue \in 0..MaxOrders
  /\ reaping \in SUBSET OrderIds
  /\ driving \in SUBSET OrderIds

Init ==
  /\ isOpen \in BOOLEAN
  /\ available \in [Items -> BOOLEAN]
  /\ stock \in [Items -> 0..MaxStock \union {Uncounted}]
  /\ restocks = 0
  /\ hasCart = {}
  /\ cart = [u \in Users |-> Nothing]
  /\ draft = [r \in Requests |-> NoDraft]
  /\ moving = {}
  /\ placed = 0
  /\ owner = [o \in OrderIds |-> Nobody]
  /\ basket = [o \in OrderIds |-> Nothing]
  /\ status = [o \in OrderIds |-> "NONE"]
  /\ version = [o \in OrderIds |-> 0]
  /\ history = [o \in OrderIds |-> <<>>]
  /\ toVenue = [o \in OrderIds |-> <<>>]
  /\ toStatus = [o \in OrderIds |-> <<>>]
  /\ overdue = 0
  /\ reaping = {}
  /\ driving = {}

----------------------------------------------------------------------------
(* The venue: PartnerService.setShift, PatchItem and SyncMenu. *)

SetShift(open) ==
  /\ isOpen # open
  /\ isOpen' = open
  /\ UNCHANGED <<available, stock, restocks, cartVars, openVars, orderVars, sweepVars>>

\* Only the fields the patch carries are written; a count can be set by it but
\* not cleared, as null leaves the field alone.
PatchItem(i) ==
  /\ \E onSale \in BOOLEAN : available' = [available EXCEPT ![i] = onSale]
  /\ \/ UNCHANGED <<stock, restocks>>
     \/ /\ restocks < MaxRestocks
        /\ \E n \in 0..MaxStock : stock' = [stock EXCEPT ![i] = n]
        /\ restocks' = restocks + 1
  /\ UNCHANGED <<isOpen, cartVars, openVars, orderVars, sweepVars>>

\* A full upload overwrites the items it names and takes the rest off sale;
\* the count of an item it does not name stays.
SyncMenu ==
  /\ restocks < MaxRestocks
  /\ \E named \in SUBSET Items :
       /\ \E onSale \in SUBSET named :
            available' = [i \in Items |-> i \in onSale]
       /\ \E count \in [named -> 0..MaxStock \union {Uncounted}] :
            stock' = [i \in Items |-> IF i \in named THEN count[i] ELSE stock[i]]
  /\ restocks' = restocks + 1
  /\ UNCHANGED <<isOpen, cartVars, openVars, orderVars, sweepVars>>

----------------------------------------------------------------------------
(* The cart.  A placement that has locked its row holds it to the end. *)

\* Mutant: a placement reads the cart without locking it.
CartIsNeverLocked(u) == TRUE

CartIsFree(u) == \A r \in Requests : draft[r].locked => draft[r].user # u

\* SetItem with a quantity, which creates or updates the row of the cart first.
PutIntoCart(u, i) ==
  /\ CartIsFree(u)
  /\ hasCart' = hasCart \union {u}
  /\ \E n \in 1..MaxQty : cart' = [cart EXCEPT ![u][i] = n]
  /\ UNCHANGED <<menuVars, openVars, orderVars, sweepVars>>

\* RemoveItem, and SetItem with 0.  Only taking out the last item touches the
\* row of the cart (forgetEmptyVenue) and so waits for a placement.
RemoveFromCart(u, i) ==
  /\ cart[u][i] > 0
  /\ cart' = [cart EXCEPT ![u][i] = 0]
  /\ cart'[u] = Nothing => CartIsFree(u)
  /\ UNCHANGED <<hasCart, menuVars, openVars, orderVars, sweepVars>>

\* Clearing takes the row of the cart too whenever there is anything to clear.
ClearCart(u) ==
  /\ cart[u] # Nothing
  /\ CartIsFree(u)
  /\ cart' = [cart EXCEPT ![u] = Nothing]
  /\ UNCHANGED <<hasCart, menuVars, openVars, orderVars, sweepVars>>

----------------------------------------------------------------------------
(* Placing an order: Service.Create. *)

Covers(count, n) == count # Uncounted => count >= n

\* Mutant: the reservation does not look at the count.
ReservableUncounted(qty) == \A i \in Held(qty) : available[i]

\* What ReserveStock asks of every item, in the UPDATE that takes it.
Reservable(qty) == \A i \in Held(qty) : available[i] /\ Covers(stock[i], qty[i])

\* What FromCart asks of a cart; its checks of prices and of the minimum of
\* the venue can only refuse more.
Orderable(qty) == qty # Nothing /\ isOpen /\ Reservable(qty)

\* Lock finds no row and locks nothing.
LockNothing(r, u) ==
  /\ draft[r] = NoDraft
  /\ placed < MaxOrders
  /\ u \notin hasCart
  /\ draft' = [draft EXCEPT ![r] = [user |-> u, basket |-> Nothing, locked |-> FALSE]]
  /\ UNCHANGED <<menuVars, cartVars, moving, orderVars, sweepVars>>

\* A cart is drafted from under its lock, or after Lock has found nothing.
Draft(r, u) ==
  /\ placed < MaxOrders
  /\ \/ draft[r] = NoDraft /\ u \in hasCart /\ CartIsFree(u)
     \/ draft[r] = [user |-> u, basket |-> Nothing, locked |-> FALSE]
  /\ Orderable(cart[u])
  /\ draft' = [draft EXCEPT ![r] =
                 [user |-> u, basket |-> cart[u], locked |-> draft[r] = NoDraft]]
  /\ UNCHANGED <<menuVars, cartVars, moving, orderVars, sweepVars>>

Less(count, n) == IF count = Uncounted THEN Uncounted ELSE count - n
More(count, n) == IF count = Uncounted THEN Uncounted ELSE count + n

\* Clear empties the cart at the end of a placement, and writes its row if there
\* was anything in it: then it waits for another placement that holds the row.
ClearsItsCart(r) ==
  LET u == draft[r].user IN
  /\ cart[u] # Nothing =>
       \A q \in Requests \ {r} : draft[q].locked => draft[q].user # u
  /\ cart' = [cart EXCEPT ![u] = Nothing]
  /\ UNCHANGED hasCart

\* OrderRepo.Create: the order, its items and the first entry of its history.
CreateOrder(o, d) ==
  /\ owner' = [owner EXCEPT ![o] = d.user]
  /\ basket' = [basket EXCEPT ![o] = d.basket]
  /\ status' = [status EXCEPT ![o] = "CREATED"]
  /\ version' = [version EXCEPT ![o] = 1]
  /\ history' = [history EXCEPT ![o] =
                   <<[from |-> "NONE", to |-> "CREATED", actor |-> "customer"]>>]

Place(r) ==
  LET o == placed + 1
      d == draft[r]
  IN
  /\ d.basket # Nothing
  /\ placed < MaxOrders
  /\ Reservable(d.basket)
  /\ stock' = [i \in Items |-> Less(stock[i], d.basket[i])]
  /\ placed' = o
  /\ CreateOrder(o, d)
  /\ toVenue' = [toVenue EXCEPT ![o] = <<[type |-> "order.created", version |-> 1]>>]
  /\ ClearsItsCart(r)
  /\ draft' = [draft EXCEPT ![r] = NoDraft]
  /\ UNCHANGED <<isOpen, available, restocks, moving, toStatus, sweepVars>>

\* Out of stock at the reservation, a failed statement, a lost connection or a
\* crash: the transaction is rolled back and the cart is let go.
Abandon(r) ==
  /\ draft[r] # NoDraft
  /\ draft' = [draft EXCEPT ![r] = NoDraft]
  /\ UNCHANGED <<menuVars, cartVars, moving, orderVars, sweepVars>>

----------------------------------------------------------------------------
(* Moving an order: Service.move and apply. *)

Returned(o) == [i \in Items |-> More(stock[i], basket[o][i])]

\* Mutant: the event is made out of the order as it was before the move.
StatusChangedFromCurrent(o, to) ==
  [to |-> to, seq |-> Len(history[o]), version |-> version[o]]

\* The events about a move carry the order as the move has left it.
StatusChanged(o, to) ==
  [to |-> to, seq |-> Len(history[o]) + 1, version |-> version[o] + 1]
OrderCancelled(o) == [type |-> "order.cancelled", version |-> version[o] + 1]

\* OrderRepo.ApplyStatus: the row of the order and the entry of its history.
\* The entry says where the order was when it was read.
ApplyStatus(o, from, to, actor) ==
  /\ status' = [status EXCEPT ![o] = to]
  /\ version' = [version EXCEPT ![o] = @ + 1]
  /\ history' = [history EXCEPT ![o] =
                   Append(@, [from |-> from, to |-> to, actor |-> actor])]

\* Everything a move that changes the order writes.
Apply(o, from, to, actor) ==
  /\ ApplyStatus(o, from, to, actor)
  /\ stock' = IF ReturnsStock(to) THEN Returned(o) ELSE stock
  /\ toStatus' = [toStatus EXCEPT ![o] = Append(@, StatusChanged(o, to))]
  /\ toVenue' = IF TellsVenue(to, actor)
                THEN [toVenue EXCEPT ![o] = Append(@, OrderCancelled(o))]
                ELSE toVenue
  /\ UNCHANGED <<isOpen, available, restocks, cartVars, draft, placed, owner,
                 basket>>

\* Mutant: an order is read without being locked.
OrderIsNeverLocked(o) == TRUE

OrderIsFree(o) == \A m \in moving : m.order # o

\* An event outside the table changes nothing, whether it repeats the last one
\* or is refused, so it is not a step.
Decide(o, event, actor) ==
  /\ OrderIsFree(o)
  /\ \E to \in Statuses :
       /\ <<status[o], event, to>> \in transitions
       /\ moving' = moving \union
            {[order |-> o, from |-> status[o], to |-> to, actor |-> actor]}
  /\ UNCHANGED <<menuVars, cartVars, draft, orderVars, sweepVars>>

Cancel(o) == Decide(o, "cancel", "customer")
Accept(o) == Decide(o, "accept", "venue")
Reject(o) == Decide(o, "reject", "venue")
StartCooking(o) == Decide(o, "start", "venue")
MarkReady(o) == Decide(o, "ready", "venue")
Handover(o) == Decide(o, "handover", "venue")

Finish(m) ==
  /\ Apply(m.order, m.from, m.to, m.actor)
  /\ moving' = moving \ {m}
  /\ UNCHANGED sweepVars

\* A failed statement, a lost connection or a crash.
MoveFails(m) ==
  /\ moving' = moving \ {m}
  /\ UNCHANGED <<menuVars, cartVars, draft, orderVars, sweepVars>>

EndOfMove(o) == \E m \in moving : m.order = o /\ (Finish(m) \/ MoveFails(m))

----------------------------------------------------------------------------
(* The sweeps of the worker: Service.Reap, Deliver and sweep. *)

TimePasses ==
  /\ overdue < placed
  /\ overdue' = overdue + 1
  /\ UNCHANGED <<menuVars, cartVars, openVars, orderVars, reaping, driving>>

\* Mutant: the newest of the overdue orders is not looked at.
LateButOne == {o \in 1..(overdue - 1) : status[o] = "CREATED"}

Late == {o \in 1..overdue : status[o] = "CREATED"}

\* The oldest of the late orders, as many as fit into a batch.
StaleUnaccepted ==
  LET listed == {o \in Late : Cardinality({p \in Late : p < o}) < Batch} IN
  /\ reaping = {}
  /\ listed # {}
  /\ reaping' = listed
  /\ UNCHANGED <<menuVars, cartVars, openVars, orderVars, overdue, driving>>

NextToReap(o) == o \in reaping /\ \A p \in reaping : o <= p

\* A sweep moves an order nobody holds, in one transaction.
Move(o, event, actor) ==
  /\ OrderIsFree(o)
  /\ \E to \in Statuses :
       /\ <<status[o], event, to>> \in transitions
       /\ Apply(o, status[o], to, actor)
  /\ UNCHANGED moving

\* Mutant: the order is rejected as it was listed, whatever it is now.
ReapUnseen(o) ==
  /\ NextToReap(o)
  /\ Move(o, "reject", "system")
  /\ reaping' = reaping \ {o}
  /\ UNCHANGED <<overdue, driving>>

\* LockUnaccepted gives out an order that is still CREATED.
Reap(o) ==
  /\ NextToReap(o)
  /\ status[o] = "CREATED"
  /\ Move(o, "reject", "system")
  /\ reaping' = reaping \ {o}
  /\ UNCHANGED <<overdue, driving>>

\* The order is not given out: it has left CREATED, or another transaction is
\* holding its row right now.
ReapMisses(o) ==
  /\ NextToReap(o)
  /\ reaping' = reaping \ {o}
  /\ UNCHANGED <<menuVars, cartVars, openVars, orderVars, overdue, driving>>

\* An error ends the sweep where it is, and so does a crash of the worker.
ReaperFails ==
  /\ reaping # {}
  /\ reaping' = {}
  /\ UNCHANGED <<menuVars, cartVars, openVars, orderVars, overdue, driving>>

\* Mutant: the courier looks for the orders that are ready, not on their way.
StaleReady ==
  /\ driving = {}
  /\ driving' \in {on \in SUBSET {o \in OrderIds : status[o] = "READY"} :
                      on # {} /\ Cardinality(on) <= Batch}
  /\ UNCHANGED <<menuVars, cartVars, openVars, orderVars, overdue, reaping>>

\* The orders that left their venue long enough ago, at most a batch of them.
\* How long each has been on its way is not modelled: any of them may be.
StaleDelivering ==
  /\ driving = {}
  /\ driving' \in {on \in SUBSET {o \in OrderIds : status[o] = "DELIVERING"} :
                      on # {} /\ Cardinality(on) <= Batch}
  /\ UNCHANGED <<menuVars, cartVars, openVars, orderVars, overdue, reaping>>

Deliver(o) ==
  /\ o \in driving
  /\ status[o] = "DELIVERING"
  /\ Move(o, "deliver", "system")
  /\ driving' = driving \ {o}
  /\ UNCHANGED <<overdue, reaping>>

DeliverMisses(o) ==
  /\ o \in driving
  /\ driving' = driving \ {o}
  /\ UNCHANGED <<menuVars, cartVars, openVars, orderVars, overdue, reaping>>

CourierFails ==
  /\ driving # {}
  /\ driving' = {}
  /\ UNCHANGED <<menuVars, cartVars, openVars, orderVars, overdue, reaping>>

----------------------------------------------------------------------------

VenueStep ==
  \/ \E open \in BOOLEAN : SetShift(open)
  \/ \E i \in Items : PatchItem(i)
  \/ SyncMenu

CartStep ==
  \E u \in Users :
    \/ \E i \in Items : PutIntoCart(u, i) \/ RemoveFromCart(u, i)
    \/ ClearCart(u)

PlacementStep ==
  \E r \in Requests :
    \/ \E u \in Users : LockNothing(r, u) \/ Draft(r, u)
    \/ Place(r)
    \/ Abandon(r)

MoveStep ==
  \E o \in OrderIds :
    \/ Cancel(o)
    \/ Accept(o)
    \/ Reject(o)
    \/ StartCooking(o)
    \/ MarkReady(o)
    \/ Handover(o)
    \/ EndOfMove(o)

SweepStep ==
  \/ TimePasses
  \/ StaleUnaccepted
  \/ StaleDelivering
  \/ ReaperFails
  \/ CourierFails
  \/ \E o \in OrderIds :
       \/ Reap(o)
       \/ ReapMisses(o)
       \/ Deliver(o)
       \/ DeliverMisses(o)

Next ==
  \/ VenueStep
  \/ CartStep
  \/ PlacementStep
  \/ MoveStep
  \/ SweepStep

Spec == Init /\ [][Next]_vars

\* The worker repeats its sweeps for as long as it lives and walks every list
\* it reads.  A row another transaction is holding is let go again and a failed
\* sweep is tried again, so while sweeps keep coming to an order they could move
\* they one day move one (strong fairness).  A move that has been decided does
\* not stay open, and of moves decided again and again one is one day committed.
\* Customers and venues need not begin any.
Fairness ==
  /\ WF_vars(TimePasses)
  /\ WF_vars(StaleUnaccepted)
  /\ WF_vars(StaleDelivering)
  /\ SF_vars(\E m \in moving : Finish(m))
  /\ SF_vars(\E o \in OrderIds : Reap(o))
  /\ SF_vars(\E o \in OrderIds : Deliver(o))
  /\ WF_vars(\E o \in OrderIds : status[o] # "CREATED" /\ ReapMisses(o))
  /\ WF_vars(\E o \in OrderIds : status[o] # "DELIVERING" /\ DeliverMisses(o))

FairSpec == Spec /\ Fairness

----------------------------------------------------------------------------
(* Safety *)

Ended == {"REJECTED", "CANCELLED"}

Moved(entry) == \E e \in Events : <<entry.from, e, entry.to>> \in transitions

\* The status history of an order is its life: it starts with the placement by
\* the customer, every entry continues the one before it along the state
\* machine, the last one is where the order is, and the version counts them.
\* Rivals for one order (customer, venue, sweeps) who each decided by what they
\* had read would break it together, were the row not held until the first of
\* them is through.
HistoryIsTheLife ==
  \A o \in OrderIds :
    LET h == history[o] IN
    /\ version[o] = Len(h)
    /\ Len(h) = 0 <=> status[o] = "NONE"
    /\ Len(h) > 0 => /\ status[o] = h[Len(h)].to
                     /\ h[1] = [from |-> "NONE", to |-> "CREATED", actor |-> "customer"]
    /\ \A k \in 2..Len(h) : h[k].from = h[k - 1].to /\ Moved(h[k])

\* The status topic is sent exactly the moves of the history, in its order,
\* each with the number of its entry: a client that has seen seq n has missed
\* nothing before it.
StatusEventsTellTheHistory ==
  \A o \in OrderIds :
    /\ Len(history[o]) > 0 => Len(toStatus[o]) = Len(history[o]) - 1
    /\ Len(history[o]) = 0 => toStatus[o] = <<>>
    /\ \A k \in 1..Len(toStatus[o]) :
         toStatus[o][k] = [to |-> history[o][k + 1].to, seq |-> k + 1, version |-> k + 1]

\* The venue is given every placed order once, and it is told that an order is
\* over exactly when somebody else ended it: it never cooks for nobody, and is
\* never told what it decided itself.
VenueIsToldOnce ==
  \A o \in OrderIds :
    LET w == toVenue[o]
        h == history[o]
    IN
    /\ o \notin 1..placed => w = <<>>
    /\ o \in 1..placed => Len(w) \in 1..2 /\ w[1] = [type |-> "order.created", version |-> 1]
    /\ Len(w) = 2 => w[2] = [type |-> "order.cancelled", version |-> version[o]]
    /\ o \in 1..placed => (Len(w) = 2 <=> status[o] \in Ended /\ h[Len(h)].actor # "venue")

\* What the orders that have not given their portions back hold of an item.
Portions(i) == [o \in OrderIds |-> IF status[o] \in Ended THEN 0 ELSE basket[o][i]]
Spoken(i) == SumFunctionOnSet(Portions(i), OrderIds)

\* Between two declarations of the venue, the count of an item and the portions
\* its orders hold always add up to the same: whoever ends an order gives its
\* portions back, once, and nobody else's.
StockIsConserved ==
  [][restocks' = restocks =>
       \A i \in Items :
         stock[i] # Uncounted => stock'[i] + Spoken(i)' = stock[i] + Spoken(i)]_vars

\* Of the placements that lock a cart before they read it only one gets it: it is
\* still there when its order is placed, and gone then.
OrderSpendsTheCart ==
  [][placed' > placed =>
       \A r \in Requests : draft[r].locked /\ ~draft'[r].locked =>
         LET u == owner'[placed'] IN cart[u] # Nothing /\ cart'[u] = Nothing]_vars

\* An order in the hands of its kitchen is never ended by a late cancellation
\* or by the sweep of a stale list, and the orders topic tells its venue what
\* OrderLife promises.
Life == INSTANCE OrderLife WITH
  Ids <- OrderIds,
  life <- status,
  venueKnows <- [o \in OrderIds |-> CASE Len(toVenue[o]) = 0 -> "nothing"
                                      [] Len(toVenue[o]) = 1 -> "given"
                                      [] OTHER -> "taken away"]

ImplementsLife == Life!LifeSpec

----------------------------------------------------------------------------
(* What comments of the code say and its transactions do not do *)

\* "Two orders placed at once cannot both be made out of [a cart]. A customer
\* without a cart has nothing to lock and nothing to order."
NoCartMakesTwoOrders == [][placed' > placed => cart[owner'[placed']] # Nothing]_vars

=============================================================================
