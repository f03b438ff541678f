-------------------------------- MODULE Cart --------------------------------
(***************************************************************************)
(* The cart of one customer who sends several requests at once:            *)
(* usecase/cart over CartRepo, and the placement of an order as it uses the*)
(* cart.  The carts of two customers share nothing.                        *)
(*                                                                         *)
(* Grain.  PostgreSQL runs at READ COMMITTED, so every statement of a      *)
(* transaction sees what others have committed before it.  The steps are   *)
(* what a statement reads and what the transaction commits.  A row that a  *)
(* transaction has deleted stays for everybody else until the commit and   *)
(* may be touched by nobody.  Storing an item takes the row of the cart and*)
(* commits: what it reads of it is the newest.  Two transactions waiting   *)
(* for each other's rows are found out and one is rolled back.             *)
(*                                                                         *)
(* Orders has the carts of many customers, their quantities and a customer *)
(* who has never had a cart; here every cart has its row, and quantities,  *)
(* prices and the state of the menu are left out.                          *)
(***************************************************************************)
EXTENDS FiniteSets

CONSTANTS
  Venues,    \* venues whose items the customer picks
  Dishes,    \* what each of them sells
  NoVenue,   \* the venue of an empty cart
  Requests   \* requests of the customer handled at one time

ASSUME CartAssumption == NoVenue \notin Venues

VARIABLES
  venue,   \* carts.venue_id
  lines,   \* cart_items
  req,     \* where each request is, and what it has read or deleted
  alone,   \* history variable: the request under way has met no other
  crossed  \* history variable: requests have met since one alone emptied the cart

vars == <<venue, lines, req, alone, crossed>>

Items == Venues \X Dishes
VenueOf(item) == item[1]
AllOf(v, items) == \A i \in items : VenueOf(i) = v

Idle == [at |-> "idle", venue |-> NoVenue, items |-> {}]

\* The rows a request has deleted and not committed yet.
Gone(r) == IF req[r].at \in {"deleted", "forgetting", "keeping"} THEN req[r].items ELSE {}

TypeOK ==
  /\ venue \in Venues \union {NoVenue}
  /\ lines \in SUBSET Items
  /\ DOMAIN req = Requests
  /\ \A r \in Requests :
       \/ req[r] = Idle
       \/ /\ req[r].at \in {"checked", "deleted", "forgetting", "keeping"}
          /\ req[r].venue = NoVenue
          /\ req[r].items \in SUBSET Items
       \/ /\ req[r].at = "drafted"
          /\ req[r].venue \in Venues
          /\ req[r].items \in (SUBSET Items) \ {{}}
  /\ alone \in BOOLEAN
  /\ crossed \in BOOLEAN

Init ==
  /\ venue = NoVenue
  /\ lines = {}
  /\ req = [r \in Requests |-> Idle]
  /\ alone = TRUE
  /\ crossed = FALSE

\* A request starts with a first statement.
Begin(r, state) ==
  /\ req[r] = Idle
  /\ req' = [req EXCEPT ![r] = state]
  /\ alone' = \A q \in Requests \ {r} : req[q] = Idle
  /\ crossed' = (crossed \/ \E q \in Requests \ {r} : req[q] # Idle)

End(r) == req' = [req EXCEPT ![r] = Idle] /\ UNCHANGED <<alone, crossed>>

\* A request that takes something out of the cart ends; what requests that met
\* have done to it is over with the last item, if this one has met no other.
EndTaking(r) ==
  /\ req' = [req EXCEPT ![r] = Idle]
  /\ crossed' = (crossed /\ ~(alone /\ lines' = {}))
  /\ UNCHANGED alone

----------------------------------------------------------------------------
(* Putting an item in. *)

\* Mutant: a placement reads the cart without locking it.
RowIsNeverHeld(r) == TRUE

\* The row of the cart is held by a placement to its end.
RowIsFree(r) == \A q \in Requests \ {r} : req[q].at # "drafted"

CheckVenue(v) == lines = {} \/ venue = NoVenue \/ venue = v

\* SetItem reads the cart and checks its venue...
SetItem(r, i) ==
  /\ CheckVenue(VenueOf(i))
  /\ Begin(r, [at |-> "checked", venue |-> NoVenue, items |-> {i}])
  /\ UNCHANGED <<venue, lines>>

\* ... and then writes the item, into the cart as it is by then: upsertCart
\* keeps the venue a cart has.
StoreItem(r) ==
  /\ req[r].at = "checked"
  /\ RowIsFree(r)
  /\ \A q \in Requests : req[r].items \intersect Gone(q) = {}
  /\ lines' = lines \union req[r].items
  /\ \E i \in req[r].items : venue' = IF venue = NoVenue THEN VenueOf(i) ELSE venue
  /\ End(r)

----------------------------------------------------------------------------
(* Taking items out. *)

\* The DELETE of RemoveItem or Clear; it waits for the rows others have deleted.
Delete(r, items) ==
  /\ \A q \in Requests : items \intersect Gone(q) = {}
  /\ Begin(r, [at |-> "deleted", venue |-> NoVenue, items |-> items])
  /\ UNCHANGED <<venue, lines>>

\* An item that is not in the cart is not found, and nothing happens.
RemoveItem(r) == \E i \in lines : Delete(r, {i})
Clear(r) == Delete(r, lines)

\* Mutant: the venue stays with a cart that has lost its last item.
NeverForget(r) ==
  /\ req[r].at = "deleted"
  /\ req' = [req EXCEPT ![r] = [at |-> "keeping", venue |-> NoVenue, items |-> req[r].items]]
  /\ UNCHANGED <<venue, lines, alone, crossed>>

\* forgetEmptyVenue looks for items that are left, and for a venue to forget.
\* Items others have deleted and not committed are still there to it.
LookForItems(r) ==
  /\ req[r].at = "deleted"
  /\ \E at \in {"forgetting", "keeping"} :
       /\ at = "forgetting" <=> lines \subseteq req[r].items /\ venue # NoVenue
       /\ req' = [req EXCEPT ![r] = [at |-> at, venue |-> NoVenue, items |-> req[r].items]]
  /\ UNCHANGED <<venue, lines, alone, crossed>>

\* A request that has found items commits and leaves the row of the cart alone.
KeepVenue(r) ==
  /\ req[r].at = "keeping"
  /\ lines' = lines \ req[r].items
  /\ EndTaking(r)
  /\ UNCHANGED venue

\* The row of the cart is written once it is free, whatever has been put into
\* the cart since its items were looked for.
ForgetEmptyVenue(r) ==
  /\ req[r].at = "forgetting"
  /\ RowIsFree(r)
  /\ lines' = lines \ req[r].items
  /\ venue' = NoVenue
  /\ EndTaking(r)

----------------------------------------------------------------------------
(* Placing an order: Service.Create. *)

\* Mutant: an empty cart is ordered like any other.
DraftAnything(r) ==
  /\ RowIsFree(r)
  /\ Begin(r, [at |-> "drafted", venue |-> venue, items |-> lines])
  /\ UNCHANGED <<venue, lines>>

\* The row of the cart is locked and the cart is read.
Draft(r) ==
  /\ RowIsFree(r)
  /\ lines # {}
  /\ venue # NoVenue
  /\ Begin(r, [at |-> "drafted", venue |-> venue, items |-> lines])
  /\ UNCHANGED <<venue, lines>>

\* ReserveStock takes the items of the venue of the order, and of no other.
Reservable(r) == AllOf(req[r].venue, req[r].items)

\* Clear waits for the rows others have deleted.
ClearIsFree(r) == \A q \in Requests : Gone(q) = {}

Place(r) ==
  /\ req[r].at = "drafted"
  /\ Reservable(r)
  /\ ClearIsFree(r)
  /\ lines' = {}
  /\ venue' = NoVenue
  /\ EndTaking(r)

----------------------------------------------------------------------------
(* Requests that change nothing. *)

\* Mutant: a reservation that was refused is tried again.
ReserveAgain(r) ==
  /\ req[r].at = "drafted"
  /\ ~Reservable(r)
  /\ UNCHANGED vars

\* An item that could not be reserved refuses the order.
Refuse(r) ==
  /\ req[r].at = "drafted"
  /\ ~Reservable(r)
  /\ End(r)
  /\ UNCHANGED <<venue, lines>>

\* A placement holds the row of the cart and waits for a deleted item, whose
\* request waits for the row.  PostgreSQL gives one of them up.
Deadlocked(r) ==
  /\ req[r].at = "drafted"
  /\ \E q \in Requests : req[q].at = "forgetting"

BreakDeadlock(r) ==
  /\ Deadlocked(r)
  /\ \E victim \in {r} \union {q \in Requests : req[q].at = "forgetting"} : End(victim)
  /\ UNCHANGED <<venue, lines>>

\* A statement fails, the client is gone, another check refuses the order, or
\* two rows are waited for crosswise while an item is stored.
Fail(r) ==
  /\ req[r] # Idle
  /\ End(r)
  /\ UNCHANGED <<venue, lines>>

----------------------------------------------------------------------------

Next ==
  \E r \in Requests :
    \/ \E i \in Items : SetItem(r, i)
    \/ StoreItem(r)
    \/ RemoveItem(r)
    \/ Clear(r)
    \/ LookForItems(r)
    \/ KeepVenue(r)
    \/ ForgetEmptyVenue(r)
    \/ Draft(r)
    \/ Place(r)
    \/ Refuse(r)
    \/ BreakDeadlock(r)
    \/ Fail(r)

Spec == Init /\ [][Next]_vars

\* A transaction that has begun goes on; those that wait for a row are served
\* in turn (strong fairness), and a deadlock is found out.
GoesOn(r) ==
  \/ StoreItem(r)
  \/ LookForItems(r)
  \/ KeepVenue(r)
  \/ ForgetEmptyVenue(r)
  \/ Place(r)
  \/ Refuse(r)

Fairness == \A r \in Requests : SF_vars(GoesOn(r)) /\ WF_vars(BreakDeadlock(r))

----------------------------------------------------------------------------
(* Properties *)

\* Changes of a cart that come one after the other keep it a cart of one venue,
\* and of none when it is empty.  Changes that meet may leave it otherwise, for
\* as long as it has items: the request that takes out the last of them and meets
\* no other, a removal, a clearing or an order, leaves a cart as good as new.
CartKnowsItsVenue ==
  ~crossed => AllOf(venue, lines) /\ (lines = {} => venue = NoVenue)

\* An order that empties the cart holds everything it throws out: nothing is put
\* in between the reading and the emptying.
NothingIsSwallowed ==
  [][\A r \in Requests :
       req[r].at = "drafted" /\ req'[r] = Idle /\ lines' # lines =>
         lines \subseteq req[r].items]_vars

----------------------------------------------------------------------------
(* What comments of the code say and its transactions do not do *)

\* "A cart holds items of one venue only."
CartHoldsOneVenue == \E v \in Venues : AllOf(v, lines)

\* "forgetEmptyVenue releases the venue of a cart that has no items left, so that
\* the next item may come from any venue."
EmptyCartIsOfNoVenue ==
  lines = {} /\ (\A r \in Requests : req[r] = Idle) => venue = NoVenue

=============================================================================
