------------------------------ MODULE MCOrders ------------------------------
(***************************************************************************)
(* Instances of Orders for TLC, chosen by "story" so that one run tells    *)
(* them one after the other:                                               *)
(*   race    customers, placements and the venue race for portions; the    *)
(*           worker has been stopped and no kitchen gets to cook           *)
(*   sweeps  one customer's orders are moved by all who may; the venue     *)
(*           sells and leaves its menu alone; fair                         *)
(*   list    a customer reads their list of orders while it changes        *)
(*   venues  a client reads the list of venues while shifts change         *)
(***************************************************************************)
EXTENDS OrderList

CONSTANTS
  Stories,      \* which of them to tell
  RaceOrders,   \* bound: orders placed in the story of that name
  SweepOrders

VARIABLES
  story,
  venueRank, openVenues, openNow, askedFor, venueSort, venueCursor,
  venuesShown, venuesStanding   \* the variables of VenueList

venueVars == <<venueRank, openVenues, openNow, askedFor, venueSort, venueCursor,
               venuesShown, venuesStanding>>
mcVars == <<vars, listVars, story, venueVars>>

VenueIds == 1..3
Ranks == 1..2

Venues == INSTANCE VenueList WITH
  Venues <- VenueIds, rank <- venueRank, open <- openVenues, sort <- venueSort,
  cursor <- venueCursor, shown <- venuesShown, standing <- venuesStanding

ByName == [s \in Venues!Sorts |-> <<1, 2, 2>>]

One == CHOOSE r \in Requests : TRUE
Small(u, i) == cart'[u][i] <= 1

\* Nobody looks at the list: which time and id an order gets makes no difference.
Unread ==
  /\ Around
  /\ placed' > placed => born'[placed'] = placed' /\ idOf'[placed'] = placed'

\* Bound: at one time only one order is being moved, by whoever tries to.
OneOrderMoves == \A m, n \in moving' : m.order = n.order

\* Requests are alike and customers are alike: one of each comes first.
ByTurns ==
  /\ hasCart' # {} => Reader \in hasCart'
  /\ \A r \in Requests \ {One} :
       draft[r] = NoDraft /\ draft'[r] # NoDraft => draft[One] # NoDraft

RaceStep ==
  /\ story = "race"
  /\ \/ VenueStep
     \/ CartStep /\ \A u \in Users, i \in Items : Small(u, i)
     \/ PlacementStep
     \/ \E o \in OrderIds : Cancel(o) \/ EndOfMove(o)
  /\ isOpen' => isOpen
  /\ placed' <= RaceOrders
  /\ OneOrderMoves
  /\ ByTurns
  /\ Unread

\* One customer and one request: races between placements are told by "race".
Alone ==
  /\ \A r \in Requests \ {One} : draft'[r] = NoDraft
  /\ hasCart' \subseteq {Reader}
  /\ draft'[One].user \in {Reader, Nobody}

SweepsStep ==
  /\ story = "sweeps"
  /\ CartStep \/ PlacementStep \/ MoveStep \/ SweepStep
  /\ placed' <= SweepOrders
  /\ OneOrderMoves
  /\ Alone
  /\ Unread

\* What is decided and not committed is not seen by a page: it is ended first.
ListStep ==
  /\ story = "list"
  /\ \/ /\ \/ /\ cart[Reader] = Nothing
              /\ \E i \in Items : PutIntoCart(Reader, i) /\ Small(Reader, i)
           \/ Draft(One, Reader) \/ Place(One)
           \/ \E o \in OrderIds : Cancel(o) \/ EndOfMove(o)
        /\ Around
     \/ BeginWalk
     \/ \E n \in Limits : ReadPage(n)
  /\ moving # {} => moving' = {}

VenuesStep ==
  /\ story = "venues"
  /\ Venues!Next
  /\ VenueIds \ askedFor' \subseteq {2}
  /\ UNCHANGED <<vars, listVars>>

MCNext ==
  /\ \/ VenuesStep
     \/ (RaceStep \/ SweepsStep \/ ListStep) /\ UNCHANGED venueVars
  /\ UNCHANGED story

\* The venue sells; in the list there is no end to what it sells.
MCInit ==
  /\ Init /\ ListInit
  /\ story \in Stories
  /\ isOpen /\ \A i \in Items : available[i]
  /\ story \in {"list", "venues"} => \A i \in Items : stock[i] = Uncounted
  /\ Venues!Init
  /\ \E fees \in {<<2, 1, 1>>, <<1, 1, 2>>} :
       venueRank \in {ByName, [ByName EXCEPT !["delivery_fee"] = fees]}
  /\ story # "venues" =>
       /\ venueRank = ByName /\ venueSort = "name" /\ ~openNow

MCSpec == MCInit /\ [][MCNext]_mcVars
FairMCSpec == MCSpec /\ Fairness

\* Nobody takes anything out of a cart but the orders made out of it.
FirstCartNext ==
  /\ \/ \E u \in Users, i \in Items : PutIntoCart(u, i)
     \/ PlacementStep
  /\ UNCHANGED <<listVars, story, venueVars>>
FirstCartSpec == MCInit /\ [][FirstCartNext]_mcVars

----------------------------------------------------------------------------

\* The list of orders is walked as Paging says, whatever happens to the orders
\* between two pages: no order is shown twice, none that matched all along is
\* missed.  Paging proves what follows from it.
OrderListIsPaged ==
  /\ story = "list" => ListPaging!Init
  /\ [][story = "list" => [ListPaging!Next]_ListPaging!vars]_mcVars

\* So is the list of venues, in whichever order it was begun: a cursor taken to
\* another order is refused.
VenueListIsPaged ==
  /\ Venues!Paged!Init
  /\ [][story = "venues" => [Venues!Paged!Next]_Venues!Paged!vars]_mcVars

ListsArePaged == OrderListIsPaged /\ VenueListIsPaged

\* The sweeps leave no order behind: no order hangs in CREATED because its venue
\* never answered, and an order that has left its venue is delivered.  No status
\* comes back, so after the last placement this is a time from which on no order
\* is in either.
NothingHangs ==
  <>[](story = "sweeps" =>
         \A o \in OrderIds : status[o] \notin {"CREATED", "DELIVERING"})

=============================================================================
