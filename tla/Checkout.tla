------------------------------- MODULE Checkout -------------------------------
(***************************************************************************)
(* What an order costs and what stops it: the cart of a customer as they   *)
(* are shown it (Cart.Totals, Validate), the order FromCart makes out of it*)
(* and the reservation that follows, while the venue changes its prices,   *)
(* its counts, its stop list and its shift in between.                     *)
(*                                                                         *)
(* Grain.  Showing the cart, drafting the order (one read of cart and menu)*)
(* and reserving with everything after it are steps.  The cart is locked   *)
(* while an order is being placed; how several requests of one customer    *)
(* meet is in Cart, how several customers meet in Orders.  Address, phone  *)
(* and comment of the order are in order.                                  *)
(***************************************************************************)
EXTENDS Naturals, FiniteSets, Functions

CONSTANTS
  Items,       \* the menu of the venue of the cart
  Prices,      \* what an item may cost
  MaxQty,      \* bound: portions asked for of one item
  MaxStock,    \* bound: portions of an item the venue has
  Uncounted,   \* the count of an item the venue does not count
  Fee,         \* venues.delivery_fee
  Minimum,     \* venues.min_order_amount
  MaxChanges   \* bound: changes of the menu and of the shift

ASSUME CheckoutAssumption ==
  /\ IsFiniteSet(Items)
  /\ Prices \in SUBSET Nat /\ Prices # {}
  /\ MaxQty \in Nat /\ MaxStock \in Nat /\ Uncounted \notin Nat
  /\ Fee \in Nat /\ Minimum \in Nat /\ MaxChanges \in Nat

VARIABLES
  isOpen,     \* venues.is_open
  menu,       \* menu_items: price, is_available, stock_qty
  lines,      \* cart_items: qty, price_snapshot
  screen,     \* what the customer was last shown of the cart
  draft,      \* the order being placed
  order,      \* the last order placed
  changes,    \* changes of the venue so far
  overtaken   \* history variable: the venue has changed something since the draft

venueVars == <<isOpen, menu, changes>>
checkoutVars == <<venueVars, lines, screen, draft, order, overtaken>>

Item == [price : Prices, available : BOOLEAN, stock : 0..MaxStock \union {Uncounted}]
Line == [qty : 1..MaxQty, snapshot : Prices]
NoLine == [qty |-> 0]

Held(ls) == {i \in Items : ls[i] # NoLine}
IsEmpty(ls) == Held(ls) = {}

\* "checked" and "fresh": the screen shows the answer of Validate, and nothing
\* has changed since.
NoScreen == [checked |-> FALSE, fresh |-> FALSE, problems |-> {}, total |-> 0]
\* Of what no longer holds the total is still sent.
Outdated == [NoScreen EXCEPT !.total = screen.total]

NoOrder == [lines |-> [i \in Items |-> NoLine], total |-> 0, expected |-> 0]

CheckoutTypeOK ==
  /\ isOpen \in BOOLEAN
  /\ menu \in [Items -> Item]
  /\ lines \in [Items -> Line \union {NoLine}]
  /\ DOMAIN screen = DOMAIN NoScreen /\ screen.total \in Nat
  /\ draft.lines \in [Items -> Line \union {NoLine}] /\ draft.total \in Nat
  /\ order.lines \in [Items -> Line \union {NoLine}] /\ order.total \in Nat
  /\ changes \in 0..MaxChanges
  /\ overtaken \in BOOLEAN

CheckoutInit ==
  /\ isOpen = TRUE
  /\ menu \in [Items -> {m \in Item : m.available}]
  /\ lines = [i \in Items |-> NoLine]
  /\ screen = NoScreen
  /\ draft = NoOrder
  /\ order = NoOrder
  /\ changes = 0
  /\ overtaken = FALSE

----------------------------------------------------------------------------
(* The money of a cart and what is wrong with it. *)

LineTotal(line) == line.qty * line.snapshot

\* An empty cart costs nothing, delivery included.
ItemsTotal(ls) == SumFunction([i \in Held(ls) |-> LineTotal(ls[i])])
Total(ls) == IF IsEmpty(ls) THEN 0 ELSE ItemsTotal(ls) + Fee

\* The cart at the current prices of the menu.
Repriced(ls) ==
  [i \in Items |-> IF ls[i] = NoLine THEN NoLine
                   ELSE [ls[i] EXCEPT !.snapshot = menu[i].price]]

\* Mutant: an item is short only when there is none of it left.
ShortWhenGone(i, qty) == menu[i].stock # Uncounted /\ menu[i].stock = 0

Short(i, qty) == menu[i].stock # Uncounted /\ menu[i].stock < qty

\* Line.problems
LineProblems(i, line) ==
  {p \in {"item_unavailable", "out_of_stock", "price_changed"} :
     CASE p = "item_unavailable" -> ~menu[i].available
       [] p = "out_of_stock"     -> Short(i, line.qty)
       [] p = "price_changed"    -> line.snapshot # menu[i].price}

BelowMinimum(ls) == ~IsEmpty(ls) /\ ItemsTotal(ls) < Minimum

\* Cart.Validate
Problems(ls) ==
  (UNION {LineProblems(i, ls[i]) : i \in Held(ls)})
  \union (IF ~IsEmpty(ls) /\ ~isOpen THEN {"venue_closed"} ELSE {})
  \union (IF BelowMinimum(Repriced(ls)) THEN {"below_minimum"} ELSE {})

\* MenuItem.Availability
OnOffer(i) ==
  /\ menu[i].available
  /\ menu[i].stock = Uncounted \/ menu[i].stock > 0
  /\ isOpen

----------------------------------------------------------------------------
(* The venue. *)

Change ==
  /\ changes < MaxChanges
  /\ changes' = changes + 1
  /\ overtaken' = (draft # NoOrder)
  /\ screen' = Outdated
  /\ UNCHANGED <<lines, draft, order>>

PatchItem(i) ==
  /\ Change
  /\ \E m \in Item \ {menu[i]} : menu' = [menu EXCEPT ![i] = m]
  /\ UNCHANGED isOpen

SetShift ==
  /\ Change
  /\ isOpen' = ~isOpen
  /\ UNCHANGED menu

----------------------------------------------------------------------------
(* The customer. *)

\* The price of an item already in the cart is left as it was.
SetItem(i, qty) ==
  /\ draft = NoOrder
  /\ lines' = [lines EXCEPT ![i] =
       IF qty = 0 THEN NoLine
       ELSE [qty |-> qty,
             snapshot |-> IF @ = NoLine THEN menu[i].price ELSE @.snapshot]]
  /\ screen' = Outdated
  /\ UNCHANGED <<venueVars, draft, order, overtaken>>

\* The cart as it is stored, with the prices the items were put in at.
ShowCart ==
  /\ draft = NoOrder
  /\ screen' = [checked |-> FALSE, fresh |-> TRUE, problems |-> {}, total |-> Total(lines)]
  /\ UNCHANGED <<venueVars, lines, draft, order, overtaken>>

\* Mutant: the check answers with the stored cart.
ValidateStored ==
  /\ draft = NoOrder
  /\ screen' = [checked |-> TRUE, fresh |-> TRUE, problems |-> Problems(lines),
                total |-> Total(lines)]
  /\ UNCHANGED <<venueVars, lines, draft, order, overtaken>>

\* The problems of the cart, and the cart at the current prices.
Validate ==
  /\ draft = NoOrder
  /\ screen' = [checked |-> TRUE, fresh |-> TRUE, problems |-> Problems(lines),
                total |-> Total(Repriced(lines))]
  /\ UNCHANGED <<venueVars, lines, draft, order, overtaken>>

\* A price that has changed refuses nothing: the expected total does.
Refused(ls) == Problems(ls) \ {"price_changed"} # {}

\* Mutant: the total expected is that of the stored cart.
AcceptsStored(ls, expected) == ~IsEmpty(ls) /\ ~Refused(ls) /\ expected = Total(ls)

\* FromCart
Accepts(ls, expected) == ~IsEmpty(ls) /\ ~Refused(ls) /\ expected = Total(Repriced(ls))

\* The customer sends the total they see.
Draft ==
  /\ draft = NoOrder
  /\ Accepts(lines, screen.total)
  /\ draft' = [lines |-> Repriced(lines), total |-> Total(Repriced(lines)),
               expected |-> screen.total]
  /\ overtaken' = FALSE
  /\ UNCHANGED <<venueVars, lines, screen, order>>

\* Mutant: the reservation trusts the check before it.
ReservableUnseen(ls) == TRUE

\* ReserveStock: what the UPDATE itself asks of every row.
Reservable(ls) ==
  \A i \in Held(ls) :
    menu[i].available /\ (menu[i].stock # Uncounted => menu[i].stock >= ls[i].qty)

Less(count, qty) == IF count = Uncounted THEN count ELSE count - qty

Place ==
  /\ draft # NoOrder
  /\ Reservable(draft.lines)
  /\ menu' = [i \in Items |-> [menu[i] EXCEPT !.stock = Less(@, draft.lines[i].qty)]]
  /\ order' = draft
  /\ lines' = NoOrder.lines
  /\ draft' = NoOrder
  /\ overtaken' = FALSE
  /\ screen' = NoScreen
  /\ UNCHANGED <<isOpen, changes>>

\* Somebody else has had it in the meantime.
RanOut ==
  /\ draft # NoOrder
  /\ ~Reservable(draft.lines)
  /\ draft' = NoOrder
  /\ overtaken' = FALSE
  /\ UNCHANGED <<venueVars, lines, screen, order>>

----------------------------------------------------------------------------

CheckoutNext ==
  \/ \E i \in Items : PatchItem(i) \/ \E qty \in 0..MaxQty : SetItem(i, qty)
  \/ SetShift
  \/ ShowCart
  \/ Validate
  \/ Draft
  \/ Place
  \/ RanOut

CheckoutSpec == CheckoutInit /\ [][CheckoutNext]_checkoutVars

----------------------------------------------------------------------------
(* Properties *)

\* Nobody pays a sum they have not seen, whatever has become of the prices since
\* the items were chosen, and what they pay is what the lines of their order add
\* up to, which the venue is content with.
PaysWhatWasShown ==
  order # NoOrder =>
    /\ order.total = order.expected
    /\ order.total = ItemsTotal(order.lines) + Fee
    /\ ItemsTotal(order.lines) >= Minimum

\* A check tells what placing an order would do: unless something changes, the
\* total it shows is accepted exactly if it found nothing but changed prices. This
\* is what the code does (refuse, create.go:104-123); the description of the API says
\* more, and the code does not keep it: see ListedProblemsStopTheOrder.
\* The menu tells it as well: it offers an item exactly if the check has nothing
\* against one portion of it.
CheckTellsTheTruth ==
  /\ screen.checked /\ screen.fresh =>
       (Accepts(lines, screen.total) <=>
          ~IsEmpty(lines) /\ screen.problems \subseteq {"price_changed"})
  /\ \A i \in Items :
       OnOffer(i) <=> isOpen /\ LineProblems(i, [qty |-> 1, snapshot |-> menu[i].price]) = {}

\* What the API says of the check (api/openapi/kitchen.yaml:222-223): with any
\* problem on the list, placing the order ends in an error. It does not hold: the
\* customer whose list says that prices have changed, and who sends the total the
\* check has shown, gets the order.
ListedProblemsStopTheOrder ==
  [][order' # order /\ screen.checked /\ screen.fresh => screen.problems = {}]_checkoutVars

\* An order that passed the check is turned down by the reservation, or charged
\* another price than the menu's, only if the venue has changed something since.
OnlyTheOvertakenRunOut ==
  draft # NoOrder /\ ~overtaken =>
    /\ Reservable(draft.lines)
    /\ \A i \in Held(draft.lines) : draft.lines[i].snapshot = menu[i].price
=============================================================================
