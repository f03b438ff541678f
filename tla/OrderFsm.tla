------------------------------ MODULE OrderFsm ------------------------------
(***************************************************************************)
(* The state machine of an order: internal/domain/order/fsm.go, with the   *)
(* predicates on statuses and changes that the rest of the platform asks.  *)
(* "NONE" stands for an order that has no row in the database yet.         *)
(***************************************************************************)

Events == {"accept", "reject", "start", "ready", "handover", "deliver", "cancel"}

Statuses == {"CREATED", "ACCEPTED", "COOKING", "READY", "DELIVERING",
             "DELIVERED", "REJECTED", "CANCELLED"}

Actors == {"customer", "venue", "system"}

IsTerminal(status) == status \in {"DELIVERED", "REJECTED", "CANCELLED"}

\* Mutant: a rejected order keeps what it reserved.
ReturnsStockWhenCancelled(status) == status = "CANCELLED"

\* The order gives the quantities it reserved back to the menu.
ReturnsStock(status) == status \in {"REJECTED", "CANCELLED"}

\* Mutant: the venue is also told what it has decided itself.
TellsVenueOfEveryEnd(to, actor) == ReturnsStock(to)

\* A venue that did not end the order itself has to be told that it is over.
TellsVenue(to, actor) == ReturnsStock(to) /\ actor # "venue"

----------------------------------------------------------------------------
\* <<from, event, to>>: every move an order can make, and there is no other.
transitions ==
  { <<"CREATED",    "accept",   "ACCEPTED">>,
    <<"CREATED",    "reject",   "REJECTED">>,
    <<"CREATED",    "cancel",   "CANCELLED">>,
    <<"ACCEPTED",   "start",    "COOKING">>,
    <<"ACCEPTED",   "reject",   "REJECTED">>,
    <<"ACCEPTED",   "cancel",   "CANCELLED">>,
    <<"COOKING",    "ready",    "READY">>,
    <<"READY",      "handover", "DELIVERING">>,
    <<"DELIVERING", "deliver",  "DELIVERED">> }

\* The event has already brought an order to this status: it is applied again
\* without moving anything. Anything else outside the table is refused.
Repeats(from, event) ==
  /\ \A t \in transitions : ~(t[1] = from /\ t[2] = event)
  /\ \E t \in transitions : t[2] = event /\ t[3] = from

=============================================================================
