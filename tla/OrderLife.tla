------------------------------ MODULE OrderLife ------------------------------
(***************************************************************************)
(* What the platform promises about an order, without carts, stock, tables *)
(* or workers. An order is walked by its venue from CREATED to the courier *)
(* and closed by the platform; until cooking starts the customer, the      *)
(* venue or the platform may end it instead; what has ended stays ended.   *)
(*                                                                         *)
(* `venueKnows' is what the orders topic has said of it to the venue. The  *)
(* venue is given every order once, and an order it did not end itself is  *)
(* taken away from it exactly when it ends, never before it was given and  *)
(* never after the venue has started cooking.                              *)
(***************************************************************************)
CONSTANT Ids

VARIABLES life, venueKnows

lifeVars == <<life, venueKnows>>

LifeInit ==
  /\ life = [o \in Ids |-> "NONE"]
  /\ venueKnows = [o \in Ids |-> "nothing"]

GoesTo(o, from, to, knows) ==
  /\ life[o] \in from
  /\ life' = [life EXCEPT ![o] = to]
  /\ venueKnows' = [venueKnows EXCEPT ![o] = knows]

Placed(o) == GoesTo(o, {"NONE"}, "CREATED", "given")

WalkedByVenue(o) ==
  \/ GoesTo(o, {"CREATED"}, "ACCEPTED", "given")
  \/ GoesTo(o, {"ACCEPTED"}, "COOKING", "given")
  \/ GoesTo(o, {"COOKING"}, "READY", "given")
  \/ GoesTo(o, {"READY"}, "DELIVERING", "given")

Delivered(o) == GoesTo(o, {"DELIVERING"}, "DELIVERED", "given")

RefusedByVenue(o) == GoesTo(o, {"CREATED", "ACCEPTED"}, "REJECTED", "given")

Withdrawn(o) == GoesTo(o, {"CREATED", "ACCEPTED"}, "CANCELLED", "taken away")

GivenUp(o) == GoesTo(o, {"CREATED"}, "REJECTED", "taken away")

LifeNext ==
  \E o \in Ids :
    \/ Placed(o)
    \/ WalkedByVenue(o)
    \/ Delivered(o)
    \/ RefusedByVenue(o)
    \/ Withdrawn(o)
    \/ GivenUp(o)

LifeSpec == LifeInit /\ [][LifeNext]_lifeVars

=============================================================================
