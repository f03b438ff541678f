\* Two venues with two dishes each and two requests at once.
CONSTANTS
  Venues = {v1, v2}
  Dishes = {d1, d2}
  NoVenue = none
  Requests = {r1, r2}
SPECIFICATION Spec
CHECK_DEADLOCK FALSE
INVARIANTS
  CartHoldsOneVenue
