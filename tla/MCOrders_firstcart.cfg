\* One customer who has never had a cart and two requests; the menu stays as it
\* is.
CONSTANTS
  Users = {u1}
  Requests = {r1, r2}
  Items = {i1}
  Nobody = nobody
  Uncounted = uncounted
  MaxOrders = 2
  MaxQty = 2
  MaxStock = 2
  MaxRestocks = 0
  Batch = 1
  Reader = u1
  Wanted = {"CREATED"}
  Limits = {1}
  Stories = {"race"}
  RaceOrders = 2
  SweepOrders = 2
SPECIFICATION FirstCartSpec
CHECK_DEADLOCK FALSE
PROPERTIES
  NoCartMakesTwoOrders
