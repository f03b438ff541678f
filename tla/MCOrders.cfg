\* Two customers, two requests and up to two portions of one item; the venue
\* declares one new count.  A list of three orders or venues is read by ones and
\* twos.
CONSTANTS
  Users = {u1, u2}
  Requests = {r1, r2}
  Items = {i1}
  Nobody = nobody
  Uncounted = uncounted
  MaxOrders = 3
  MaxQty = 2
  MaxStock = 2
  MaxRestocks = 1
  Batch = 1
  Reader = u1
  Wanted = {"CREATED"}
  Limits = {1, 2}
  Stories = {"race", "sweeps", "list", "venues"}
  RaceOrders = 2
  SweepOrders = 2
SPECIFICATION FairMCSpec
CHECK_DEADLOCK FALSE
INVARIANTS
  TypeOK
  HistoryIsTheLife
  StatusEventsTellTheHistory
  VenueIsToldOnce
PROPERTIES
  StockIsConserved
  OrderSpendsTheCart
  ListsArePaged
  ImplementsLife
  NothingHangs
