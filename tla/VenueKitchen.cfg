\* Two orders of one or two portions and two portions to sell, one fault and one restart.
CONSTANTS
  MaxOrders = 2
  MaxQty = 2
  Portions = 2
  MaxFaults = 1
  MaxRestarts = 1
SPECIFICATION FairSpec
CHECK_DEADLOCK FALSE
INVARIANTS
  TypeOK
  KitchenKeepsStep
  DishesBalance
  NothingIsSoldTwice
PROPERTIES
  EndedOrdersLeaveTheKitchen
  StopListCatchesUp
