\* One order for the last portion and one fault.
CONSTANTS
  MaxOrders = 1
  MaxQty = 1
  Portions = 1
  MaxFaults = 1
  MaxRestarts = 0
SPECIFICATION FairSpec
CHECK_DEADLOCK FALSE
PROPERTIES
  StopListIsNeverLost
