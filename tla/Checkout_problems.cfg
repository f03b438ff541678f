\* One item at two prices, counted or not, within a minimum any portion meets.
CONSTANTS
  Items = {i1}
  Prices = {1, 3}
  MaxQty = 2
  MaxStock = 1
  Uncounted = uncounted
  Fee = 1
  Minimum = 1
  MaxChanges = 2
SPECIFICATION CheckoutSpec
CHECK_DEADLOCK FALSE
PROPERTIES
  ListedProblemsStopTheOrder
