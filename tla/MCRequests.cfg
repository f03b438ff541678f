\* Two items at two prices, one or two portions, the minimum not met by the cheapest
\* item, nor by it and the fee; four requests of two kinds under one key, whose
\* answer may expire once; two calls that share one connection.
CONSTANTS
  Stories = {"checkout", "key", "calls"}
  Attempts = {p1, p2, p3, p4}
  Requests = {x, y}
  Nobody = nobody
  MaxLives = 1
  Items = {i1, i2}
  Prices = {1, 3}
  MaxQty = 2
  MaxStock = 1
  Uncounted = uncounted
  Fee = 1
  Minimum = 3
  MaxChanges = 2
  Slots = {a, b}
  Focused = {b}
  Focus = {"CreateOrder", "StreamOrderEvents"}
  MaxConns = 1
SPECIFICATION FairMCSpec
CHECK_DEADLOCK FALSE
INVARIANTS
  MCTypeOK
  OneOrderPerKey
  OrderIsRemembered
  AnswersAreTrue
  PaysWhatWasShown
  CheckTellsTheTruth
  OnlyTheOvertakenRunOut
  AnswersAreHonest
  OrderlyStop
PROPERTIES
  EveryAttemptIsAnswered
  NothingWaitsForEver
