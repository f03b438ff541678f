\* The queue holds every update there is and nothing is repeated.
CONSTANTS
  Buffer = 3
  MaxMoves = 3
  MaxRepeats = 0
SPECIFICATION JoinedSpec
CHECK_DEADLOCK FALSE
PROPERTIES
  StreamEndsWithTheOrder
