\* One customer and an order of up to five entries; the queue holds two updates,
\* two are repeated.
CONSTANTS
  Buffer = 2
  MaxMoves = 5
  MaxRepeats = 2
SPECIFICATION FairSpec
CHECK_DEADLOCK FALSE
INVARIANTS
  NoHoleWithoutAReason
PROPERTIES
  NeverGoesBack
  EndIsLearned
