\* Two orders of a venue with three events between them, one worker with
\* batches of two, and two faults anywhere.
CONSTANTS
  Aggregates = {a1, a2}
  Nobody = nobody
  Workers = {w1}
  Batch = 2
  MaxEvents = 3
  MaxFaults = 2
SPECIFICATION FairSpec
CHECK_DEADLOCK FALSE
INVARIANTS
  FirstCopiesInOrder
PROPERTIES
  ImplementsEventOrder
  EveryEventTakesEffect
