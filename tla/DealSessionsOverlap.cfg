\* Any two doors at once, on a history of at most six rows.
CONSTANTS
  Sessions = {s1, s2}
  Callbacks = {}
  Overlap <- AllDoors
  MaxTrips = 1
  MaxLog = 6

SPECIFICATION FairSpec

INVARIANT HistoryEndsAtStatus

PROPERTIES
  RailIsFrozen
  EverySessionEnds

\* Once the deal is closed and the callbacks are decided, nothing is left to do.
CHECK_DEADLOCK FALSE
