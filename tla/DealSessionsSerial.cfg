\* One session at a time, through every door.
CONSTANTS
  Sessions = {s1}
  Callbacks = {c1}
  Overlap <- NoDoors
  MaxTrips = 1
  MaxLog = 20

SPECIFICATION Spec

PROPERTY ImplementsDealEscrow

\* Once the deal is closed and the callbacks are decided, nothing is left to do.
CHECK_DEADLOCK FALSE
