\* Two bank callbacks on one deal: a retry, a second report of the same movement
\* and a contradicting one all occur, against each other and against the poller,
\* while the broker may lose every task and the applier fail every time.  No
\* trips: they lengthen the history, and the verdicts read the status only.
CONSTANTS
  Deals = {d1}
  Callbacks = {c1, c2}
  MaxTrips = 0

SPECIFICATION FairSpec

INVARIANT CallbackAppliedOnce

PROPERTIES
  DecidedStaysDecided
  EveryCallbackDecided

\* A closed deal with its callbacks decided has nothing left to do.
CHECK_DEADLOCK FALSE
