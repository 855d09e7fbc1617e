\* Two tasks apply two callbacks of one payment, or both the same one; every
\* other door has the deal for itself.
CONSTANTS
  Sessions = {s1, s2}
  Callbacks = {c1, c2}
  Overlap <- BankOnly
  MaxTrips = 0
  MaxLog = 20

SPECIFICATION Spec
SYMMETRY SessionSymmetry

INVARIANTS
  HistoryChains
  MoneyMovesOnce

\* Once the deal is closed and the callbacks are decided, nothing is left to do.
CHECK_DEADLOCK FALSE
