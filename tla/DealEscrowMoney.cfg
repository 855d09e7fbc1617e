\* One deal (deals share no state), one bank callback, two trips through the
\* cycles: a deal can be disputed, restored, disputed again and cancelled, and
\* its contract can roll back twice.
CONSTANTS
  Deals = {d1}
  Callbacks = {c1}
  MaxTrips = 2

SPECIFICATION Spec

INVARIANTS
  TypeOK
  MoneyEndsWithTheDeal
  DirectDealSettles
  EscrowProtectsSeller
  EscrowProtectsBuyer
  AppliedIsRecorded

PROPERTY KeepsThePromise

\* A closed deal with its callbacks decided has nothing left to do.
CHECK_DEADLOCK FALSE
