\* One deal, one dispute, no bank: enough for the counterexample.
CONSTANTS
  Deals = {d1}
  Callbacks = {}
  MaxTrips = 1

SPECIFICATION Spec

INVARIANT PaidEscrowIsFunded

CHECK_DEADLOCK FALSE
