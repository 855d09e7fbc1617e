\* One contract, two sessions, a document rendered once more.
CONSTANTS
  Contracts = {c1}
  Sessions = {s1, s2}
  Worlds <- AllWorlds
  MaxRenders = 2

SPECIFICATION Spec

INVARIANTS
  TypeOK
  ActivationIsEarned
  PairActivates
  ActivatesOnce
  SignaturesCoverTheDocument
  ContractedDealHasItsContract

PROPERTIES
  FinalUnlessOverwritten
  ActivationReachesTheDeal

CHECK_DEADLOCK FALSE
