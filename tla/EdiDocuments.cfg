\* Three documents one session at a time, and two documents with two sessions.
CONSTANTS
  MaxDocs = 3
  Sessions = {s1, s2}
  Worlds <- AllWorlds

SPECIFICATION Spec

INVARIANTS
  TypeOK
  ActiveIsSignedAtTheOperator
  OneRowPerDocument

PROPERTIES
  StatusOnlyAdvances
  SignedDocumentIsNoticed

CHECK_DEADLOCK FALSE
