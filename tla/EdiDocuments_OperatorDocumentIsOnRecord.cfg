\* One session at a time: one answer that is lost is enough.
CONSTANTS
  MaxDocs = 3
  Sessions = {s1}
  Worlds <- Serial

SPECIFICATION Spec

INVARIANT OperatorDocumentIsOnRecord

CHECK_DEADLOCK FALSE
