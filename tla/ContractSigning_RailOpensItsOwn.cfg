\* One handler at a time is enough: sign never looks at the rail.
CONSTANTS
  Contracts = {c1}
  Sessions = {s1}
  Worlds <- QuietWorld
  MaxRenders = 1

SPECIFICATION Spec

INVARIANT RailOpensItsOwn

CHECK_DEADLOCK FALSE
