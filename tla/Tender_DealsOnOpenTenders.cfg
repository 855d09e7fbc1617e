\* A buyer cancels while accepting a quote: one supplier is enough.
CONSTANTS
  Suppliers = {a}
  Quotes = {q1}
  Sessions = {s1, s2}
  Worlds = {{"accept", "cancel"}}
SPECIFICATION Spec
INVARIANT DealsOnOpenTenders
CHECK_DEADLOCK FALSE
