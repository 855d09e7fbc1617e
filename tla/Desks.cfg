\* Two sessions (or workers) at every desk, two of each contested thing, three
\* quotes of two suppliers so that one quotes again after withdrawing.
CONSTANTS
  Suppliers = {a, b}
  Quotes = {q1, q2, q3}
  Worlds <- TenderWorlds
  Workers = {w1, w2}
  MaxTries = 2
  Moderators = {m}
  Requests = {r1, r2}
  Sessions = {s1, s2}
SPECIFICATION DesksSpec
INVARIANTS
  DesksTypeOK
  OneWinner
  LosersAreRetired
  SettledCaseIsEvaluated
  DocumentsAwaitTheRegistry
  DecisionStands
  AttendedPublicWasReviewed
  OneLiveRequest
  SignatureCoversTheLetter
PROPERTIES
  SubmittedCaseIsAnswered
  PublishedIsCompliant
\* A tender, a case, an offer or a sample may be finished with.
CHECK_DEADLOCK FALSE
