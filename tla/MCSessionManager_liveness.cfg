\* Two /dplay calls, a queue of one, a /dterm and the shutdown, with the
\* fairness of the code.
CONSTANTS
  Calls = {a, b}
  Elsewhere = {}
  QueueCap = 1
  Terms = {t1}
  Leaves = {}
  NoSession = NoSession
SPECIFICATION Spec
INVARIANTS
  RestsOnlyWhilePlaying
  DestroysOwnFirst
PROPERTIES
  CallsEnd
  SessionsEnd
