\* Three /dplay calls from one voice channel, a queue of one, a leave event and
\* the shutdown: three sessions in a row or side by side.
CONSTANTS
  Calls = {a, b, c}
  Elsewhere = {}
  QueueCap = 1
  Terms = {}
  Leaves = {l1}
  NoSession = NoSession
SPECIFICATION SafetySpec
SYMMETRY Symmetry
INVARIANTS
  SomeoneEndsIt
PROPERTIES
  GuildFreedInTurn
  ImplementsLives
