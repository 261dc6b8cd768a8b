\* Three /dplay calls, the later two with downloads, meeting a queue of two,
\* with one /dterm, one voice-leave event and the late Open of an earlier
\* session; the abstract player is checked alongside.
CONSTANTS
  c = c
  a = a
  b = b
  t1 = t1
  k1 = k1
  e1 = e1
  detached = detached
  Items = {c, a, b}
  Direct = {a, b}
  Creator = c
  QueueCap = 2
  Terms = {t1}
  Skips = {}
  Closers = {e1}
  Detached = detached
  LateOpen = TRUE
  NoItem = NoItem
SPECIFICATION SafetySpec
SYMMETRY Symmetry
INVARIANTS
  TypeOK
  ConnSafe
  TrackFileAvailable
  NoOrphanFile
  RestsOnlyWhilePlaying
  ClosedIsFinal
  PlaybackClearsIdleFlag
PROPERTIES
  ImplementsPlaybackQueue
