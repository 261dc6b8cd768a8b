\* A track of three chunks through pipes that hold one, from yt-dlp or from a
\* file; the processes may hang, except where a property says that they get on.
CONSTANTS
  Chunks = 3
  PipeCap = 1
SPECIFICATION Spec
INVARIANTS
  TypeOK
  NothingLeftBehind
  NothingCutShort
  FailureReported
  SkipIsQuiet
PROPERTIES
  StreamCloses
  LeakIsBounded
