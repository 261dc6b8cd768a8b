\* A limit of two bytes: bodies and declared lengths from nothing to two more
\* than the limit, and every answer of the server, of yt-dlp and of the disk.
CONSTANTS
  Limit = 2
SPECIFICATION Spec
INVARIANTS
  FileIffDirect
  WholeOrRefused
  ClassifyAgrees
CHECK_DEADLOCK FALSE
