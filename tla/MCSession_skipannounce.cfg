\* Two /dplay calls and one /dstop that comes when the track ends.
CONSTANTS
  c = c
  a = a
  b = b
  t1 = t1
  k1 = k1
  e1 = e1
  detached = detached
  Items = {c, a}
  Direct = {a}
  Creator = c
  QueueCap = 1
  Terms = {}
  Skips = {k1}
  Closers = {}
  Detached = detached
  LateOpen = FALSE
  NoItem = NoItem
SPECIFICATION SafetySpec
INVARIANTS
  SkipStopsAnnounced
