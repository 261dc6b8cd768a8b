\* Two /dplay calls, both with a download, one /dterm and one /dnext, with the
\* fairness of the code.
CONSTANTS
  c = c
  a = a
  b = b
  t1 = t1
  k1 = k1
  e1 = e1
  detached = detached
  Items = {c, a}
  Direct = {c, a}
  Creator = c
  QueueCap = 1
  Terms = {t1}
  Skips = {k1}
  Closers = {}
  Detached = detached
  LateOpen = FALSE
  NoItem = NoItem
SPECIFICATION Spec
PROPERTIES
  GoroutinesEnd
  FilesReclaimed
  SkipTakesEffect
  QueueDrains
