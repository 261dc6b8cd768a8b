\* Two /dplay calls and nobody else: the second is accepted while the worker
\* is on its way from the empty queue to Destroy.
CONSTANTS
  c = c
  a = a
  b = b
  t1 = t1
  k1 = k1
  e1 = e1
  detached = detached
  Items = {c, a}
  Direct = {a}
  Creator = c
  QueueCap = 1
  Terms = {}
  Skips = {}
  Closers = {}
  Detached = detached
  LateOpen = FALSE
  NoItem = NoItem
SPECIFICATION Spec
PROPERTIES
  AutoDisconnectOnlyWhenEmpty
