\* Two Opens at a time, two gateways and three ends: a gateway can end, be
\* opened again, end again and be replaced, and its successor can end, while
\* another Open is about to open either.
CONSTANTS
  Openers = {o1, o2}
  MaxGateways = 2
  MaxEnds = 3
SPECIFICATION Spec
INVARIANTS
  TypeOK
  TerminatedIsReplaced
  NoStrayGateway
PROPERTIES
  StallEnds
CHECK_DEADLOCK FALSE
