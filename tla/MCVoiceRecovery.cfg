\* Two sessions, three gateway closes, four timers: every recovery can replace
\* another, and three extensions can happen in one, or fewer in each.
CONSTANTS
  MaxSessions = 2
  MaxRecoveries = 3
  MaxTimers = 4
SPECIFICATION Spec
INVARIANTS
  TypeOK
  NoFallbackAfterCancel
  ArmedTimerIsOwned
PROPERTIES
  ImplementsRecovery
  RecoveryEnds
CHECK_DEADLOCK FALSE
