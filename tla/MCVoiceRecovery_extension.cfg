\* One session, one gateway close, and one voice server update that extends
\* the recovery.
CONSTANTS
  MaxSessions = 1
  MaxRecoveries = 1
  MaxTimers = 2
SPECIFICATION SafetySpec
INVARIANTS
  ExtensionHolds
CHECK_DEADLOCK FALSE
