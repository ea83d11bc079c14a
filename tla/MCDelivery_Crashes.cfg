SPECIFICATION Spec
CONSTANTS
  Reminders = {r1}
  Workers = {w1}
  Settings <- AnySettings
  Transports = {"alice", "mobile"}
  MaxAttempts = 2
  RetryDelay <- Backoff
  Window = 3
  Lease = 1
  Batch = 1
  Tokens = {t1, t2}
  NoToken = NoToken
  NoWorker = NoWorker
  NoReminder = NoReminder
  NoPolicy = NoPolicy
  Edits = {"patch", "complete", "cancel", "retry"}
  Dues = {0, 2}
  MaxTime = 3
  MaxEdits = 1
  MaxFaults = 1
  LastTrouble = 3
SYMMETRY TokenSymmetry
INVARIANTS
  ClosedIsSuppressed
  DeliveredWasAccepted
  CapsPerCycle
PROPERTIES
  SettledIsFinal
CHECK_DEADLOCK FALSE
