SPECIFICATION Spec
CONSTANTS
  Reminders = {r1}
  Workers = {w1, w2}
  Settings <- TelegramOnly
  Transports = {"alice", "mobile"}
  MaxAttempts = 2
  RetryDelay <- Backoff
  Window = 3
  Lease = 1
  Batch = 1
  Tokens = {t1, t2, t3}
  NoToken = NoToken
  NoWorker = NoWorker
  NoReminder = NoReminder
  NoPolicy = NoPolicy
  Edits = {"patch", "cancel", "retry"}
  Dues = {0, 1}
  MaxTime = 2
  MaxEdits = 1
  MaxFaults = 1
  LastTrouble = 1
SYMMETRY WorkerSymmetry
INVARIANTS
  SettledTogether
  DuplicatesNeedLoss
PROPERTIES
  StopIsSilent
CHECK_DEADLOCK FALSE
