SPECIFICATION TimelySpec
CONSTANTS
  Reminders = {r1}
  Workers = {w1}
  Settings <- TelegramOnly
  Transports = {"alice", "mobile"}
  MaxAttempts = 2
  RetryDelay <- Backoff
  Window = 3
  Lease = 2
  Batch = 1
  Tokens = {t1, t2}
  NoToken = NoToken
  NoWorker = NoWorker
  NoReminder = NoReminder
  NoPolicy = NoPolicy
  Edits = {"patch", "complete", "import", "fire"}
  Dues = {0, 1}
  MaxTime = 10
  MaxEdits = 2
  MaxFaults = 1
  LastTrouble = 2
  CallLimit = 1
PROPERTIES
  EveryReminderSettles
  ChangesAreVersioned
CHECK_DEADLOCK FALSE
