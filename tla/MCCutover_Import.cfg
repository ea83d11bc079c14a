SPECIFICATION Spec
CONSTANTS
  r1 = r1
  r2 = r2
  Reminders = {r1, r2}
  Channels = {"telegram", "mobile"}
  FirstFiles <- Installed
  NoRecord = NoRecord
  MaxStarts = 3
  MaxEdits = 2
  MaxFaults = 1
INVARIANTS
  RepeatsNeedUnrecorded
  AcceptedIsKept
  PendingHasTimer
PROPERTIES
  CancelIsFinal
CHECK_DEADLOCK FALSE
