SPECIFICATION Spec
CONSTANTS
  r1 = r1
  r2 = r2
  Reminders = {r1, r2}
  Channels = {"telegram", "mobile"}
  FirstFiles <- Installed
  NoRecord = NoRecord
  MaxStarts = 2
  MaxEdits = 2
  MaxFaults = 1
PROPERTIES
  MatchingMarkerStarts
CHECK_DEADLOCK FALSE
