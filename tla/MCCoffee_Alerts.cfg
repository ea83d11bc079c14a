SPECIFICATION FairSpec
CONSTANTS
  h1 = h1
  h2 = h2
  Alerts = {"warmed_up"}
  Delay <- WarmUp
  HasPhones = TRUE
  Tries = 2
  Handlers = {h1, h2}
  Boot = Boot
  Tasks = {1, 2}
  NoTask = NoTask
  Kinds = {"on", "off", "set", "legacy"}
  MaxTime = 3
  MaxChanges = 2
  MaxEdits = 1
  MaxFaults = 1
INVARIANTS
  NoStrayTask
  FileFollows
PROPERTIES
  RepeatsNeedLoss
  SendsForItsCycle
  MarksAreTrue
  AlertsSettle
CHECK_DEADLOCK FALSE
