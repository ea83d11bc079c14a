SPECIFICATION FairSpec
CONSTANTS
  h1 = h1
  h2 = h2
  s1 = s1
  s2 = s2
  Handlers = {h1, h2}
  Boot = Boot
  Marks = {"warmed_up"}
  Shots = {s1, s2}
  Configs <- Each
  None = None
INVARIANTS
  CleanupMeansOff
PROPERTIES
  ActivityFollows
  WidgetFollows
CHECK_DEADLOCK FALSE
