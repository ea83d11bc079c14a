SPECIFICATION FairSpec
CONSTANTS
  c1 = c1
  c2 = c2
  r1 = r1
  r2 = r2
  r3 = r3
  Calendars = {c1, c2}
  Listed = {c1, c2}
  Existing = {}
  Resources = {r1}
  CollectionOf <- OneCalendar
  Rank <- ByName
  Limit = 4
  Contents = {"dentist", "moved", "far"}
  NoContent = NoContent
  Hidden = {"far"}
  Kinds = {"simple", "series"}
  StaleAfter = 1
  NoCalendar = NoCalendar
  MaxTime = 2
  MaxChanges = 3
  MaxFaults = 1
PROPERTIES
  TombstoneNeedsTwoMisses
  CopyConverges
CHECK_DEADLOCK FALSE
