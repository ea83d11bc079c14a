SPECIFICATION MutationSpec
CONSTANTS
  c1 = c1
  c2 = c2
  r1 = r1
  r2 = r2
  r3 = r3
  Calendars = {c1, c2}
  Listed = {c1}
  Existing = {r1}
  Resources = {r1}
  CollectionOf <- OneCalendar
  Rank <- ByName
  Limit = 4
  Contents = {"dentist", "moved"}
  NoContent = NoContent
  Hidden = {}
  Kinds = {"simple"}
  StaleAfter = 1
  NoCalendar = NoCalendar
  MaxTime = 0
  MaxChanges = 1
  MaxFaults = 1
  c3 = c3
  h1 = h1
  h2 = h2
  k1 = k1
  k2 = k2
  Keys = {k1}
  Handlers = {h1, h2}
  Ops = {"update", "delete", "create", "mkcal", "rmcal"}
  ReadOnly = {}
  NoKey = NoKey
  NoResource = NoResource
  MaxSends = 2
SYMMETRY RequestSymmetry
INVARIANTS
  AnswersAreTrue
  OneEffectPerKey
  OneAnswerPerKey
PROPERTIES
  NoLostUpdate
  QuietRefreshIsExact
  VersionsTellApart
CHECK_DEADLOCK FALSE
