SPECIFICATION FairSpec
CONSTANTS
  a1 = a1
  a2 = a2
  Callers = {a1, a2}
  Poller = Poller
  Script = Script
  Minutes = {1, 2}
  Asked = {2, 3}
  Bare = 1
  Bootstrap <- Defaults
  Legacies <- MaybeOld
  NoPair = NoPair
  NoCaller = NoCaller
  Budgets <- Each
PROPERTIES
  PatchAnswersAreTrue
  PolicyConverges
  TimersFollow
CHECK_DEADLOCK FALSE
