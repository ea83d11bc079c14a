SPECIFICATION Spec
CONSTANTS
  p1 = p1
  p2 = p2
  k1 = k1
  k2 = k2
  Procs = {p1, p2}
  Keep = 2
  Interval = 1
  Latest = 2
  Secrets = {k1, k2}
  Earlier = {11, 12}
  Place <- Reversed
  None = None
  MaxTime = 2
  MaxRuns = 2
  MaxFaults = 2
SYMMETRY CommandSymmetry
INVARIANTS
  PackagesSurvive
  SuccessIsBacked
  OutcomeIsShown
CHECK_DEADLOCK FALSE
