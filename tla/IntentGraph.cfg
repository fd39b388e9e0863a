SPECIFICATION GraphSpec
CONSTANTS
  Agents = {a1, a2}
  Nobody = nobody
  Versions = {v1}
  Goals = {g1}
  Roots = {g1}
  Parent = g1
  Launchers = {a1}
  Contracts <- MCContracts
  Repos <- MCRepos
  LeaseLengths <- MCLeaseLengths
  MaxTime = 1
  MaxEdits = 1
  Serialized = FALSE
CHECK_DEADLOCK FALSE
INVARIANTS
  UnratifiedRootIdle
  RatifiedInFile
  FailedLaunchHoldsNothing
  LaunchedGoalStands
  DriftIsReported
