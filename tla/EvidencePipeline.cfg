SPECIFICATION Spec
CONSTANTS
  Procs = {p1, p2}
  c1 = c1
  c2 = c2
  broken = broken
  foreign = foreign
  Contents <- MCContents
  Lints <- MCLints
  ForGoal <- MCForGoal
  IdOf <- MCIdOf
  NoPlan = noplan
  Checks = 2
  Exclusive = TRUE
INVARIANT
  VerifiedPlanPassed
PROPERTIES
  UnforcedRunsKeepArtifact
  VerifiesItsOwnRun
