SPECIFICATION Spec
CONSTANTS
  Agents = {a1, a2}
  Nobody = nobody
  Versions = {v1, v2}
  Clocks <- MCClocks
  MaxLog = 4
INVARIANTS
  DigestAnswersForLog
  ExpiryNeverRevives
  CountsStartAtTheirReset
  ConfirmationAgrees
PROPERTY
  OnlyClaimGrants
CHECK_DEADLOCK FALSE
