SPECIFICATION Spec
CONSTANTS
  g1 = g1
  g2 = g2
  g3 = g3
  g4 = g4
  i1 = i1
  i2 = i2
  Goals = {g1, g2, g3, g4}
  Procs = {p1}
  Route <- MCRoute
  Followed = {g1}
  Followups = {f1, f2}
  NoIssue = noissue
  MaxAdr = 2
  MaxDay = 1
  MaxCalls = 3
  Serialized = TRUE
  Order <- MCOrder
  DependsOn <- MCDependsOn
  IssueOf <- MCIssueOf
INVARIANTS
  TypeOK
  AdrNumbersAreUnique
  SyncLeavesPlan
PROPERTIES
  BlocksKeepDocuments
  EventsNameDocuments
  ExistingEdgesAreNotDuplicated
CHECK_DEADLOCK FALSE
