SPECIFICATION Spec
CONSTANTS
  Headings <- MCHeadings
  Sections <- MCSections
  Replies <- MCReplies
  SpecVersions = {p1, p2}
  MaxCalls = 3
  MaxFailures = 1
  MaxEdits = 1
CHECK_DEADLOCK FALSE
SYMMETRY Wordings
INVARIANTS
  TypeOK
  ManifestClosed
  RefinementsAgree
  IssuesBelongToNodes
  ReadyHasItsWork
  DecisionsAreCovered
  RetriesFailByPromptOnly
PROPERTY KeepsPeoplesWords
