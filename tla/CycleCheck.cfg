SPECIFICATION Spec
CONSTANTS
  Nodes = {n1, n2, n3}
  Names = {n1, n2, n3, unknown}
INVARIANT
  VerdictIsRight
PROPERTY
  Terminates
CHECK_DEADLOCK FALSE
