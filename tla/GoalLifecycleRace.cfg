SPECIFICATION Spec
CONSTANTS
  Agents = {a1, a2, a3}
  Nobody = nobody
  Versions = {v1}
  Goals = {g1}
  Roots = {g1}
  LeaseLengths <- MCLeaseLengths
  MaxTime = 4
  Serialized = FALSE
PROPERTY
  ClaimExclusion
