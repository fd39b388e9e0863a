SPECIFICATION CampaignSpec
CONSTANTS
  Agents = {a1, a2}
  Nobody = nobody
  Versions = {v1}
  g1 = g1
  g2 = g2
  Goals = {g1, g2}
  Nodes = {g1, g2}
  Roots = {}
  Order <- MCOrder
  DependsOn <- MCDependsOn
  LeaseLengths <- MCLeaseLengths
  MaxTime = 1
  Serialized = TRUE
SYMMETRY MCSymmetry
PROPERTY
  ActiveClaimIsResumed
