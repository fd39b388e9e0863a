--------------------------- MODULE MCCampaignRun ---------------------------
(* A loop of two goals, the second after the first; two processes; leases  *)
(* of one clock unit, two clock values: a lease can expire between the two *)
(* readings of a run, and after its claim.                                 *)
EXTENDS CampaignRun, TLC
CONSTANTS g1, g2
MCOrder == <<g2, g1>>
MCDependsOn == (g1 :> {}) @@ (g2 :> {g1})
MCLeaseLengths == {1}
MCSymmetry == Permutations(Agents)
=============================================================================
