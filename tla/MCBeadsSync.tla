---------------------------- MODULE MCBeadsSync ----------------------------
(* A loop of two goals, with a spec stub and an ADR for their blocks, the  *)
(* second listing the first as a dependency twice; a third that shares the *)
(* issue of the first; and a fourth with no issue.  Three calls are a      *)
(* block that crashes, its retry and a sync, or a block, an outcome or a   *)
(* document by hand, and a sync, or a sync that fails, its retry and an    *)
(* event; days pass between them.                                          *)
EXTENDS BeadsSync, TLC
CONSTANTS g1, g2, g3, g4, i1, i2
MCRoute == (g1 :> "spec") @@ (g2 :> "adr") @@ (g3 :> "none") @@ (g4 :> "none")
MCOrder == <<g2, g3, g4, g1>>
MCDependsOn == (g1 :> <<>>) @@ (g2 :> <<g1, g4, g1>>) @@ (g3 :> <<>>) @@ (g4 :> <<>>)
MCIssueOf == (g1 :> i1) @@ (g2 :> i2) @@ (g3 :> i1) @@ (g4 :> NoIssue)
=============================================================================
