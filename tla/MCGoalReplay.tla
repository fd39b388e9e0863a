---------------------------- MODULE MCGoalReplay ----------------------------
(* Two agents, two file contents, readers at three clock values, every log *)
(* of up to four events.                                                   *)
EXTENDS GoalReplay
MCClocks == 0..2
=============================================================================
