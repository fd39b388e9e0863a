--------------------------- MODULE MCGoalLifecycle ---------------------------
(* Three processes (two leave no third party to a race), one proposed root *)
(* goal, leases of one or two clock units, five clock values: time for a   *)
(* lease to expire and another to be taken and expire.                     *)
EXTENDS GoalLifecycle
MCLeaseLengths == {1, 2}
=============================================================================
