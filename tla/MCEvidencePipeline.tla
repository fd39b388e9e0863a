------------------------- MODULE MCEvidencePipeline -------------------------
(* Two processes; two plans for this goal that differ in their checks, one *)
(* that does not lint, one for another goal.                               *)
EXTENDS EvidencePipeline
CONSTANTS c1, c2, broken, foreign
MCContents == {c1, c2, broken, foreign}
MCLints == {c1, c2, foreign}
MCForGoal == {c1, c2, broken}
MCIdOf == [c \in MCContents |-> IF c = foreign THEN 2 ELSE 1]
=============================================================================
