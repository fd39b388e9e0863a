---------------------------- MODULE MCIntentGraph ----------------------------
(* A proposed root goal and its child; a sound contract and some that lack *)
(* one thing or another; two processes, leases of one clock unit.          *)
EXTENDS IntentGraph

Sound ==
  [schema |-> TRUE, id |-> TRUE, title |-> TRUE, level |-> "goal", objective |-> "good",
   evidence |-> [plan |-> "good", commands |-> "none", checks |-> "none",
                 traces |-> "good", stringArgv |-> FALSE, shell |-> FALSE],
   terminal |-> [success |-> "good", blocked |-> "good"],
   boundaries |-> [f \in PathFields \cup BoundaryFields |->
                     IF f = "read_first" THEN "good" ELSE "none"],
   policy |-> Absent, routes |-> Absent, nodes |-> FALSE,
   intent |-> [authorship |-> "owner",
               source |-> [path |-> "good", anchor |-> "none", itself |-> FALSE],
               verbatim |-> "good", parent |-> Root, defeaters |-> "none",
               contact |-> [signal |-> "good", channel |-> "good"]]]

MCContracts ==
  {Sound, [Sound EXCEPT !.intent = Absent], [Sound EXCEPT !.id = FALSE]}
Adopted == [source |-> "text", quoted |-> TRUE, surface |-> TRUE, marker |-> TRUE]
MCRepos ==
  {Adopted, [Adopted EXCEPT !.source = "missing", !.marker = FALSE]}
MCLeaseLengths == {1}
=============================================================================
