----------------------------- MODULE CycleCheck -----------------------------
(***************************************************************************)
(* The depth-first search by which dp loop lint rejects a dependency cycle *)
(* (_has_cycle in dp/core/loop_ledger.py) and dp decompose reports is_dag  *)
(* (_is_dag in dp/core/decompose.py), which returns the opposite answer.   *)
(*                                                                         *)
(* The call stack is a sequence of frames: a node and the dependencies its *)
(* loop has still to go through, in any order since they are a set.  A     *)
(* dependency leaves the loop when visit has returned for it.              *)
(***************************************************************************)
EXTENDS Naturals, Sequences

CONSTANTS Nodes,   \* the ids the graph defines
          Names    \* the ids depends_on may name, those that do not resolve too

ASSUME NodesAreNames == Nodes \subseteq Names

VARIABLES
  dependsOn,  \* the graph
  pending,    \* nodes the outer loop has still to visit
  stack,      \* the active calls of visit
  visiting,   \* the two sets of the code
  visited,
  verdict     \* what the search returns, once it has

vars == <<dependsOn, pending, stack, visiting, visited, verdict>>

Frames == [node : Nodes, todo : SUBSET Names]
Top == stack[Len(stack)]

Init ==
  /\ dependsOn \in [Nodes -> SUBSET Names]
  /\ pending = Nodes
  /\ stack = <<>>
  /\ visiting = {}
  /\ visited = {}
  /\ verdict = "none"

Running == verdict = "none"

(* visit(n) goes on past its two tests; the alternative marks the node as  *)
(* visited already here.                                                   *)
EnterVisited(n) ==
  /\ visited' = visited \cup {n}
  /\ visiting' = visiting
  /\ stack' = Append(stack, [node |-> n, todo |-> dependsOn[n]])
Enter(n) ==
  /\ visiting' = visiting \cup {n}
  /\ visited' = visited
  /\ stack' = Append(stack, [node |-> n, todo |-> dependsOn[n]])

(* The outer loop calls visit on each node and, when visit has returned    *)
(* False, goes on to the next.                                             *)
Root(n) ==
  /\ Running /\ stack = <<>>
  /\ n \in pending \ visited
  /\ Enter(n)
  /\ UNCHANGED <<dependsOn, pending, verdict>>

NextRoot(n) ==
  /\ Running /\ stack = <<>>
  /\ n \in pending \cap visited
  /\ pending' = pending \ {n}
  /\ UNCHANGED <<dependsOn, stack, visiting, visited, verdict>>

(* The inner loop: a dependency not seen yet is visited, ...               *)
Descend(d) ==
  /\ Running /\ stack # <<>>
  /\ d \in (Top.todo \cap Nodes) \ (visited \cup visiting)
  /\ Enter(d)
  /\ UNCHANGED <<dependsOn, pending, verdict>>

(* ... one that is finished, or no node of the graph, is passed over (the  *)
(* alternative does not move on), ...                                      *)
SkipStays(d) ==
  /\ Running /\ stack # <<>>
  /\ d \in Top.todo /\ (d \in visited \/ d \notin Nodes)
  /\ UNCHANGED vars
Skip(d) ==
  /\ Running /\ stack # <<>>
  /\ d \in Top.todo /\ (d \in visited \/ d \notin Nodes)
  /\ stack' = [stack EXCEPT ![Len(stack)].todo = @ \ {d}]
  /\ UNCHANGED <<dependsOn, pending, visiting, visited, verdict>>

(* ... and one whose visit is still active ends the whole search.          *)
CloseCycle(d) ==
  /\ Running /\ stack # <<>>
  /\ d \in (Top.todo \cap visiting) \ visited
  /\ verdict' = "cycle"
  /\ UNCHANGED <<dependsOn, pending, stack, visiting, visited>>

Return ==
  /\ Running /\ stack # <<>>
  /\ Top.todo = {}
  /\ visiting' = visiting \ {Top.node}
  /\ visited' = visited \cup {Top.node}
  /\ stack' = SubSeq(stack, 1, Len(stack) - 1)
  /\ UNCHANGED <<dependsOn, pending, verdict>>

Finish ==
  /\ Running /\ stack = <<>> /\ pending = {}
  /\ verdict' = "acyclic"
  /\ UNCHANGED <<dependsOn, pending, stack, visiting, visited>>

Next ==
  \/ \E n \in Nodes : Root(n) \/ NextRoot(n)
  \/ \E d \in Names : Descend(d) \/ Skip(d) \/ CloseCycle(d)
  \/ Return
  \/ Finish

(* One thread, which nothing stops: it goes on while it can.               *)
Spec == Init /\ [][Next]_vars /\ WF_vars(Next)

----------------------------------------------------------------------------
(* Nodes S that each depend on one of S: with finitely many nodes, some    *)
(* path through S comes back to where it was.                              *)
Knot(S) == S # {} /\ \A n \in S : dependsOn[n] \cap S # {}

(* The search says "cycle" only of a graph that has one, and "acyclic"     *)
(* only of one that has none, whatever order the sets are gone through     *)
(* (docs/specs/SPEC-80-04-loop-ledgers.md, requirement 8).                 *)
VerdictIsRight ==
  /\ verdict = "cycle" => \E S \in SUBSET Nodes : Knot(S)
  /\ verdict = "acyclic" => \A S \in SUBSET Nodes : ~Knot(S)

(* The search ends, also on a graph full of cycles.                        *)
Terminates == <>(verdict # "none")
=============================================================================
