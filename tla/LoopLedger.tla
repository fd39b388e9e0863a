----------------------------- MODULE LoopLedger -----------------------------
(***************************************************************************)
(* What dp computes from a loop ledger and the states of its goals: the    *)
(* state of each node and the node that comes next (dp/core/loop_ledger.py)*)
(* and what a campaign should do (dp/core/campaign_manifest.py).           *)
(*                                                                         *)
(* Node ids and goal ids are unique in a ledger, so a node stands for its  *)
(* goal.  `seen` is what was read of each goal, the View of its log, and   *)
(* `notUseful` whether a goal's current outcome was read as not_useful.    *)
(***************************************************************************)
EXTENDS GoalEvents

CONSTANTS
  Nodes,      \* the goals of the ledger
  Order,      \* the nodes in ledger order
  DependsOn   \* depends_on of each node

(* What dp loop lint accepts; module CycleCheck is how it finds cycles.    *)
ASSUME OrderListsNodes ==
  Order \in Seq(Nodes) /\ \A n \in Nodes : \E i \in 1..Len(Order) : Order[i] = n
ASSUME DependenciesResolve == DependsOn \in [Nodes -> SUBSET Nodes]
ASSUME DependenciesAcyclic ==
  \A S \in SUBSET Nodes : S # {} => \E n \in S : DependsOn[n] \cap S = {}
ASSUME SomeNodes == Nodes # {}

Leases == {NoLease} \cup [holder : Agents, expires_at : Nat, stale : BOOLEAN]
GoalStates == [state : States, lease : Leases, blocked : BOOLEAN]
Seen == [Nodes -> GoalStates]

----------------------------------------------------------------------------
(* loop_ledger.py *)

Unmet(seen, n) == {m \in DependsOn[n] : seen[m].state # "verified"}

(* _derive_node_state: a blocked node is blocked though it is waiting too, *)
(* and a waiting one is waiting though it is claimed or has evidence.  The *)
(* alternatives forget released goals, or look at dependencies last.       *)
NodeStateUnreleased(seen, n) ==
  IF Unmet(seen, n) # {} /\ seen[n].state \notin {"verified", "blocked"}
  THEN "waiting" ELSE seen[n].state
NodeStateUnordered(seen, n) ==
  IF seen[n].state \in {"ready", "released"} THEN "ready" ELSE seen[n].state
NodeState(seen, n) ==
  LET state == seen[n].state
  IN  CASE state \in {"verified", "blocked"} -> state
        [] state \notin {"verified", "blocked"} /\ Unmet(seen, n) # {} -> "waiting"
        [] state \in {"ready", "released"} /\ Unmet(seen, n) = {} -> "ready"
        [] OTHER -> state

Some(seen, states) == \E n \in Nodes : NodeState(seen, n) \in states
Every(seen, states) == \A n \in Nodes : NodeState(seen, n) \in states

(* The selection of loop_next: the first ready node, in ledger order.  The *)
(* alternative takes the first one that is neither verified nor waiting.   *)
IsNextUnfinished(seen, n) ==
  \E i \in 1..Len(Order) :
    /\ n = Order[i] /\ NodeState(seen, n) \notin {"verified", "waiting"}
    /\ \A j \in 1..i - 1 : NodeState(seen, Order[j]) \in {"verified", "waiting"}
IsNext(seen, n) ==
  \E i \in 1..Len(Order) :
    /\ n = Order[i] /\ NodeState(seen, n) = "ready"
    /\ \A j \in 1..i - 1 : NodeState(seen, Order[j]) # "ready"

----------------------------------------------------------------------------
(* campaign_manifest.py *)

Active == {"claimed", "started", "pursuing"}

(* _resume_handoff, in its order of precedence.                            *)
ResumeAction(seen, notUseful) ==
  CASE Some(seen, Active) -> "resume_claimed_goal"
    [] ~Some(seen, Active) /\ Some(seen, {"evidence_pending"}) -> "verify_evidence"
    [] ~Some(seen, Active \cup {"evidence_pending"}) /\ Some(seen, {"blocked"}) ->
         "resolve_blocker"
    [] ~Some(seen, Active \cup {"evidence_pending", "blocked"}) /\ Some(seen, {"ready"}) ->
         "claim_next_goal"
    [] Every(seen, {"verified"}) ->
         IF notUseful THEN "address_not_useful_outcome" ELSE "campaign_verified"
    [] OTHER -> "no_ready_work"

(* _derive_campaign_status; the alternative leaves the outcomes out.       *)
CampaignStatusAnyOutcome(seen, notUseful) ==
  CASE Every(seen, {"verified"}) -> "verified"
    [] Some(seen, {"blocked"}) -> "blocked"
    [] OTHER -> "active"
CampaignStatus(seen, notUseful) ==
  CASE Every(seen, {"verified"}) -> IF notUseful THEN "active" ELSE "verified"
    [] Some(seen, {"blocked"}) -> "blocked"
    [] OTHER -> "active"

(* _stale_claims *)
StaleClaims(seen) == {n \in Nodes : seen[n].lease.stale}
=============================================================================
