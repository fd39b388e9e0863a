-------------------------- MODULE CampaignReadiness --------------------------
(***************************************************************************)
(* The readiness gate of dp campaign ready (dp/core/campaign_readiness.py) *)
(* over the files of a campaign.                                           *)
(***************************************************************************)
EXTENDS CampaignFiles

UnresolvedStates == {"needs_refinement", "needs_specification", "needs_decision",
                     "needs_validator", "draft_placeholder", "blocked"}
UnresolvedRoutes == {"needs_specification", "needs_decision", "needs_validator",
                     "unsafe_scope"}

(* compiler and refinement blocks; one that is not there is not looked at. *)
BlocksOf(n) ==
  {goal(n).compiler} \cup (IF goal(n).refinement = NotRefined THEN {} ELSE {goal(n).refinement})

Resolved(block) ==
  block.state \notin UnresolvedStates /\ block.routes \cap UnresolvedRoutes = {}

NodeDeclares(n) == n \in campaign.plans /\ n \in loop.linked

GoalIsRefined(n) == ~goal(n).needs /\ \A b \in BlocksOf(n) : Resolved(b)

EvidenceIsAligned(n) ==
  n \in campaign.plans =>
    /\ evidence(n).goal = n
    /\ evidence(n).refinement # NotRefined => Resolved(evidence(n).refinement)

(* The child spec: the one refine wrote, else the primary spec, which no   *)
(* manifest declares as a child.  It has to be there, whatever it says.    *)
HasChildSpec(n) ==
  /\ goal(n).refinement # NotRefined
  /\ n \in campaign.specs
  /\ Exists({NodePath("spec", n)})

DecisionLike(n) ==
  \E b \in BlocksOf(n) : b.class = "decision" \/ "needs_decision" \in b.routes

HasDecisionAdr(n) ==
  DecisionLike(n) =>
    /\ goal(n).refinement # NotRefined
    /\ goal(n).refinement.adr # 0
    /\ [node |-> n, number |-> goal(n).refinement.adr] \in campaign.adrs
    /\ Exists({AdrPath(n, goal(n).refinement.adr)})

(* Every dependency the model hinted at is an edge of the loop.  The       *)
(* alternative takes a hint that names a node for resolved.                *)
HintsAreNodes(n) ==
  goal(n).llm # NotDrafted => goal(n).llm.said.hints[n] \subseteq Nodes \ {n}
HintsAreEdges(n) ==
  goal(n).llm # NotDrafted =>
    \A m \in goal(n).llm.said.hints[n] : m \in Nodes \ {n} /\ <<n, m>> \in loop.deps

NodeIsReady(n) ==
  /\ NodeDeclares(n)
  /\ GoalIsRefined(n)
  /\ EvidenceIsAligned(n)
  /\ HasChildSpec(n)
  /\ HasDecisionAdr(n)
  /\ HintsAreEdges(n)

Promotable == {"draft", "ready"}

IsReady ==
  /\ campaign.status \in Promotable
  /\ LoopLints
  /\ \A n \in Nodes : GoalLints(n)
  /\ \A n \in campaign.plans : EvidenceLints(n)
  /\ campaign.needs = {}
  /\ \A n \in Nodes : NodeIsReady(n)
=============================================================================
