---------------------------- MODULE CampaignFiles ----------------------------
(***************************************************************************)
(* The files of a campaign and what the lints say of them                  *)
(* (dp/core/campaign_manifest.py, dp/core/loop_ledger.py): the campaign    *)
(* manifest, its loop, the marker file, a goal and an evidence plan per    *)
(* node, child specs and ADRs.                                             *)
(*                                                                         *)
(* Files are a partial function from paths to contents.  A path is         *)
(* <<kind, node, number>>, with zeros where a kind has one file only.  The *)
(* nodes are the positions of artifacts.goals, which no command reorders.  *)
(***************************************************************************)
EXTENDS CampaignCompiler

CONSTANTS
  Headings,      \* the slugs of the primary spec's sections, in order
  Sections,      \* their cues
  SpecVersions   \* contents of the primary spec that differ in wording only

ASSUME HeadingsHaveCues ==
  /\ Headings \in Seq(Seq(STRING \cup Nat))
  /\ Sections \in Seq(SectionsOf(Cues))
  /\ Len(Sections) = Len(Headings) /\ Len(Sections) > 0

VARIABLE file

Nodes == 1..Len(Sections)

Path(kind)         == <<kind, 0, 0>>
NodePath(kind, n)  == <<kind, n, 0>>
AdrPath(n, number) == <<"adr", n, number>>

Torn == [torn |-> TRUE]      \* what a write leaves that did not end
Whole(p) == p \in DOMAIN file /\ file[p] # Torn
With(f, p, content) == [q \in DOMAIN f \cup {p} |-> IF q = p THEN content ELSE f[q]]
Put(p, content) == file' = With(file, p, content)

Adrs == {p \in DOMAIN file : p[1] = "adr"}
Exists(paths) == paths \subseteq DOMAIN file

----------------------------------------------------------------------------
(* Drafts: _build_artifacts.  Every file but the evidence plans carries    *)
(* the digest of the primary spec.                                         *)

NotRefined == [refined |-> FALSE]
NotDrafted == [drafted |-> FALSE]      \* no LLM metadata

DraftCampaign(v) ==
  [spec |-> v, status |-> "draft", needs |-> MarkerRoutes(Sections),
   plans |-> Nodes, specs |-> {}, adrs |-> {}, epic |-> 0, issues |-> <<>>,
   refinement |-> NotRefined, llm |-> NotDrafted]

DraftLoop(v) ==
  [spec |-> v, ids |-> SectionIds(Headings), deps |-> {}, linked |-> {}]

DraftMarker(v) == [marks |-> v]

DraftGoal(v, n) ==
  [spec |-> v, body |-> "draft", needs |-> TRUE, compiler |-> CompilerNode(Sections[n]),
   refinement |-> NotRefined, llm |-> NotDrafted]

(* The alternative counts the plans from zero.                             *)
DraftEvidenceFromZero(n) ==
  [body |-> "draft", goal |-> n - 1, refinement |-> NotRefined, llm |-> NotDrafted]
DraftEvidence(n) ==
  [body |-> "draft", goal |-> n, refinement |-> NotRefined, llm |-> NotDrafted]

DraftPaths ==
  {Path("campaign"), Path("loop"), Path("marker")}
  \cup {NodePath(kind, n) : kind \in {"goal", "evidence"}, n \in Nodes}

Draft(v, p) ==
  CASE p[1] = "campaign" -> DraftCampaign(v)
    [] p[1] = "loop"     -> DraftLoop(v)
    [] p[1] = "marker"   -> DraftMarker(v)
    [] p[1] = "goal"     -> DraftGoal(v, p[2])
    [] p[1] = "evidence" -> DraftEvidence(p[2])

----------------------------------------------------------------------------
(* Lints.  Of a goal or a plan by itself the model knows whether a person  *)
(* has broken it.                                                          *)

campaign == file[Path("campaign")]
loop == file[Path("loop")]
goal(n) == file[NodePath("goal", n)]
evidence(n) == file[NodePath("evidence", n)]

GoalLints(n) == Whole(NodePath("goal", n)) /\ goal(n).body # "broken"
EvidenceLints(n) == Whole(NodePath("evidence", n)) /\ evidence(n).body # "broken"

(* _has_cycle, as module CycleCheck shows: no set of nodes of which each   *)
(* has a dependency in the set.                                            *)
Acyclic(deps) ==
  \A S \in (SUBSET Nodes) \ {{}} : \E n \in S : \A m \in S : <<n, m>> \notin deps

LoopLints ==
  /\ Whole(Path("loop"))
  /\ \A m, n \in Nodes : loop.ids[m] = loop.ids[n] => m = n
  /\ \A n \in Nodes : GoalLints(n)
  /\ \A d \in loop.deps : d[2] \in Nodes
  /\ Acyclic(loop.deps)

Statuses == {"draft", "ready", "active", "blocked", "verified", "abandoned"}

SpecPaths(nodes) == {NodePath("spec", n) : n \in nodes}
DeclaredAdrs(c) == {AdrPath(a.node, a.number) : a \in c.adrs}

(* artifacts: what is declared is there, and lints.                        *)
ArtifactsLint ==
  /\ Exists(SpecPaths(campaign.specs))
  /\ Exists(DeclaredAdrs(campaign))
  /\ \A n \in Nodes : GoalLints(n)
  /\ \A n \in campaign.plans : EvidenceLints(n)
  /\ LoopLints

(* Every plan a node of the loop names is declared.                        *)
LoopIsClosed == Nodes \subseteq campaign.plans

CampaignLints ==
  /\ Whole(Path("campaign"))
  /\ ArtifactsLint
  /\ LoopIsClosed
  /\ campaign.status \in Statuses
=============================================================================
