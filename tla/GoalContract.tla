---------------------------- MODULE GoalContract ----------------------------
(***************************************************************************)
(* What dp goal lint says of a goal contract (dp/core/goal_lint.py).       *)
(*                                                                         *)
(* A field is known by its kind.  "none": not there, or null.  "good":     *)
(* what is asked for.  "hollow": an empty string or list.  "bad": a        *)
(* non-empty value of the right type that breaks the field's rule.         *)
(* "other": another type.  Findings are their codes; where in the file     *)
(* they were found is left out.                                            *)
(***************************************************************************)
EXTENDS FiniteSets

Kinds == {"none", "good", "hollow", "bad", "other"}
Levels == {"campaign", "goal", "milestone", "node"}
Absent == [absent |-> TRUE]
NotAnObject == [object |-> FALSE]
IsObject(value) == value \notin {Absent, NotAnObject}

If(condition, code) == IF condition THEN {code} ELSE {}
Given(kind) == kind # "none"
Wrong(kind) == Given(kind) /\ kind # "good"

----------------------------------------------------------------------------
(* Evidence, terminal states, boundaries, iteration policy, blocked routes *)

(* A list counts whatever is in it.                                        *)
HasList(kind) == kind \in {"good", "bad"}
HasEvidence(e) ==
  IsObject(e) /\ (e.plan = "good" \/ HasList(e.commands) \/ HasList(e.checks))

EvidenceFindings(e) ==
  IF ~IsObject(e) THEN {"missing_evidence"}
  ELSE If(e.plan = "bad", "invalid_evidence_plan_path")
       \cup If(e.commands = "other", "invalid_verification_commands")
       \cup If(e.checks = "other", "invalid_evidence_checks")
       \cup If(~HasEvidence(e), "missing_evidence")
       \cup If(e.traces = "other", "invalid_trace_ids")
       \cup If(e.traces = "bad", "invalid_trace_id")
       \cup If(e.stringArgv, "invalid_argv")
       \cup If(e.shell, "raw_shell_prohibited")

(* "bad" success is one that rests on what an agent says.                  *)
TerminalFindings(t) ==
  IF ~IsObject(t) THEN {"missing_terminal_states"}
  ELSE If(t.success \in {"none", "hollow", "other"}, "missing_success_terminal")
       \cup If(t.success = "bad", "self_report_success")
       \cup If(t.blocked \notin {"good", "bad"}, "missing_blocked_terminal")

PathFields == {"read_first", "preferred_paths", "allowed_paths", "forbidden_paths"}
BoundaryFields == (PathFields \ {"forbidden_paths"}) \cup {"allowed_commands"}

(* Milestones, and levels that are none, need no boundaries.               *)
BoundaryFindings(level, b) ==
  IF level \notin Levels \ {"milestone"} THEN {}
  ELSE IF ~IsObject(b) THEN {"missing_boundaries"}
  ELSE If(\A f \in BoundaryFields : ~HasList(b[f]), "missing_boundaries")
       \cup If(\E f \in PathFields : b[f] = "other", "invalid_boundary_paths")
       \cup If(\E f \in PathFields : b[f] = "bad", "invalid_boundary_path")

PolicyFindings(p) ==
  IF p = Absent THEN {}
  ELSE IF ~IsObject(p) THEN {"invalid_iteration_policy"}
  ELSE If(p.mode \in {"hollow", "other"}, "invalid_iteration_mode")
       \cup If(Wrong(p.attempts), "invalid_max_attempts")
       \cup If(Wrong(p.after), "invalid_after_each_attempt")

(* blocked_routes by their keys: a route that is not known hides what is   *)
(* wrong with its action.                                                  *)
RouteFindings(routes) ==
  IF routes = Absent THEN {}
  ELSE IF ~IsObject(routes) THEN {"invalid_blocker_routes"}
  ELSE UNION {If(~r.known, "unknown_blocker_route")
              \cup If(r.known /\ ~r.object, "invalid_blocker_route")
              \cup If(r.known /\ r.object /\ ~r.knownAction, "unknown_blocker_action") :
                r \in routes.entries}

----------------------------------------------------------------------------
(* The intent block *)

KnownAuthors == {"agent_derived", "owner_ratified", "owner"}

(* What a good path leads to: the goal itself, or the repository's source. *)
Cited(s, repo) == IF s.itself THEN "itself" ELSE repo.source

SourceFindings(s, repo) ==
  IF ~IsObject(s) THEN {"missing_intent_source"}
  ELSE If(s.path # "good", "invalid_intent_source_path")
       \cup If(s.path = "good" /\ Cited(s, repo) = "missing", "intent_source_not_found")
       \cup If(s.path = "good" /\ Cited(s, repo) = "directory", "intent_source_not_a_file")
       \cup If(s.path = "good" /\ Cited(s, repo) = "itself", "intent_source_self_citation")
       \cup If(s.anchor \in {"hollow", "other"}, "invalid_intent_source_anchor")

(* parent: the key missing, null for a root, or a link to a goal.          *)
NoKey == [key |-> FALSE]
Root == [root |-> TRUE]
IsLink(parent) == IsObject(parent) /\ parent \notin {NoKey, Root}

ParentFindings(parent) ==
  CASE parent = NoKey -> {"missing_intent_parent"}
    [] parent = Root -> {}
    [] parent = NotAnObject -> {"invalid_intent_parent"}
    [] OTHER ->
         If(\/ parent.goal \in {"none", "hollow", "other"}
            \/ parent.contribution \in {"none", "hollow", "other"}
            \/ parent.residual \in {"hollow", "other"}, "invalid_intent_parent")
         \cup If(parent.snapshot \in {"hollow", "other"}, "invalid_intent_parent_snapshot")

DefeaterFindings(kind) ==
  If(kind \in {"hollow", "other"}, "invalid_intent_defeaters")
  \cup If(kind = "bad", "invalid_intent_defeater")

ContactFindings(c) ==
  IF ~IsObject(c) THEN {"missing_intent_outcome_contact"}
  ELSE If(c.signal # "good" \/ c.channel # "good", "invalid_intent_outcome_contact")

(* An intent that is there is checked in full.  The alternative asks for   *)
(* one at no adoption level.                                               *)
IntentFindingsIfAny(intent, repo, required) ==
  CASE intent = Absent -> {}
    [] intent = NotAnObject -> {"invalid_intent"}
    [] OTHER -> If(intent.authorship \notin KnownAuthors, "invalid_intent_authorship")
                \cup SourceFindings(intent.source, repo)
                \cup If(intent.verbatim # "good", "missing_intent_verbatim")
                \cup ParentFindings(intent.parent)
                \cup DefeaterFindings(intent.defeaters)
                \cup ContactFindings(intent.contact)
IntentFindings(intent, repo, required) ==
  If(intent = Absent /\ required, "missing_intent")
  \cup IntentFindingsIfAny(intent, repo, required)

(* The marker counts on top of the reference surface only.                 *)
EnforcementActive(repo) == repo.surface /\ repo.marker

IsUnratifiedRoot(intent) ==
  IsObject(intent) /\ intent.parent = Root /\ intent.authorship = "agent_derived"

----------------------------------------------------------------------------

Findings(c, repo) ==
  If(~c.id, "missing_id")
  \cup If(~c.title, "missing_title")
  \cup If(c.level \notin Levels, "invalid_level")
  \cup If(c.objective = "none", "missing_objective")
  \cup If(c.objective = "bad" /\ ~HasEvidence(c.evidence), "vague_objective")
  \cup EvidenceFindings(c.evidence)
  \cup TerminalFindings(c.terminal)
  \cup BoundaryFindings(c.level, c.boundaries)
  \cup PolicyFindings(c.policy)
  \cup RouteFindings(c.routes)
  \cup IntentFindings(c.intent, repo, EnforcementActive(repo))
  \cup If(c.level = "campaign" /\ ~c.nodes, "campaign_without_nodes")

(* A file of another schema version has no other finding.                  *)
Lints(c, repo) == c.schema /\ Findings(c, repo) = {}
=============================================================================
