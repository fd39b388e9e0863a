-------------------------- MODULE EvidencePipeline --------------------------
(***************************************************************************)
(* From an EvidencePlan to a `verified` event: dp evidence run             *)
(* (dp/core/evidence_run.py), dp goal verify (verify_goal and              *)
(* _validate_evidence_run_against_goal in dp/core/goal_state.py) and the   *)
(* orchestration of both, dp verify --goal (dp/core/goal_verification.py), *)
(* for one goal and its one evidence path.                                 *)
(*                                                                         *)
(* Plan and artifact are files.  A run reads the plan to lint it, again to *)
(* load its checks, and again, after the checks, for the digest it         *)
(* records.  A verification reads the artifact, then the plan for its      *)
(* lint, then the plan again for its digest and once more for its id (one  *)
(* step here), then digests both files anew for the event.  A content      *)
(* stands for its sha256.  A refused command leaves no trace, so a refusal *)
(* is only Stop.                                                           *)
(***************************************************************************)
EXTENDS Naturals, Sequences

CONSTANTS
  Procs,     \* processes that run dp
  Contents,  \* contents the plan file may have: JSON with a list of checks
  Lints,     \* those that pass dp evidence lint
  ForGoal,   \* those whose goal_id is this goal's
  IdOf,      \* the evidence id in each content
  NoPlan,    \* "the plan file does not exist", a null digest
  Checks,    \* number of checks in a plan
  Exclusive  \* TRUE: while a dp command runs nobody edits the plan or runs another

ASSUME PlansAreContents == Lints \subseteq Contents /\ ForGoal \subseteq Contents
ASSUME NoPlanIsNoContent == NoPlan \notin Contents
ASSUME SomeChecks == Checks \in Nat \ {0}
ASSUME ExclusiveIsBoolean == Exclusive \in BOOLEAN

VARIABLES
  plan,      \* the plan file
  artifact,  \* the evidence run file
  proc,      \* the command each process is in
  verified   \* the latest `verified` event in the log

vars == <<plan, artifact, proc, verified>>

Statuses == {"passed", "failed", "timed_out", "error"}

(* An evidence run.  `loaded`, the content whose checks ran, is NOT in the *)
(* file: the code records lint (ids), sha256 and the check results.        *)
Run(c) == [kind |-> "run", lint |-> c.lint, loaded |-> c.loaded,
           sha256 |-> c.sha256, results |-> c.results]
NoFile == [kind |-> "none"]
Torn == [kind |-> "torn"]               \* empty, cut short, or two runs mixed
NoEvent == [kind |-> "no event"]

Idle == [stage |-> "idle", force |-> FALSE, verifies |-> FALSE, lint |-> NoPlan,
         loaded |-> NoPlan, results |-> <<>>, sha256 |-> NoPlan, run |-> NoFile]

Init == /\ plan \in Contents \cup {NoPlan}
        /\ artifact = NoFile
        /\ proc = [p \in Procs |-> Idle]
        /\ verified = NoEvent

Quiet == \A q \in Procs : proc[q] = Idle
Ready(p) == IF Exclusive THEN Quiet ELSE proc[p] = Idle
At(p, stage) == proc[p].stage = stage
Becomes(p, r) == proc' = [proc EXCEPT ![p] = r]
NowAt(p, stage) == Becomes(p, [proc[p] EXCEPT !.stage = stage])

----------------------------------------------------------------------------
(* dp evidence run; with `verifies`, the run dp verify --goal makes        *)

LintForRun(p, force, verifies) ==
  /\ Ready(p)
  /\ plan \in Lints
  /\ Becomes(p, [Idle EXCEPT !.stage = "linted", !.force = force,
                             !.verifies = verifies, !.lint = plan])
  /\ UNCHANGED <<plan, artifact, verified>>

(* _validate_output_request; the alternative forgets that a file is there. *)
OutputAllowedAlways(force) == TRUE
OutputAllowed(force) == force \/ artifact = NoFile

CheckOutput(p) ==
  /\ At(p, "linted")
  /\ OutputAllowed(proc[p].force)
  /\ NowAt(p, "output allowed")
  /\ UNCHANGED <<plan, artifact, verified>>

(* The checks are loaded from the file as it is now, which is parsed but   *)
(* not linted again.                                                       *)
LoadChecks(p) ==
  /\ At(p, "output allowed")
  /\ plan # NoPlan
  /\ Becomes(p, [proc[p] EXCEPT !.stage = "checking", !.loaded = plan])
  /\ UNCHANGED <<plan, artifact, verified>>

(* _run_check: every check runs, also after one that failed, timed out or  *)
(* could not be started.                                                   *)
RunCheck(p, status) ==
  /\ At(p, "checking") /\ Len(proc[p].results) < Checks
  /\ Becomes(p, [proc[p] EXCEPT !.results = Append(@, status)])
  /\ UNCHANGED <<plan, artifact, verified>>

(* _base_payload: the plan's digest is taken after the checks have run,    *)
(* null if the file has gone.                                              *)
RecordSource(p) ==
  /\ At(p, "checking") /\ Len(proc[p].results) = Checks
  /\ Becomes(p, [proc[p] EXCEPT !.stage = "recorded", !.sha256 = plan])
  /\ UNCHANGED <<plan, artifact, verified>>

(* _write_output_artifact: write_text truncates the file and fills it.     *)
OpenArtifact(p) ==
  /\ At(p, "recorded")
  /\ artifact' = Torn
  /\ NowAt(p, "writing")
  /\ UNCHANGED <<plan, verified>>

(* A run is ok, here and in _validate_successful_run_shape, if all checks  *)
(* passed; the alternative is content with one.                            *)
SomePassed(results) == \E i \in DOMAIN results : results[i] = "passed"
AllPassed(results) == \A i \in DOMAIN results : results[i] = "passed"

(* dp verify --goal goes on only after a run that passed and was written;  *)
(* the alternative does not look.                                          *)
GoesOnAnyway(p, written) == proc[p].verifies
GoesOn(p, written) == proc[p].verifies /\ AllPassed(proc[p].results) /\ written
AfterRun(p, written) ==
  IF GoesOn(p, written) THEN NowAt(p, "verifying") ELSE Becomes(p, Idle)

(* Over what another run wrote since, the text may leave a tail.           *)
WriteArtifact(p) ==
  /\ At(p, "writing")
  /\ artifact' \in {Run(proc[p])} \cup (IF artifact = Torn THEN {} ELSE {Torn})
  /\ AfterRun(p, TRUE)
  /\ UNCHANGED <<plan, verified>>

(* output_write_failed: on creating the file, which stays as it was, or on *)
(* writing it, which leaves it torn.                                       *)
WriteFails(p) ==
  /\ proc[p].stage \in {"recorded", "writing"}
  /\ AfterRun(p, FALSE)
  /\ UNCHANGED <<plan, artifact, verified>>

----------------------------------------------------------------------------
(* dp goal verify                                                          *)

StartVerify(p) ==
  /\ Ready(p)
  /\ artifact # NoFile
  /\ Becomes(p, [Idle EXCEPT !.stage = "verifying"])
  /\ UNCHANGED <<plan, artifact, verified>>

(* _load_evidence_run: the file must be a run, not a torn one.             *)
LoadRun(p) ==
  /\ At(p, "verifying")
  /\ artifact.kind = "run"
  /\ Becomes(p, [proc[p] EXCEPT !.stage = "run loaded", !.run = artifact])
  /\ UNCHANGED <<plan, artifact, verified>>

LintPlan(p) ==
  /\ At(p, "run loaded")
  /\ plan \in Lints \cap ForGoal
  /\ NowAt(p, "plan linted")
  /\ UNCHANGED <<plan, artifact, verified>>

(* The rest of _validate_evidence_run_against_goal: the digest, the ids,   *)
(* and _validate_successful_run_shape.  The alternative compares only the  *)
(* evidence id and the results.                                            *)
RunMatchesById(run) ==
  plan # NoPlan /\ IdOf[run.lint] = IdOf[plan] /\ AllPassed(run.results)
RunMatches(run) ==
  /\ plan # NoPlan
  /\ run.sha256 = plan
  /\ IdOf[run.lint] = IdOf[plan]
  /\ run.lint \in ForGoal
  /\ AllPassed(run.results)

CompareRun(p) ==
  /\ At(p, "plan linted")
  /\ RunMatches(proc[p].run)
  /\ NowAt(p, "matched")
  /\ UNCHANGED <<plan, artifact, verified>>

(* The event records the digests the two files have now; reading them      *)
(* fails if the plan has gone.                                             *)
AppendVerified(p) ==
  /\ At(p, "matched")
  /\ plan # NoPlan
  /\ verified' = [kind |-> "verified", plan |-> plan, evidence |-> artifact]
  /\ Becomes(p, Idle)
  /\ UNCHANGED <<plan, artifact>>

----------------------------------------------------------------------------
(* A refused or interrupted command just ends.                             *)
Stop(p) ==
  /\ proc[p] # Idle
  /\ Becomes(p, Idle)
  /\ UNCHANGED <<plan, artifact, verified>>

(* Someone rewrites or removes the plan.                                   *)
Edit(c) ==
  /\ Exclusive => Quiet
  /\ plan' = c
  /\ UNCHANGED <<artifact, proc, verified>>

Next ==
  \/ \E p \in Procs :
       \/ \E force, verifies \in BOOLEAN : LintForRun(p, force, verifies)
       \/ CheckOutput(p) \/ LoadChecks(p)
       \/ \E status \in Statuses : RunCheck(p, status)
       \/ RecordSource(p) \/ OpenArtifact(p) \/ WriteArtifact(p) \/ WriteFails(p)
       \/ StartVerify(p) \/ LoadRun(p) \/ LintPlan(p) \/ CompareRun(p)
       \/ AppendVerified(p) \/ Stop(p)
  \/ \E c \in Contents \cup {NoPlan} : Edit(c)

Spec == Init /\ [][Next]_vars

----------------------------------------------------------------------------
(* Types *)

Stages == {"idle", "linted", "output allowed", "checking", "recorded", "writing",
           "verifying", "run loaded", "plan linted", "matched"}
Plans == Contents \cup {NoPlan}
Artifacts == {NoFile, Torn} \cup [kind : {"run"}, lint : Plans, loaded : Plans,
                                 sha256 : Plans, results : Seq(Statuses)]

Commands == [stage : Stages, force : BOOLEAN, verifies : BOOLEAN, lint : Plans,
             loaded : Plans, results : Seq(Statuses), sha256 : Plans, run : Artifacts]

(* The shape of the two files, of the commands and of the last event.      *)
TypeOK ==
  /\ plan \in Plans
  /\ artifact \in Artifacts
  /\ proc \in [Procs -> Commands]
  /\ verified \in {NoEvent} \cup [kind : {"verified"}, plan : Plans, evidence : Artifacts]

----------------------------------------------------------------------------
(* Properties, all for Exclusive; RunNamesItsPlan is what fails first when *)
(* others edit the plan while a run is under way (EvidenceStale.cfg).      *)

(* A `verified` event answers for the plan: the plan content it records is *)
(* one whose checks ran and all passed in the run it records, however the  *)
(* plan was edited and the run repeated in between                         *)
(* (docs/specs/SPEC-80-10-evidence-verification.md, requirements 7 to 10). *)
VerifiedPlanPassed ==
  verified # NoEvent =>
    /\ verified.evidence.kind = "run"
    /\ verified.evidence.loaded = verified.plan
    /\ verified.evidence.results = [i \in 1..Checks |-> "passed"]

(* A run records the digest of the plan whose checks it ran                *)
(* (SPEC-80-10, requirement 7).                                            *)
RunNamesItsPlan ==
  artifact.kind = "run" /\ artifact.sha256 # NoPlan => artifact.sha256 = artifact.loaded

(* Without --force a run never touches an artifact that is already there,  *)
(* though it looks before its checks run and writes after.                 *)
UnforcedRunsKeepArtifact ==
  [][\A p \in Procs : OpenArtifact(p) /\ artifact # NoFile => proc[p].force]_vars

(* dp verify --goal without --evidence appends only on the run it has just *)
(* made itself, never on an older artifact left by a run that passed when  *)
(* its own checks fail or its own artifact cannot be written.              *)
VerifiesItsOwnRun ==
  [][\A p \in Procs : AppendVerified(p) /\ proc[p].verifies => artifact = Run(proc[p])]_vars
=============================================================================
