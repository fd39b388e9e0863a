--------------------------- MODULE EvidenceProofs ---------------------------
(***************************************************************************)
(* Proofs about EvidencePipeline: when nobody interferes with a running    *)
(* command, a `verified` event answers for the plan it records.  The       *)
(* invariant follows the plan through the pipeline: the content whose      *)
(* checks run is the content that is digested (InRun), the artifact keeps  *)
(* the two equal (Sound), the digest comparison carries that equality to   *)
(* the plan of now (InVerify), and the event is written from the plan of   *)
(* now (VerifiedPlanPassed).                                               *)
(***************************************************************************)
EXTENDS EvidencePipeline, TLAPS

(* A complete run whose digest is that of the plan whose checks ran.       *)
Sound(a) == a.kind = "run" => a.loaded = a.sha256 /\ Len(a.results) = Checks

(* What a command has in hand while it runs the checks ...                 *)
InRun(p) ==
  /\ proc[p].stage \in {"checking", "recorded", "writing"} => proc[p].loaded = plan
  /\ proc[p].stage \in {"recorded", "writing"} =>
       proc[p].sha256 = plan /\ Len(proc[p].results) = Checks

(* ... and while it verifies.                                              *)
InVerify(p) ==
  /\ proc[p].stage \in {"run loaded", "plan linted", "matched"} =>
       artifact.kind = "run" /\ proc[p].run = artifact
  /\ At(p, "matched") => artifact.sha256 = plan /\ AllPassed(artifact.results)

OneCommand == \A p, q \in Procs : proc[p] # Idle /\ proc[q] # Idle => p = q

Inv ==
  /\ TypeOK
  /\ OneCommand
  /\ Sound(artifact)
  /\ \A p \in Procs : InRun(p) /\ InVerify(p)
  /\ VerifiedPlanPassed

----------------------------------------------------------------------------
(* A command takes a step: the others are idle and stay so.                *)
LEMMA OneMoves ==
  ASSUME TypeOK, OneCommand, NEW p \in Procs, Quiet \/ proc[p] # Idle,
         NEW c \in Commands, Becomes(p, c)
  PROVE  /\ proc' \in [Procs -> Commands]
         /\ OneCommand'
         /\ proc'[p] = c
         /\ \A q \in Procs : q # p => proc[q] = Idle /\ proc'[q] = Idle
<1>1. \A q \in Procs : q # p => proc[q] = Idle
  BY DEF Quiet, OneCommand
<1>2. proc \in [Procs -> Commands]
  BY DEF TypeOK
<1>3. proc' = [proc EXCEPT ![p] = c]
  BY DEF Becomes
<1>4. proc' \in [Procs -> Commands] /\ proc'[p] = c
  BY <1>2, <1>3
<1>5. \A q \in Procs : q # p => proc'[q] = proc[q]
  BY <1>2, <1>3
<1>6. OneCommand'
  BY <1>1, <1>5 DEF OneCommand
<1> QED
  BY <1>1, <1>4, <1>5, <1>6

(* A file that is a run has a run's fields, and no other file is one.      *)
LEMMA RunFields ==
  ASSUME NEW a \in Artifacts, a.kind = "run"
  PROVE  /\ a \in [kind : {"run"}, lint : Plans, loaded : Plans,
                    sha256 : Plans, results : Seq(Statuses)]
         /\ a \notin {NoFile, Torn}
BY DEF Artifacts, NoFile, Torn

LEMMA IdleIsCommand == Idle \in Commands /\ Idle.stage = "idle"
BY DEF Idle, Commands, Stages, Plans, Artifacts

(* Moving on to another stage changes nothing else.                        *)
LEMMA NextStage ==
  ASSUME NEW c \in Commands, NEW s \in Stages
  PROVE  LET d == [c EXCEPT !.stage = s]
         IN  /\ d \in Commands /\ d.stage = s /\ d.loaded = c.loaded
             /\ d.results = c.results /\ d.sha256 = c.sha256 /\ d.run = c.run
BY DEF Commands

(* After a run a command is over, or goes on to verify.                    *)
LEMMA AfterRunStage ==
  ASSUME TypeOK, NEW p \in Procs, NEW written \in BOOLEAN, AfterRun(p, written)
  PROVE  \E c \in Commands : Becomes(p, c) /\ c.stage \in {"idle", "verifying"}
<1> DEFINE d == [proc[p] EXCEPT !.stage = "verifying"]
<1>1. d \in Commands /\ d.stage = "verifying"
  BY DEF TypeOK, Commands, Stages
<1>2. Becomes(p, d) \/ Becomes(p, Idle)
  BY DEF AfterRun, NowAt
<1> HIDE DEF d
<1> QED
  BY <1>1, <1>2, IdleIsCommand

(* The idle commands have nothing in hand.                                 *)
LEMMA OthersInOrder ==
  ASSUME NEW p \in Procs, \A q \in Procs : q # p => proc'[q] = Idle,
         InRun(p)', InVerify(p)'
  PROVE  (\A q \in Procs : InRun(q) /\ InVerify(q))'
<1>1. \A q \in Procs : q # p => InRun(q)' /\ InVerify(q)'
  BY IdleIsCommand DEF InRun, InVerify, At
<1> QED
  BY <1>1

----------------------------------------------------------------------------
(* One lemma per kind of step.                                             *)

(* Starting a command, or ending one without an event.                     *)
LEMMA StartAndStop ==
  ASSUME Exclusive, Inv, NEW p \in Procs, NEW c \in Commands,
         Quiet \/ proc[p] # Idle,
         c.stage \in {"idle", "linted", "output allowed", "verifying"},
         Becomes(p, c), UNCHANGED <<plan, artifact, verified>>
  PROVE  Inv'
<1>1. /\ proc' \in [Procs -> Commands]
      /\ OneCommand'
      /\ proc'[p] = c
      /\ \A q \in Procs : q # p => proc'[q] = Idle
  BY OneMoves DEF Inv
<1>2. TypeOK' /\ Sound(artifact)' /\ VerifiedPlanPassed'
  BY <1>1 DEF Inv, TypeOK, Sound, VerifiedPlanPassed
<1>3. InRun(p)' /\ InVerify(p)'
  BY <1>1 DEF InRun, InVerify, At
<1> QED
  BY <1>1, <1>2, <1>3, OthersInOrder DEF Inv

LEMMA LoadingKeepsInv ==
  ASSUME Exclusive, Inv, NEW p \in Procs, LoadChecks(p)
  PROVE  Inv'
<1> DEFINE c == [proc[p] EXCEPT !.stage = "checking", !.loaded = plan]
<1>1. proc[p] \in Commands /\ plan \in Plans
  BY DEF Inv, TypeOK
<1>2. c \in Commands /\ c.stage = "checking" /\ c.loaded = plan
  BY <1>1 DEF Commands, Stages
<1>3. proc[p] # Idle /\ Becomes(p, c) /\ UNCHANGED <<plan, artifact, verified>>
  BY IdleIsCommand DEF LoadChecks, At
<1>4. /\ proc' \in [Procs -> Commands]
      /\ OneCommand'
      /\ proc'[p] = c
      /\ \A q \in Procs : q # p => proc'[q] = Idle
  BY <1>2, <1>3, OneMoves DEF Inv
<1> HIDE DEF c
<1>5. TypeOK' /\ Sound(artifact)' /\ VerifiedPlanPassed'
  BY <1>3, <1>4 DEF Inv, TypeOK, Sound, VerifiedPlanPassed
<1>6. InRun(p)' /\ InVerify(p)'
  BY <1>2, <1>3, <1>4 DEF InRun, InVerify, At
<1> QED
  BY <1>4, <1>5, <1>6, OthersInOrder DEF Inv

LEMMA CheckingKeepsInv ==
  ASSUME Exclusive, Inv, NEW p \in Procs, NEW status \in Statuses, RunCheck(p, status)
  PROVE  Inv'
<1> DEFINE c == [proc[p] EXCEPT !.results = Append(@, status)]
<1>1. proc[p] \in Commands /\ At(p, "checking") /\ InRun(p)
  BY DEF Inv, TypeOK, RunCheck
<1>2. c \in Commands /\ c.stage = "checking" /\ c.loaded = proc[p].loaded
  BY <1>1 DEF Commands, At
<1>3. proc[p] # Idle /\ Becomes(p, c) /\ UNCHANGED <<plan, artifact, verified>>
  BY IdleIsCommand DEF RunCheck, At
<1>4. /\ proc' \in [Procs -> Commands]
      /\ OneCommand'
      /\ proc'[p] = c
      /\ \A q \in Procs : q # p => proc'[q] = Idle
  BY <1>2, <1>3, OneMoves DEF Inv
<1> HIDE DEF c
<1>5. TypeOK' /\ Sound(artifact)' /\ VerifiedPlanPassed'
  BY <1>3, <1>4 DEF Inv, TypeOK, Sound, VerifiedPlanPassed
<1>6. InRun(p)' /\ InVerify(p)'
  BY <1>1, <1>2, <1>3, <1>4 DEF InRun, InVerify, At
<1> QED
  BY <1>4, <1>5, <1>6, OthersInOrder DEF Inv

LEMMA RecordingKeepsInv ==
  ASSUME Exclusive, Inv, NEW p \in Procs, RecordSource(p)
  PROVE  Inv'
<1> DEFINE c == [proc[p] EXCEPT !.stage = "recorded", !.sha256 = plan]
<1>1. /\ proc[p] \in Commands /\ plan \in Plans
      /\ At(p, "checking") /\ InRun(p) /\ Len(proc[p].results) = Checks
  BY DEF Inv, TypeOK, RecordSource
<1>2. /\ c \in Commands /\ c.stage = "recorded" /\ c.loaded = proc[p].loaded
      /\ c.results = proc[p].results /\ c.sha256 = plan
  BY <1>1 DEF Commands, Stages
<1>3. proc[p] # Idle /\ Becomes(p, c) /\ UNCHANGED <<plan, artifact, verified>>
  BY IdleIsCommand DEF RecordSource, At
<1>4. /\ proc' \in [Procs -> Commands]
      /\ OneCommand'
      /\ proc'[p] = c
      /\ \A q \in Procs : q # p => proc'[q] = Idle
  BY <1>2, <1>3, OneMoves DEF Inv
<1> HIDE DEF c
<1>5. TypeOK' /\ Sound(artifact)' /\ VerifiedPlanPassed'
  BY <1>3, <1>4 DEF Inv, TypeOK, Sound, VerifiedPlanPassed
<1>6. InRun(p)' /\ InVerify(p)'
  BY <1>1, <1>2, <1>3, <1>4 DEF InRun, InVerify, At
<1> QED
  BY <1>4, <1>5, <1>6, OthersInOrder DEF Inv

LEMMA OpeningKeepsInv ==
  ASSUME Exclusive, Inv, NEW p \in Procs, OpenArtifact(p)
  PROVE  Inv'
<1> DEFINE c == [proc[p] EXCEPT !.stage = "writing"]
<1>1. proc[p] \in Commands /\ At(p, "recorded") /\ InRun(p)
  BY DEF Inv, TypeOK, OpenArtifact
<1>2. /\ c \in Commands /\ c.stage = "writing" /\ c.loaded = proc[p].loaded
      /\ c.results = proc[p].results /\ c.sha256 = proc[p].sha256
  BY <1>1, NextStage DEF Stages
<1>3. proc[p] # Idle /\ Becomes(p, c) /\ artifact' = Torn /\ UNCHANGED <<plan, verified>>
  BY IdleIsCommand DEF OpenArtifact, At, NowAt
<1>4. /\ proc' \in [Procs -> Commands]
      /\ OneCommand'
      /\ proc'[p] = c
      /\ \A q \in Procs : q # p => proc'[q] = Idle
  BY <1>2, <1>3, OneMoves DEF Inv
<1> HIDE DEF c
<1>5. TypeOK' /\ Sound(artifact)' /\ VerifiedPlanPassed'
  BY <1>3, <1>4 DEF Inv, TypeOK, Sound, VerifiedPlanPassed, Artifacts, Torn
<1>6. InRun(p)' /\ InVerify(p)'
  BY <1>1, <1>2, <1>3, <1>4 DEF InRun, InVerify, At
<1> QED
  BY <1>4, <1>5, <1>6, OthersInOrder DEF Inv

LEMMA WritingKeepsInv ==
  ASSUME Exclusive, Inv, NEW p \in Procs, WriteArtifact(p)
  PROVE  Inv'
<1>1. proc[p] \in Commands /\ At(p, "writing") /\ InRun(p)
  BY DEF Inv, TypeOK, WriteArtifact
<1>2. PICK c \in Commands : Becomes(p, c) /\ c.stage \in {"idle", "verifying"}
  BY AfterRunStage DEF WriteArtifact, Inv
<1>3. proc[p] # Idle /\ artifact' \in {Run(proc[p]), Torn} /\ UNCHANGED <<plan, verified>>
  BY IdleIsCommand DEF WriteArtifact, At
<1>4. /\ proc' \in [Procs -> Commands]
      /\ OneCommand'
      /\ proc'[p] = c
      /\ \A q \in Procs : q # p => proc'[q] = Idle
  BY <1>2, <1>3, OneMoves DEF Inv
<1>5. Run(proc[p]) \in Artifacts /\ Sound(Run(proc[p]))
  BY <1>1 DEF Run, Artifacts, Sound, InRun, At, Commands
<1>6. Torn \in Artifacts /\ Sound(Torn)
  BY DEF Torn, Artifacts, Sound
<1>7. TypeOK' /\ Sound(artifact')
  BY <1>3, <1>4, <1>5, <1>6 DEF Inv, TypeOK
<1>8. VerifiedPlanPassed'
  BY <1>3 DEF Inv, VerifiedPlanPassed
<1>9. InRun(p)' /\ InVerify(p)'
  BY <1>2, <1>4 DEF InRun, InVerify, At
<1>10. Sound(artifact)'
  BY <1>7 DEF Sound
<1> QED
  BY <1>4, <1>7, <1>8, <1>9, <1>10, OthersInOrder DEF Inv

LEMMA LoadingRunKeepsInv ==
  ASSUME Exclusive, Inv, NEW p \in Procs, LoadRun(p)
  PROVE  Inv'
<1> DEFINE c == [proc[p] EXCEPT !.stage = "run loaded", !.run = artifact]
<1>1. proc[p] \in Commands /\ artifact \in Artifacts /\ artifact.kind = "run"
  BY DEF Inv, TypeOK, LoadRun
<1>2. c \in Commands /\ c.stage = "run loaded" /\ c.run = artifact
  BY <1>1 DEF Commands, Stages
<1>3. proc[p] # Idle /\ Becomes(p, c) /\ UNCHANGED <<plan, artifact, verified>>
  BY IdleIsCommand DEF LoadRun, At
<1>4. /\ proc' \in [Procs -> Commands]
      /\ OneCommand'
      /\ proc'[p] = c
      /\ \A q \in Procs : q # p => proc'[q] = Idle
  BY <1>2, <1>3, OneMoves DEF Inv
<1> HIDE DEF c
<1>5. TypeOK' /\ Sound(artifact)' /\ VerifiedPlanPassed'
  BY <1>3, <1>4 DEF Inv, TypeOK, Sound, VerifiedPlanPassed
<1>6. InRun(p)' /\ InVerify(p)'
  BY <1>1, <1>2, <1>3, <1>4 DEF InRun, InVerify, At
<1> QED
  BY <1>4, <1>5, <1>6, OthersInOrder DEF Inv

(* The two stages of the comparison with the plan.                         *)
LEMMA ComparingKeepsInv ==
  ASSUME Exclusive, Inv, NEW p \in Procs, LintPlan(p) \/ CompareRun(p)
  PROVE  Inv'
<1>1. /\ proc[p] \in Commands /\ InVerify(p)
      /\ proc[p].stage \in {"run loaded", "plan linted"}
      /\ UNCHANGED <<plan, artifact, verified>>
  BY DEF Inv, TypeOK, LintPlan, CompareRun, At
<1>2. PICK s \in {"plan linted", "matched"} :
        /\ NowAt(p, s)
        /\ s = "matched" => RunMatches(proc[p].run)
  BY DEF LintPlan, CompareRun
<1> DEFINE c == [proc[p] EXCEPT !.stage = s]
<1>3. c \in Commands /\ c.stage = s /\ c.run = proc[p].run
  BY <1>1 DEF Commands, Stages
<1>4. proc[p] # Idle /\ Becomes(p, c)
  BY <1>1, <1>2, IdleIsCommand DEF NowAt
<1>5. /\ proc' \in [Procs -> Commands]
      /\ OneCommand'
      /\ proc'[p] = c
      /\ \A q \in Procs : q # p => proc'[q] = Idle
  BY <1>3, <1>4, OneMoves DEF Inv
<1> HIDE DEF c
<1>6. TypeOK' /\ Sound(artifact)' /\ VerifiedPlanPassed'
  BY <1>1, <1>5 DEF Inv, TypeOK, Sound, VerifiedPlanPassed
<1>7. artifact.kind = "run" /\ proc[p].run = artifact
  BY <1>1 DEF InVerify
<1>8. s = "matched" => artifact.sha256 = plan /\ AllPassed(artifact.results)
  BY <1>2, <1>7 DEF RunMatches
<1>9. InRun(p)' /\ InVerify(p)'
  BY <1>1, <1>3, <1>5, <1>7, <1>8 DEF InRun, InVerify, At, AllPassed
<1> QED
  BY <1>5, <1>6, <1>9, OthersInOrder DEF Inv

(* The event: the artifact's plan is its digest, its digest the plan.      *)
LEMMA AppendingKeepsInv ==
  ASSUME Exclusive, Inv, NEW p \in Procs, AppendVerified(p)
  PROVE  Inv'
<1>1. /\ At(p, "matched") /\ InVerify(p) /\ plan \in Plans
      /\ artifact \in Artifacts /\ Sound(artifact)
      /\ verified' = [kind |-> "verified", plan |-> plan, evidence |-> artifact]
      /\ Becomes(p, Idle) /\ UNCHANGED <<plan, artifact>>
  BY DEF Inv, TypeOK, AppendVerified
<1>2. proc[p] # Idle
  BY <1>1, IdleIsCommand DEF At
<1>3. /\ proc' \in [Procs -> Commands]
      /\ OneCommand'
      /\ proc'[p] = Idle
      /\ \A q \in Procs : q # p => proc'[q] = Idle
  BY <1>1, <1>2, OneMoves, IdleIsCommand DEF Inv
<1>4. /\ artifact.kind = "run" /\ artifact.sha256 = plan
      /\ AllPassed(artifact.results)
  BY <1>1 DEF InVerify, At
<1>5. artifact.loaded = plan /\ Len(artifact.results) = Checks
  BY <1>1, <1>4 DEF Sound
<1>6. artifact.results \in Seq(Statuses)
  BY <1>1, <1>4, RunFields
<1>7. artifact.results = [i \in 1..Checks |-> "passed"]
  BY <1>4, <1>5, <1>6 DEF AllPassed
<1>8. VerifiedPlanPassed'
  BY <1>1, <1>4, <1>5, <1>7 DEF VerifiedPlanPassed
<1>9. TypeOK' /\ Sound(artifact)'
  BY <1>1, <1>3 DEF Inv, TypeOK, Sound
<1>10. InRun(p)' /\ InVerify(p)'
  BY <1>3, IdleIsCommand DEF InRun, InVerify, At
<1> QED
  BY <1>3, <1>8, <1>9, <1>10, OthersInOrder DEF Inv

LEMMA EditKeepsInv ==
  ASSUME Exclusive, Inv, NEW c \in Contents \cup {NoPlan}, Edit(c)
  PROVE  Inv'
<1>1. Quiet /\ plan' = c /\ UNCHANGED <<artifact, proc, verified>>
  BY DEF Edit
<1>2. TypeOK' /\ OneCommand' /\ Sound(artifact)' /\ VerifiedPlanPassed'
  BY <1>1 DEF Inv, TypeOK, OneCommand, Sound, VerifiedPlanPassed, Plans
<1>3. \A p \in Procs : InRun(p)' /\ InVerify(p)'
  BY <1>1, IdleIsCommand DEF Quiet, InRun, InVerify, At
<1> QED
  BY <1>2, <1>3 DEF Inv

----------------------------------------------------------------------------
LEMMA InitHasInv == Init => Inv
<1> SUFFICES ASSUME Init PROVE Inv
  OBVIOUS
<1>1. proc = [p \in Procs |-> Idle] /\ artifact = NoFile /\ verified = NoEvent
  BY DEF Init
<1>2. TypeOK
  BY <1>1, IdleIsCommand DEF Init, TypeOK, Plans, Artifacts
<1>3. OneCommand /\ Sound(artifact) /\ VerifiedPlanPassed
  BY <1>1 DEF OneCommand, Sound, NoFile, VerifiedPlanPassed
<1>4. \A p \in Procs : InRun(p) /\ InVerify(p)
  BY <1>1, IdleIsCommand DEF InRun, InVerify, At
<1> QED
  BY <1>2, <1>3, <1>4 DEF Inv

LEMMA StepKeepsInv == Exclusive /\ Inv /\ [Next]_vars => Inv'
<1> SUFFICES ASSUME Exclusive, Inv, [Next]_vars PROVE Inv'
  OBVIOUS
<1>1. CASE UNCHANGED vars
  BY <1>1 DEF vars, Inv, TypeOK, OneCommand, Sound, InRun, InVerify, At,
              VerifiedPlanPassed, AllPassed
<1>2. ASSUME NEW p \in Procs, NEW force \in BOOLEAN, NEW verifies \in BOOLEAN,
             LintForRun(p, force, verifies)
      PROVE  Inv'
  <2> DEFINE c == [Idle EXCEPT !.stage = "linted", !.force = force,
                               !.verifies = verifies, !.lint = plan]
  <2>1. c \in Commands /\ c.stage = "linted"
    BY <1>2, IdleIsCommand DEF Inv, TypeOK, Commands, Stages
  <2>2. Quiet /\ Becomes(p, c) /\ UNCHANGED <<plan, artifact, verified>>
    BY <1>2 DEF LintForRun, Ready
  <2> QED
    BY <2>1, <2>2, StartAndStop
<1>3. ASSUME NEW p \in Procs, CheckOutput(p) \/ WriteFails(p) \/ Stop(p)
      PROVE  Inv'
  <2>1. proc[p] # Idle /\ UNCHANGED <<plan, artifact, verified>>
    BY <1>3, IdleIsCommand DEF CheckOutput, WriteFails, Stop, At
  <2>2. PICK c \in Commands : /\ Becomes(p, c)
                              /\ c.stage \in {"idle", "output allowed", "verifying"}
    <3>1. CASE CheckOutput(p)
      <4> DEFINE d == [proc[p] EXCEPT !.stage = "output allowed"]
      <4>1. d \in Commands /\ d.stage = "output allowed"
        BY DEF Inv, TypeOK, Commands, Stages
      <4>2. Becomes(p, d)
        BY <3>1 DEF CheckOutput, NowAt
      <4> HIDE DEF d
      <4> QED
        BY <4>1, <4>2
    <3>2. CASE WriteFails(p)
      BY <3>2, AfterRunStage DEF WriteFails, Inv
    <3>3. CASE Stop(p)
      BY <3>3, IdleIsCommand DEF Stop
    <3> QED
      BY <1>3, <3>1, <3>2, <3>3
  <2> QED
    BY <2>1, <2>2, StartAndStop
<1>4. ASSUME NEW p \in Procs, StartVerify(p)
      PROVE  Inv'
  <2>1. [Idle EXCEPT !.stage = "verifying"] \in Commands
    BY IdleIsCommand, NextStage DEF Stages
  <2>2. [Idle EXCEPT !.stage = "verifying"].stage = "verifying"
    BY IdleIsCommand, NextStage DEF Stages
  <2>3. Quiet /\ Becomes(p, [Idle EXCEPT !.stage = "verifying"])
        /\ UNCHANGED <<plan, artifact, verified>>
    BY <1>4 DEF StartVerify, Ready
  <2> QED
    BY <2>1, <2>2, <2>3, StartAndStop
<1>5. ASSUME NEW p \in Procs,
             \/ LoadChecks(p) \/ RecordSource(p) \/ OpenArtifact(p) \/ WriteArtifact(p)
             \/ \E status \in Statuses : RunCheck(p, status)
      PROVE  Inv'
  BY <1>5, LoadingKeepsInv, RecordingKeepsInv, OpeningKeepsInv, WritingKeepsInv,
     CheckingKeepsInv
<1>6. ASSUME NEW p \in Procs,
             LoadRun(p) \/ LintPlan(p) \/ CompareRun(p) \/ AppendVerified(p)
      PROVE  Inv'
  BY <1>6, LoadingRunKeepsInv, ComparingKeepsInv, AppendingKeepsInv
<1>7. ASSUME NEW c \in Contents \cup {NoPlan}, Edit(c)
      PROVE  Inv'
  BY <1>7, EditKeepsInv
<1> QED
  BY <1>1, <1>2, <1>3, <1>4, <1>5, <1>6, <1>7 DEF Next

(* The plan a `verified` event records is one whose checks all passed in   *)
(* the run it records, for any number of processes, plan contents and      *)
(* checks, however often the plan is edited and the run repeated, as long  *)
(* as nobody interferes with a running command.                            *)
THEOREM EventsAnswerForPlan == Exclusive => (Spec => []VerifiedPlanPassed)
<1> SUFFICES ASSUME Exclusive PROVE Spec => []VerifiedPlanPassed
  OBVIOUS
<1>1. Inv /\ [Next]_vars => Inv'
  BY StepKeepsInv
<1>2. Inv => VerifiedPlanPassed
  BY DEF Inv
<1> QED
  BY InitHasInv, <1>1, <1>2, PTL DEF Spec

----------------------------------------------------------------------------
(* The artifact of a run: whose file it is that a command is about to      *)
(* replace, fill or verify.                                                *)

Owns(p) ==
  /\ proc[p].stage \in {"output allowed", "checking", "recorded"} /\ ~proc[p].force =>
       artifact = NoFile
  /\ At(p, "writing") => artifact = Torn
  /\ proc[p].stage \in {"verifying", "run loaded", "plan linted", "matched"}
     /\ proc[p].verifies => artifact = Run(proc[p])
OwnInv == \A p \in Procs : Owns(p)

Acts(p) ==
  \/ \E force, verifies \in BOOLEAN : LintForRun(p, force, verifies)
  \/ CheckOutput(p) \/ LoadChecks(p)
  \/ \E status \in Statuses : RunCheck(p, status)
  \/ RecordSource(p) \/ OpenArtifact(p) \/ WriteArtifact(p) \/ WriteFails(p)
  \/ StartVerify(p) \/ LoadRun(p) \/ LintPlan(p) \/ CompareRun(p)
  \/ AppendVerified(p) \/ Stop(p)

LEMMA OneActs ==
  ASSUME Exclusive, Inv, NEW p \in Procs, Acts(p)
  PROVE  \A q \in Procs : q # p => proc'[q] = Idle
<1>1. Quiet \/ proc[p] # Idle
  BY IdleIsCommand DEF Acts, LintForRun, CheckOutput, LoadChecks, RunCheck, RecordSource,
     OpenArtifact, WriteArtifact, WriteFails, StartVerify, LoadRun, LintPlan, CompareRun,
     AppendVerified, Stop, Ready, At
<1>2. \E c : proc' = [proc EXCEPT ![p] = c]
  BY DEF Acts, LintForRun, CheckOutput, LoadChecks, RunCheck, RecordSource, OpenArtifact,
     WriteArtifact, WriteFails, StartVerify, LoadRun, LintPlan, CompareRun, AppendVerified,
     Stop, Becomes, NowAt, AfterRun
<1>3. proc \in [Procs -> Commands]
  BY DEF Inv, TypeOK
<1>4. \A q \in Procs : q # p => proc'[q] = proc[q]
  BY <1>2, <1>3
<1>5. QED BY <1>1, <1>4 DEF Quiet, Inv, OneCommand

(* Moving on keeps what the run has recorded, and what it was asked.       *)
LEMMA OnlyTheStage ==
  ASSUME TypeOK, NEW p \in Procs, NEW s, NowAt(p, s)
  PROVE  /\ proc'[p].stage = s /\ proc'[p].force = proc[p].force
         /\ proc'[p].verifies = proc[p].verifies /\ Run(proc'[p]) = Run(proc[p])
<1>1. proc[p] \in Commands /\ proc'[p] = [proc[p] EXCEPT !.stage = s]
  BY DEF NowAt, Becomes, TypeOK
<1>2. QED BY <1>1 DEF Commands, Run

LEMMA ActingOwns ==
  ASSUME Exclusive, Inv, OwnInv, NEW p \in Procs, Acts(p)
  PROVE  Owns(p)'
<1>0. proc[p] \in Commands /\ Owns(p) /\ TypeOK /\ proc \in [Procs -> Commands]
  BY DEF Inv, TypeOK, OwnInv
<1>1. ASSUME NEW c, Becomes(p, c) PROVE proc'[p] = c
  BY <1>0, <1>1 DEF Becomes
<1>2. CASE proc'[p] = Idle
  BY <1>2, IdleIsCommand DEF Owns, At
<1>3. CASE \E force, verifies \in BOOLEAN : LintForRun(p, force, verifies)
  <2>1. proc'[p].stage = "linted"
    BY <1>1, <1>3 DEF LintForRun, Idle
  <2>2. QED BY <2>1 DEF Owns, At
<1>4. CASE CheckOutput(p)
  <2>1. NowAt(p, "output allowed") /\ artifact' = artifact
        /\ (proc[p].force \/ artifact = NoFile)
    BY <1>4 DEF CheckOutput, OutputAllowed
  <2>2. proc'[p].stage = "output allowed" /\ proc'[p].force = proc[p].force
    BY <1>0, <2>1, OnlyTheStage
  <2>3. QED BY <2>1, <2>2 DEF Owns, At
<1>5. CASE LoadChecks(p) \/ (\E status \in Statuses : RunCheck(p, status)) \/ RecordSource(p)
  <2>1. /\ proc[p].stage \in {"output allowed", "checking"} /\ artifact' = artifact
        /\ proc'[p].stage \in {"checking", "recorded"} /\ proc'[p].force = proc[p].force
    BY <1>0, <1>1, <1>5 DEF LoadChecks, RunCheck, RecordSource, At, Commands
  <2>2. QED BY <1>0, <2>1 DEF Owns, At
<1>6. CASE OpenArtifact(p)
  <2>1. NowAt(p, "writing") /\ artifact' = Torn
    BY <1>6 DEF OpenArtifact
  <2>2. proc'[p].stage = "writing"
    BY <1>0, <2>1, OnlyTheStage
  <2>3. QED BY <2>1, <2>2 DEF Owns, At
<1>7. CASE WriteArtifact(p)
  <2>1. artifact' = Run(proc[p])
    BY <1>0, <1>7 DEF WriteArtifact, Owns
  <2>2. NowAt(p, "verifying") \/ Becomes(p, Idle)
    BY <1>7 DEF WriteArtifact, AfterRun
  <2>3. CASE NowAt(p, "verifying")
    <3>1. proc'[p].stage = "verifying" /\ Run(proc'[p]) = Run(proc[p])
      BY <1>0, <2>3, OnlyTheStage
    <3>2. QED BY <2>1, <3>1 DEF Owns, At
  <2>4. QED BY <1>1, <1>2, <2>2, <2>3
<1>8. CASE WriteFails(p) \/ AppendVerified(p) \/ Stop(p)
  BY <1>1, <1>2, <1>8 DEF WriteFails, AfterRun, GoesOn, AppendVerified, Stop
<1>9. CASE StartVerify(p)
  <2>1. proc'[p].stage = "verifying" /\ ~proc'[p].verifies
    BY <1>1, <1>9 DEF StartVerify, Idle
  <2>2. QED BY <2>1 DEF Owns, At
<1>10. CASE LoadRun(p)
  <2>1. /\ At(p, "verifying") /\ artifact' = artifact /\ proc'[p].stage = "run loaded"
        /\ proc'[p].verifies = proc[p].verifies /\ Run(proc'[p]) = Run(proc[p])
    BY <1>0, <1>1, <1>10 DEF LoadRun, Commands, Run
  <2>2. QED BY <1>0, <2>1 DEF Owns, At
<1>11. CASE LintPlan(p) \/ CompareRun(p)
  <2>1. /\ proc[p].stage \in {"run loaded", "plan linted"} /\ artifact' = artifact
        /\ \E s \in {"plan linted", "matched"} : NowAt(p, s)
    BY <1>11 DEF LintPlan, CompareRun, At
  <2>2. /\ proc'[p].stage \in {"plan linted", "matched"}
        /\ proc'[p].verifies = proc[p].verifies /\ Run(proc'[p]) = Run(proc[p])
    BY <1>0, <2>1, OnlyTheStage
  <2>3. QED BY <1>0, <2>1, <2>2 DEF Owns, At
<1>12. QED BY <1>3, <1>4, <1>5, <1>6, <1>7, <1>8, <1>9, <1>10, <1>11 DEF Acts

LEMMA OwnInit == Init => OwnInv
BY IdleIsCommand DEF Init, OwnInv, Owns, At

LEMMA OwnStep == Exclusive /\ Inv /\ OwnInv /\ [Next]_vars => OwnInv'
<1> SUFFICES ASSUME Exclusive, Inv, OwnInv, [Next]_vars PROVE OwnInv'
  OBVIOUS
<1>1. ASSUME NEW p \in Procs, Acts(p) PROVE OwnInv'
  <2>1. Owns(p)' /\ \A q \in Procs : q # p => proc'[q] = Idle
    BY <1>1, ActingOwns, OneActs
  <2>2. QED BY <2>1, IdleIsCommand DEF OwnInv, Owns, At
<1>2. ASSUME NEW c \in Contents \cup {NoPlan}, Edit(c) PROVE OwnInv'
  BY <1>2 DEF Edit, OwnInv, Owns, At
<1>3. CASE UNCHANGED vars
  BY <1>3 DEF vars, OwnInv, Owns, At
<1>4. QED BY <1>1, <1>2, <1>3 DEF Next, Acts

(* When nobody interferes with a running command, a run without --force    *)
(* never opens an artifact that is there, though it looks before its       *)
(* checks run: for any number of processes and checks.                     *)
THEOREM UnforcedRunsLeaveFiles == Exclusive => (Spec => UnforcedRunsKeepArtifact)
<1> SUFFICES ASSUME Exclusive PROVE Spec => UnforcedRunsKeepArtifact
  OBVIOUS
<1>1. Inv /\ [Next]_vars => Inv'
  BY StepKeepsInv
<1>2. Inv /\ OwnInv /\ [Next]_vars => OwnInv'
  BY OwnStep
<1>3. OwnInv /\ [Next]_vars =>
        [\A p \in Procs : OpenArtifact(p) /\ artifact # NoFile => proc[p].force]_vars
  BY DEF OwnInv, Owns, OpenArtifact, At
<1> QED
  BY InitHasInv, OwnInit, <1>1, <1>2, <1>3, PTL DEF Spec, UnforcedRunsKeepArtifact

(* When nobody interferes with a running command, dp verify --goal appends *)
(* only on the run it has made itself, never on one an earlier command     *)
(* left: for any number of processes and checks.                           *)
THEOREM VerificationsUseTheirRun == Exclusive => (Spec => VerifiesItsOwnRun)
<1> SUFFICES ASSUME Exclusive PROVE Spec => VerifiesItsOwnRun
  OBVIOUS
<1>1. Inv /\ [Next]_vars => Inv'
  BY StepKeepsInv
<1>2. Inv /\ OwnInv /\ [Next]_vars => OwnInv'
  BY OwnStep
<1>3. OwnInv /\ [Next]_vars =>
        [\A p \in Procs : AppendVerified(p) /\ proc[p].verifies =>
           artifact = Run(proc[p])]_vars
  BY DEF OwnInv, Owns, AppendVerified, At
<1> QED
  BY InitHasInv, OwnInit, <1>1, <1>2, <1>3, PTL DEF Spec, VerifiesItsOwnRun
=============================================================================
