-------------------------- MODULE CampaignAuthoring --------------------------
(***************************************************************************)
(* Authoring of a campaign: dp campaign init, refine (with or without      *)
(* --create-beads), refine --llm, the import of a model's answer, and      *)
(* ready, all with --write; without it they change nothing.                *)
(*                                                                         *)
(* A command reads, checks, and then writes file after file, the paths     *)
(* left to write being its todo.  It may die between any two steps, and    *)
(* in the middle of a write (TearWrite).  refine creates issues in bd      *)
(* between its checks and its first write; bd may fail before or after it  *)
(* created one.  One command runs at a time.  People edit the files, at    *)
(* most once while a command runs: `alone` says that they have not yet.    *)
(***************************************************************************)
EXTENDS CampaignReadiness

CONSTANTS
  Replies,     \* what a model may say
  MaxCalls,    \* bound: commands given, questions to a model among them
  MaxEdits,    \* bound: edits by people
  MaxFailures  \* bound: crashes, torn writes and failures of bd

(* A reply covers some nodes and names for each the nodes it should depend *)
(* on, 0 standing for one that does not exist.  A sound reply has all its  *)
(* fields and no raw shell in its evidence.                                *)
ASSUME RepliesNameNodes ==
  Replies \subseteq [nodes : (SUBSET Nodes) \ {{}}, hints : [Nodes -> SUBSET (Nodes \cup {0})],
                    sound : BOOLEAN]
ASSUME BoundsAreNatural == MaxCalls \in Nat /\ MaxEdits \in Nat /\ MaxFailures \in Nat

VARIABLES
  primary,    \* the content of the primary spec
  tracker,    \* the issues in bd, in the order of their creation
  answer,     \* the latest answer of a model that was given a request
  cmd,        \* the command that runs
  alone,      \* whether nobody has edited while a command ran
  halfway,    \* whether a writing command died since one last ended well
  stale,      \* whether since the readiness gate last passed somebody edited,
              \* or refine or import died with files written
  calls,
  edits,
  failures

vars == <<file, primary, tracker, answer, cmd, alone, halfway, stale, calls, edits, failures>>

NoAnswer == NotDrafted
NotRead == [read |-> FALSE]

(* A command: what it is and how far it got, whether it creates issues,    *)
(* whether it has written, the manifest, the goals and the ADR numbers it  *)
(* plans with, the issues it has, and the answer it imports.               *)
Idle ==
  [op |-> "idle", step |-> "none", beads |-> FALSE, wrote |-> FALSE, todo |-> {},
   campaign |-> NotRead, goals |-> <<>>, adrs |-> <<>>, epic |-> 0, issues |-> <<>>,
   answer |-> NoAnswer]
Started(op, step) == [Idle EXCEPT !.op = op, !.step = step]

Epic == [for |-> 0, parent |-> 0]
Task(n, epic) == [for |-> n, parent |-> epic]

----------------------------------------------------------------------------
(* Where authoring starts: an empty directory, a scaffold, or a scaffold   *)
(* that people have worked through before they refine it.                  *)

Empty == [p \in {} |-> NotRefined]
Scaffold == [p \in DraftPaths |-> Draft(primary, p)]
SettledBlock(b) == [b EXCEPT !.state = "settled", !.routes = {}]
WorkedThrough ==
  [p \in DraftPaths |->
     CASE p[1] = "campaign" -> [DraftCampaign(primary) EXCEPT !.needs = {}]
       [] p[1] = "loop" -> [DraftLoop(primary) EXCEPT !.linked = Nodes]
       [] p[1] = "goal" -> [DraftGoal(primary, p[2]) EXCEPT
                              !.needs = FALSE, !.compiler = SettledBlock(@)]
       [] OTHER -> Draft(primary, p)]

Init ==
  /\ primary \in SpecVersions
  /\ file \in {Empty, Scaffold, WorkedThrough}
  /\ tracker = <<>>
  /\ answer = NoAnswer
  /\ cmd = Idle
  /\ alone = TRUE
  /\ halfway = FALSE
  /\ stale = TRUE
  /\ calls = 0
  /\ edits = 0
  /\ failures = 0

Given ==
  /\ cmd = Idle
  /\ calls < MaxCalls
  /\ calls' = calls + 1

Fails == failures < MaxFailures /\ failures' = failures + 1
Refused == cmd' = Idle /\ UNCHANGED halfway

Others == <<primary, tracker, answer, alone, stale, calls, edits>>
NotFiles == <<Others, failures>>

----------------------------------------------------------------------------
(* dp campaign init *)

BeginInit ==
  /\ Given
  /\ cmd' = [Started("init", "check") EXCEPT !.campaign = DraftCampaign(primary)]
  /\ UNCHANGED <<file, primary, tracker, answer, alone, halfway, stale, edits, failures>>

(* A path is free for a text if nothing, or that text, is there.  The      *)
(* alternative minds only that something is there.                         *)
FreeIfAbsent(p, text) == p \notin DOMAIN file
Free(p, text) == p \in DOMAIN file => file[p] = text

InitIsFree(v) == \A p \in DraftPaths : Free(p, Draft(v, p))

CheckInit ==
  /\ cmd.op = "init" /\ cmd.step = "check"
  /\ IF InitIsFree(cmd.campaign.spec)
     THEN cmd' = [cmd EXCEPT !.step = "write", !.todo = DraftPaths] /\ UNCHANGED halfway
     ELSE Refused
  /\ UNCHANGED <<file, NotFiles>>

----------------------------------------------------------------------------
(* dp campaign refine: lint, plan, check *)

BeginRefine(beads) ==
  /\ Given
  /\ CampaignLints
  /\ cmd' = [Started("refine", "plan") EXCEPT !.beads = beads]
  /\ UNCHANGED <<file, primary, tracker, answer, alone, halfway, stale, edits, failures>>

(* The alternative goes by the state alone, which settles.                 *)
NeedsAdrByState(n) == goal(n).compiler.state = "needs_decision"
NeedsAdr(n) == goal(n).compiler.state = "needs_decision" \/ goal(n).compiler.class = "decision"

HighestAdr ==
  CHOOSE k \in {0} \cup {p[3] : p \in Adrs} : \A p \in Adrs : p[3] <= k

(* Decision nodes get the next numbers, in their order.                    *)
PlannedAdrs ==
  [n \in Nodes |->
     IF NeedsAdr(n) THEN HighestAdr + Cardinality({m \in 1..n : NeedsAdr(m)}) ELSE 0]

ReadsAll == Whole(Path("campaign")) /\ \A n \in Nodes : Whole(NodePath("goal", n))

PlanRefine ==
  /\ cmd.op \in {"refine", "import"} /\ cmd.step = "plan"
  /\ ReadsAll
  /\ cmd' = [cmd EXCEPT !.step = "check", !.campaign = campaign,
                         !.goals = [n \in Nodes |-> goal(n)], !.adrs = PlannedAdrs]
  /\ UNCHANGED <<file, NotFiles, halfway>>

SpecStub(c, n) == [stub |-> c.goals[n].compiler]
AdrStub(n) == [stub |-> n]

(* The alternative checks the first node only.                             *)
FirstNodeIsFree(c) == Free(NodePath("spec", 1), SpecStub(c, 1))
RefineIsFree(c) ==
  \A n \in Nodes :
    /\ Free(NodePath("spec", n), SpecStub(c, n))
    /\ c.adrs[n] # 0 => Free(AdrPath(n, c.adrs[n]), AdrStub(n))

(* What there is to write.  The answer goes into the files of the nodes it *)
(* names right after them, and into the manifest last of all.              *)
RefineWrites(c) ==
  LET drafted == IF c.op = "import" THEN c.answer.said.nodes ELSE {} IN
  {NodePath(kind, n) : kind \in {"spec", "goal", "evidence"}, n \in Nodes}
  \cup {AdrPath(n, c.adrs[n]) : n \in {m \in Nodes : c.adrs[m] # 0}}
  \cup {NodePath(kind, n) : kind \in {"llm_goal", "llm_evidence"}, n \in drafted}
  \cup {Path("campaign")}
  \cup (IF c.op = "import" THEN {Path("llm_campaign")} ELSE {})

CheckRefine ==
  /\ cmd.op = "refine" /\ cmd.step = "check"
  /\ IF ~RefineIsFree(cmd) THEN Refused
     ELSE /\ UNCHANGED halfway
          /\ cmd' = IF cmd.beads
                    THEN [cmd EXCEPT !.step = "beads", !.epic = cmd.campaign.epic,
                                     !.issues = cmd.campaign.issues]
                    ELSE [cmd EXCEPT !.step = "write", !.todo = RefineWrites(cmd)]
  /\ UNCHANGED <<file, NotFiles>>

----------------------------------------------------------------------------
(* refine --create-beads: an epic unless the manifest has one, and a task  *)
(* for each node past those it has.  A failure ends the command.           *)

BeadsStep == cmd.op = "refine" /\ cmd.step = "beads"

(* The node the next task is for.  The alternative starts from the first   *)
(* node again.                                                             *)
NextTaskFromFirst == Len(cmd.issues) - Len(cmd.campaign.issues) + 1
NextTask == Len(cmd.issues) + 1

CreateEpic ==
  /\ BeadsStep /\ cmd.epic = 0
  /\ tracker' = Append(tracker, Epic)
  /\ cmd' = [cmd EXCEPT !.epic = Len(tracker) + 1]
  /\ UNCHANGED <<file, primary, answer, alone, halfway, stale, calls, edits, failures>>

CreateTask ==
  /\ BeadsStep /\ cmd.epic # 0 /\ NextTask \in Nodes
  /\ tracker' = Append(tracker, Task(NextTask, cmd.epic))
  /\ cmd' = [cmd EXCEPT !.issues = Append(@, Len(tracker) + 1)]
  /\ UNCHANGED <<file, primary, answer, alone, halfway, stale, calls, edits, failures>>

CreateFails ==
  /\ BeadsStep /\ (cmd.epic = 0 \/ NextTask \in Nodes)
  /\ tracker' \in {tracker, Append(tracker, IF cmd.epic = 0 THEN Epic
                                            ELSE Task(NextTask, cmd.epic))}
  /\ Refused
  /\ Fails
  /\ UNCHANGED <<file, primary, answer, alone, stale, calls, edits>>

HasIssues ==
  /\ BeadsStep /\ cmd.epic # 0 /\ NextTask \notin Nodes
  /\ cmd' = [cmd EXCEPT !.step = "write", !.todo = RefineWrites(cmd)]
  /\ UNCHANGED <<file, NotFiles, halfway>>

----------------------------------------------------------------------------
(* refine --llm and the import of the answer.  The request changes         *)
(* nothing; the answer quotes the hash of the prompt, which covers the     *)
(* plan, so the model keeps what was asked.                                *)

Prompt(spec, goals, adrs) ==
  [spec |-> spec, compilers |-> [n \in Nodes |-> goals[n].compiler], adrs |-> adrs]

AskModel(reply) ==
  /\ Given
  /\ CampaignLints
  /\ answer' = [said |-> reply,
                asked |-> Prompt(campaign.spec, [n \in Nodes |-> goal(n)], PlannedAdrs)]
  /\ UNCHANGED <<file, primary, tracker, cmd, alone, halfway, stale, edits, failures>>

BeginImport ==
  /\ Given
  /\ answer # NoAnswer
  /\ CampaignLints
  /\ cmd' = [Started("import", "plan") EXCEPT !.answer = answer]
  /\ UNCHANGED <<file, primary, tracker, answer, alone, halfway, stale, edits, failures>>

(* The alternative does not compare the hashes.                            *)
AnswerFitsAnyPrompt(c) == c.answer.said.sound
AnswerFits(c) ==
  /\ c.answer.said.sound
  /\ c.answer.asked = Prompt(c.campaign.spec, c.goals, c.adrs)

CheckImport ==
  /\ cmd.op = "import" /\ cmd.step = "check"
  /\ IF AnswerFits(cmd) /\ RefineIsFree(cmd)
     THEN cmd' = [cmd EXCEPT !.step = "write", !.todo = RefineWrites(cmd)] /\ UNCHANGED halfway
     ELSE Refused
  /\ UNCHANGED <<file, NotFiles>>

----------------------------------------------------------------------------
(* Writing, one file a step *)

(* init goes kind by kind; refine goes node by node, the manifest after    *)
(* them all.  The alternative has the manifest first.                      *)
InitRank == [campaign |-> 1, loop |-> 2, marker |-> 3, goal |-> 4, evidence |-> 5]
RefineRank == [spec |-> 1, adr |-> 2, goal |-> 3, evidence |-> 4, llm_goal |-> 5,
               llm_evidence |-> 6, campaign |-> 7, llm_campaign |-> 8]
TurnManifestFirst(p) == p[2]
Turn(p) == IF p[2] = 0 THEN Len(Sections) + 1 ELSE p[2]

Before(p, q) ==
  IF cmd.op = "init"
  THEN InitRank[p[1]] < InitRank[q[1]] \/ (p[1] = q[1] /\ p[2] < q[2])
  ELSE Turn(p) < Turn(q) \/ (Turn(p) = Turn(q) /\ RefineRank[p[1]] < RefineRank[q[1]])

Writes(p) ==
  /\ cmd.op \in {"init", "refine", "import"} /\ cmd.step = "write"
  /\ p \in cmd.todo
  /\ \A q \in cmd.todo \ {p} : Before(p, q)

(* The command goes on to the next file, or ends well.                     *)
Wrote(p) ==
  /\ IF cmd.todo = {p}
     THEN cmd' = Idle /\ halfway' = (halfway /\ cmd.op = "init")
     ELSE cmd' = [cmd EXCEPT !.todo = @ \ {p}, !.wrote = TRUE] /\ UNCHANGED halfway
  /\ UNCHANGED NotFiles

WriteDraft(p) ==
  /\ cmd.op = "init" /\ Writes(p)
  /\ Put(p, Draft(cmd.campaign.spec, p))
  /\ Wrote(p)

WriteSpec(p) ==
  /\ p[1] = "spec" /\ Writes(p)
  /\ Put(p, SpecStub(cmd, p[2]))
  /\ Wrote(p)

WriteAdr(p) ==
  /\ p[1] = "adr" /\ Writes(p)
  /\ Put(p, AdrStub(p[2]))
  /\ Wrote(p)

(* The refinement block restates the compiler's, and replaces the one that *)
(* was there with any answer in it.                                        *)
WithAdr(block, number) ==
  [class |-> block.class, state |-> block.state, routes |-> block.routes, adr |-> number]
Refinement(c, n) == WithAdr(c.goals[n].compiler, c.adrs[n])

(* The goal is written back as it was read when the plan was made.         *)
RefineGoal(p) ==
  /\ cmd.op # "init" /\ p[1] = "goal" /\ Writes(p)
  /\ Put(p, [cmd.goals[p[2]] EXCEPT !.refinement = Refinement(cmd, p[2]), !.llm = NotDrafted])
  /\ Wrote(p)

(* The plan is read again.                                                 *)
RefineEvidence(p) ==
  /\ cmd.op # "init" /\ p[1] = "evidence" /\ Writes(p)
  /\ Whole(p)
  /\ Put(p, [file[p] EXCEPT !.refinement = Refinement(cmd, p[2]), !.llm = NotDrafted])
  /\ Wrote(p)

AnswerForGoal(p) ==
  /\ p[1] = "llm_goal" /\ Writes(p)
  /\ Whole(NodePath("goal", p[2]))
  /\ Put(NodePath("goal", p[2]), [goal(p[2]) EXCEPT !.llm = cmd.answer])
  /\ Wrote(p)

AnswerForEvidence(p) ==
  /\ p[1] = "llm_evidence" /\ Writes(p)
  /\ Whole(NodePath("evidence", p[2]))
  /\ Put(NodePath("evidence", p[2]), [evidence(p[2]) EXCEPT !.llm = cmd.answer])
  /\ Wrote(p)

PlannedDecisions(c) ==
  {[node |-> n, number |-> c.adrs[n]] : n \in {m \in Nodes : c.adrs[m] # 0}}

(* The manifest is the one read at the start, extended.                    *)
RefinedManifest(c) ==
  [c.campaign EXCEPT
     !.status = "draft", !.specs = Nodes, !.adrs = @ \cup PlannedDecisions(c),
     !.epic = IF @ = 0 THEN c.epic ELSE @,
     !.issues = IF Len(c.issues) > Len(@) THEN c.issues ELSE @,
     !.refinement = [adrs |-> c.adrs], !.llm = NotDrafted]

RecordRefinement(p) ==
  /\ cmd.op # "init" /\ p = Path("campaign") /\ Writes(p)
  /\ Put(p, RefinedManifest(cmd))
  /\ Wrote(p)

RecordAnswer(p) ==
  /\ p = Path("llm_campaign") /\ Writes(p)
  /\ Whole(Path("campaign"))
  /\ Put(Path("campaign"), [campaign EXCEPT !.status = "draft", !.llm = cmd.answer])
  /\ Wrote(p)

----------------------------------------------------------------------------
(* dp campaign ready: lint, gate, write *)

BeginReady ==
  /\ Given
  /\ CampaignLints
  /\ cmd' = Started("ready", "gate")
  /\ UNCHANGED <<file, primary, tracker, answer, alone, halfway, stale, edits, failures>>

CheckReady ==
  /\ cmd.op = "ready" /\ cmd.step = "gate"
  /\ IF IsReady
     THEN cmd' = [cmd EXCEPT !.step = "promote", !.campaign = campaign] /\ stale' = FALSE
     ELSE cmd' = Idle /\ UNCHANGED stale
  /\ UNCHANGED <<file, primary, tracker, answer, alone, halfway, calls, edits, failures>>

Promote ==
  /\ cmd.op = "ready" /\ cmd.step = "promote"
  /\ Put(Path("campaign"), [cmd.campaign EXCEPT !.status = "ready"])
  /\ cmd' = Idle
  /\ UNCHANGED <<NotFiles, halfway>>

----------------------------------------------------------------------------
(* Failures.  A write truncates the file and then fills it, so that one    *)
(* that fails, or a process that dies in it, leaves the file torn.  Stubs  *)
(* and drafts that are there already are not written.                      *)

Target(p) ==
  CASE p[1] = "llm_goal"     -> NodePath("goal", p[2])
    [] p[1] = "llm_evidence" -> NodePath("evidence", p[2])
    [] p[1] = "llm_campaign" -> Path("campaign")
    [] OTHER                 -> p

Text(p) ==
  IF cmd.op = "init" THEN Draft(cmd.campaign.spec, p)
  ELSE IF p[1] = "spec" THEN SpecStub(cmd, p[2]) ELSE AdrStub(p[2])
Rewrites(p) == cmd.op # "init" /\ p[1] \notin {"spec", "adr"}
Disturbs == cmd.op \in {"refine", "import"}

TearWrite(p) ==
  /\ Writes(p)
  /\ Rewrites(p) \/ p \notin DOMAIN file \/ ~Free(p, Text(p))
  /\ Put(Target(p), Torn)
  /\ cmd' = Idle
  /\ halfway' = (halfway \/ Disturbs)
  /\ stale' = (stale \/ Disturbs)
  /\ Fails
  /\ UNCHANGED <<primary, tracker, answer, alone, calls, edits>>

TearPromotion ==
  /\ cmd.op = "ready" /\ cmd.step = "promote"
  /\ Put(Path("campaign"), Torn)
  /\ cmd' = Idle
  /\ Fails
  /\ UNCHANGED <<Others, halfway>>

Crash ==
  /\ cmd # Idle
  /\ cmd' = Idle
  /\ halfway' = (halfway \/ (Disturbs /\ cmd.wrote))
  /\ stale' = (stale \/ (Disturbs /\ cmd.wrote))
  /\ Fails
  /\ UNCHANGED <<file, primary, tracker, answer, alone, calls, edits>>

----------------------------------------------------------------------------
(* People.  Each edit leaves a file whole.                                 *)

PersonActs ==
  /\ edits < MaxEdits
  /\ cmd = Idle \/ alone
  /\ edits' = edits + 1
  /\ alone' = (alone /\ cmd = Idle)
  /\ stale' = TRUE
  /\ UNCHANGED <<tracker, answer, cmd, halfway, calls, failures>>

Edit(files) == PersonActs /\ file' = files /\ UNCHANGED primary
EditFile(p, content) == Edit(With(file, p, content))

SettledIfAny(r) == IF r = NotRefined THEN r ELSE SettledBlock(r)

(* A node's open questions are settled, in its goal and its plan.          *)
Settle(n) ==
  /\ Whole(NodePath("goal", n)) /\ Whole(NodePath("evidence", n))
  /\ Edit(With(With(file,
       NodePath("goal", n), [goal(n) EXCEPT !.needs = FALSE, !.compiler = SettledBlock(@),
                                            !.refinement = SettledIfAny(@)]),
       NodePath("evidence", n), [evidence(n) EXCEPT !.refinement = SettledIfAny(@)]))

RewriteGoal(n, body) ==
  /\ Whole(NodePath("goal", n))
  /\ EditFile(NodePath("goal", n), [goal(n) EXCEPT !.body = body])

RewriteEvidence(n, for) ==
  /\ Whole(NodePath("evidence", n))
  /\ EditFile(NodePath("evidence", n), [evidence(n) EXCEPT !.body = "edited", !.goal = for])

Authored == [authored |-> TRUE]
WriteDocument(p) == p \in DOMAIN file /\ p[1] \in {"spec", "adr"} /\ EditFile(p, Authored)

(* dp adr create by somebody else takes the next number, too.              *)
AddAdr == EditFile(AdrPath(0, HighestAdr + 1), Authored)

LinkIssues == Whole(Path("loop")) /\ EditFile(Path("loop"), [loop EXCEPT !.linked = Nodes])

AddDependency(m, n) ==
  Whole(Path("loop")) /\ EditFile(Path("loop"), [loop EXCEPT !.deps = @ \cup {<<m, n>>}])

EditManifest(needs, plans) ==
  /\ Whole(Path("campaign"))
  /\ EditFile(Path("campaign"), [campaign EXCEPT !.needs = needs, !.plans = plans])

RewordPrimary(v) == PersonActs /\ primary' = v /\ v # primary /\ UNCHANGED file

(* A torn document the manifest does not name is thrown away.              *)
Discard(p) ==
  /\ cmd = Idle
  /\ p[1] \in {"spec", "adr"} /\ p \in DOMAIN file /\ file[p] = Torn
  /\ Whole(Path("campaign"))
  /\ p \notin SpecPaths(campaign.specs) \cup DeclaredAdrs(campaign)
  /\ PersonActs
  /\ file' = [q \in DOMAIN file \ {p} |-> file[q]]
  /\ UNCHANGED primary

----------------------------------------------------------------------------

Commands ==
  \/ BeginInit \/ CheckInit
  \/ \E beads \in BOOLEAN : BeginRefine(beads)
  \/ PlanRefine \/ CheckRefine
  \/ CreateEpic \/ CreateTask \/ CreateFails \/ HasIssues
  \/ BeginImport \/ CheckImport
  \/ BeginReady \/ CheckReady \/ Promote

Writing ==
  \E p \in cmd.todo :
    \/ WriteDraft(p) \/ WriteSpec(p) \/ WriteAdr(p)
    \/ RefineGoal(p) \/ RefineEvidence(p) \/ RecordRefinement(p)
    \/ AnswerForGoal(p) \/ AnswerForEvidence(p) \/ RecordAnswer(p)

Failures == Crash \/ TearPromotion \/ \E p \in cmd.todo : TearWrite(p)

People ==
  \/ \E reply \in Replies : AskModel(reply)
  \/ \E n \in Nodes :
       \/ Settle(n)
       \/ \E body \in {"edited", "broken"} : RewriteGoal(n, body)
       \/ \E for \in Nodes : RewriteEvidence(n, for)
       \/ \E m \in Nodes : AddDependency(m, n)
       \/ EditManifest(campaign.needs, campaign.plans \ {n})
  \/ EditManifest({}, campaign.plans)
  \/ AddAdr \/ LinkIssues
  \/ \E p \in DOMAIN file : WriteDocument(p) \/ Discard(p)
  \/ \E v \in SpecVersions : RewordPrimary(v)

Next == Commands \/ Writing \/ Failures \/ People

Spec == Init /\ [][Next]_vars

----------------------------------------------------------------------------
(* Properties *)

Blocks == {CompilerNode(Sections[n]) : n \in Nodes}
KnownBlocks == Blocks \cup {SettledBlock(b) : b \in Blocks}
Plans == [Nodes -> Nat]
Issues == [for : Nodes \cup {0}, parent : Nat]
Prompts == [spec : SpecVersions, compilers : [Nodes -> KnownBlocks], adrs : Plans]
Answers == {NoAnswer} \cup [said : Replies, asked : Prompts]
Classes == {"decision", "evidence", "context", "implementation", "unknown"}
States == RoutedStates \cup {"evidence_candidate", "implementation_candidate", "settled"}
Refined == [class : Classes, state : States, routes : SUBSET RoutedStates, adr : Nat]
Refinements == {NotRefined} \cup Refined

Campaigns ==
  [spec : SpecVersions, status : {"draft", "ready"}, needs : SUBSET RoutedStates,
   plans : SUBSET Nodes, specs : SUBSET Nodes, adrs : SUBSET [node : Nodes, number : Nat],
   epic : Nat, issues : Seq(Nat), refinement : {NotRefined} \cup [adrs : Plans], llm : Answers]
Goals ==
  [spec : SpecVersions, body : {"draft", "edited", "broken"}, needs : BOOLEAN,
   compiler : KnownBlocks, refinement : Refinements, llm : Answers]
EvidencePlans ==
  [body : {"draft", "edited"}, goal : Nodes, refinement : Refinements, llm : Answers]
Loops ==
  [spec : SpecVersions, ids : {SectionIds(Headings)}, deps : SUBSET (Nodes \X Nodes),
   linked : SUBSET Nodes]
Contents(kind) ==
  CASE kind = "campaign" -> Campaigns
    [] kind = "loop"     -> Loops
    [] kind = "marker"   -> [marks : SpecVersions]
    [] kind = "goal"     -> Goals
    [] kind = "evidence" -> EvidencePlans
    [] kind = "spec"     -> [stub : KnownBlocks] \cup {Authored}
    [] kind = "adr"      -> [stub : Nodes] \cup {Authored}

Paths ==
  ({"campaign", "loop", "marker"} \X {0} \X {0})
  \cup ({"spec", "goal", "evidence"} \X Nodes \X {0})
  \cup ({"adr"} \X (Nodes \cup {0}) \X Nat)

Tasks ==
  ({"campaign", "loop", "marker", "llm_campaign"} \X {0} \X {0})
  \cup ({"spec", "goal", "evidence", "llm_goal", "llm_evidence"} \X Nodes \X {0})
  \cup ({"adr"} \X Nodes \X Nat)

CmdStates ==
  [op : {"idle", "init", "refine", "import", "ready"}, beads : BOOLEAN, wrote : BOOLEAN,
   step : {"none", "check", "plan", "beads", "write", "gate", "promote"},
   todo : SUBSET Tasks, campaign : {NotRead} \cup Campaigns,
   goals : {<<>>} \cup [Nodes -> Goals], adrs : {<<>>} \cup Plans,
   epic : Nat, issues : Seq(Nat), answer : Answers]

(* What a command holds at its steps.                                      *)
Planned(c) == c.campaign \in Campaigns /\ c.goals \in [Nodes -> Goals] /\ c.adrs \in Plans
Holds(c) ==
  CASE c.op = "init" ->
         /\ c.step = "write" \/ (c.step = "check" /\ c.todo = {})
         /\ c.todo \subseteq DraftPaths
         /\ \E v \in SpecVersions : c.campaign = DraftCampaign(v)
    [] c.op \in {"refine", "import"} ->
         /\ c.step \in {"plan", "check", "beads", "write"}
         /\ c.step # "plan" => Planned(c)
         /\ c.todo \subseteq IF c.step = "write" THEN RefineWrites(c) ELSE {}
         /\ c.op = "import" => c.answer # NoAnswer
    [] c.op = "ready" ->
         /\ c.step = "gate" \/ (c.step = "promote" /\ c.campaign \in Campaigns)
         /\ c.todo = {}
    [] OTHER -> c = Idle

(* The files are those of a campaign, and hold what the code writes into   *)
(* them; a command holds what its step needs.                              *)
TypeOK ==
  /\ \A p \in DOMAIN file : p \in Paths /\ (file[p] = Torn \/ file[p] \in Contents(p[1]))
  /\ primary \in SpecVersions
  /\ tracker \in Seq(Issues)
  /\ answer \in Answers
  /\ cmd \in CmdStates
  /\ Holds(cmd)
  /\ {alone, halfway, stale} \subseteq BOOLEAN
  /\ calls \in 0..MaxCalls /\ edits \in 0..MaxEdits /\ failures \in 0..MaxFailures

(* What the manifest declares is there: no crash, no failure of bd and no  *)
(* torn write leaves a manifest naming a child spec or an ADR that was not *)
(* written, because refine writes the manifest last (SPEC-80-11: the       *)
(* manifest "MUST reference every generated" spec and ADR).  While nobody  *)
(* edits during a command, none of them is torn either.                    *)
ManifestClosed ==
  Whole(Path("campaign")) =>
    \A p \in SpecPaths(campaign.specs) \cup DeclaredAdrs(campaign) :
      p \in DOMAIN file /\ (alone => Whole(p))

(* Once refine or the import of an answer ended well, the manifest, the    *)
(* goals and the plans tell the same story: one decision record per node,  *)
(* and an answer in all of the files of the nodes it names or in none,     *)
(* asked of the plan that was carried out.                                 *)
RefinementsAgree ==
  cmd = Idle /\ ~halfway /\ alone /\ Whole(Path("campaign"))
  /\ campaign.refinement # NotRefined =>
    \A n \in Nodes :
      Whole(NodePath("goal", n)) /\ Whole(NodePath("evidence", n)) =>
        LET told == campaign.llm IN
        /\ goal(n).refinement.adr = campaign.refinement.adrs[n]
        /\ evidence(n).refinement.adr = campaign.refinement.adrs[n]
        /\ goal(n).llm =
             IF told # NotDrafted /\ n \in told.said.nodes THEN told ELSE NotDrafted
        /\ evidence(n).llm = goal(n).llm
        /\ told # NotDrafted => told.asked.adrs[n] = campaign.refinement.adrs[n]

(* What is a person's in a file: all of it but the blocks refine owns.     *)
Authorship(p) ==
  CASE p[1] = "campaign" -> <<file[p].needs, file[p].plans>>
    [] p[1] = "goal"     -> <<file[p].body, file[p].needs, file[p].compiler>>
    [] p[1] = "evidence" -> <<file[p].body, file[p].goal>>
    [] OTHER             -> file[p]

(* While nobody edits during a command, a command never takes a file away, *)
(* changes what people wrote into it, or tears a document of theirs;       *)
(* retries and the checks for collisions are there for this (SPEC-80-10    *)
(* and SPEC-80-11: never overwrite user-authored files).                   *)
KeepsPeoplesWords ==
  [][(Commands \/ Writing \/ Failures) /\ alone =>
       \A p \in DOMAIN file :
         /\ p \in DOMAIN file'
         /\ file'[p] # file[p] =>
              IF file'[p] = Torn
              THEN p[1] \in {"campaign", "goal", "evidence"}
              ELSE file[p] # Torn /\ Authorship(p)' = Authorship(p)]_vars

(* The i-th issue the manifest records is the task of the i-th node, under *)
(* the epic it records, also when an earlier refine --create-beads failed  *)
(* after some issues, or another ran in between.                           *)
IssuesBelongToNodes ==
  Whole(Path("campaign")) =>
    \A i \in DOMAIN campaign.issues :
      /\ campaign.issues[i] \in DOMAIN tracker
      /\ tracker[campaign.issues[i]] = Task(i, campaign.epic)

(* A campaign that is ready has its work: nothing is left to refine, every *)
(* node has its spec, its plan and its issue, decisions are on record, and *)
(* the loop is a partial order with every dependency an answer named.  It  *)
(* holds until somebody edits, or refine dies over the files.              *)
ReadyHasItsWork ==
  cmd = Idle /\ ~stale /\ Whole(Path("campaign")) /\ campaign.status = "ready" =>
    /\ CampaignLints
    /\ campaign.needs = {} /\ loop.linked = Nodes
    /\ \A n \in Nodes :
         /\ ~goal(n).needs
         /\ goal(n).compiler.state \notin UnresolvedStates
         /\ goal(n).refinement.state \notin UnresolvedStates
         /\ evidence(n).goal = n
         /\ NodePath("spec", n) \in DOMAIN file
         /\ alone => Whole(NodePath("spec", n))
         /\ goal(n).refinement.class = "decision" =>
              AdrPath(n, goal(n).refinement.adr) \in DOMAIN file
         /\ goal(n).llm # NotDrafted =>
              {n} \X goal(n).llm.said.hints[n] \subseteq loop.deps

(* A refine or import that ended well leaves a decision record declared    *)
(* for each node that the readiness gate takes for a decision: the two     *)
(* read different fields (campaign_refine: state or classification;        *)
(* campaign_readiness: classification or route).                           *)
DecisionsAreCovered ==
  cmd = Idle /\ ~halfway /\ alone /\ Whole(Path("campaign"))
  /\ campaign.refinement # NotRefined =>
    \A n \in Nodes : GoalLints(n) => HasDecisionAdr(n)

(* The command given again now: what it would plan from the files as they  *)
(* are.                                                                    *)
Again ==
  [cmd EXCEPT !.campaign = campaign, !.goals = [n \in Nodes |-> goal(n)], !.adrs = PlannedAdrs]
AdrWritten ==
  \E n \in Nodes : cmd.adrs[n] # 0 /\ AdrPath(n, cmd.adrs[n]) \in DOMAIN file

(* A command that dies between two of its writes can be given again as     *)
(* long as nobody edits while it runs: init finds every path free, and     *)
(* refine finds the campaign linting and every path of its new plan free.  *)
(* So does the import of an answer; but the answer still fits the prompt   *)
(* only until the first decision record is written, because the prompt     *)
(* names the next numbers, and from then on the import is refused.         *)
RetriesFailByPromptOnly ==
  alone /\ cmd.todo # {} =>
    \/ cmd.op = "init" /\ InitIsFree(primary)
    \/ /\ cmd.op # "init" /\ CampaignLints /\ RefineIsFree(Again)
       /\ cmd.op = "import" => cmd.answer = answer /\ (AnswerFits(Again) <=> ~AdrWritten)
=============================================================================
