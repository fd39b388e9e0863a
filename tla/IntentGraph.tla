----------------------------- MODULE IntentGraph -----------------------------
(***************************************************************************)
(* The goal files behind the goal commands: what they say, the commands'   *)
(* lint of them, dp agent launch (dp/core/agent_launch.py), and dp graph   *)
(* audit (dp/core/intent_graph.py) over docs/goals.                        *)
(*                                                                         *)
(* A goal file is its contract here with its authorship in GoalLifecycle;  *)
(* whoever saves the file replaces both at once.                           *)
(* Next to the files of Goals, docs/goals has one child goal, linked to    *)
(* the goal Parent and never commanded, and perhaps a second file with     *)
(* Parent's id.                                                            *)
(*                                                                         *)
(* launch lints the goal, reads it again to render the prompt, claims and  *)
(* starts; commands of others, and edits, come in between.                 *)
(***************************************************************************)
EXTENDS GoalLifecycle, GoalContract

CONSTANTS
  Contracts,  \* what people may write into a goal file
  Repos,      \* what the repository around the goal files may be like
  Parent,     \* the goal that the child serves
  Launchers,  \* the agents whose work begins with dp agent launch
  MaxEdits    \* bound: edits of goal files and of the repository

ASSUME ParentIsGoal == Parent \in Goals
ASSUME ReposHaveParts ==
  Repos \subseteq [source : {"text", "unreadable", "directory", "missing"},
                  quoted : BOOLEAN, surface : BOOLEAN, marker : BOOLEAN]
ASSUME ContractsHaveIntents ==
  \A c \in Contracts :
    /\ "intent" \in DOMAIN c
    /\ IsObject(c.intent) => {"authorship", "parent"} \subseteq DOMAIN c.intent
ASSUME LaunchersAreAgents == Launchers \subseteq Agents

VARIABLES
  contract,  \* of each goal, but for its intent's authorship
  intent,    \* the child's intent block
  snapshot,  \* the child's parent_snapshot, or its lack
  copy,      \* the second file with Parent's id
  repo,      \* what lint and audit look at besides goal files
  held,      \* the contract each ratify has read and will write back
  launch,    \* the launch each process is in, or its last
  edits

files == <<contract, intent, snapshot, copy, repo, edits>>
graphVars == <<vars, files, held, launch>>

NoCopy == [copies |-> 0]
NoLaunch == [stage |-> "none"]
NoSnapshot == [digest |-> FALSE]
Malformed == [digest |-> TRUE]      \* not sha256 and 64 hex digits

(* The file of a goal.                                                     *)
WithAuthor(c, author) ==
  IF IsObject(c.intent) THEN [c EXCEPT !.intent.authorship = author] ELSE c
File(g) == WithAuthor(contract[g], authorship[g])

(* The two go together in one file: there is an author where there is an   *)
(* intent, and what GoalLifecycle calls agent_derived is a proposed root.  *)
Fits(c, author) ==
  /\ author = NoAuthor <=> ~IsObject(c.intent)
  /\ author = "agent_derived" => c.intent.parent = Root

Link == [goal |-> "good", contribution |-> "good", residual |-> "none", snapshot |-> "none"]

----------------------------------------------------------------------------
(* dp graph audit *)

FileDigest(f) == f          \* sha256, taken for injective

(* The files with Parent's id, by their paths.                             *)
ParentFiles ==
  (IF copy # NoCopy /\ copy.first THEN <<copy.file>> ELSE <<>>)
  \o (IF File(Parent).id THEN <<File(Parent)>> ELSE <<>>)
  \o (IF copy # NoCopy /\ ~copy.first THEN <<copy.file>> ELSE <<>>)

(* The alternative lets equal files pass.                                  *)
DuplicatesThatDiffer(same) ==
  If(\E i, j \in DOMAIN same : same[i] # same[j], "duplicate_goal_id")
DuplicateFindings(same) == If(Len(same) > 1, "duplicate_goal_id")

(* A parent is the first file with its id.                                 *)
LinkFindings(link, taken) ==
  IF link.goal \notin {"good", "bad"} THEN {}
  ELSE If(taken = Malformed, "invalid_parent_snapshot")
       \cup If(ParentFiles = <<>>, "unknown_parent_goal")
       \cup If(/\ taken \notin {NoSnapshot, Malformed} /\ ParentFiles # <<>>
               /\ taken # FileDigest(ParentFiles[1]), "stale_parent_snapshot")

(* A path that is not sane leads to no file.                               *)
QuoteFindings(i) ==
  IF i.verbatim \notin {"good", "bad"} \/ ~IsObject(i.source) \/ i.source.path # "good" THEN {}
  ELSE If(Cited(i.source, repo) = "unreadable", "unreadable_intent_source")
       \cup If(Cited(i.source, repo) = "text" /\ ~repo.quoted, "verbatim_not_in_source")

AuditFindings(i, taken) ==
  IF ~IsObject(i) THEN {"missing_intent"}
  ELSE If(IntentFindings(i, repo, TRUE) # {}, "partial_intent")
       \cup If(i.defeaters = "none", "missing_defeaters")
       \cup If(IsLink(i.parent) /\ i.parent.residual = "none", "missing_residual")
       \cup If(IsUnratifiedRoot(i), "unratified_root")
       \cup (IF IsLink(i.parent) THEN LinkFindings(i.parent, taken) ELSE {})
       \cup QuoteFindings(i)

ChildAudit ==
  AuditFindings(IF snapshot = NoSnapshot THEN intent
                ELSE [intent EXCEPT !.parent.snapshot = "good"], snapshot)
GoalAudit(g) ==
  AuditFindings(File(g).intent, NoSnapshot)
  \cup (IF g = Parent /\ File(g).id THEN DuplicateFindings(ParentFiles) ELSE {})

(* The goals lint at first, and the child has its parent's kind of intent.  *)
GraphInit ==
  /\ Init
  /\ repo \in Repos
  /\ contract \in [Goals -> Contracts]
  /\ \A g \in Goals : Lints(File(g), repo) /\ Fits(contract[g], authorship[g])
  /\ IsObject(contract[Parent].intent)
  /\ intent = [contract[Parent].intent EXCEPT !.parent = Link]
  /\ snapshot = FileDigest(File(Parent))
  /\ copy = NoCopy
  /\ held = [p \in Agents |-> Absent]
  /\ launch = [p \in Agents |-> NoLaunch]
  /\ edits = 0

----------------------------------------------------------------------------
(* Goal commands: each lints the file first.  ratify writes the contract   *)
(* it read back.                                                           *)

AtRest(p) == launch[p].stage \in {"none", "done", "failed"}
Forget(p) == launch' = [launch EXCEPT ![p] = NoLaunch]
Passes(g) == Lints(File(g), repo)

Command(p) ==
  /\ AtRest(p)
  /\ \/ \E g \in Goals :
          /\ Passes(g)
          /\ \/ \E d \in LeaseLengths : BeginClaim(p, g, d)
             \/ BeginStart(p, g) \/ BeginHeartbeat(p, g)
             \/ BlockGoal(p, g) \/ ReleaseGoal(p, g)
             \/ CompleteGoal(p, g) \/ VerifyGoal(p, g)
     \/ FinishClaim(p) \/ FinishStart(p) \/ FinishHeartbeat(p) \/ FinishRatify(p)
  /\ Forget(p)
  /\ UNCHANGED <<files, held>>

ReadToRatify(p, g) ==
  /\ AtRest(p)
  /\ Passes(g)
  /\ BeginRatify(p, g)
  /\ held' = [held EXCEPT ![p] = contract[g]]
  /\ Forget(p)
  /\ UNCHANGED files

(* A launch, also one that ended, is disturbed when files change.          *)
Disturbed(l) == IF l = NoLaunch THEN l ELSE [l EXCEPT !.disturbed = TRUE]
DisturbLaunches == launch' = [p \in Agents |-> Disturbed(launch[p])]

RewriteToRatify(p) ==
  /\ WriteRatify(p)
  /\ contract' = [contract EXCEPT ![cmd[p].goal] = held[p]]
  /\ held' = [held EXCEPT ![p] = Absent]
  /\ DisturbLaunches
  /\ UNCHANGED <<intent, snapshot, copy, repo, edits>>

----------------------------------------------------------------------------
(* dp agent launch *)

At(p, stage) == launch[p].stage = stage
Target(p) == launch[p].goal
GoesTo(p, stage) ==
  /\ launch' = [launch EXCEPT ![p].stage = stage]
  /\ UNCHANGED <<files, held>>

LintToLaunch(p, g) ==
  /\ p \in Launchers
  /\ AtRest(p) /\ Ready(p)
  /\ Passes(g)
  /\ launch' = [launch EXCEPT ![p] =
       [stage |-> "linted", goal |-> g, package |-> Absent, disturbed |-> FALSE]]
  /\ UNCHANGED <<vars, files, held>>

(* Rendering needs the id and the objective, of whatever it now reads.     *)
EmitPrompt(p) ==
  /\ At(p, "linted")
  /\ File(Target(p)).id /\ File(Target(p)).objective # "none"
  /\ launch' = [launch EXCEPT ![p].stage = "emitted", ![p].package = File(Target(p))]
  /\ UNCHANGED <<vars, files, held>>

LaunchBeginsClaim(p, d) ==
  At(p, "emitted") /\ Passes(Target(p)) /\ BeginClaim(p, Target(p), d) /\ GoesTo(p, "claiming")
LaunchClaims(p) ==
  At(p, "claiming") /\ FinishClaim(p) /\ GoesTo(p, "claimed")
LaunchBeginsStart(p) ==
  At(p, "claimed") /\ Passes(Target(p)) /\ BeginStart(p, Target(p)) /\ GoesTo(p, "starting")
LaunchStarts(p) ==
  At(p, "starting") /\ FinishStart(p) /\ GoesTo(p, "done")

(* A refused claim leaves nothing behind; a refused start, the claim.      *)
LaunchIsRefused(p) ==
  /\ At(p, "emitted") \/ At(p, "claimed")
  /\ ~Passes(Target(p)) \/ RefusedRoot(Target(p)) \/ ~MayTake(p, Replayed(Target(p)))
  /\ IF At(p, "claimed") THEN GoesTo(p, "failed") ELSE Forget(p) /\ UNCHANGED <<files, held>>
  /\ UNCHANGED vars

Launch(p) ==
  \/ \E g \in Goals : LintToLaunch(p, g)
  \/ EmitPrompt(p)
  \/ \E d \in LeaseLengths : LaunchBeginsClaim(p, d)
  \/ LaunchClaims(p) \/ LaunchBeginsStart(p) \/ LaunchStarts(p)
  \/ LaunchIsRefused(p)

Dies(p) ==
  /\ cmd[p] # Idle \/ ~AtRest(p)
  /\ Finished(p)
  /\ Forget(p)
  /\ held' = [held EXCEPT ![p] = Absent]
  /\ UNCHANGED <<now, digest, authorship, ratified, undone, files>>

----------------------------------------------------------------------------
(* People *)

Edits == edits < MaxEdits /\ edits' = edits + 1 /\ DisturbLaunches /\ UNCHANGED held

(* The owner adopts a proposed root by hand; not counted among the edits.  *)
Adopt(g) ==
  /\ authorship[g] = "agent_derived"
  /\ SaveAuthorship(g, "owner")
  /\ DisturbLaunches
  /\ UNCHANGED <<files, held>>

(* Somebody saves another goal file in place of the one that is there,     *)
(* between the two writes of a ratify too.                                 *)
EditGoal(g, c, author) ==
  /\ Edits
  /\ Fits(c, author)
  /\ SaveAuthorship(g, author)
  /\ contract' = [contract EXCEPT ![g] = c]
  /\ UNCHANGED <<intent, snapshot, copy, repo>>

(* The child is derived again from its parent as it is now                 *)
(* (goal_file_digest), or its snapshot is dropped or mistyped.             *)
Derive ==
  /\ Edits
  /\ snapshot' \in {FileDigest(File(Parent)), NoSnapshot, Malformed}
  /\ UNCHANGED <<vars, contract, intent, copy, repo>>

CopyParent(first) ==
  /\ Edits
  /\ File(Parent).id
  /\ copy' = [first |-> first, file |-> File(Parent)]
  /\ UNCHANGED <<vars, contract, intent, snapshot, repo>>

(* The cited source goes or changes, the adoption level comes or goes.     *)
EditRepo ==
  /\ Edits
  /\ repo' \in Repos
  /\ UNCHANGED <<vars, contract, intent, snapshot, copy>>

GraphNext ==
  \/ \E p \in Agents : Command(p) \/ RewriteToRatify(p) \/ Launch(p) \/ Dies(p)
  \/ \E p \in Agents, g \in Goals : ReadToRatify(p, g)
  \/ \E g \in Roots :
       Adopt(g) \/ \E c \in Contracts, author \in Authorships : EditGoal(g, c, author)
  \/ Derive
  \/ \E first \in BOOLEAN : CopyParent(first)
  \/ EditRepo
  \/ Tick /\ UNCHANGED <<files, held, launch>>

GraphSpec == GraphInit /\ [][GraphNext]_graphVars

----------------------------------------------------------------------------
(* Properties *)

(* A ratification in the log is in the goal file, unless somebody's save   *)
(* took it out after it was written (ratify_goal: the file, then the       *)
(* event): it is not lost by the death of ratify between its two writes,   *)
(* nor by another ratify that writes back what it read before.             *)
RatifiedInFile ==
  \A g \in ratified \ undone :
    IsObject(File(g).intent) /\ File(g).intent.authorship = "owner_ratified"

(* A launch whose start is refused leaves its claim behind (agent_launch:  *)
(* the claim is not taken back).  Unless files were changed meanwhile, the *)
(* start is refused only where the claim has been lost already: the agent  *)
(* holds nothing then, and gets nothing back by what others do later.      *)
FailedLaunchHoldsNothing ==
  \A p \in Agents :
    At(p, "failed") /\ ~launch[p].disturbed => HolderOf(Target(p)) # p

(* The package a launch hands out is a goal that was linted before it was  *)
(* read, by a claim and a start that read it again.  As long as the files  *)
(* stay as they are, it is the goal as it is, and the audit has nothing    *)
(* against it that lint should have held up: no proposed root, no intent   *)
(* in part, and an intent where the adoption level asks for one.           *)
LaunchedGoalStands ==
  \A p \in Agents :
    At(p, "done") /\ ~launch[p].disturbed =>
      /\ launch[p].package = File(Target(p))
      /\ GoalAudit(Target(p)) \cap {"partial_intent", "unratified_root"} = {}
      /\ EnforcementActive(repo) => "missing_intent" \notin GoalAudit(Target(p))

(* Whatever rewrites a goal after a child was derived from it, an edit, a  *)
(* ratification or a second file with its id, the audit tells (SPEC-83:    *)
(* stale_parent_snapshot, duplicate_goal_id, unknown_parent_goal).         *)
DriftIsReported ==
  snapshot \notin {NoSnapshot, Malformed} =>
    \/ ParentFiles = <<snapshot>>
    \/ {"stale_parent_snapshot", "unknown_parent_goal"} \cap ChildAudit # {}
    \/ "duplicate_goal_id" \in GoalAudit(Parent)
=============================================================================
