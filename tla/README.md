# dp in TLA+

TLA+ specifications of `dp`, the command line by which people and coding agents share
goals: contracts in JSON files, an append-only event log that says who works on what,
evidence runs that a goal needs before it is verified, loops of goals that depend on each
other, and campaigns that run loops. There is no server. Every `dp` command is a process
that reads files, decides, appends an event or writes a file, and ends; several agents run
such processes at the same time on the same files, nothing locks anything, and each process
reads the clock for itself. That is where the difficulty of this code lies, and what the
specifications are about.

TLC checks every module on small instances, and TLAPS proves the main properties for every
value of the constants.

## The system

Paths are relative to `src/dp/core/` unless they start with `dp/`.

| Part | State it keeps | Operations | Interacts with | Modelled in |
|---|---|---|---|---|
| Event log (`events.py`) | a JSONL file per kind of event | append a line, read all lines | everything below | `GoalEvents`, `GoalLifecycle` |
| Goal replay (`goal_state.py`, `reconstruct_goal_state`) | none; state, lease and counters are computed from log, clock and goal file | replay | every goal command, loop and campaign | `GoalEvents`, `GoalReplay` |
| Goal commands (`goal_state.py`) | events; `intent.authorship` in the goal file | claim, start, heartbeat, block, release, outcome, complete, verify, ratify | log, goal file, evidence | `GoalLifecycle`, `Lease` |
| Evidence runner (`evidence_run.py`) | the evidence run artifact | lint, run the checks, write | plan file, subprocesses | `EvidencePipeline` |
| Goal verification (`verify_goal` in `goal_state.py`, `goal_verification.py`) | the `verified` event | compare run with plan, append; `dp verify --goal` runs the evidence first | runner, log | `EvidencePipeline` |
| Loop ledger (`loop_ledger.py`) | none; node states are derived | lint, status, next (claims) | replay, claim | `LoopLedger`, `CycleCheck`, `CampaignRun` |
| Campaign status and resume (`campaign_manifest.py`) | none | lint, status, resume | loop ledger | `LoopLedger` |
| Campaign run (`campaign_run.py`, `campaign_events.py`) | the campaign event log | one step, managed step | status, loop next | `CampaignRun` |
| Agent launch (`agent_launch.py`) | none | emit the prompt, claim, start | goal commands, goal files | `IntentGraph` |
| Blocker routing (`blocker_routing.py`, `adr.py`) | ADRs, spec stubs, Beads issues | route, create ADR | goal block, `bd` | `BlockerRouting` |
| Campaign Beads sync (`campaign_beads_sync.py`) | issues and dependencies in Beads | plan, apply | `bd` | `BeadsSync` |
| Campaign authoring (`campaign_init.py`, `campaign_refine.py`, `campaign_readiness.py`) | campaign, loop, goal and plan files | init, refine, import of a model's answer, ready | lint, `bd`, people's edits | `CampaignCompiler`, `CampaignFiles`, `CampaignReadiness`, `CampaignAuthoring` |
| Goal lint, intent graph, emission (`goal_lint.py`, `intent_graph.py`, `goal_emit.py`) | none | check, audit or render goal files | every goal command | `GoalContract`, `IntentGraph` |
| Evidence lint (`evidence_lint.py`) | none | check a plan | runner, verification | one bit of a plan in `EvidencePipeline` |
| Decomposition (`decompose.py`) | none | split a task list to fit | - | its cycle search in `CycleCheck`; the rest not modelled |
| Policy enforcement (`dp/enforcement/`, hooks) | none | run the configured steps | subprocesses | not modelled |
| Beads provider (`dp/providers/`) | none | run `bd`, normalize | `bd` | not modelled |
| Adoption, traceability, review, agent help, command line | none, or files written once | plans, scans, reports, printing | - | not modelled |

What makes each part correct, and what is hard about it:

* **Replay.** Whether a lease is stale is decided at every read with the reader's clock, so
  one log has as many meanings as it has readers; `started` even drops a lease the reader
  finds stale. A lease seen expired must never come back, only a claim may make somebody the
  holder, counters must start where they were reset, and the two places that decide whether
  an outcome confirms a goal must agree.
* **Goal commands.** Claim, start and heartbeat read, check and append with nothing held
  between. Ratify writes the goal file, then appends. Commands overlap and crash. A live
  claim must exclude other agents, pursuit must rest on a claim, nobody may work on a root
  goal that no owner ratified, and a ratification in the log must be in the file, unless somebody
  saved another file over it.
* **Evidence.** Run and verification together read the plan half a dozen times, and checks
  take long; artifacts can be torn or replaced. A `verified` event must answer for a plan
  whose checks ran and passed.
* **Loops and campaigns.** Nodes are read one after another, each with its own clock; status
  is read, then the loop is read again, then the goal is replayed once more and claimed.
  Dispatch must respect dependencies, not take work somebody is on, and never dead-end.
* **Blocks and the tracker.** A routed block writes a document, asks `bd` for a follow-up issue
  and appends its event, and any of the three can fail or be the last. A retry may come on
  another day, with the document torn or edited. Documents must be kept, events must name whole
  ones, ADR numbers must differ. A sync gives `bd` command after command, each of which can
  fail before or after its effect; repeated, it must give `bd` no edge that was there, and lose
  none. What it plans from is not tidy: a ledger may list a dependency twice, and nodes may share
  an issue.
* **Goal files.** Every command lints the goal file and then reads it again, a launch four
  times, while people edit it, ratify it, copy it, or take away the source it cites. A launch
  must hand out a goal that stands, and one that fails must not keep the goal. A child goal
  carries the digest of the parent it was derived from; whatever then happens to the parent,
  the audit must tell.
* **Authoring.** A campaign is a dozen files that name one another. init, refine, the import of
  a model's answer and ready write them one by one, refine creates issues in between, and
  people work on the same files for days. After a crash, a torn write or a failing `bd`, the
  manifest must name only what is there, the same command must not be refused for what it wrote
  itself, the words of people must still be there, issues must belong to their nodes, and what is
  called ready must have its work.

## Modules and the code

`GoalEvents` has the events, the replay loop and a **digest**: a finite record (phase, latest
claim, whether a start came after it, blocked) from which any reader's replay can be read off
(`View(digest, clock)`). The loop of `reconstruct_goal_state` has two groups of variables that
never look at each other, the lifecycle and the tallies, and the module keeps them apart.
`GoalReplay` is the log itself with, for every clock value and file content, the result of the
loop; it checks the tallies against the log and justifies the digest, which the other modules keep
in place of a log.

`GoalLifecycle` is the goal commands by several processes. A command that checks before it
appends is two actions (`BeginClaim`: read, refuse or go on; `FinishClaim`: append), a command
that only appends is one, ratify is three. `Crash` ends a command between two steps, `Tick`
advances the clock. `SaveAuthorship` is people's saves of the goal file, of which this module sees
only who proposed the goal: an owner adopts it, or the file becomes a proposal again, between the
two writes of a ratify too. The history variable `undone` has the goals of which a save took an
adoption back. The constant
`Serialized` says whether callers wait for one another; the code does not make them.
`Lease` is the abstract specification: a lock per goal with a deadline that one holder may
take, extend and drop and the clock may end; `GoalLifecycle` implements it when serialized.

`EvidencePipeline` is one goal's plan file, artifact and `verified` event. Each file access of
`run_evidence_file`, `verify_goal` and `verify_goal_orchestrated` is an action. A content
stands for its sha256. The content whose checks really ran is kept beside the artifact
(`loaded`): the code does not record it, which is what the properties are about.
`Exclusive` says that nothing else happens while a command runs.

`CycleCheck` is the recursive search of `_has_cycle` as a machine with the recursion's stack;
the sets it iterates have no order, so neither has the machine. `_is_dag` of `decompose.py` is
the same search, negated.

`LoopLedger` has what is computed from a ledger and the readings of its goals: node states,
the next node, campaign status, resume action. `CampaignRun` composes it with `GoalLifecycle`:
a campaign run reads goal after goal (`ReadGoal`), decides, reads them all again, selects,
claims by the actions of `GoalLifecycle`, reads the lease again and appends the handoff event,
while goal commands, crashes and the clock go on beside it (`GoalStep`).

`BlockerRouting` is `dp goal block`, plain or with `--write-artifact`: choosing a path (the goal's
stub, or an ADR with the next number), opening and filling the document, the follow-up issue and
the event. It has its own replay of a goal, smaller than a digest of `GoalEvents` and with what a
digest lacks, the `blocked` record and the last event; other goal commands are `OtherEvent`.
Documents are a partial function from paths to contents. `BeadsSync` composes it with `dp campaign
sync-beads`: reading the goals one by one (`ReadNode`), then, node by node, asking `bd` for the
edges of the issue when it first comes to it (`ListEdges`) and going through the dependencies in
the order the ledger lists them and the follow-up after them (`PassEntry`, `SkipEdge`, `PlanEdge`,
`AddEdge`), then the statuses (`UpdateIssue`). The list may repeat a dependency, and nodes may
share an issue, since the ledger lint objects to neither. A `bd` command may fail, or fail to say
that it succeeded. `Serialized` is as in `GoalLifecycle`, and also keeps people's edits out of a
running command; goal events and expiring claims go on at all times.

`GoalContract` is `dp goal lint`: the set of findings of a contract, whose fields are known by
the kind of their value (missing, as asked for, empty, against the rule, of another type).
`IntentGraph` puts the goal files behind the commands of `GoalLifecycle`, which it extends:
every command first lints (`Passes`), ratify reads the contract and writes back what it read
(`ReadToRatify`, `RewriteToRatify`), a person's save replaces contract and authorship at once,
whatever ratify is doing (`EditGoal`), and `dp agent launch` is a sequence of its own (`LintToLaunch`,
`EmitPrompt`, then the claim and the start of `GoalLifecycle`), with other agents' commands,
edits and crashes between any two steps. `ChildAudit` and `GoalAudit` are what `dp graph audit`
finds of a child goal and of its parent. A file stands for its sha256.

`CampaignCompiler` is what init makes of a section: signals, classification, refinement state,
routes. `CampaignFiles` has the files as a partial function from paths to contents, the drafts
and the lints of campaign and loop; `CampaignReadiness` the gate of `dp campaign ready`.
`CampaignAuthoring` has the commands: each lints, plans from what it read (`PlanRefine`,
`CheckRefine`), creates issues (`CreateEpic`, `CreateTask`), and writes its todo in the order of
the code (`Before`), one file a step. A process may die between two steps (`Crash`) or in a
write (`TearWrite`). The command is one record, `cmd`: what it is, the step it is at, what it read,
planned and has still to write. `AskModel` emits a request and keeps the model's reply with the prompt it
was given for; `BeginImport` may come any time later. People settle nodes, rewrite goals, plans
and documents, edit the manifest and the loop, and create ADRs.

Definitions that carry a suffix, as `MayTakeByState` beside `MayTake`, are plausible mistakes
placed next to what the code does. Nothing uses them; substituted for the
original, they break the property named in `PROJECT.json`, which shows the property depends on
that line of the code.

## What TLC checks

| Run | Question | Bounds | Distinct states |
|---|---|---|---|
| `replay` | what readers make of a log | 2 agents, 2 file contents, 3 clock values, logs of up to 4 events | 138 000 |
| `lifecycle_serial` | claims exclude, pursuit rests on a claim, the commands implement `Lease` | 3 agents, 1 goal that starts as a proposed root, leases of 1 or 2 units, 5 clock values | 138 000 |
| `intent_graph` | what holds when commands and launches overlap at will and goal files change | 2 agents, one of them launching, 1 goal that starts as a proposed root and its child, 3 contracts (sound, without intent, without id), 2 repositories (adopted, or not adopted and without the cited source), 2 clock values, 1 edit besides the owner's and ratifications | 553 000 |
| `authoring` | do a campaign's files agree, what refuses a retry, is a person's work kept, is ready ready | 2 sections (one to decide, one to build), 2 replies of a model, 2 wordings of the primary spec, 3 commands, 1 edit, 1 failure | 553 000 |
| `claim_race` (violation) | does a live claim exclude overlapping claims | as `lifecycle_serial` | stops at the violation |
| `evidence` | does a `verified` event answer for its plan | 2 processes, 4 contents (two good ones, one that does not lint, one for another goal), 2 checks | 77 000 |
| `evidence_stale` (violation) | does an artifact name the plan it ran | the same, with edits during a run | stops at the violation |
| `cycle_check` | is the search right, does it end | every graph of 3 nodes and a dangling name, every order | 186 000 |
| `campaign` | dispatch order, idle work, managed runs, handoffs, dead ends | 2 agents, 2 goals, one after the other, ledger in the other order, leases of 1 unit, 2 clock values | 421 000 |
| `campaign_resume` (violation) | is a live claim resumed | the same | stops at the violation |
| `beads_sync` | documents, ADR numbers, edges and statuses, through failures, crashes and retries | 4 goals: one with a spec stub for its block; one with an ADR that depends on the first, listed twice; one that shares the first one's issue; one without an issue; 2 follow-up ids, 2 ADR numbers, 2 days, 3 calls | 342 000 |
| `beads_followup` (violation) | does a sync link every follow-up | the same | stops at the violation |

The runs named serial in the sense of `Serialized` or `Exclusive` (`lifecycle_serial`, `evidence`, the
`campaign` runs and the `beads` runs) leave out commands that overlap: they say what the code does
for callers who wait, and the violations below what it does for those who do not. In the others
commands overlap at will. Some of their properties exempt what nobody could keep: `alone` and
`stale` (`authoring`) files that people edited during a command, or that a dead command left half
written, `disturbed` (`intent_graph`) launches during which a file changed, and `undone` goals whose
adoption a save took back.

Why these are enough. Goals do not interact but through dependencies, so one goal does for the
commands and two for a loop. A race over a lease needs a holder, a late writer and at most
one witness: three agents. Five clock values let a lease expire, be retaken, and expire again.
In a log of four events every property about "the latest such event" has its reset, an event
before and two after. Two checks are needed to tell all passed from some passed. Graphs of three
nodes have self loops, cycles of two and three, chains and shared successors, and the search
looks at no more than a node, its successor and the stack. For all of these safety properties
the bounds matter little, because they are proved without them.

Bounds that are not in the code: `MaxLog` (length of the log) and `MaxTime` (the clock). Past
`MaxTime` leases no longer expire; no property depends on the clock going on. `LeaseLengths` is a
finite set because `dp` takes finite leases only. `MaxCalls` bounds the commands, events and edits
of a run of `beads_sync`, `MaxAdr` the numbers, `MaxDay` the days: three calls are a block that
crashes, its retry and a sync of what it left, or a block, an outcome and a sync, or a sync that
fails and its retry; on the second day the first day's stub no longer matches. A dependency listed
twice with another in between, and a shared issue, are the two ways in which one edge is planned
twice. In `authoring`, three calls are a refinement that dies, its retry and ready, or a request,
another refinement and the import, each with an edit and a failure anywhere; every campaign starts
empty, as a scaffold, or as a scaffold that people have worked through, so that ready is within
reach. In `intent_graph` one edit and a ratification are enough to move a parent behind its child
or a goal behind a launch. `Roots` also bounds whose goal files people save; another goal's
authorship says `owner` throughout. `MaxEdits` and `MaxFailures` bound edits and failures. The runs
of `GoalReplay`, `CycleCheck`, `BeadsSync`, `CampaignAuthoring` and `IntentGraph` disable the
deadlock check: a log, calls and the clock reach their bounds, and a search ends. Agents are
symmetric in the campaign runs, and wordings of the primary spec in `authoring`.

`UnratifiedRootIdle` is checked over `IntentGraph`, where lint may also refuse; it is proved of
`GoalLifecycle`, and of `IntentGraph` because it implements `GoalLifecycle`. `RatifiedInFile` speaks
of the goal file as a reader finds it, so it is stated, checked and proved in `IntentGraph`: a file
without an intent object is ratified by nobody.

**Disagreements with the documentation.** Four runs look for a counterexample and find it.

* `claim_race`: `docs/reference/goal-state-machine.md` (rule 3) says a non-stale claim blocks
  another agent from claiming. Two claims that overlap both read an idle goal, both append,
  and the later one takes the goal from a live holder; both callers were told they hold it.
* `evidence_stale`: `SPEC-80-10` (requirement 7) has the run record its plan's digest. The
  digest is taken after the checks, so an edit while they run makes the artifact name a plan
  that never ran.
* `campaign_resume`: `docs/reference/campaign-run.md` says an active non-stale claim is
  resumed. A goal claimed ahead of its dependency counts as `waiting`, which hides the claim.
* `beads_followup`: `SPEC-80-18` (invariant 3) says a blocked node depends on the follow-up its
  routed block created. The sync looks for the follow-up in the goal's last event, and an outcome
  recorded after the block is a later event of a goal that is still blocked.

**Fairness and liveness.** Commands are given by people and agents, and nothing obliges anybody
to give one, to retry or to renew a lease; so the specifications of the commands state no
fairness, and claim nothing about what eventually happens. What stands in for it in the
campaign is a state property, `NoDeadEnd`: whatever was read, there is something to do. The
exception is `CycleCheck`, one uninterrupted call in one thread: weak fairness of its `Next`
says that Python goes on executing it, and `Terminates` that it returns.

## What is proved

TLAPS checks the following theorems for all values of the constants: any agents, goals,
clocks, plans and ledgers, logs of any length. They use the assumptions the modules
declare (`ASSUME`), which TLC evaluates in the runs, and, where the table says so, `Serialized` or
`Exclusive`.

| Theorem | Property | Under | Argument |
|---|---|---|---|
| `GoalReplayProofs!DigestIsEnough` | `DigestAnswersForLog` | - | replaying an event commutes with taking it into the digest (`ViewCommutes`) |
| `GoalReplayProofs!NoRevival` | `ExpiryNeverRevives` | - | from the digest: its view at a later clock can only lose a holder |
| `GoalReplayProofs!OnlyClaimsGrant` | `OnlyClaimGrants` | - | from the digests before and after an event, kind by kind |
| `GoalReplayProofs!CountsStartAtResets` | `CountsStartAtTheirReset` | - | `CountInv`: each counter is the number of positions after its reset; an append adds one such position or moves the reset past them all |
| `GoalReplayProofs!ConfirmationsAgree` | `ConfirmationAgrees` | - | `OutcomeInv`: the loop's outcome for a content is the class of the latest contact recorded with that content, which is the one the scan stops at |
| `GoalLifecycleProofs!TypesHold` | `TypeOK` | - | inductive |
| `GoalLifecycleProofs!RootsStayIdle` | `UnratifiedRootIdle` | - | inductive, since it speaks of commands in flight: a check once passed stays good until a save takes the adoption back, and such goals (`undone`) are exempt |
| `GoalLifecycleProofs!PursuitIsClaimed`, `ClaimsExclude`, `CommandsImplementLease` | `PursuingHasClaim`, `ClaimExclusion`, `LeaseSpec` | `Serialized` | `SerialInv`: one command at a time, and what it read still holds up to the clock. `ClaimStep` then says what a step does to the claim of a goal, from which exclusion and the steps of `Lease` follow |
| `EvidenceProofs!EventsAnswerForPlan` | `VerifiedPlanPassed` | `Exclusive` | `Inv`: of the command under way, its stage tells which of the plan's reads agree with the file; of the artifact, that it names the content it loaded |
| `EvidenceProofs!UnforcedRunsLeaveFiles`, `VerificationsUseTheirRun` | `UnforcedRunsKeepArtifact`, `VerifiesItsOwnRun` | `Exclusive` | `OwnInv`: past its look at the output path, a run that is not forced finds it empty until it opens it; past its write, a verification finds there what it wrote |
| `CycleCheckProofs!SearchIsRight` | `VerdictIsRight` | - | a finished node has only finished successors and lies on no cycle; the stack is a path. "No cycle" is stated as "no knot", no set of nodes that each have a successor in the set, which needs neither paths nor induction |
| `CycleCheckProofs!EveryStepAdvances` | - | - | a lexicographic measure: nodes unseen, nodes the outer loop has left, depth of the stack, successors left to the call on top |
| `CampaignProofs!NeverADeadEnd` | `NoDeadEnd` | - | acyclicity applied to the set of unverified nodes yields one with no unmet dependency, and its state is one that some action answers |
| `CampaignProofs!StatusTellsTheAction` | `StatusBacksAction` | - | holds of every reading, so in particular of those a run makes |
| `CampaignProofs!HandoffsNameHolders`, `DispatchesInOrder`, `RunsClaimIdleWork`, `ManagedRunsAdvanceAlone` | of `CampaignRun` | `Serialized` | see below |
| `IntentGraphProofs!GraphImplementsCommands`, `LaunchedRootsStayIdle` | `UnratifiedRootIdle` | - | lint only restricts the commands, so every step with the goal files behind it is a step of `GoalLifecycle` or a stutter, and what is proved there holds here |
| `IntentGraphProofs!FailedLaunchesHoldNothing`, `LaunchedGoalsStand` | `FailedLaunchHoldsNothing`, `LaunchedGoalStands` | - | `LaunchInv`: a launch that nobody disturbed has seen one content of its goal from lint to start; and a goal gets a holder by that agent's own claim only (`HolderAfterCommand`) |
| `IntentGraphProofs!RatificationsAreInFile` | `RatifiedInFile` | - | `RatifyInv`, of the commands (`GoalLifecycleProofs!MarksAreKept`): a ratify past its write finds its mark in the file, or a save took it out; `FilesInv`: the author goes with the intent object, also in what ratify read and writes back |
| `IntentGraphProofs!DriftIsAlwaysReported` | `DriftIsReported` | - | `FilesInv`: the child stays linked; then by the number of files with the parent's id |
| `BeadsProofs!NumbersAreUnique`, `DocumentsAreKept`, `EventsNameWholeDocuments` | `AdrNumbersAreUnique`, `BlocksKeepDocuments`, `EventsNameDocuments` | `Serialized` | `BlockHolds`: a block's path stays free, its number the highest, until it opens the document; what it will name holds its text |
| `BeadsProofs!ExistingEdgesAreKept`, `SyncsLeaveTheirPlan`, `SyncTypesHold` | `ExistingEdgesAreNotDuplicated`, `SyncLeavesPlan`, `TypeOK` | `Serialized` | `SyncHolds`: an edge that `bd` has from an issue it was asked about is on `bd`'s list or stands before this place in the plan, and the edges before this place are there; so are the statuses, but for those that a later node of the same issue overruled |
| `CampaignAuthoringProofs!TypesHold`, `IssuesAreOfTheirNodes`, `OnlyThePromptRefusesRetries`, `PeoplesWordsAreKept`, `DeclaredIsThere`, `StoriesAgree`, `DecisionsHaveRecords`, `ReadyCampaignsHaveTheirWork` | the eight of `CampaignAuthoring` | - | see below |

The four of `CampaignRun` rest on one invariant, `CampaignInv`. Their properties relate what a run read to
what is true when it claims, and what it read is old: each node was read at its own time. With
calls serialized the digests have not changed since, only the clock has, so what is true now is
what was read, except that claims may have expired (`SeenIsOld`, `Aged`). Ageing takes a node
from claimed to ready and nothing else (`AgedNodes`), so a ready node stays ready, a
verified dependency stays verified, and a loop in which nobody worked stays so. Without
`SeenIsOld` the step that decides loses the link between `run` and the log, and none of the
properties is inductive.

The eight of `CampaignAuthoring` each speak of a moment at which nothing runs, or of what is on
disk, while the code plans from what it read, then writes a file at a time. So each needs to be
said of the command under way as well, in terms of what it holds and of its todo, and of the
manifest it read as of the one on disk. These invariants build on one another:

* `TypeInv`: the types, and that a command holds what its step needs.
* `IssueInv`: the issues of the manifest, of the manifest the command read, and of the command
  itself are each the tasks of the first nodes under the epic beside them (`Fit`), and the two
  epics of a command agree.
* `HeldInv`: as long as nobody edited during a command, or nobody at all since the gate last passed
  (`Steady`), what the command read still holds (`PlanHolds`) and its collision check would pass again
  after every write. Since a file is written back with what was read of it, this gives the keeping
  of people's words.
* `ClosedInv`: what the manifest declares is there, and so is every document the command
  is past; with the manifest last in its order, what it will declare is then there too.
* `RetryInv`: as long as nobody edited during a command, it keeps to the campaign it read, which still
  lints, and the ADR numbers it took follow the highest number there is until its first record is
  written, and a number below that from then on. With `HeldInv` and `ClosedInv` this says what refuses a
  retry: nothing, but for an import whose first record is written, where the prompt names another
  number.
* `StoryInv`: per node, a goal or plan off the todo tells of the new refinement (`Progress`), and
  of the answer if the answer's turn has passed; with an empty todo this is the property.
* `DecisionInv`: a goal that looks like a decision to the gate has a number, and the numbers of the manifest
  are on its list. The link between what refine reads and what the gate reads is `CompilerNode`:
  a block with the route `needs_decision` has that state.
* `GateInv`: a gate that passed would pass again. It fails only once refine or import writes, and
  these leave the manifest a draft; a command that dies with files written counts as an edit (`stale`).

**Only model-checked.** `Terminates` is liveness, which TLAPS does not reach; `EveryStepAdvances` is the
part of the argument that is safety, and what remains is fairness and that the
order of its measure is well-founded on a finite graph. Every other property of a passing run
is proved. The properties of the runs that expect a violation are refuted, as the table
says; `ClaimExclusion` is proved when callers wait for one another.
No module uses a `RECURSIVE` operator.

## What is left out

* JSON, wording, timestamps, references, exit codes. A goal, plan or ledger that does not lint
  makes a command refuse, which changes nothing.
* A torn line in an event log, after which every read raises, and a torn goal file, which makes
  the refusal of unratified roots give way (`goal_state.py:877`).
* More than one block reason for a goal, deletion of documents, the notes a sync appends to
  issues, and `dp adr` but for the creation of files by others. The run has
  no evidence stub; the theorems cover them.
* What checks assert of their output; a check passes, fails, times out or errs.
* In the campaign runs, lint of ledgers and manifests other than cycles: the constants are
  assumed to lint. `CampaignFiles` has what those lints say of the files of a campaign.
* The lint of evidence plans field by field; the words in a section that count as a cue; the
  text of stubs, prompts and packages; hashes in provenance blocks that nothing compares.
* Stateless parts (rendering, traceability, reports, agent help, decomposition), and
  parts that only run other programs (enforcement, the Beads provider).

## What the models made visible

Behaviours met while modelling that no run looks for, each at its line in `src/dp/core/`:

* `ready` sets the status and leaves `campaign.refinement` alone, so a ready campaign may still
  list its nodes as `needs_decision` there. Of the two places the gate reads, `_validate_campaign_compiler`
  (`campaign_readiness.py:226`) finds nothing to look at: init writes a summary without nodes.
* Ids of issues that `bd` created before it failed are not recorded (`campaign_refine.py:794`); a
  retry creates them again and leaves the first ones without a campaign. `IssuesBelongToNodes` says
  that those recorded are right nevertheless.
* A refine or an import that dies leaves a campaign whose status may still be `ready` half refined
  (`halfway` and `stale` in `CampaignAuthoring`). After an import has written its first ADR, the same
  answer is refused: the hash of its prompt covers the number of the next ADR (`campaign_refine.py:559`),
  and a plain refine takes new numbers and leaves the ADR as an orphan. `RetriesFailByPromptOnly` states
  exactly this: the comparison of prompts passes if and only if no ADR of the import is written.
* A save of the goal file between ratify's write and its event takes the ratification out of the
  file, and the event is appended all the same (`goal_state.py:476` to `492`): the log then has a
  ratification of a goal that claim and start may go on refusing as a proposal. `RatifiedInFile`
  exempts it by `undone`.
* A sync gives `bd` an edge twice in one batch if the ledger lists the dependency twice, or if
  nodes share an issue: the list is not made unique (`campaign_beads_sync.py:152`), and the edges
  that `bd` listed are not extended by those just added. Rule 4 of
  `docs/reference/campaign-beads-sync.md` ("No duplicate dependency edges") does not hold then;
  invariant 2 of SPEC-80-18 ("Existing Beads dependency records are not duplicated") holds of the
  records that were there when the sync asked `bd`, which is what `ExistingEdgesAreNotDuplicated`
  states. Of two nodes that share an issue, the status of the later one stays.
* A spec stub torn by a crash makes every retry refuse, while the readiness gate asks only that a
  child spec is there (`campaign_readiness.py:396`).
* refine and ratify write back a file they read earlier, over an edit made meanwhile
  (`campaign_refine.py:900`, `goal_state.py:476`); the properties say `alone` and `disturbed` for that.
* A ratification rewrites the parent's file, so the snapshots of its children become stale.
* Headings "A", "A", "A 2" get the same id twice (`campaign_init.py:549`); the lint of the draft then
  refuses.

## Plan

Done, in this order: `GoalEvents`, `GoalReplay`, `GoalLifecycle` with `Lease`,
`EvidencePipeline`, `CycleCheck`, `LoopLedger`, `CampaignRun`, `BlockerRouting` with `BeadsSync`, the
proofs about each, `CampaignAuthoring` with the modules under it, `GoalContract`, `IntentGraph`, and
the proofs about those.

Next:

1. What holds of commands that overlap, where now a theorem asks for `Serialized` or `Exclusive`: which
   damage a race can do, and which it cannot.
2. Torn lines in the log and torn goal files.
3. Liveness of a loop whose agents retry, with the fairness that takes; head-of-line blocking
   by a node that cannot be claimed is the interesting case.
4. Several routed blocks of one goal, and what holds of blocks and syncs that overlap.
