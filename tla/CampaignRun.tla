---------------------------- MODULE CampaignRun ----------------------------
(***************************************************************************)
(* dp campaign run (dp/core/campaign_run.py), one-step and managed, over   *)
(* one campaign whose current loop is the ledger of LoopLedger, next to    *)
(* the goal commands of GoalLifecycle.                                     *)
(*                                                                         *)
(* A run reads the goals one after the other for campaign status, each     *)
(* with its own clock value and its own read of the log; if the resume     *)
(* action lets it go on, loop_next reads them all again, picks the first   *)
(* ready one and claims it with claim_goal, which replays that goal once   *)
(* more; after the claim the goal's lease is read again for the handoff    *)
(* event.  A refusal, a failed claim and a crash all just end the run,     *)
(* also one that has already claimed.                                      *)
(*                                                                         *)
(* The manifest, the ledger and the goal files lint throughout, and the    *)
(* campaign is no longer draft.                                            *)
(***************************************************************************)
EXTENDS GoalLifecycle, LoopLedger

ASSUME NodesAreGoals == Nodes \subseteq Goals

VARIABLES
  run,     \* the campaign run each process is in
  handoff  \* the latest handoff_claimed event in the campaign log

campaignVars == <<now, digest, authorship, ratified, undone, cmd, run, handoff>>

NoRun == [stage |-> "none"]
NoHandoff == [goal |-> Nobody, agent |-> Nobody, lease |-> NoLease]
Unread == [n \in {} |-> NoRun]

CampaignInit ==
  /\ Init
  /\ run = [p \in Agents |-> NoRun]
  /\ handoff = NoHandoff

Becomes(p, r) == run' = [run EXCEPT ![p] = r]
Reading(stage, managed) == [stage |-> stage, managed |-> managed, seen |-> Unread]

----------------------------------------------------------------------------
(* campaign_status and loop_next read the goals (_node_statuses)           *)

StartRun(p, managed) ==
  /\ Ready(p) /\ run[p] = NoRun
  /\ Serialized => \A q \in Agents : run[q] = NoRun
  /\ Becomes(p, Reading("status", managed))
  /\ UNCHANGED <<vars, handoff>>

ReadGoal(p) ==
  /\ run[p].stage \in {"status", "next"}
  /\ \E i \in 1..Len(Order) :
       LET seen == run[p].seen
       IN  /\ Order[i] \notin DOMAIN seen
           /\ \A j \in 1..i - 1 : Order[j] \in DOMAIN seen
           /\ Becomes(p, [run[p] EXCEPT !.seen =
                [n \in DOMAIN seen \cup {Order[i]} |->
                   IF n = Order[i] THEN Replayed(n) ELSE seen[n]]])
  /\ UNCHANGED <<vars, handoff>>

HasRead(p, stage) == run[p].stage = stage /\ DOMAIN run[p].seen = Nodes

(* A managed run stops on any stale claim and on every action but one; a   *)
(* one-step run stops on two.  The alternative has managed runs do that.   *)
OneStepStops == {"resume_claimed_goal", "address_not_useful_outcome"}
GoesOnAlike(seen, notUseful, managed) == ResumeAction(seen, notUseful) \notin OneStepStops
GoesOn(seen, notUseful, managed) ==
  IF managed
  THEN StaleClaims(seen) = {} /\ ResumeAction(seen, notUseful) = "claim_next_goal"
  ELSE ResumeAction(seen, notUseful) \notin OneStepStops

(* Outcome contacts come and lose their currency at any time, and nothing  *)
(* else depends on them: a read finds one that is not_useful or does not.  *)
Decide(p) ==
  /\ HasRead(p, "status")
  /\ \E notUseful \in BOOLEAN : GoesOn(run[p].seen, notUseful, run[p].managed)
  /\ Becomes(p, Reading("next", run[p].managed))
  /\ UNCHANGED <<vars, handoff>>

Select(p) ==
  /\ HasRead(p, "next")
  /\ \E n \in Nodes :
       /\ IsNext(run[p].seen, n)
       /\ Becomes(p, [stage |-> "selected", managed |-> run[p].managed, node |-> n,
                      lease |-> run[p].seen[n].lease])
  /\ UNCHANGED <<vars, handoff>>

----------------------------------------------------------------------------
(* The claim and the handoff event                                         *)

RunBeginsClaim(p, d) ==
  /\ run[p].stage = "selected"
  /\ BeginClaim(p, run[p].node, d)
  /\ Becomes(p, [run[p] EXCEPT !.stage = "claiming"])
  /\ UNCHANGED handoff

RunClaims(p) ==
  /\ run[p].stage = "claiming"
  /\ FinishClaim(p)
  /\ Becomes(p, [run[p] EXCEPT !.stage = "claimed"])
  /\ UNCHANGED handoff

(* The package shows the lease as it is after the claim; the alternative   *)
(* shows the one seen when the node was selected.                          *)
PackageKeepsLease(p) == run[p].lease
PackageLease(p) == Replayed(run[p].node).lease

MakePackage(p) ==
  /\ run[p].stage = "claimed"
  /\ Becomes(p, [run[p] EXCEPT !.stage = "packaged", !.lease = PackageLease(p)])
  /\ UNCHANGED <<vars, handoff>>

AppendHandoff(p) ==
  /\ run[p].stage = "packaged"
  /\ handoff' = [goal |-> run[p].node, agent |-> p, lease |-> run[p].lease]
  /\ Becomes(p, NoRun)
  /\ UNCHANGED vars

StopRun(p) ==
  /\ run[p] # NoRun
  /\ Becomes(p, NoRun)
  /\ cmd' = [cmd EXCEPT ![p] = Idle]
  /\ UNCHANGED <<now, digest, authorship, ratified, undone, handoff>>

----------------------------------------------------------------------------
(* Beside the runs                                                         *)

(* The goal commands, which a process in a run does not issue, and no      *)
(* process does when calls are serialized; the clock and the owner go on.  *)
GoalStep ==
  /\ Next
  /\ \A p \in Agents : run[p] # NoRun => cmd'[p] = cmd[p]
  /\ Serialized /\ (\E p \in Agents : run[p] # NoRun) =>
       digest' = digest /\ ratified' = ratified /\ cmd' = cmd
  /\ UNCHANGED <<run, handoff>>

CampaignNext ==
  \/ GoalStep
  \/ \E p \in Agents, managed \in BOOLEAN : StartRun(p, managed)
  \/ \E p \in Agents, d \in LeaseLengths : RunBeginsClaim(p, d)
  \/ \E p \in Agents : \/ ReadGoal(p) \/ Decide(p) \/ Select(p) \/ RunClaims(p)
                       \/ MakePackage(p) \/ AppendHandoff(p) \/ StopRun(p)

CampaignSpec == CampaignInit /\ [][CampaignNext]_campaignVars

----------------------------------------------------------------------------
(* Properties, for serialized calls; the clock runs on between the reads.  *)

Current == [n \in Nodes |-> Replayed(n)]

(* A run dispatches a node only when the goals it depends on are verified  *)
(* in the log the claim is appended to, though they were read before the   *)
(* claim (SPEC-80-04, requirement 11).                                     *)
DispatchAfterDependencies ==
  [][\A p \in Agents : RunClaims(p) =>
       \A m \in DependsOn[run[p].node] : digest[m].phase = "verified"]_campaignVars

(* A run takes only work nobody is in the middle of: the goal it claims is *)
(* ready, released or its claim has expired, and is not blocked            *)
(* (SPEC-80-04, requirements 9 and 10).                                    *)
RunClaimsIdleWork ==
  [][\A p \in Agents : RunClaims(p) =>
       Replayed(run[p].node).state \in {"ready", "released"}]_campaignVars

(* A managed run claims only while no goal of the loop that its            *)
(* dependencies let go on is claimed, started, pursued, has evidence       *)
(* pending, or is blocked (SPEC-80-20, requirement 6).                     *)
ManagedAdvancesAlone ==
  [][\A p \in Agents : RunClaims(p) /\ run[p].managed =>
       Every(Current, {"verified", "waiting", "ready"})]_campaignVars

(* The lease in a handoff event is that of the agent it names.             *)
HandoffNamesHolder ==
  handoff # NoHandoff => handoff.lease.holder = handoff.agent

(* A ledger that lints never leaves a campaign without anything to do: the *)
(* reads always give an action other than no_ready_work, whatever the      *)
(* goal commands do between two of them.                                   *)
NoDeadEnd ==
  \A p \in Agents, notUseful \in BOOLEAN :
    HasRead(p, "status") => ResumeAction(run[p].seen, notUseful) # "no_ready_work"

(* The two summaries of one reading agree: a campaign is called verified   *)
(* exactly when the action says that nothing is left to do, and a blocker  *)
(* to resolve is always in a campaign called blocked.                      *)
StatusBacksAction ==
  \A p \in Agents, notUseful \in BOOLEAN :
    HasRead(p, "status") =>
      LET status == CampaignStatus(run[p].seen, notUseful)
          action == ResumeAction(run[p].seen, notUseful)
      IN  /\ status = "verified" <=> action = "campaign_verified"
          /\ action = "resolve_blocker" => status = "blocked"

(* When a goal of the current loop has an active non-stale claim, a run    *)
(* returns a resume package and claims nothing                             *)
(* (docs/reference/campaign-run.md, rule 6).                               *)
ActiveClaimIsResumed ==
  [][\A p \in Agents : RunClaims(p) => \A n \in Nodes : HolderOf(n) = Nobody]_campaignVars
=============================================================================
