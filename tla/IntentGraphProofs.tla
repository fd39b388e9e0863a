-------------------------- MODULE IntentGraphProofs --------------------------
(***************************************************************************)
(* Proofs about goal files, launches and the audit, for overlapping        *)
(* commands and any edits.  Lint only restricts the goal commands, so what *)
(* is proved of GoalLifecycle holds here too (GraphImplementsCommands).  A *)
(* launch that nobody disturbed has seen one content of its goal from lint *)
(* to start (LaunchHolds); and a goal gets a holder only by that agent's   *)
(* own claim (HolderAfterCommand), so a launch that failed gets nothing    *)
(* back.                                                                   *)
(***************************************************************************)
EXTENDS IntentGraph, GoalLifecycleProofs

----------------------------------------------------------------------------
(* Launches under way *)

Stages == {"linted", "emitted", "claiming", "claimed", "starting", "done", "failed"}

(* What a launch has found out and, if no file has changed since, is still *)
(* so; and that one which failed has no claim.                             *)
LaunchHolds(p) ==
  LET l == launch[p] IN
  /\ l.goal \in Goals
  /\ l.stage \in Stages
  /\ l.disturbed \in BOOLEAN
  /\ {"stage", "goal", "package", "disturbed"} \subseteq DOMAIN l
  /\ ~l.disturbed =>
       /\ Passes(l.goal)
       /\ l.stage # "linted" => l.package = File(l.goal)
       /\ l.stage \notin {"linted", "emitted"} => ~RefusedRoot(l.goal)
       /\ l.stage = "failed" => HolderOf(l.goal) # p

LaunchInv ==
  /\ DOMAIN launch = Agents
  /\ \A p \in Agents : launch[p] # NoLaunch => LaunchHolds(p)

----------------------------------------------------------------------------
(* The goal commands under lint *)

(* The commands of one process. *)
CommandOf(p) ==
  \/ \E g \in Goals :
       \/ \E d \in LeaseLengths : BeginClaim(p, g, d)
       \/ BeginStart(p, g) \/ BeginHeartbeat(p, g) \/ BeginRatify(p, g)
       \/ BlockGoal(p, g) \/ ReleaseGoal(p, g)
       \/ CompleteGoal(p, g) \/ VerifyGoal(p, g)
  \/ FinishClaim(p) \/ FinishStart(p) \/ FinishHeartbeat(p)
  \/ WriteRatify(p) \/ FinishRatify(p)

LEMMA LaunchIsCommand ==
  ASSUME LaunchInv, NEW p \in Agents, Launch(p)
  PROVE  CommandOf(p) \/ UNCHANGED vars
<1>1. launch[p].stage # "none" => Target(p) \in Goals
  BY DEF LaunchInv, LaunchHolds, NoLaunch, Target
<1>2. CASE \E g \in Goals : LintToLaunch(p, g)
  BY <1>2 DEF LintToLaunch
<1>3. CASE EmitPrompt(p)
  BY <1>3 DEF EmitPrompt
<1>4. CASE \E d \in LeaseLengths : LaunchBeginsClaim(p, d)
  BY <1>1, <1>4 DEF LaunchBeginsClaim, At, CommandOf
<1>5. CASE LaunchClaims(p) \/ LaunchStarts(p)
  BY <1>5 DEF LaunchClaims, LaunchStarts, CommandOf
<1>6. CASE LaunchBeginsStart(p)
  BY <1>1, <1>6 DEF LaunchBeginsStart, At, CommandOf
<1>7. CASE LaunchIsRefused(p)
  BY <1>7 DEF LaunchIsRefused
<1>8. QED BY <1>2, <1>3, <1>4, <1>5, <1>6, <1>7 DEF Launch

LEMMA GraphStepIsCommand ==
  ASSUME TypeOK, LaunchInv, [GraphNext]_graphVars
  PROVE  [Next]_vars
<1>0. ASSUME NEW p \in Agents, CommandOf(p) PROVE Next
  BY <1>0 DEF CommandOf, Next
<1>1. ASSUME NEW p \in Agents, Command(p) PROVE CommandOf(p)
  BY <1>1 DEF Command, CommandOf
<1>2. ASSUME NEW p \in Agents, RewriteToRatify(p) PROVE CommandOf(p)
  BY <1>2 DEF RewriteToRatify, CommandOf
<1>3. ASSUME NEW p \in Agents, Dies(p) PROVE [Next]_vars
  <2>1. CASE cmd[p] # Idle
    BY <1>3, <2>1 DEF Dies, Crash, Next
  <2>2. CASE cmd[p] = Idle
    BY <1>3, <2>2 DEF Dies, Finished, vars, TypeOK
  <2>3. QED BY <2>1, <2>2
<1>4. ASSUME NEW p \in Agents, NEW g \in Goals, ReadToRatify(p, g) PROVE CommandOf(p)
  BY <1>4 DEF ReadToRatify, CommandOf
<1>5. ASSUME Derive \/ (\E first \in BOOLEAN : CopyParent(first)) \/ EditRepo
      PROVE  UNCHANGED vars
  BY <1>5 DEF Derive, CopyParent, EditRepo
<1>6. ASSUME NEW g \in Roots,
             Adopt(g) \/ \E c \in Contracts, a \in Authorships : EditGoal(g, c, a)
      PROVE  Next
  BY <1>6 DEF Adopt, EditGoal, Next, Authorships
<1>7. CASE Tick
  BY <1>7 DEF Next
<1>8. CASE UNCHANGED graphVars
  BY <1>8 DEF graphVars
<1>9. QED
  BY <1>0, <1>1, <1>2, <1>3, <1>4, <1>5, <1>6, <1>7, <1>8, LaunchIsCommand DEF GraphNext

----------------------------------------------------------------------------
(* Who becomes a holder *)

(* An agent's commands make nobody a holder but that agent.                *)
LEMMA HolderAfterCommand ==
  ASSUME TypeOK, NEW p \in Agents, CommandOf(p), NEW g \in Goals
  PROVE  HolderOf(g)' \in {HolderOf(g), Nobody, p}
<1>a. \A h \in Goals : digest[h] \in Digests
  BY DEF TypeOK
<1>n. now' = now
  BY DEF CommandOf, BeginClaim, BeginStart, BeginHeartbeat, BeginRatify, BlockGoal,
         ReleaseGoal, CompleteGoal, VerifyGoal, AppendOnly, FinishClaim, FinishStart,
         FinishHeartbeat, WriteRatify, FinishRatify
<1>1. ASSUME digest'[g].claim \in {digest[g].claim, NoClaim}
      PROVE  HolderOf(g)' \in {HolderOf(g), Nobody, p}
  BY <1>1, <1>n DEF HolderOf, Holder, Expired, NoClaim
<1>2. ASSUME NEW h \in Goals, LogEvent(h, Plain("blocked")) \/ LogEvent(h, Plain("released"))
                 \/ LogEvent(h, Plain("evidence_pending")) \/ LogEvent(h, Plain("verified"))
                 \/ LogEvent(h, Plain("started")) \/ LogEvent(h, Plain("heartbeat"))
      PROVE  digest'[g].claim \in {digest[g].claim, NoClaim}
  <2>1. PICK k \in {"blocked", "released", "evidence_pending", "verified", "started",
                    "heartbeat"} : LogEvent(h, Plain(k))
    BY <1>2
  <2>2. /\ digest'[h] = Digested(digest[h], Plain(k))
        /\ h # g => digest'[g] = digest[g]
    BY <2>1, LoggedElsewhere
  <2>3. Digested(digest[h], Plain(k)).claim \in {digest[h].claim, NoClaim}
    BY <1>a, OtherEventsKeepClaim, ReleaseDropsClaim
  <2>4. QED BY <2>2, <2>3
<1>3. \A q \in Agents : cmd[q] # Idle => cmd[q].goal \in Goals
  BY DEF TypeOK, Commands
<1>4. CASE FinishClaim(p)
  <2>1. cmd[p].goal \in Goals /\ cmd[p].expires \in Nat
    BY <1>4 DEF FinishClaim, TypeOK, Commands, Idle
  <2>2. /\ digest'[cmd[p].goal] = Digested(digest[cmd[p].goal], Claimed(p, cmd[p].expires))
        /\ cmd[p].goal # g => digest'[g] = digest[g]
    BY <1>4, <2>1, LoggedElsewhere DEF FinishClaim
  <2>3. CASE cmd[p].goal = g
    <3>1. digest'[g].claim = [holder |-> p, expires |-> cmd[p].expires]
      BY <1>a, <2>1, <2>2, <2>3, ClaimSetsClaim
    <3>2. HolderOf(g)' \in {digest'[g].claim.holder, Nobody}
      BY DEF HolderOf, Holder
    <3>3. QED BY <3>1, <3>2
  <2>4. CASE cmd[p].goal # g
    BY <1>1, <2>2, <2>4
  <2>5. QED BY <2>3, <2>4
<1>5. CASE FinishStart(p) \/ FinishHeartbeat(p)
  BY <1>1, <1>2, <1>3, <1>5 DEF FinishStart, FinishHeartbeat, Idle
<1>6. CASE \E h \in Goals : \/ BlockGoal(p, h) \/ ReleaseGoal(p, h)
                            \/ CompleteGoal(p, h) \/ VerifyGoal(p, h)
  BY <1>1, <1>2, <1>6 DEF BlockGoal, ReleaseGoal, CompleteGoal, VerifyGoal, AppendOnly
<1>7. CASE UNCHANGED digest
  BY <1>1, <1>7
<1>8. QED
  BY <1>4, <1>5, <1>6, <1>7
     DEF CommandOf, BeginClaim, BeginStart, BeginHeartbeat, BeginRatify, WriteRatify, FinishRatify

LEMMA HolderAfterTick ==
  ASSUME TypeOK, Tick, NEW g \in Goals
  PROVE  HolderOf(g)' \in {HolderOf(g), Nobody}
BY DEF TypeOK, Tick, HolderOf, Holder, Expired, Digests, Claims

----------------------------------------------------------------------------
(* Launches keep what they know *)

(* What is known of a goal file stays true while no file changes.          *)
LEMMA FilesStay ==
  ASSUME UNCHANGED <<contract, authorship, repo>>, NEW g
  PROVE  File(g)' = File(g) /\ Passes(g)' = Passes(g) /\ RefusedRoot(g)' = RefusedRoot(g)
BY DEF File, WithAuthor, Passes, RefusedRoot

(* A step that keeps the files keeps a launch it is not of.                *)
LEMMA OtherLaunchHolds ==
  ASSUME NEW p \in Agents, LaunchHolds(p), launch'[p] = launch[p],
         UNCHANGED <<contract, authorship, repo>>,
         HolderOf(launch[p].goal)' = p => HolderOf(launch[p].goal) = p
  PROVE  LaunchHolds(p)'
BY FilesStay DEF LaunchHolds

LEMMA DisturbedLaunchHolds ==
  ASSUME LaunchInv, DisturbLaunches
  PROVE  LaunchInv'
<1>1. DOMAIN launch' = Agents
  BY DEF DisturbLaunches
<1>2. ASSUME NEW p \in Agents, launch'[p] # NoLaunch PROVE LaunchHolds(p)'
  <2>1. launch'[p] = Disturbed(launch[p]) /\ launch[p] # NoLaunch
    BY <1>2 DEF DisturbLaunches, Disturbed
  <2>2. launch'[p] = [launch[p] EXCEPT !.disturbed = TRUE]
    BY <2>1 DEF Disturbed
  <2>3. /\ DOMAIN launch'[p] = DOMAIN launch[p]
        /\ launch'[p].disturbed = TRUE
        /\ launch'[p].goal = launch[p].goal /\ launch'[p].stage = launch[p].stage
    BY <2>1, <2>2 DEF LaunchInv, LaunchHolds
  <2>4. QED BY <2>1, <2>3 DEF LaunchInv, LaunchHolds
<1>3. QED BY <1>1, <1>2 DEF LaunchInv

----------------------------------------------------------------------------
(* Every step keeps what launches know *)

LEMMA LaunchInit == GraphInit => LaunchInv
BY DEF GraphInit, LaunchInv

(* A step of one process, which changes no file, keeps the other launches. *)
LEMMA ProcessStepHolds ==
  ASSUME TypeOK, LaunchInv, NEW p \in Agents,
         CommandOf(p) \/ UNCHANGED <<now, digest>>,
         UNCHANGED <<contract, authorship, repo>>,
         DOMAIN launch' = Agents,
         \A q \in Agents : q # p => launch'[q] = launch[q],
         launch'[p] # NoLaunch => LaunchHolds(p)'
  PROVE  LaunchInv'
<1>1. ASSUME NEW g \in Goals
      PROVE  HolderOf(g)' \in {HolderOf(g), Nobody, p}
  <2>1. CASE CommandOf(p)
    BY <2>1, HolderAfterCommand
  <2>2. CASE UNCHANGED <<now, digest>>
    BY <2>2 DEF HolderOf, Holder, Expired
  <2>3. QED BY <2>1, <2>2
<1>2. ASSUME NEW q \in Agents, q # p, launch'[q] # NoLaunch
      PROVE  LaunchHolds(q)'
  <2>1. launch'[q] = launch[q] /\ LaunchHolds(q)
    BY <1>2 DEF LaunchInv
  <2>2. HolderOf(launch[q].goal)' = q => HolderOf(launch[q].goal) = q
    BY <1>1, <1>2, <2>1, NobodyIsNoAgent DEF LaunchHolds
  <2>3. QED BY <2>1, <2>2, OtherLaunchHolds
<1>3. QED BY <1>2 DEF LaunchInv

(* A launch that has been through lint and the root check goes on.         *)
LEMMA LaunchGoesOn ==
  ASSUME LaunchInv, NEW p \in Agents, launch[p] # NoLaunch, UNCHANGED authorship,
         NEW s \in {"claiming", "claimed", "starting", "done", "failed"}, GoesTo(p, s),
         ~launch[p].disturbed =>
            /\ launch[p].stage # "linted"
            /\ ~RefusedRoot(Target(p))
            /\ s = "failed" => HolderOf(Target(p))' # p
  PROVE  /\ DOMAIN launch' = Agents
         /\ \A q \in Agents : q # p => launch'[q] = launch[q]
         /\ UNCHANGED <<contract, authorship, repo>>
         /\ LaunchHolds(p)'
<1>1. LaunchHolds(p)
  BY DEF LaunchInv
<1>2. /\ DOMAIN launch'[p] = DOMAIN launch[p]
      /\ launch'[p].stage = s /\ launch'[p].goal = launch[p].goal
      /\ launch'[p].package = launch[p].package
      /\ launch'[p].disturbed = launch[p].disturbed
  BY <1>1 DEF GoesTo, LaunchInv, LaunchHolds
<1>3. UNCHANGED <<contract, authorship, repo>>
  BY DEF GoesTo, files
<1>4. LaunchHolds(p)'
  BY <1>1, <1>2, <1>3, FilesStay DEF LaunchHolds, Stages, Target
<1>5. QED BY <1>3, <1>4 DEF GoesTo, LaunchInv

LEMMA LaunchStep ==
  ASSUME TypeOK, LaunchInv, NEW p \in Agents, Launch(p)
  PROVE  LaunchInv'
<1>c. CommandOf(p) \/ UNCHANGED <<now, digest>>
  BY LaunchIsCommand DEF vars
<1>n. launch[p].stage # "none" => launch[p] # NoLaunch /\ LaunchHolds(p)
  BY DEF NoLaunch, LaunchInv
<1>1. ASSUME NEW g \in Goals, LintToLaunch(p, g)
      PROVE  LaunchInv'
  <2>1. /\ launch'[p] = [stage |-> "linted", goal |-> g, package |-> Absent,
                         disturbed |-> FALSE]
        /\ DOMAIN launch' = Agents /\ \A q \in Agents : q # p => launch'[q] = launch[q]
    BY <1>1 DEF LintToLaunch, LaunchInv
  <2>2. UNCHANGED <<contract, authorship, repo>> /\ Passes(g)
    BY <1>1 DEF LintToLaunch, vars, files
  <2>3. LaunchHolds(p)'
    BY <2>1, <2>2, FilesStay DEF LaunchHolds, Stages
  <2>4. QED BY <1>c, <2>1, <2>2, <2>3, ProcessStepHolds
<1>2. CASE EmitPrompt(p)
  <2>1. LaunchHolds(p)
    BY <1>n, <1>2 DEF EmitPrompt, At
  <2>2. /\ DOMAIN launch' = Agents /\ \A q \in Agents : q # p => launch'[q] = launch[q]
        /\ DOMAIN launch'[p] = DOMAIN launch[p]
        /\ launch'[p].stage = "emitted" /\ launch'[p].package = File(launch[p].goal)
        /\ launch'[p].goal = launch[p].goal /\ launch'[p].disturbed = launch[p].disturbed
    BY <1>2, <2>1 DEF EmitPrompt, LaunchInv, LaunchHolds, Target
  <2>3. UNCHANGED <<contract, authorship, repo>>
    BY <1>2 DEF EmitPrompt, vars, files
  <2>4. LaunchHolds(p)'
    BY <2>1, <2>2, <2>3, FilesStay DEF LaunchHolds, Stages
  <2>5. QED BY <1>c, <2>2, <2>3, <2>4, ProcessStepHolds
<1>3. ASSUME NEW d \in LeaseLengths, LaunchBeginsClaim(p, d)
      PROVE  LaunchInv'
  <2>1. /\ launch[p].stage = "emitted" /\ GoesTo(p, "claiming") /\ UNCHANGED authorship
        /\ ~RefusedRoot(Target(p))
    BY <1>3 DEF LaunchBeginsClaim, At, BeginClaim
  <2>2. QED BY <1>c, <1>n, <2>1, LaunchGoesOn, ProcessStepHolds
<1>4. CASE LaunchClaims(p) \/ LaunchStarts(p)
  <2>1. PICK s \in {"claimed", "done"} :
          /\ launch[p].stage \in {"claiming", "starting"}
          /\ GoesTo(p, s) /\ UNCHANGED authorship
    BY <1>4 DEF LaunchClaims, LaunchStarts, At, FinishClaim, FinishStart
  <2>2. ~launch[p].disturbed => ~RefusedRoot(Target(p))
    BY <1>n, <2>1 DEF LaunchHolds, Target
  <2>3. QED BY <1>c, <1>n, <2>1, <2>2, LaunchGoesOn, ProcessStepHolds
<1>5. CASE LaunchBeginsStart(p)
  <2>1. /\ launch[p].stage = "claimed" /\ GoesTo(p, "starting") /\ UNCHANGED authorship
        /\ ~RefusedRoot(Target(p))
    BY <1>5 DEF LaunchBeginsStart, At, BeginStart
  <2>2. QED BY <1>c, <1>n, <2>1, LaunchGoesOn, ProcessStepHolds
<1>6. CASE LaunchIsRefused(p)
  <2>0. /\ UNCHANGED vars /\ launch[p].stage \in {"emitted", "claimed"}
        /\ ~Passes(Target(p)) \/ RefusedRoot(Target(p)) \/ ~MayTake(p, Replayed(Target(p)))
    BY <1>6 DEF LaunchIsRefused, At
  <2>1. CASE launch[p].stage = "claimed"
    <3>1. GoesTo(p, "failed")
      BY <1>6, <2>1 DEF LaunchIsRefused, At
    <3>2. ASSUME ~launch[p].disturbed
          PROVE  ~RefusedRoot(Target(p)) /\ HolderOf(Target(p))' # p
      <4>1. ~RefusedRoot(Target(p)) /\ Passes(Target(p)) /\ Target(p) \in Goals
        BY <1>n, <2>1, <3>2 DEF LaunchHolds, Target
      <4>2. LiveHolder(Replayed(Target(p))) # p
        BY <2>0, <4>1 DEF MayTake
      <4>3. HolderOf(Target(p)) # p
        BY <4>1, <4>2, LiveHolderOfView DEF Replayed, HolderOf, TypeOK
      <4>4. Target(p)' = Target(p)
        BY <1>n, <2>1, <3>1 DEF GoesTo, LaunchInv, LaunchHolds, Target
      <4>5. HolderOf(Target(p))' = HolderOf(Target(p))
        BY <2>0, <4>4 DEF vars, HolderOf, Holder, Expired
      <4>6. QED BY <4>1, <4>3, <4>5
    <3>3. UNCHANGED authorship
      BY <2>0 DEF vars
    <3>4. QED BY <1>c, <1>n, <2>1, <3>1, <3>2, <3>3, LaunchGoesOn, ProcessStepHolds
  <2>2. CASE launch[p].stage = "emitted"
    <3>1. Forget(p) /\ UNCHANGED files
      BY <1>6, <2>2 DEF LaunchIsRefused, At
    <3>2. /\ DOMAIN launch' = Agents /\ launch'[p] = NoLaunch
          /\ \A q \in Agents : q # p => launch'[q] = launch[q]
          /\ UNCHANGED <<contract, authorship, repo>>
      BY <2>0, <3>1 DEF Forget, LaunchInv, vars, files
    <3>3. QED BY <1>c, <3>2, ProcessStepHolds
  <2>3. QED BY <2>0, <2>1, <2>2
<1>7. QED BY <1>1, <1>2, <1>3, <1>4, <1>5, <1>6 DEF Launch

LEMMA LaunchInvStep ==
  ASSUME TypeOK, LaunchInv, [GraphNext]_graphVars
  PROVE  LaunchInv'
<1>0. ASSUME NEW p \in Agents, Forget(p)
      PROVE  /\ DOMAIN launch' = Agents /\ launch'[p] = NoLaunch
             /\ \A q \in Agents : q # p => launch'[q] = launch[q]
  BY <1>0 DEF Forget, LaunchInv
<1>1. ASSUME NEW p \in Agents, Command(p)
      PROVE  LaunchInv'
  <2>1. CommandOf(p) /\ Forget(p)
    BY <1>1 DEF Command, CommandOf
  <2>2. UNCHANGED authorship
    BY <1>1 DEF Command, BeginClaim, BeginStart, BeginHeartbeat, BlockGoal, ReleaseGoal,
                CompleteGoal, VerifyGoal, AppendOnly, FinishClaim, FinishStart,
                FinishHeartbeat, FinishRatify
  <2>3. UNCHANGED <<contract, repo>>
    BY <1>1 DEF Command, files
  <2>4. QED BY <1>0, <2>1, <2>2, <2>3, ProcessStepHolds
<1>2. ASSUME NEW p \in Agents, NEW g \in Goals, ReadToRatify(p, g)
      PROVE  LaunchInv'
  <2>1. CommandOf(p) /\ Forget(p) /\ UNCHANGED <<contract, authorship, repo>>
    BY <1>2 DEF ReadToRatify, CommandOf, BeginRatify, files
  <2>2. QED BY <1>0, <2>1, ProcessStepHolds
<1>3. ASSUME NEW p \in Agents, Dies(p)
      PROVE  LaunchInv'
  <2>1. Forget(p) /\ UNCHANGED <<now, digest, contract, authorship, repo>>
    BY <1>3 DEF Dies, files
  <2>2. QED BY <1>0, <2>1, ProcessStepHolds
<1>4. CASE \/ \E p \in Agents : RewriteToRatify(p)
           \/ \E g \in Roots :
                Adopt(g) \/ \E c \in Contracts, a \in Authorships : EditGoal(g, c, a)
           \/ Derive \/ (\E first \in BOOLEAN : CopyParent(first)) \/ EditRepo
  <2>1. DisturbLaunches
    BY <1>4 DEF RewriteToRatify, Adopt, EditGoal, Derive, CopyParent, EditRepo, Edits
  <2>2. QED BY <2>1, DisturbedLaunchHolds
<1>5. CASE Tick /\ UNCHANGED <<files, held, launch>>
  <2>1. UNCHANGED <<launch, contract, authorship, repo>>
    BY <1>5 DEF files, Tick
  <2>2. ASSUME NEW p \in Agents, launch'[p] # NoLaunch
        PROVE  LaunchHolds(p)'
    <3>1. LaunchHolds(p) /\ launch'[p] = launch[p]
      BY <2>1, <2>2 DEF LaunchInv
    <3>2. HolderOf(launch[p].goal)' = p => HolderOf(launch[p].goal) = p
      BY <1>5, <3>1, HolderAfterTick, NobodyIsNoAgent DEF LaunchHolds
    <3>3. QED BY <2>1, <3>1, <3>2, OtherLaunchHolds
  <2>3. QED BY <2>1, <2>2 DEF LaunchInv
<1>6. CASE UNCHANGED graphVars
  BY <1>6 DEF graphVars, vars, files, LaunchInv, LaunchHolds, HolderOf, Holder, Expired,
              Passes, RefusedRoot, File, WithAuthor
<1>7. QED
  BY <1>1, <1>2, <1>3, <1>4, <1>5, <1>6, LaunchStep DEF GraphNext

----------------------------------------------------------------------------
(* The goal commands, restricted *)

LEMMA GraphInits == GraphInit => Init /\ TypeOK /\ LaunchInv
BY TypeInit, LaunchInit DEF GraphInit

LEMMA GraphSteps ==
  TypeOK /\ LaunchInv /\ [GraphNext]_graphVars => [Next]_vars /\ TypeOK' /\ LaunchInv'
BY GraphStepIsCommand, LaunchInvStep, TypeStep

LEMMA GraphInvariant == GraphSpec => [](TypeOK /\ LaunchInv)
BY GraphInits, GraphSteps, PTL DEF GraphSpec

(* Lint before every command, launches, edits of goal files and their      *)
(* effect on what commands read make the commands do nothing that they     *)
(* could not do before: whatever holds of GoalLifecycle's commands, however *)
(* they overlap, holds with the goal files behind them.                    *)
THEOREM GraphImplementsCommands == GraphSpec => Spec
BY GraphInits, GraphSteps, PTL DEF GraphSpec, Spec

(* While a goal file says agent_derived, nobody claims, starts or pursues  *)
(* it, by launch or by hand, whatever people write into goal files.        *)
THEOREM LaunchedRootsStayIdle == GraphSpec => []UnratifiedRootIdle
BY GraphImplementsCommands, RootsStayIdle

(* A launch that was refused its start, without a file having changed, has *)
(* lost its claim before, and no one's later command gives it back.        *)
THEOREM FailedLaunchesHoldNothing == GraphSpec => []FailedLaunchHoldsNothing
<1>1. LaunchInv => FailedLaunchHoldsNothing
  BY DEF LaunchInv, LaunchHolds, FailedLaunchHoldsNothing, At, Target, NoLaunch
<1>2. QED BY <1>1, GraphInvariant, PTL

----------------------------------------------------------------------------
(* What goal files can say *)

(* Goal files hold what people wrote, also after a ratification has        *)
(* written back what it read, an author where there is an intent; what     *)
(* ratify holds has an intent; the child stays linked to its parent.       *)
FilesInv ==
  /\ contract \in [Goals -> Contracts]
  /\ \A g \in Goals : authorship[g] = NoAuthor <=> ~IsObject(contract[g].intent)
  /\ DOMAIN held = Agents
  /\ \A p \in Agents : cmd[p].op = "ratify" => held[p] \in Contracts /\ IsObject(held[p].intent)
  /\ "parent" \in DOMAIN intent /\ intent.parent = Link
  /\ copy # NoCopy => copy.first \in BOOLEAN

LEMMA FilesInit == GraphInit => FilesInv
<1> SUFFICES ASSUME GraphInit PROVE FilesInv
  OBVIOUS
<1>1. "parent" \in DOMAIN contract[Parent].intent
  BY ParentIsGoal, ContractsHaveIntents DEF GraphInit
<1>2. QED BY <1>1 DEF GraphInit, FilesInv, Fits, Init, Idle

LEMMA FilesStep ==
  ASSUME TypeOK, LaunchInv, FilesInv, [GraphNext]_graphVars
  PROVE  FilesInv'
<1>0. ASSUME UNCHANGED <<files, held, authorship>>,
             \A q \in Agents : cmd'[q].op = "ratify" => cmd[q].op = "ratify"
      PROVE  FilesInv'
  BY <1>0 DEF FilesInv, files
<1>1. ASSUME NEW p \in Agents, Command(p)
      PROVE  FilesInv'
  <2>1. /\ \A q \in Agents : q # p => cmd'[q] = cmd[q]
        /\ cmd'[p].op = "ratify" => cmd'[p] = cmd[p]
    BY <1>1 DEF Command, BeginClaim, BeginStart, BeginHeartbeat, BlockGoal, ReleaseGoal,
                CompleteGoal, VerifyGoal, AppendOnly, FinishClaim, FinishStart,
                FinishHeartbeat, FinishRatify, Finished, Idle, TypeOK
  <2>2. UNCHANGED <<files, held, authorship>>
    BY <1>1 DEF Command, BeginClaim, BeginStart, BeginHeartbeat, BlockGoal, ReleaseGoal,
                CompleteGoal, VerifyGoal, AppendOnly, FinishClaim, FinishStart,
                FinishHeartbeat, FinishRatify
  <2>3. QED BY <1>0, <2>1, <2>2
<1>2. ASSUME NEW p \in Agents, Launch(p)
      PROVE  FilesInv'
  <2>1. UNCHANGED <<files, held, authorship>>
    BY <1>2 DEF Launch, LintToLaunch, EmitPrompt, LaunchBeginsClaim, LaunchClaims,
                LaunchBeginsStart, LaunchStarts, LaunchIsRefused, GoesTo, Forget, BeginClaim,
                BeginStart, FinishClaim, FinishStart, vars
  <2>2. \A q \in Agents : cmd'[q].op = "ratify" => cmd[q].op = "ratify"
    BY <1>2 DEF Launch, LintToLaunch, EmitPrompt, LaunchBeginsClaim, LaunchClaims,
                LaunchBeginsStart, LaunchStarts, LaunchIsRefused, BeginClaim, BeginStart,
                FinishClaim, FinishStart, Finished, Idle, vars, TypeOK
  <2>3. QED BY <1>0, <2>1, <2>2
<1>3. ASSUME NEW p \in Agents, RewriteToRatify(p)
      PROVE  FilesInv'
  <2>1. /\ cmd[p].goal \in Goals /\ cmd[p].op = "ratify"
        /\ held[p] \in Contracts /\ IsObject(held[p].intent)
    BY <1>3 DEF RewriteToRatify, WriteRatify, FilesInv, TypeOK, Commands, Idle
  <2>2. \A q \in Agents : cmd'[q].op = "ratify" => q # p /\ cmd[q].op = "ratify"
    BY <1>3 DEF RewriteToRatify, WriteRatify, TypeOK
  <2>3. \A g \in Goals : authorship'[g] = NoAuthor <=> ~IsObject(contract'[g].intent)
    <3>1. /\ authorship' = [authorship EXCEPT ![cmd[p].goal] = "owner_ratified"]
          /\ contract' = [contract EXCEPT ![cmd[p].goal] = held[p]]
      BY <1>3 DEF RewriteToRatify, WriteRatify
    <3>2. QED BY <2>1, <3>1 DEF FilesInv, TypeOK, NoAuthor
  <2>4. QED BY <1>3, <2>1, <2>2, <2>3 DEF RewriteToRatify, FilesInv
<1>4. ASSUME NEW p \in Agents, Dies(p)
      PROVE  FilesInv'
  <2>1. \A q \in Agents : cmd'[q].op = "ratify" => q # p /\ cmd[q].op = "ratify"
    BY <1>4 DEF Dies, Finished, Idle, TypeOK
  <2>2. QED BY <1>4, <2>1 DEF Dies, FilesInv, files
<1>5. ASSUME NEW p \in Agents, NEW g \in Goals, ReadToRatify(p, g)
      PROVE  FilesInv'
  <2>1. \A q \in Agents : q # p => cmd'[q] = cmd[q]
    BY <1>5 DEF ReadToRatify, BeginRatify, TypeOK
  <2>2. contract[g] \in Contracts /\ IsObject(contract[g].intent) /\ UNCHANGED authorship
    BY <1>5 DEF FilesInv, ReadToRatify, BeginRatify, RefusedRoot, NoAuthor
  <2>3. QED BY <1>5, <2>1, <2>2 DEF ReadToRatify, FilesInv, files
<1>6. ASSUME NEW g \in Roots, NEW c \in Contracts, NEW a \in Authorships, EditGoal(g, c, a)
      PROVE  FilesInv'
  BY <1>6, RootsAreGoals DEF EditGoal, SaveAuthorship, Fits, Edits, FilesInv, TypeOK
<1>6a. ASSUME NEW g \in Roots, Adopt(g)
       PROVE  FilesInv'
  BY <1>6a, RootsAreGoals DEF Adopt, SaveAuthorship, FilesInv, TypeOK, NoAuthor, files
<1>7. CASE Derive \/ (\E first \in BOOLEAN : CopyParent(first)) \/ EditRepo
  BY <1>7 DEF Derive, CopyParent, EditRepo, Edits, FilesInv, vars
<1>8. CASE (Tick /\ UNCHANGED <<files, held, launch>>) \/ UNCHANGED graphVars
  BY <1>0, <1>8 DEF Tick, graphVars, vars
<1>9. QED
  BY <1>1, <1>2, <1>3, <1>4, <1>5, <1>6, <1>6a, <1>7, <1>8 DEF GraphNext

LEMMA FilesInvariant == GraphSpec => [](TypeOK /\ LaunchInv /\ FilesInv)
BY GraphInits, GraphSteps, FilesInit, FilesStep, PTL DEF GraphSpec

(* A ratification the log records is in the goal file, though ratify       *)
(* writes back what it read and others may have saved the file meanwhile,  *)
(* until a later save takes it out.                                        *)
THEOREM RatificationsAreInFile == GraphSpec => []RatifiedInFile
<1>1. ASSUME TypeOK, FilesInv, RatifyInv PROVE RatifiedInFile
  <2> SUFFICES ASSUME NEW g \in ratified \ undone
               PROVE  /\ IsObject(File(g).intent)
                      /\ File(g).intent.authorship = "owner_ratified"
    BY DEF RatifiedInFile
  <2>1. g \in Goals /\ authorship[g] = "owner_ratified"
    BY <1>1 DEF TypeOK, RatifyInv
  <2>2. IsObject(contract[g].intent)
    BY <1>1, <2>1 DEF FilesInv, NoAuthor
  <2>3. /\ "intent" \in DOMAIN contract[g]
        /\ "authorship" \in DOMAIN contract[g].intent
        /\ "parent" \in DOMAIN contract[g].intent
    BY <1>1, <2>1, <2>2, ContractsHaveIntents DEF FilesInv
  <2>4. File(g).intent = [contract[g].intent EXCEPT !.authorship = "owner_ratified"]
    BY <2>1, <2>2, <2>3 DEF File, WithAuthor
  <2>5. File(g).intent.authorship = "owner_ratified" /\ "parent" \in DOMAIN File(g).intent
    BY <2>3, <2>4
  <2>6. QED BY <2>5 DEF IsObject, Absent, NotAnObject
<1>2. QED BY <1>1, FilesInvariant, GraphImplementsCommands, MarksAreKept, PTL

----------------------------------------------------------------------------
(* Lint and audit *)

(* What passes lint and is no proposed root is whole to the audit.         *)
LEMMA LintedIsWhole ==
  ASSUME NEW g \in Goals, FilesInv, Passes(g), ~RefusedRoot(g)
  PROVE  /\ GoalAudit(g) \cap {"partial_intent", "unratified_root"} = {}
         /\ EnforcementActive(repo) => "missing_intent" \notin GoalAudit(g)
<1> DEFINE i == File(g).intent
<1>1. IntentFindings(i, repo, EnforcementActive(repo)) = {}
  BY DEF Passes, Lints, Findings
<1>2. IsObject(i) => IntentFindings(i, repo, TRUE) = {}
  BY <1>1 DEF IntentFindings, IntentFindingsIfAny, IsObject, If
<1>3. Absent # NotAnObject
  <2>1. DOMAIN Absent # DOMAIN NotAnObject
    BY DEF Absent, NotAnObject
  <2>2. QED BY <2>1
<1>4. EnforcementActive(repo) => IsObject(i)
  BY <1>1, <1>3 DEF IntentFindings, IntentFindingsIfAny, IsObject, If
<1>5. ~IsUnratifiedRoot(i)
  <2>1. CASE IsObject(contract[g].intent)
    <3>1. "intent" \in DOMAIN contract[g] /\ "authorship" \in DOMAIN contract[g].intent
      BY <2>1, ContractsHaveIntents DEF FilesInv
    <3>2. i.authorship = authorship[g]
      BY <2>1, <3>1 DEF File, WithAuthor
    <3>3. QED BY <3>2 DEF IsUnratifiedRoot, RefusedRoot
  <2>2. CASE ~IsObject(contract[g].intent)
    BY <2>2 DEF File, WithAuthor, IsUnratifiedRoot
  <2>3. QED BY <2>1, <2>2
<1>6. /\ AuditFindings(i, NoSnapshot) \cap {"partial_intent", "unratified_root"} = {}
      /\ IsObject(i) => "missing_intent" \notin AuditFindings(i, NoSnapshot)
  BY <1>2, <1>5 DEF AuditFindings, LinkFindings, QuoteFindings, If
<1>7. DuplicateFindings(ParentFiles) \subseteq {"duplicate_goal_id"}
  BY DEF DuplicateFindings, If
<1>8. QED BY <1>4, <1>6, <1>7 DEF GoalAudit

(* What a launch hands out is the goal as it is, and the audit has nothing *)
(* against it that lint should have held up, as long as no file changes.   *)
THEOREM LaunchedGoalsStand == GraphSpec => []LaunchedGoalStands
<1>1. ASSUME LaunchInv, FilesInv PROVE LaunchedGoalStands
  BY <1>1, LintedIsWhole DEF LaunchInv, LaunchHolds, LaunchedGoalStands, At, Target, NoLaunch
<1>2. QED BY <1>1, FilesInvariant, PTL

LEMMA FewFiles ==
  \A a, b : /\ Len(<<a>> \o <<b>> \o <<>>) = 2 /\ Len(<<>> \o <<a>> \o <<b>>) = 2
            /\ <<a>> \o <<>> \o <<>> = <<a>> /\ <<>> \o <<a>> \o <<>> = <<a>>
            /\ <<>> \o <<>> \o <<a>> = <<a>> /\ <<>> \o <<>> \o <<>> = <<>>
<1> TAKE a, b
<1>1. /\ <<a>> \in Seq({a, b}) /\ Len(<<a>>) = 1
      /\ <<b>> \in Seq({a, b}) /\ Len(<<b>>) = 1
      /\ <<>> \in Seq({a, b}) /\ Len(<<>>) = 0
  OBVIOUS
<1>2. \A s, t \in Seq({a, b}) : s \o t \in Seq({a, b}) /\ Len(s \o t) = Len(s) + Len(t)
  OBVIOUS
<1>3. <<a>> \o <<>> = <<a>> /\ <<>> \o <<a>> = <<a>> /\ <<>> \o <<>> = <<>>
  BY <1>1
<1>4. QED BY <1>1, <1>2, <1>3

(* A child that was derived from its parent hears of everything that has   *)
(* rewritten the parent since, by whichever way.                           *)
THEOREM DriftIsAlwaysReported == GraphSpec => []DriftIsReported
<1>1. ASSUME FilesInv, snapshot \notin {NoSnapshot, Malformed}
      PROVE  \/ ParentFiles = <<snapshot>>
             \/ {"stale_parent_snapshot", "unknown_parent_goal"} \cap ChildAudit # {}
             \/ "duplicate_goal_id" \in GoalAudit(Parent)
  <2> DEFINE i == [intent EXCEPT !.parent.snapshot = "good"]
  <2>1. /\ "parent" \in DOMAIN i /\ i.parent.goal = "good"
        /\ {"goal", "snapshot"} \subseteq DOMAIN i.parent
    BY <1>1 DEF FilesInv, Link
  <2>2. IsObject(i) /\ IsLink(i.parent)
    BY <2>1 DEF IsObject, IsLink, Absent, NotAnObject, NoKey, Root
  <2>3. LinkFindings(i.parent, snapshot) \subseteq ChildAudit
    BY <1>1, <2>2 DEF ChildAudit, AuditFindings
  <2>4. CASE ParentFiles = <<>>
    BY <2>1, <2>3, <2>4 DEF LinkFindings, If
  <2>5. CASE ParentFiles # <<>> /\ snapshot # ParentFiles[1]
    BY <1>1, <2>1, <2>3, <2>5 DEF LinkFindings, If, FileDigest
  <2>6. CASE ParentFiles # <<>> /\ snapshot = ParentFiles[1]
    <3>0. PICK c, f : c = copy.file /\ f = File(Parent)
      OBVIOUS
    <3>1. CASE File(Parent).id /\ copy # NoCopy
      <4>1. \/ ParentFiles = <<c>> \o <<f>> \o <<>>
            \/ ParentFiles = <<>> \o <<f>> \o <<c>>
        BY <3>0, <3>1 DEF ParentFiles
      <4>2. Len(ParentFiles) = 2
        BY <4>1, FewFiles
      <4>3. QED BY <3>1, <4>2 DEF GoalAudit, DuplicateFindings, If
    <3>2. CASE ~(File(Parent).id /\ copy # NoCopy)
      <4>1. \/ ParentFiles = <<c>> \o <<>> \o <<>> \/ ParentFiles = <<>> \o <<>> \o <<c>>
            \/ ParentFiles = <<>> \o <<f>> \o <<>> \/ ParentFiles = <<>> \o <<>> \o <<>>
        BY <3>0, <3>2 DEF ParentFiles
      <4>2. ParentFiles \in {<<c>>, <<f>>, <<>>}
        BY <4>1, FewFiles
      <4>3. QED BY <2>6, <4>2
    <3>3. QED BY <3>1, <3>2
  <2>7. QED BY <2>4, <2>5, <2>6
<1>2. FilesInv => DriftIsReported
  BY <1>1 DEF DriftIsReported
<1>3. QED BY <1>2, FilesInvariant, PTL
=============================================================================
