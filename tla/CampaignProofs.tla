--------------------------- MODULE CampaignProofs ---------------------------
(***************************************************************************)
(* Proofs about dp campaign run.  A ledger whose dependencies are acyclic  *)
(* never leaves a campaign without an action, whoever runs what when.  If  *)
(* calls are serialized, what a run saw of a goal is what its log says,    *)
(* read at an earlier clock value; such a reading differs from a later one *)
(* only where a claim has expired (Aged), and that neither makes a goal    *)
(* unready nor changes what is verified.  So what the run decided upon     *)
(* still holds when it claims.                                             *)
(***************************************************************************)
EXTENDS CampaignRun, GoalLifecycleProofs

----------------------------------------------------------------------------
(* Types *)

Seens == UNION {[D -> GoalStates] : D \in SUBSET Nodes}
Runs == {NoRun}
        \cup [stage : {"status", "next"}, managed : BOOLEAN, seen : Seens]
        \cup [stage : {"selected", "claiming", "claimed", "packaged"},
              managed : BOOLEAN, node : Nodes, lease : Leases]

CampaignTypeOK == TypeOK /\ run \in [Agents -> Runs]

LEMMA ViewType ==
  ASSUME NEW d \in Digests, NEW t \in Nat
  PROVE  View(d, t) \in GoalStates
<1>1. d.phase \in States /\ d.claim.holder \in Holders /\ d.claim.expires \in Nat
      /\ d.blocked \in BOOLEAN /\ Expired(d, t) \in BOOLEAN
  BY DEF Digests, Claims, Expired
<1>2. View(d, t).lease \in Leases
  BY <1>1 DEF View, Leases, Holders
<1>3. View(d, t).state \in States
  BY <1>1 DEF View, States
<1>4. QED BY <1>1, <1>2, <1>3 DEF View, GoalStates

LEMMA ReplayedType ==
  ASSUME TypeOK, NEW n \in Nodes
  PROVE  Replayed(n) \in GoalStates /\ digest[n] \in Digests
BY ViewType, NodesAreGoals DEF TypeOK, Replayed

LEMMA CampaignTypeInit == CampaignInit => CampaignTypeOK
BY TypeInit DEF CampaignInit, CampaignTypeOK, Runs

LEMMA ReadingType ==
  ASSUME NEW r \in Runs, r.stage \in {"status", "next"}
  PROVE  /\ r.seen \in [DOMAIN r.seen -> GoalStates] /\ DOMAIN r.seen \subseteq Nodes
         /\ r.managed \in BOOLEAN
         /\ \A s \in Seens : [r EXCEPT !.seen = s] \in Runs
<1>1. r \in [stage : {"status", "next"}, managed : BOOLEAN, seen : Seens]
  BY DEF Runs, NoRun
<1>2. PICK D \in SUBSET Nodes : r.seen \in [D -> GoalStates]
  BY <1>1 DEF Seens
<1>3. QED BY <1>1, <1>2 DEF Runs

LEMMA SelectedType ==
  ASSUME NEW r \in Runs, r.stage \in {"selected", "claiming", "claimed", "packaged"}
  PROVE  /\ r.node \in Nodes /\ r.managed \in BOOLEAN
         /\ \A s \in {"selected", "claiming", "claimed", "packaged"} :
              [r EXCEPT !.stage = s] \in Runs
         /\ \A s \in {"selected", "claiming", "claimed", "packaged"}, l \in Leases :
              [r EXCEPT !.stage = s, !.lease = l] \in Runs
<1>1. r \in [stage : {"selected", "claiming", "claimed", "packaged"},
             managed : BOOLEAN, node : Nodes, lease : Leases]
  BY DEF Runs, NoRun
<1>2. QED BY <1>1 DEF Runs

(* Every step of a campaign but the end of a run is one of the goal        *)
(* commands or leaves them alone.                                          *)
LEMMA StepsOfCommands ==
  ASSUME CampaignTypeOK, [CampaignNext]_campaignVars
  PROVE  [Next]_vars \/ \E p \in Agents : StopRun(p)
<1>1. ASSUME NEW p \in Agents, NEW d \in LeaseLengths, RunBeginsClaim(p, d)
      PROVE  Next
  <2>1. run[p].node \in Goals
    BY <1>1, SelectedType, NodesAreGoals DEF CampaignTypeOK, RunBeginsClaim
  <2>2. QED BY <1>1, <2>1 DEF RunBeginsClaim, Next
<1>2. ASSUME NEW p \in Agents, RunClaims(p) PROVE Next
  BY <1>2 DEF RunClaims, Next
<1>3. ASSUME NEW p \in Agents, ReadGoal(p) \/ Decide(p) \/ Select(p)
      PROVE  UNCHANGED vars
  BY <1>3 DEF ReadGoal, Decide, Select
<1>4. ASSUME NEW p \in Agents, MakePackage(p) \/ AppendHandoff(p)
      PROVE  UNCHANGED vars
  BY <1>4 DEF MakePackage, AppendHandoff
<1>5. ASSUME NEW p \in Agents, NEW m \in BOOLEAN, StartRun(p, m)
      PROVE  UNCHANGED vars
  BY <1>5 DEF StartRun
<1>6. CASE UNCHANGED campaignVars
  BY <1>6 DEF campaignVars, vars
<1>7. CASE GoalStep
  BY <1>7 DEF GoalStep
<1>8. QED
  BY <1>1, <1>2, <1>3, <1>4, <1>5, <1>6, <1>7 DEF CampaignNext

LEMMA CampaignTypeStep ==
  CampaignTypeOK /\ [CampaignNext]_campaignVars => CampaignTypeOK'
<1> SUFFICES ASSUME CampaignTypeOK, [CampaignNext]_campaignVars PROVE CampaignTypeOK'
  OBVIOUS
<1>t. TypeOK /\ run \in [Agents -> Runs]
  BY DEF CampaignTypeOK
<1>1. TypeOK'
  <2>1. CASE [Next]_vars
    BY <1>t, <2>1, TypeStep
  <2>2. ASSUME NEW p \in Agents, StopRun(p) PROVE TypeOK'
    BY <1>t, <2>2 DEF StopRun, TypeOK, Commands
  <2>3. QED BY <2>1, <2>2, StepsOfCommands
<1>2. ASSUME NEW p \in Agents, NEW r \in Runs, Becomes(p, r)
      PROVE  run' \in [Agents -> Runs]
  BY <1>t, <1>2 DEF Becomes
<1>3. \A stage \in {"status", "next"}, m \in BOOLEAN : Reading(stage, m) \in Runs
  <2>1. Unread \in Seens
    BY DEF Unread, Seens
  <2>2. QED BY <2>1 DEF Reading, Runs
<1>4. ASSUME NEW p \in Agents, NEW m \in BOOLEAN, StartRun(p, m)
      PROVE  run' \in [Agents -> Runs]
  BY <1>2, <1>3, <1>4 DEF StartRun
<1>5. ASSUME NEW p \in Agents, ReadGoal(p)
      PROVE  run' \in [Agents -> Runs]
  <2> DEFINE seen == run[p].seen
             Read(i) == [n \in DOMAIN seen \cup {Order[i]} |->
                           IF n = Order[i] THEN Replayed(n) ELSE seen[n]]
  <2>1. /\ seen \in [DOMAIN seen -> GoalStates] /\ DOMAIN seen \subseteq Nodes
        /\ \A s \in Seens : [run[p] EXCEPT !.seen = s] \in Runs
    BY <1>t, <1>5, ReadingType DEF ReadGoal
  <2>2. PICK i \in 1..Len(Order) : Becomes(p, [run[p] EXCEPT !.seen = Read(i)])
    BY <1>5 DEF ReadGoal
  <2>3. Order[i] \in Nodes
    BY OrderListsNodes
  <2>4. Replayed(Order[i]) \in GoalStates
    BY <1>t, <2>3, ReplayedType
  <2>5. Read(i) \in [DOMAIN seen \cup {Order[i]} -> GoalStates]
    BY <2>1, <2>4
  <2>6. Read(i) \in Seens
    BY <2>1, <2>3, <2>5 DEF Seens
  <2> HIDE DEF Read
  <2>7. QED BY <1>2, <2>1, <2>2, <2>6
<1>6. ASSUME NEW p \in Agents, Decide(p)
      PROVE  run' \in [Agents -> Runs]
  BY <1>t, <1>2, <1>3, <1>6, ReadingType DEF Decide, HasRead
<1>7. ASSUME NEW p \in Agents, Select(p)
      PROVE  run' \in [Agents -> Runs]
  <2>1. /\ run[p].seen \in [Nodes -> GoalStates]
        /\ run[p].managed \in BOOLEAN
    BY <1>t, <1>7, ReadingType DEF Select, HasRead
  <2>2. PICK n \in Nodes :
          Becomes(p, [stage |-> "selected", managed |-> run[p].managed, node |-> n,
                      lease |-> run[p].seen[n].lease])
    BY <1>7 DEF Select
  <2>3. run[p].seen[n].lease \in Leases
    BY <2>1 DEF GoalStates
  <2>4. QED BY <1>2, <2>1, <2>2, <2>3 DEF Runs
<1>8. ASSUME NEW p \in Agents, NEW d \in LeaseLengths, RunBeginsClaim(p, d)
      PROVE  run' \in [Agents -> Runs]
  BY <1>t, <1>2, <1>8, SelectedType DEF RunBeginsClaim
<1>9. ASSUME NEW p \in Agents, RunClaims(p)
      PROVE  run' \in [Agents -> Runs]
  BY <1>t, <1>2, <1>9, SelectedType DEF RunClaims
<1>10. ASSUME NEW p \in Agents, MakePackage(p)
       PROVE  run' \in [Agents -> Runs]
  <2>1. run[p].node \in Nodes
    BY <1>t, <1>10, SelectedType DEF MakePackage
  <2>2. PackageLease(p) \in Leases
    BY <1>t, <2>1, ReplayedType DEF PackageLease, GoalStates
  <2>3. QED BY <1>t, <1>2, <1>10, <2>2, SelectedType DEF MakePackage
<1>11. ASSUME NEW p \in Agents, AppendHandoff(p) \/ StopRun(p)
       PROVE  run' \in [Agents -> Runs]
  BY <1>2, <1>11 DEF AppendHandoff, StopRun, Runs
<1>12. ASSUME GoalStep \/ UNCHANGED campaignVars
       PROVE  run' \in [Agents -> Runs]
  BY <1>t, <1>12 DEF GoalStep, campaignVars
<1>13. run' \in [Agents -> Runs]
  BY <1>4, <1>5, <1>6, <1>7, <1>8, <1>9, <1>10, <1>11, <1>12 DEF CampaignNext
<1>14. QED BY <1>1, <1>13 DEF CampaignTypeOK

----------------------------------------------------------------------------
(* Something to do *)

(* Of the goals that are not verified, one depends on none of the others;  *)
(* that one cannot be waiting, so it calls for some action.                *)
LEMMA SomethingToDo ==
  ASSUME NEW seen \in [Nodes -> GoalStates], NEW notUseful \in BOOLEAN
  PROVE  ResumeAction(seen, notUseful) # "no_ready_work"
<1> DEFINE Left == {n \in Nodes : seen[n].state # "verified"}
<1>t. \A n \in Nodes : seen[n].state \in States
  BY DEF GoalStates
<1>1. CASE Left = {}
  <2>1. \A n \in Nodes : seen[n].state = "verified"
    BY <1>1
  <2>2. \A n \in Nodes : NodeState(seen, n) = "verified"
    BY <2>1 DEF NodeState
  <2>3. Every(seen, {"verified"})
    BY <2>2 DEF Every
  <2>4. \A S : "verified" \notin S => ~Some(seen, S)
    BY <2>2 DEF Some
  <2>5. ~Some(seen, Active) /\ ~Some(seen, {"evidence_pending"})
        /\ ~Some(seen, {"blocked"}) /\ ~Some(seen, {"ready"})
    BY <2>4 DEF Active
  <2>6. QED BY <2>3, <2>5 DEF ResumeAction
<1>2. CASE Left # {}
  <2>1. PICK n \in Left : DependsOn[n] \cap Left = {}
    BY <1>2, DependenciesAcyclic
  <2>2. DependsOn[n] \subseteq Nodes
    BY DependenciesResolve
  <2>3. Unmet(seen, n) = {}
    BY <2>1, <2>2 DEF Unmet
  <2>4. NodeState(seen, n) \in Active \cup {"evidence_pending", "blocked", "ready"}
    BY <1>t, <2>1, <2>3 DEF NodeState, States, Active
  <2>5. CASE Some(seen, Active)
    BY <2>5 DEF ResumeAction
  <2>6. CASE ~Some(seen, Active) /\ Some(seen, {"evidence_pending"})
    BY <2>6 DEF ResumeAction
  <2>7. CASE ~Some(seen, Active) /\ ~Some(seen, {"evidence_pending"})
    <3>1. ~Some(seen, Active \cup {"evidence_pending"})
      BY <2>7 DEF Some
    <3>2. CASE Some(seen, {"blocked"})
      BY <2>7, <3>1, <3>2 DEF ResumeAction
    <3>3. CASE ~Some(seen, {"blocked"})
      <4>1. NodeState(seen, n) = "ready"
        BY <2>4, <3>1, <3>3 DEF Some
      <4>2. Some(seen, {"ready"})
        BY <4>1 DEF Some
      <4>3. ~Some(seen, Active \cup {"evidence_pending", "blocked"})
        BY <3>1, <3>3 DEF Some
      <4>4. QED BY <2>7, <3>1, <3>3, <4>2, <4>3 DEF ResumeAction
    <3>4. QED BY <3>2, <3>3
  <2>8. QED BY <2>5, <2>6, <2>7
<1>3. QED BY <1>1, <1>2

(* A campaign whose ledger lints always has an action to take, however the *)
(* goal commands of others fall between the reads of a run.                *)
THEOREM NeverADeadEnd == CampaignSpec => []NoDeadEnd
<1>1. CampaignTypeOK => NoDeadEnd
  BY SomethingToDo, ReadingType DEF CampaignTypeOK, NoDeadEnd, HasRead
<1>2. QED
  BY <1>1, CampaignTypeInit, CampaignTypeStep, PTL DEF CampaignSpec

LEMMA SummariesAgree ==
  ASSUME NEW seen, NEW notUseful \in BOOLEAN
  PROVE  /\ CampaignStatus(seen, notUseful) = "verified"
              <=> ResumeAction(seen, notUseful) = "campaign_verified"
         /\ ResumeAction(seen, notUseful) = "resolve_blocker"
              => CampaignStatus(seen, notUseful) = "blocked"
<1>1. CASE Every(seen, {"verified"})
  <2>1. ~Some(seen, Active) /\ ~Some(seen, {"evidence_pending"})
        /\ ~Some(seen, {"blocked"}) /\ ~Some(seen, {"ready"})
    BY <1>1 DEF Every, Some, Active
  <2>2. ResumeAction(seen, notUseful)
          = IF notUseful THEN "address_not_useful_outcome" ELSE "campaign_verified"
    BY <1>1, <2>1 DEF ResumeAction
  <2>3. CampaignStatus(seen, notUseful) = IF notUseful THEN "active" ELSE "verified"
    BY <1>1, <2>1 DEF CampaignStatus
  <2>4. QED BY <2>2, <2>3
<1>2. CASE ~Every(seen, {"verified"})
  <2>1. ResumeAction(seen, notUseful) # "campaign_verified"
    BY <1>2 DEF ResumeAction
  <2>2. CampaignStatus(seen, notUseful) # "verified"
    BY <1>2 DEF CampaignStatus
  <2>3. ResumeAction(seen, notUseful) = "resolve_blocker" => Some(seen, {"blocked"})
    BY <1>2 DEF ResumeAction
  <2>4. Some(seen, {"blocked"}) => CampaignStatus(seen, notUseful) = "blocked"
    BY <1>2 DEF CampaignStatus
  <2>5. QED BY <2>1, <2>2, <2>3, <2>4
<1>3. QED BY <1>1, <1>2

(* A campaign's status and its action to take tell the same story.         *)
THEOREM StatusTellsTheAction == CampaignSpec => []StatusBacksAction
<1>1. StatusBacksAction
  BY SummariesAgree DEF StatusBacksAction
<1>2. QED BY <1>1, PTL

----------------------------------------------------------------------------
(* What one run saw, when calls are serialized *)

(* `later` was read of the same logs as `seen`, at a later clock value.    *)
Aged(seen, later) ==
  \A n \in Nodes : \/ later[n].state = seen[n].state
                   \/ seen[n].state = "claimed" /\ later[n].state = "released"

LEMMA ViewAges ==
  ASSUME NEW d \in Digests, NEW t \in Nat, NEW u \in Nat, t <= u
  PROVE  \/ View(d, u).state = View(d, t).state
         \/ View(d, t).state = "claimed" /\ View(d, u).state = "released"
<1>1. Expired(d, t) => Expired(d, u)
  BY DEF Expired, Digests, Claims
<1>2. QED BY <1>1 DEF View

LEMMA VerifiedIsForEver ==
  ASSUME NEW d \in Digests, NEW t \in Nat
  PROVE  View(d, t).state = "verified" <=> d.phase = "verified"
BY DEF View

LEMMA AgedNodes ==
  ASSUME NEW seen \in [Nodes -> GoalStates], NEW later \in [Nodes -> GoalStates],
         Aged(seen, later), NEW n \in Nodes
  PROVE  /\ Unmet(later, n) = Unmet(seen, n)
         /\ \/ NodeState(later, n) = NodeState(seen, n)
            \/ NodeState(seen, n) = "claimed" /\ NodeState(later, n) = "ready"
<1>1. DependsOn[n] \subseteq Nodes
  BY DependenciesResolve
<1>2. Unmet(later, n) = Unmet(seen, n)
  BY <1>1 DEF Unmet, Aged
<1>3. \/ later[n].state = seen[n].state
      \/ seen[n].state = "claimed" /\ later[n].state = "released"
  BY DEF Aged
<1>4. QED BY <1>2, <1>3 DEF NodeState

Settled == {"verified", "waiting", "ready"}

(* The inductive invariant of a run: what it read is the state of the log  *)
(* at an earlier clock value, and what it decided still holds.             *)
SeenIsOld(p) ==
  run[p].stage \in {"status", "next"} =>
    \A n \in DOMAIN run[p].seen :
      \E t \in Nat : t <= now /\ run[p].seen[n] = View(digest[n], t)
ManagedIsAlone(p) ==
  run[p].stage \in {"next", "selected", "claiming"} /\ run[p].managed =>
    Every(Current, Settled)
SelectedIsReady(p) ==
  run[p].stage \in {"selected", "claiming"} =>
    /\ Replayed(run[p].node).state \in {"ready", "released"}
    /\ \A m \in DependsOn[run[p].node] : digest[m].phase = "verified"
ClaimIsOwn(p) ==
  /\ run[p].stage = "claiming" /\ cmd[p].op = "claim" => cmd[p].goal = run[p].node
  /\ run[p].stage = "claimed" =>
       digest[run[p].node].claim.holder = p /\ ~digest[run[p].node].started
  /\ run[p].stage = "packaged" => run[p].lease.holder = p
RunInv(p) == SeenIsOld(p) /\ ManagedIsAlone(p) /\ SelectedIsReady(p) /\ ClaimIsOwn(p)

CampaignInv ==
  /\ \A p, q \in Agents : run[p] # NoRun /\ run[q] # NoRun => p = q
  /\ \A p \in Agents : RunInv(p)
  /\ HandoffNamesHolder

LEMMA CurrentType ==
  ASSUME CampaignTypeOK PROVE Current \in [Nodes -> GoalStates]
BY ReplayedType DEF CampaignTypeOK, Current

(* As long as nobody appends, the clock undoes nothing a run relies on.    *)
LEMMA CurrentAges ==
  ASSUME CampaignTypeOK, CampaignTypeOK', digest' = digest, now' >= now
  PROVE  Aged(Current, Current')
<1>1. ASSUME NEW n \in Nodes
      PROVE  /\ Current[n] = View(digest[n], now) /\ Current'[n] = View(digest[n], now')
             /\ digest[n] \in Digests /\ now \in Nat /\ now' \in Nat
  BY NodesAreGoals DEF Current, Replayed, CampaignTypeOK, TypeOK
<1>2. ASSUME NEW n \in Nodes
      PROVE  \/ Current'[n].state = Current[n].state
             \/ Current[n].state = "claimed" /\ Current'[n].state = "released"
  BY <1>1, ViewAges
<1>3. QED BY <1>2 DEF Aged

LEMMA NoRunInv == ASSUME NEW p, run[p] = NoRun PROVE RunInv(p)
BY DEF RunInv, SeenIsOld, ManagedIsAlone, SelectedIsReady, ClaimIsOwn, NoRun

LEMMA EveryAges ==
  ASSUME NEW seen \in [Nodes -> GoalStates], NEW later \in [Nodes -> GoalStates],
         Aged(seen, later), Every(seen, Settled)
  PROVE  Every(later, Settled)
<1>1. \A n \in Nodes : NodeState(seen, n) # "claimed"
  BY DEF Every, Settled
<1>2. QED BY <1>1, AgedNodes DEF Every

LEMMA QuietKeepsRun ==
  ASSUME CampaignTypeOK, CampaignTypeOK', NEW p \in Agents, RunInv(p),
         digest' = digest, now' >= now, cmd'[p] = cmd[p], run'[p] = run[p]
  PROVE  RunInv(p)'
<1>t. now \in Nat /\ now' \in Nat
  BY DEF CampaignTypeOK, TypeOK
<1>a. Aged(Current, Current')
  BY CurrentAges
<1>c. Current \in [Nodes -> GoalStates] /\ Current' \in [Nodes -> GoalStates]
  <2>1. Current \in [Nodes -> GoalStates]
    BY CurrentType
  <2>2. \A n \in Nodes : Replayed(n)' \in GoalStates
    BY ViewType, NodesAreGoals DEF Replayed, CampaignTypeOK, TypeOK
  <2>3. QED BY <2>1, <2>2 DEF Current
<1>1. SeenIsOld(p)'
  BY <1>t DEF RunInv, SeenIsOld
<1>2. ManagedIsAlone(p)'
  <2>1. Every(Current, Settled) => Every(Current', Settled)
    BY <1>a, <1>c, EveryAges
  <2>2. Every(Current', Settled) => Every(Current, Settled)'
    BY DEF Every, NodeState, Unmet
  <2>3. QED BY <2>1, <2>2 DEF RunInv, ManagedIsAlone
<1>3. SelectedIsReady(p)'
  <2> SUFFICES ASSUME run[p].stage \in {"selected", "claiming"}
               PROVE  SelectedIsReady(p)'
    BY DEF SelectedIsReady
  <2> DEFINE n == run[p].node
  <2>1. n \in Nodes
    BY SelectedType DEF CampaignTypeOK
  <2>2. Current[n] = Replayed(n) /\ Current'[n] = Replayed(run[p].node)'
    BY <2>1 DEF Current, Replayed
  <2>3. Replayed(n).state \in {"ready", "released"}
    BY DEF RunInv, SelectedIsReady
  <2>4. Current'[n].state \in {"ready", "released"}
    BY <1>a, <2>1, <2>2, <2>3 DEF Aged
  <2>5. QED BY <2>2, <2>4 DEF RunInv, SelectedIsReady
<1>4. ClaimIsOwn(p)'
  BY DEF RunInv, ClaimIsOwn
<1>5. QED BY <1>1, <1>2, <1>3, <1>4 DEF RunInv

----------------------------------------------------------------------------
(* The steps of a run *)

LEMMA ClockGoesOn == ASSUME TypeOK, [Next]_vars PROVE now' \in Nat /\ now' >= now
BY DEF TypeOK, Next, vars, BeginClaim, BeginStart, BeginHeartbeat, BeginRatify, BlockGoal,
       ReleaseGoal, CompleteGoal, VerifyGoal, AppendOnly, FinishClaim, FinishStart,
       FinishHeartbeat, WriteRatify, FinishRatify, Crash, SaveAuthorship, Tick

(* A complete reading is the current state of the goals, aged or not.      *)
LEMMA ReadingAges ==
  ASSUME CampaignTypeOK, NEW p \in Agents, SeenIsOld(p),
         run[p].stage \in {"status", "next"}, DOMAIN run[p].seen = Nodes
  PROVE  run[p].seen \in [Nodes -> GoalStates] /\ Aged(run[p].seen, Current)
<1>1. run[p].seen \in [Nodes -> GoalStates]
  BY ReadingType DEF CampaignTypeOK
<1>2. ASSUME NEW n \in Nodes
      PROVE  \/ Current[n].state = run[p].seen[n].state
             \/ run[p].seen[n].state = "claimed" /\ Current[n].state = "released"
  <2>1. PICK t \in Nat : t <= now /\ run[p].seen[n] = View(digest[n], t)
    BY DEF SeenIsOld
  <2>2. Current[n] = View(digest[n], now) /\ digest[n] \in Digests /\ now \in Nat
    BY NodesAreGoals DEF Current, Replayed, CampaignTypeOK, TypeOK
  <2>3. QED BY <2>1, <2>2, ViewAges
<1>3. QED BY <1>1, <1>2 DEF Aged

LEMMA ReadKeepsRun ==
  ASSUME CampaignTypeOK, NEW p \in Agents, RunInv(p), ReadGoal(p)
  PROVE  RunInv(p)'
<1> DEFINE seen == run[p].seen
<1>t. run[p] \in Runs /\ now \in Nat /\ run \in [Agents -> Runs]
  BY DEF CampaignTypeOK, TypeOK
<1>u. UNCHANGED <<now, digest, cmd>> /\ run[p].stage \in {"status", "next"}
  BY DEF ReadGoal, vars
<1>1. PICK i \in 1..Len(Order) :
        Becomes(p, [run[p] EXCEPT !.seen =
                      [n \in DOMAIN seen \cup {Order[i]} |->
                         IF n = Order[i] THEN Replayed(n) ELSE seen[n]]])
  BY DEF ReadGoal
<1>2. /\ run'[p].stage = run[p].stage /\ run'[p].managed = run[p].managed
      /\ run'[p].seen = [n \in DOMAIN seen \cup {Order[i]} |->
                           IF n = Order[i] THEN Replayed(n) ELSE seen[n]]
  <2>1. run[p] \in [stage : {"status", "next"}, managed : BOOLEAN, seen : Seens]
    BY <1>t, <1>u DEF Runs, NoRun
  <2>2. QED BY <1>t, <1>1, <2>1 DEF Becomes
<1>3. SeenIsOld(p)'
  <2> SUFFICES ASSUME NEW n \in DOMAIN seen \cup {Order[i]}
               PROVE  \E t \in Nat : t <= now' /\ run'[p].seen[n] = View(digest'[n], t)
    BY <1>2 DEF SeenIsOld
  <2>1. CASE n = Order[i]
    <3>1. run'[p].seen[n] = View(digest[n], now)
      BY <1>2, <2>1 DEF Replayed
    <3>2. QED BY <1>t, <1>u, <3>1
  <2>2. CASE n # Order[i]
    <3>1. PICK t \in Nat : t <= now /\ seen[n] = View(digest[n], t)
      BY <1>u, <2>2 DEF RunInv, SeenIsOld
    <3>2. QED BY <1>2, <1>u, <2>2, <3>1
  <2>3. QED BY <2>1, <2>2
<1>4. Current' = Current
  BY <1>u DEF Current, Replayed
<1>5. ManagedIsAlone(p)'
  BY <1>2, <1>u, <1>4 DEF RunInv, ManagedIsAlone, Every, NodeState, Unmet
<1>6. SelectedIsReady(p)' /\ ClaimIsOwn(p)'
  BY <1>2, <1>u DEF SelectedIsReady, ClaimIsOwn
<1>7. QED BY <1>3, <1>5, <1>6 DEF RunInv

LEMMA NothingInHand ==
  ASSUME NEW seen, NEW notUseful \in BOOLEAN,
         ResumeAction(seen, notUseful) = "claim_next_goal"
  PROVE  /\ ~Some(seen, Active) /\ ~Some(seen, {"evidence_pending"})
         /\ ~Some(seen, {"blocked"})
<1>1. ~Some(seen, Active \cup {"evidence_pending", "blocked"})
  BY DEF ResumeAction
<1>2. QED BY <1>1 DEF Some

(* A managed run goes on only when nothing is in hand anywhere.            *)
LEMMA DecideKeepsRun ==
  ASSUME CampaignTypeOK, NEW p \in Agents, RunInv(p), Decide(p)
  PROVE  RunInv(p)'
<1>t. run[p] \in Runs /\ run \in [Agents -> Runs]
  BY DEF CampaignTypeOK
<1>1. /\ run'[p] = Reading("next", run[p].managed)
      /\ UNCHANGED <<now, digest>>
      /\ run[p].stage = "status" /\ DOMAIN run[p].seen = Nodes
  BY <1>t DEF Decide, Becomes, HasRead, vars
<1>2. SeenIsOld(p)' /\ SelectedIsReady(p)' /\ ClaimIsOwn(p)'
  BY <1>1 DEF SeenIsOld, SelectedIsReady, ClaimIsOwn, Reading, Unread
<1>3. ManagedIsAlone(p)'
  <2> SUFFICES ASSUME run[p].managed PROVE Every(Current, Settled)'
    BY <1>1 DEF ManagedIsAlone, Reading
  <2> DEFINE seen == run[p].seen
  <2>1. seen \in [Nodes -> GoalStates] /\ Aged(seen, Current)
    BY <1>1, ReadingAges DEF RunInv
  <2>2. PICK notUseful \in BOOLEAN : ResumeAction(seen, notUseful) = "claim_next_goal"
    BY DEF Decide, GoesOn
  <2>3. /\ ~Some(seen, Active) /\ ~Some(seen, {"evidence_pending"})
        /\ ~Some(seen, {"blocked"})
    BY <2>2, NothingInHand
  <2>4. ASSUME NEW n \in Nodes PROVE NodeState(seen, n) \in Settled
    <3>1. NodeState(seen, n) \notin Active \cup {"evidence_pending", "blocked"}
      BY <2>3 DEF Some
    <3>2. seen[n].state \in States
      BY <2>1 DEF GoalStates
    <3>3. QED BY <3>1, <3>2 DEF NodeState, States, Active, Settled
  <2>5. Every(Current, Settled)
    BY <2>1, <2>4, CurrentType, EveryAges DEF Every
  <2>6. Current' = Current
    BY <1>1 DEF Current, Replayed
  <2>7. QED BY <1>1, <2>5, <2>6 DEF Every, NodeState, Unmet
<1>4. QED BY <1>2, <1>3 DEF RunInv

LEMMA SelectKeepsRun ==
  ASSUME CampaignTypeOK, NEW p \in Agents, RunInv(p), Select(p)
  PROVE  RunInv(p)'
<1> DEFINE seen == run[p].seen
<1>t. run[p] \in Runs /\ run \in [Agents -> Runs]
  BY DEF CampaignTypeOK
<1>1. PICK n \in Nodes :
        /\ IsNext(seen, n)
        /\ run'[p] = [stage |-> "selected", managed |-> run[p].managed, node |-> n,
                      lease |-> seen[n].lease]
  BY <1>t DEF Select, Becomes
<1>2. UNCHANGED <<now, digest>> /\ run[p].stage = "next" /\ DOMAIN seen = Nodes
  BY DEF Select, HasRead, vars
<1>3. SeenIsOld(p)' /\ ClaimIsOwn(p)'
  BY <1>1 DEF SeenIsOld, ClaimIsOwn
<1>4. ManagedIsAlone(p)'
  <2>1. Current' = Current
    BY <1>2 DEF Current, Replayed
  <2>2. QED BY <1>1, <1>2, <2>1 DEF RunInv, ManagedIsAlone, Every, NodeState, Unmet
<1>5. SelectedIsReady(p)'
  <2>1. seen \in [Nodes -> GoalStates] /\ Aged(seen, Current)
    BY <1>2, ReadingAges DEF RunInv
  <2>2. NodeState(seen, n) = "ready"
    BY <1>1 DEF IsNext
  <2>3. Unmet(seen, n) = {} /\ seen[n].state \in {"ready", "released"}
    BY <2>2 DEF NodeState
  <2>4. Current[n].state \in {"ready", "released"}
    BY <2>1, <2>3 DEF Aged
  <2>5. ASSUME NEW m \in DependsOn[n] PROVE digest[m].phase = "verified"
    <3>1. m \in Nodes
      BY DependenciesResolve
    <3>2. seen[m].state = "verified"
      BY <2>3 DEF Unmet
    <3>3. Current[m].state = "verified"
      BY <2>1, <3>1, <3>2 DEF Aged
    <3>4. Current[m] = View(digest[m], now) /\ digest[m] \in Digests /\ now \in Nat
      BY <3>1, NodesAreGoals DEF Current, Replayed, CampaignTypeOK, TypeOK
    <3>5. QED BY <3>3, <3>4, VerifiedIsForEver
  <2>6. Replayed(run[p].node)' = Current[n]
    BY <1>1, <1>2 DEF Replayed, Current
  <2>7. QED BY <1>1, <1>2, <2>4, <2>5, <2>6 DEF SelectedIsReady
<1>6. QED BY <1>3, <1>4, <1>5 DEF RunInv

LEMMA BeginsClaimKeepsRun ==
  ASSUME CampaignTypeOK, NEW p \in Agents, RunInv(p),
         NEW d \in LeaseLengths, RunBeginsClaim(p, d)
  PROVE  RunInv(p)'
<1>t. run[p] \in Runs /\ run \in [Agents -> Runs] /\ cmd \in [Agents -> Commands]
  BY DEF CampaignTypeOK, TypeOK
<1>1. UNCHANGED <<now, digest>> /\ run[p].stage = "selected"
      /\ cmd'[p].goal = run[p].node
  BY <1>t DEF RunBeginsClaim, BeginClaim
<1>2. /\ run'[p].stage = "claiming" /\ run'[p].managed = run[p].managed
      /\ run'[p].node = run[p].node
  BY <1>t, <1>1 DEF RunBeginsClaim, Becomes, Runs, NoRun
<1>3. SeenIsOld(p)' /\ ClaimIsOwn(p)'
  BY <1>1, <1>2 DEF SeenIsOld, ClaimIsOwn
<1>4. Current' = Current
  BY <1>1 DEF Current, Replayed
<1>5. ManagedIsAlone(p)'
  BY <1>1, <1>2, <1>4 DEF RunInv, ManagedIsAlone, Every, NodeState, Unmet
<1>6. SelectedIsReady(p)'
  BY <1>1, <1>2 DEF RunInv, SelectedIsReady, Replayed
<1>7. QED BY <1>3, <1>5, <1>6 DEF RunInv

LEMMA ClaimsKeepsRun ==
  ASSUME CampaignTypeOK, NEW p \in Agents, RunInv(p), RunClaims(p)
  PROVE  RunInv(p)'
<1>t. run[p] \in Runs /\ run \in [Agents -> Runs]
  BY DEF CampaignTypeOK
<1>1. run[p].stage = "claiming" /\ run[p].node \in Nodes
  BY <1>t, SelectedType DEF RunClaims
<1>2. run'[p].stage = "claimed" /\ run'[p].node = run[p].node
  BY <1>t, <1>1 DEF RunClaims, Becomes, Runs, NoRun
<1>3. cmd[p].goal = run[p].node /\ run[p].node \in Goals
  BY <1>1, NodesAreGoals DEF RunInv, ClaimIsOwn, RunClaims, FinishClaim
<1>4. digest'[run[p].node] = Digested(digest[run[p].node], Claimed(p, cmd[p].expires))
  BY <1>3 DEF RunClaims, FinishClaim, LogEvent, CampaignTypeOK, TypeOK
<1>5. digest'[run[p].node].claim.holder = p /\ ~digest'[run[p].node].started
  BY <1>4 DEF Digested, Claimed
<1>6. QED
  BY <1>2, <1>5 DEF RunInv, SeenIsOld, ManagedIsAlone, SelectedIsReady, ClaimIsOwn

LEMMA PackageKeepsRun ==
  ASSUME CampaignTypeOK, NEW p \in Agents, RunInv(p), MakePackage(p)
  PROVE  RunInv(p)'
<1>t. run[p] \in Runs /\ run \in [Agents -> Runs]
  BY DEF CampaignTypeOK
<1>1. run[p].stage = "claimed" /\ run[p].node \in Nodes
  BY <1>t, SelectedType DEF MakePackage
<1>2. run'[p].stage = "packaged" /\ run'[p].lease = Replayed(run[p].node).lease
  BY <1>t, <1>1 DEF MakePackage, PackageLease, Becomes, Runs, NoRun
<1>3. digest[run[p].node].claim.holder = p /\ ~digest[run[p].node].started
  BY <1>1 DEF RunInv, ClaimIsOwn
<1>4. Replayed(run[p].node).lease.holder = p
  BY <1>3, NobodyIsNoAgent DEF Replayed, View
<1>5. QED
  BY <1>2, <1>4 DEF RunInv, SeenIsOld, ManagedIsAlone, SelectedIsReady, ClaimIsOwn

----------------------------------------------------------------------------
(* Serialized calls *)

LEMMA CampaignInvInit == CampaignInit => CampaignInv
BY NoRunInv DEF CampaignInit, CampaignInv, HandoffNamesHolder, NoRun

LEMMA OneRunOnly ==
  ASSUME CampaignTypeOK, CampaignInv, NEW p \in Agents, NEW r, Becomes(p, r),
         \A q \in Agents : q # p => run[q] = NoRun,
         RunInv(p)', HandoffNamesHolder'
  PROVE  CampaignInv'
<1>1. \A q \in Agents : q # p => run'[q] = NoRun
  BY DEF Becomes, CampaignTypeOK
<1>2. ASSUME NEW q \in Agents, q # p PROVE RunInv(q)'
  BY <1>1, <1>2 DEF RunInv, SeenIsOld, ManagedIsAlone, SelectedIsReady, ClaimIsOwn, NoRun
<1>3. QED BY <1>1, <1>2 DEF CampaignInv

LEMMA CampaignInvStep ==
  ASSUME Serialized, CampaignTypeOK, CampaignTypeOK', CampaignInv,
         [CampaignNext]_campaignVars
  PROVE  CampaignInv'
<1>1. ASSUME NEW p \in Agents, run[p] # NoRun
      PROVE  \A q \in Agents : q # p => run[q] = NoRun
  BY <1>1 DEF CampaignInv
<1>2. ASSUME digest' = digest, now' >= now, cmd' = cmd, UNCHANGED <<run, handoff>>
      PROVE  CampaignInv'
  <2>1. \A p \in Agents : RunInv(p)'
    BY <1>2, QuietKeepsRun DEF CampaignInv
  <2>2. QED BY <1>2, <2>1 DEF CampaignInv, HandoffNamesHolder
<1>3. CASE GoalStep
  <2>1. CASE \E p \in Agents : run[p] # NoRun
    <3>1. now' >= now
      BY <1>3, ClockGoesOn DEF GoalStep, CampaignTypeOK
    <3>2. QED BY <1>2, <1>3, <2>1, <3>1 DEF GoalStep
  <2>2. CASE \A p \in Agents : run[p] = NoRun
    <3>1. ASSUME NEW p \in Agents PROVE run'[p] = NoRun /\ RunInv(p)'
      BY <1>3, <2>2
         DEF GoalStep, RunInv, SeenIsOld, ManagedIsAlone, SelectedIsReady, ClaimIsOwn, NoRun
    <3>2. QED BY <1>3, <3>1 DEF GoalStep, CampaignInv, HandoffNamesHolder
  <2>3. QED BY <2>1, <2>2
<1>4. ASSUME NEW p \in Agents, NEW m \in BOOLEAN, StartRun(p, m) PROVE CampaignInv'
  <2>1. run'[p] = Reading("status", m)
    BY <1>4 DEF StartRun, Becomes, CampaignTypeOK
  <2>2. RunInv(p)'
    BY <2>1 DEF RunInv, SeenIsOld, ManagedIsAlone, SelectedIsReady, ClaimIsOwn,
                Reading, Unread
  <2>3. HandoffNamesHolder'
    BY <1>4 DEF StartRun, CampaignInv, HandoffNamesHolder
  <2>4. QED BY <1>4, <2>2, <2>3, OneRunOnly DEF StartRun
<1>5. ASSUME NEW p \in Agents, NEW r, Becomes(p, r), run[p].stage # "none",
             RunInv(p)', HandoffNamesHolder'
      PROVE  CampaignInv'
  <2>1. \A q \in Agents : q # p => run[q] = NoRun
    BY <1>1, <1>5 DEF NoRun
  <2>2. QED BY <1>5, <2>1, OneRunOnly
<1>6. UNCHANGED handoff => HandoffNamesHolder'
  BY DEF CampaignInv, HandoffNamesHolder
<1>7. ASSUME NEW p \in Agents, ReadGoal(p) PROVE CampaignInv'
  BY <1>5, <1>6, <1>7, ReadKeepsRun DEF ReadGoal, CampaignInv
<1>8. ASSUME NEW p \in Agents, Decide(p) PROVE CampaignInv'
  BY <1>5, <1>6, <1>8, DecideKeepsRun DEF Decide, HasRead, CampaignInv
<1>9. ASSUME NEW p \in Agents, Select(p) PROVE CampaignInv'
  <2>1. PICK r : Becomes(p, r)
    BY <1>9 DEF Select
  <2>2. RunInv(p)'
    BY <1>9, SelectKeepsRun DEF CampaignInv
  <2>3. QED BY <1>5, <1>6, <1>9, <2>1, <2>2 DEF Select, HasRead
<1>10. ASSUME NEW p \in Agents, NEW d \in LeaseLengths, RunBeginsClaim(p, d)
       PROVE  CampaignInv'
  BY <1>5, <1>6, <1>10, BeginsClaimKeepsRun DEF RunBeginsClaim, CampaignInv
<1>11. ASSUME NEW p \in Agents, RunClaims(p) PROVE CampaignInv'
  BY <1>5, <1>6, <1>11, ClaimsKeepsRun DEF RunClaims, CampaignInv
<1>12. ASSUME NEW p \in Agents, MakePackage(p) PROVE CampaignInv'
  BY <1>5, <1>6, <1>12, PackageKeepsRun DEF MakePackage, CampaignInv
<1>13. ASSUME NEW p \in Agents, AppendHandoff(p) \/ StopRun(p) PROVE CampaignInv'
  <2>1. run'[p] = NoRun /\ Becomes(p, NoRun) /\ run[p].stage # "none"
    BY <1>13 DEF AppendHandoff, StopRun, Becomes, CampaignTypeOK, Runs, NoRun
  <2>2. RunInv(p)'
    BY <2>1 DEF RunInv, SeenIsOld, ManagedIsAlone, SelectedIsReady, ClaimIsOwn, NoRun
  <2>3. CASE AppendHandoff(p)
    <3>1. run[p].lease.holder = p
      BY <2>3 DEF AppendHandoff, CampaignInv, RunInv, ClaimIsOwn
    <3>2. HandoffNamesHolder'
      BY <2>3, <3>1 DEF AppendHandoff, HandoffNamesHolder
    <3>3. QED BY <1>5, <2>1, <2>2, <3>2
  <2>4. CASE StopRun(p)
    BY <1>5, <1>6, <2>1, <2>2, <2>4 DEF StopRun
  <2>5. QED BY <1>13, <2>3, <2>4
<1>14. CASE UNCHANGED campaignVars
  <2>1. now' >= now
    BY <1>14 DEF campaignVars, CampaignTypeOK, TypeOK
  <2>2. QED BY <1>2, <1>14, <2>1 DEF campaignVars
<1>15. QED
  BY <1>3, <1>4, <1>7, <1>8, <1>9, <1>10, <1>11, <1>12, <1>13, <1>14 DEF CampaignNext

(* A handoff event shows the lease of the agent it names.                  *)
THEOREM HandoffsNameHolders == Serialized => (CampaignSpec => []HandoffNamesHolder)
<1> SUFFICES ASSUME Serialized PROVE CampaignSpec => []HandoffNamesHolder
  OBVIOUS
<1>1. CampaignTypeOK /\ CampaignTypeOK' /\ CampaignInv /\ [CampaignNext]_campaignVars
        => CampaignInv'
  BY CampaignInvStep
<1>2. CampaignInv => HandoffNamesHolder
  BY DEF CampaignInv
<1>3. QED
  BY <1>1, <1>2, CampaignTypeInit, CampaignTypeStep, CampaignInvInit, PTL
     DEF CampaignSpec

(* A run hands out a goal only when all it depends on is verified.         *)
THEOREM DispatchesInOrder == Serialized => (CampaignSpec => DispatchAfterDependencies)
<1> SUFFICES ASSUME Serialized PROVE CampaignSpec => DispatchAfterDependencies
  OBVIOUS
<1>1. CampaignTypeOK /\ CampaignTypeOK' /\ CampaignInv /\ [CampaignNext]_campaignVars
        => CampaignInv'
  BY CampaignInvStep
<1>2. CampaignInv => \A p \in Agents : RunClaims(p) =>
                      \A m \in DependsOn[run[p].node] : digest[m].phase = "verified"
  BY DEF CampaignInv, RunInv, SelectedIsReady, RunClaims
<1>3. QED
  BY <1>1, <1>2, CampaignTypeInit, CampaignTypeStep, CampaignInvInit, PTL
     DEF CampaignSpec, DispatchAfterDependencies

(* A run takes only a goal that nobody is in the middle of.                *)
THEOREM RunsClaimIdleWork == Serialized => (CampaignSpec => RunClaimsIdleWork)
<1> SUFFICES ASSUME Serialized PROVE CampaignSpec => RunClaimsIdleWork
  OBVIOUS
<1>1. CampaignTypeOK /\ CampaignTypeOK' /\ CampaignInv /\ [CampaignNext]_campaignVars
        => CampaignInv'
  BY CampaignInvStep
<1>2. CampaignInv => \A p \in Agents : RunClaims(p) =>
                      Replayed(run[p].node).state \in {"ready", "released"}
  BY DEF CampaignInv, RunInv, SelectedIsReady, RunClaims
<1>3. QED
  BY <1>1, <1>2, CampaignTypeInit, CampaignTypeStep, CampaignInvInit, PTL
     DEF CampaignSpec, RunClaimsIdleWork

(* A managed run claims only when nothing else in the loop is in hand.     *)
THEOREM ManagedRunsAdvanceAlone == Serialized => (CampaignSpec => ManagedAdvancesAlone)
<1> SUFFICES ASSUME Serialized PROVE CampaignSpec => ManagedAdvancesAlone
  OBVIOUS
<1>1. CampaignTypeOK /\ CampaignTypeOK' /\ CampaignInv /\ [CampaignNext]_campaignVars
        => CampaignInv'
  BY CampaignInvStep
<1>2. CampaignInv => \A p \in Agents : RunClaims(p) /\ run[p].managed =>
                      Every(Current, {"verified", "waiting", "ready"})
  BY DEF CampaignInv, RunInv, ManagedIsAlone, Settled, RunClaims
<1>3. QED
  BY <1>1, <1>2, CampaignTypeInit, CampaignTypeStep, CampaignInvInit, PTL
     DEF CampaignSpec, ManagedAdvancesAlone
=============================================================================
