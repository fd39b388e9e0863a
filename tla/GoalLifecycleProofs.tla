------------------------- MODULE GoalLifecycleProofs -------------------------
(***************************************************************************)
(* Proofs about the dp goal commands.  Types and the root-goal properties  *)
(* hold however commands overlap; that a claim excludes other agents, that *)
(* pursuit has a claim, and that the commands implement the abstract lease *)
(* hold when commands do not overlap.                                      *)
(***************************************************************************)
EXTENDS GoalLifecycle, TLAPS

----------------------------------------------------------------------------
(* The digest of a goal's events *)

LEMMA DigestedType ==
  ASSUME NEW d \in Digests, NEW e \in Events(Nat)
  PROVE  Digested(d, e) \in Digests
<1>1. CASE e \in ClaimEvents(Nat)
  <2>1. PICK a \in Agents, x \in Nat : e = Claimed(a, x)
    BY <1>1 DEF ClaimEvents
  <2>2. Digested(d, e) = [phase |-> "claimed", started |-> FALSE, blocked |-> FALSE,
                          claim |-> [holder |-> a, expires |-> x]]
    BY <2>1 DEF Digested, Claimed
  <2>3. QED BY <2>2 DEF Digests, Claims, States, Holders
<1>2. CASE e \in ContactEvents
  <2>1. e.event = "outcome_contact"
    BY <1>2 DEF ContactEvents, Contact
  <2>2. Digested(d, e) = d
    BY <2>1 DEF Digested
  <2>3. QED BY <2>2
<1>3. CASE e \in PlainEvents
  <2>1. PICK k \in PlainKinds : e = Plain(k)
    BY <1>3 DEF PlainEvents
  <2>2. e.event = k
    BY <2>1 DEF Plain
  <2>3. NoClaim \in Claims
    BY DEF NoClaim, Claims, Holders
  <2>4. d.phase \in States /\ d.claim \in Claims /\ d.started \in BOOLEAN
        /\ d.blocked \in BOOLEAN
        /\ d = [phase |-> d.phase, claim |-> d.claim, started |-> d.started,
                blocked |-> d.blocked]
    BY DEF Digests
  <2>5. CASE k \in {"started", "heartbeat"}
    BY <2>2, <2>4, <2>5 DEF Digested, Digests, States
  <2>6. CASE k \in {"blocked", "evidence_pending"}
    BY <2>2, <2>4, <2>6 DEF Digested, Digests, States
  <2>7. CASE k \in {"released", "verified", "ratified"}
    BY <2>2, <2>3, <2>4, <2>7 DEF Digested, Digests, States
  <2>8. QED BY <2>5, <2>6, <2>7 DEF PlainKinds
<1>4. QED BY <1>1, <1>2, <1>3 DEF Events

(* The lease check of the code reads the replayed lease; it finds exactly  *)
(* the holder whose claim has not expired.                                 *)
LEMMA LiveHolderOfView ==
  ASSUME NEW d \in Digests, NEW t \in Nat
  PROVE  LiveHolder(View(d, t)) = Holder(d, t)
BY NobodyIsNoAgent
   DEF LiveHolder, View, Holder, Expired, NoLease, Digests, Claims

(* Only claims, releases and verifications touch the claim.                *)
LEMMA OtherEventsKeepClaim ==
  ASSUME NEW d \in Digests,
         NEW k \in {"started", "heartbeat", "blocked", "evidence_pending"}
  PROVE  Digested(d, Plain(k)).claim = d.claim
BY DEF Digested, Plain, Digests

LEMMA ReleaseDropsClaim ==
  ASSUME NEW d \in Digests, NEW k \in {"released", "verified"}
  PROVE  Digested(d, Plain(k)).claim = NoClaim
BY DEF Digested, Plain, Digests

LEMMA ClaimSetsClaim ==
  ASSUME NEW d \in Digests, NEW a \in Agents, NEW x \in Nat
  PROVE  Digested(d, Claimed(a, x)).claim = [holder |-> a, expires |-> x]
BY DEF Digested, Claimed

----------------------------------------------------------------------------
(* Types *)

LEMMA TypeInit == Init => TypeOK
BY NobodyIsNoAgent, RootsAreGoals
   DEF Init, TypeOK, Digests, EmptyDigest, States, Claims, NoClaim, Holders,
       Authorships, Commands, Idle

LEMMA TypeStep == TypeOK /\ [Next]_vars => TypeOK'
<1> SUFFICES ASSUME TypeOK, [Next]_vars PROVE TypeOK'
  OBVIOUS
<1> USE DEF TypeOK
<1>0. ASSUME NEW g \in Goals, NEW e \in Events(Nat), LogEvent(g, e)
      PROVE  digest' \in [Goals -> Digests]
  BY <1>0, DigestedType DEF LogEvent
<1>1. ASSUME NEW p \in Agents, NEW g \in Goals, NEW d \in LeaseLengths,
             BeginClaim(p, g, d)
      PROVE  TypeOK'
  <2>1. now + d \in Nat
    BY LeasesAreFinite
  <2>2. QED BY <1>1, <2>1 DEF BeginClaim, Commands
<1>2. ASSUME NEW p \in Agents, NEW g \in Goals,
             BeginStart(p, g) \/ BeginHeartbeat(p, g)
      PROVE  TypeOK'
  BY <1>2 DEF BeginStart, BeginHeartbeat, Commands
<1>3. ASSUME NEW p \in Agents, NEW g \in Goals, BeginRatify(p, g)
      PROVE  TypeOK'
  BY <1>3 DEF BeginRatify, Commands
<1>3w. ASSUME NEW p \in Agents, WriteRatify(p)
       PROVE  TypeOK'
  <2>1. cmd[p].goal \in Goals
    BY <1>3w DEF WriteRatify, Commands, Idle
  <2>2. QED BY <1>3w, <2>1 DEF WriteRatify, Commands, Authorships
<1>4. ASSUME NEW p \in Agents, NEW g \in Goals,
             \/ BlockGoal(p, g) \/ ReleaseGoal(p, g)
             \/ CompleteGoal(p, g) \/ VerifyGoal(p, g)
      PROVE  TypeOK'
  <2>1. PICK k \in PlainKinds : AppendOnly(p, g, k)
    BY <1>4 DEF BlockGoal, ReleaseGoal, CompleteGoal, VerifyGoal, PlainKinds
  <2>2. Plain(k) \in Events(Nat)
    BY DEF Events, PlainEvents
  <2>3. digest' \in [Goals -> Digests]
    BY <1>0, <2>1, <2>2 DEF AppendOnly
  <2>4. QED BY <2>1, <2>3 DEF AppendOnly
<1>5. ASSUME NEW p \in Agents, FinishClaim(p)
      PROVE  TypeOK'
  <2>1. cmd[p].goal \in Goals /\ cmd[p].expires \in Nat
    BY <1>5 DEF FinishClaim, Commands, Idle
  <2>2. Claimed(p, cmd[p].expires) \in Events(Nat)
    BY <2>1 DEF Events, ClaimEvents
  <2>3. digest' \in [Goals -> Digests]
    BY <1>0, <1>5, <2>1, <2>2 DEF FinishClaim
  <2>4. QED BY <1>5, <2>3 DEF FinishClaim, Finished, Commands
<1>6. ASSUME NEW p \in Agents, FinishStart(p) \/ FinishHeartbeat(p)
      PROVE  TypeOK'
  <2>1. cmd[p].goal \in Goals
    BY <1>6 DEF FinishStart, FinishHeartbeat, Commands, Idle
  <2>2. Plain("started") \in Events(Nat) /\ Plain("heartbeat") \in Events(Nat)
    BY DEF Events, PlainEvents, PlainKinds
  <2>3. digest' \in [Goals -> Digests]
    BY <1>0, <1>6, <2>1, <2>2 DEF FinishStart, FinishHeartbeat
  <2>4. QED BY <1>6, <2>3 DEF FinishStart, FinishHeartbeat, Finished, Commands
<1>7. ASSUME NEW p \in Agents, FinishRatify(p)
      PROVE  TypeOK'
  <2>1. cmd[p].goal \in Goals
    BY <1>7 DEF FinishRatify, Commands, Idle
  <2>2. QED BY <1>7, <2>1 DEF FinishRatify, Finished, Commands
<1>8. ASSUME NEW p \in Agents, Crash(p)
      PROVE  TypeOK'
  BY <1>8 DEF Crash, Finished, Commands
<1>9. ASSUME NEW g \in Roots, NEW a \in Authorships, SaveAuthorship(g, a)
      PROVE  TypeOK'
  BY <1>9, RootsAreGoals DEF SaveAuthorship
<1>10. CASE Tick
  BY <1>10 DEF Tick
<1>11. CASE UNCHANGED vars
  BY <1>11 DEF vars
<1>12. QED
  BY <1>1, <1>2, <1>3, <1>3w, <1>4, <1>5, <1>6, <1>7, <1>8, <1>9, <1>10, <1>11 DEF Next

(* The files, the log's digest and the commands in flight keep their       *)
(* shape, however commands overlap and whoever crashes.                    *)
THEOREM TypesHold == Spec => []TypeOK
BY TypeInit, TypeStep, PTL DEF Spec

----------------------------------------------------------------------------
(* Proposed roots, however commands overlap *)

LEMMA RootInit == Init => UnratifiedRootIdle
BY DEF Init, UnratifiedRootIdle, EmptyDigest, NoClaim, Idle

LEMMA RootStep ==
  TypeOK /\ UnratifiedRootIdle /\ [Next]_vars => UnratifiedRootIdle'
<1> SUFFICES ASSUME TypeOK, UnratifiedRootIdle, [Next]_vars,
                    NEW g \in Goals \ undone', authorship'[g] = "agent_derived"
             PROVE  /\ digest'[g].claim.holder = Nobody
                    /\ digest'[g].phase \notin {"claimed", "started", "pursuing"}
                    /\ \A p \in Agents : cmd'[p].op \in {"claim", "start", "heartbeat"}
                                           => cmd'[p].goal # g
  BY DEF UnratifiedRootIdle
<1>a. authorship[g] = "agent_derived" /\ g \notin undone
  <2>1. CASE UNCHANGED <<authorship, undone>>
    BY <2>1
  <2>2. ASSUME NEW h \in Roots, NEW a \in Authorships, SaveAuthorship(h, a)
        PROVE  authorship[g] = "agent_derived" /\ g \notin undone
    BY <2>2 DEF SaveAuthorship, TypeOK
  <2>3. ASSUME NEW p \in Agents, WriteRatify(p)
        PROVE  authorship[g] = "agent_derived" /\ g \notin undone
    BY <2>3 DEF WriteRatify, TypeOK
  <2>4. QED
    BY <2>1, <2>2, <2>3
       DEF Next, vars, BeginClaim, BeginStart, BeginHeartbeat, BeginRatify,
           BlockGoal, ReleaseGoal, CompleteGoal, VerifyGoal, AppendOnly, FinishClaim,
           FinishStart, FinishHeartbeat, FinishRatify, Crash, Tick
<1>b. /\ digest[g].claim.holder = Nobody
      /\ digest[g].phase \notin {"claimed", "started", "pursuing"}
      /\ \A p \in Agents : cmd[p].op \in {"claim", "start", "heartbeat"}
                             => cmd[p].goal # g
  BY <1>a DEF UnratifiedRootIdle
<1>c. digest[g] \in Digests /\ now \in Nat
  BY DEF TypeOK
<1> DEFINE Here(p) == /\ cmd[p].op \in {"claim", "start", "heartbeat"}
                      /\ cmd[p].goal = g
<1>1. ASSUME NEW p \in Agents, NEW h \in Goals, NEW d \in LeaseLengths,
             BeginClaim(p, h, d)
      PROVE  h # g /\ UNCHANGED digest /\ cmd' = [cmd EXCEPT ![p] = cmd'[p]]
             /\ cmd'[p].goal = h
  BY <1>1, <1>a DEF BeginClaim, RefusedRoot, TypeOK
<1>2. ASSUME NEW p \in Agents, NEW h \in Goals, BeginStart(p, h)
      PROVE  h # g /\ UNCHANGED digest /\ cmd' = [cmd EXCEPT ![p] = cmd'[p]]
             /\ cmd'[p].goal = h
  BY <1>2, <1>a DEF BeginStart, RefusedRoot, TypeOK
<1>3. ASSUME NEW p \in Agents, NEW h \in Goals, BeginHeartbeat(p, h)
      PROVE  h # g /\ UNCHANGED digest /\ cmd' = [cmd EXCEPT ![p] = cmd'[p]]
             /\ cmd'[p].goal = h
  <2>1. LiveHolder(Replayed(g)) = Nobody
    BY <1>b, <1>c, LiveHolderOfView DEF Replayed, Holder
  <2>2. QED BY <1>3, <2>1 DEF BeginHeartbeat, MayHeartbeat, TypeOK
<1>4. ASSUME NEW p \in Agents, NEW h \in Goals, BeginRatify(p, h)
      PROVE  UNCHANGED digest /\ cmd' = [cmd EXCEPT ![p] = cmd'[p]]
             /\ cmd'[p].op = "ratify"
  BY <1>4 DEF BeginRatify, TypeOK
<1>4w. ASSUME NEW p \in Agents, WriteRatify(p)
       PROVE  UNCHANGED digest /\ cmd' = [cmd EXCEPT ![p] = cmd'[p]]
              /\ cmd'[p].op = "record"
  BY <1>4w DEF WriteRatify, TypeOK
<1>5. ASSUME NEW p \in Agents, NEW h \in Goals,
             NEW k \in {"blocked", "released", "evidence_pending", "verified"},
             AppendOnly(p, h, k)
      PROVE  /\ digest'[g].claim.holder = Nobody
             /\ digest'[g].phase \notin {"claimed", "started", "pursuing"}
             /\ UNCHANGED cmd
  <2>1. Digested(digest[g], Plain(k)).phase = k
    BY <1>c DEF Digested, Plain, Digests
  <2>2. Digested(digest[g], Plain(k)).claim \in {digest[g].claim, NoClaim}
    BY OtherEventsKeepClaim, ReleaseDropsClaim, <1>c
  <2>3. CASE h = g
    BY <1>5, <1>b, <2>1, <2>2, <2>3 DEF AppendOnly, LogEvent, TypeOK, NoClaim
  <2>4. CASE h # g
    BY <1>5, <1>b, <2>4 DEF AppendOnly, LogEvent, TypeOK
  <2>5. QED BY <1>5, <2>3, <2>4 DEF AppendOnly
<1>6. ASSUME NEW p \in Agents, FinishClaim(p) \/ FinishStart(p) \/ FinishHeartbeat(p)
      PROVE  digest'[g] = digest[g] /\ cmd' = [cmd EXCEPT ![p] = Idle]
  <2>1. cmd[p].goal # g
    BY <1>6, <1>b DEF FinishClaim, FinishStart, FinishHeartbeat
  <2>2. QED BY <1>6, <2>1
              DEF FinishClaim, FinishStart, FinishHeartbeat, LogEvent, Finished, TypeOK
<1>7. ASSUME NEW p \in Agents, FinishRatify(p) \/ Crash(p)
      PROVE  UNCHANGED digest /\ cmd' = [cmd EXCEPT ![p] = Idle]
  BY <1>7 DEF FinishRatify, Crash, Finished
<1>8. CASE \/ \E h \in Roots, a \in Authorships : SaveAuthorship(h, a)
           \/ Tick \/ UNCHANGED vars
  BY <1>8, <1>b DEF SaveAuthorship, Tick, vars
<1>9. ASSUME UNCHANGED digest, NEW p \in Agents, cmd' = [cmd EXCEPT ![p] = cmd'[p]],
             cmd'[p].op \in {"claim", "start", "heartbeat"} => cmd'[p].goal # g
      PROVE  /\ digest'[g].claim.holder = Nobody
             /\ digest'[g].phase \notin {"claimed", "started", "pursuing"}
             /\ \A q \in Agents : cmd'[q].op \in {"claim", "start", "heartbeat"}
                                    => cmd'[q].goal # g
  <2>1. ASSUME NEW q \in Agents, q # p PROVE cmd'[q] = cmd[q]
    BY <1>9, <2>1 DEF TypeOK
  <2>2. QED BY <1>9, <1>b, <2>1
<1>10. ASSUME NEW p \in Agents, cmd' = [cmd EXCEPT ![p] = Idle]
       PROVE  \A q \in Agents : cmd'[q].op \in {"claim", "start", "heartbeat"}
                                  => cmd'[q].goal # g
  BY <1>10, <1>b DEF TypeOK, Idle
<1>11. CASE \E p \in Agents, h \in Goals, d \in LeaseLengths : BeginClaim(p, h, d)
  BY <1>11, <1>1, <1>9
<1>12. CASE \E p \in Agents, h \in Goals : BeginStart(p, h)
  BY <1>12, <1>2, <1>9
<1>13. CASE \E p \in Agents, h \in Goals : BeginHeartbeat(p, h)
  BY <1>13, <1>3, <1>9
<1>14. CASE \E p \in Agents, h \in Goals : BeginRatify(p, h)
  BY <1>14, <1>4, <1>9
<1>14w. CASE \E p \in Agents : WriteRatify(p)
  BY <1>14w, <1>4w, <1>9
<1>15. CASE \E p \in Agents, h \in Goals :
              \/ BlockGoal(p, h) \/ ReleaseGoal(p, h)
              \/ CompleteGoal(p, h) \/ VerifyGoal(p, h)
  BY <1>15, <1>5, <1>b DEF BlockGoal, ReleaseGoal, CompleteGoal, VerifyGoal
<1>16. CASE \E p \in Agents : FinishClaim(p) \/ FinishStart(p) \/ FinishHeartbeat(p)
  BY <1>16, <1>6, <1>10, <1>b
<1>17. CASE \E p \in Agents : FinishRatify(p) \/ Crash(p)
  BY <1>17, <1>7, <1>10, <1>b
<1>18. QED
  BY <1>8, <1>11, <1>12, <1>13, <1>14, <1>14w, <1>15, <1>16, <1>17 DEF Next

(* While an agent-proposed root awaits its owner, nobody claims, starts or *)
(* pursues it, though commands overlap and die between their two steps;    *)
(* only a goal that a save turned back into one may be in work.            *)
THEOREM RootsStayIdle == Spec => []UnratifiedRootIdle
BY TypeInit, TypeStep, RootInit, RootStep, PTL DEF Spec

(* What ratify has written stays written until a save takes it out, the    *)
(* event appended or not: a ratification in flight has flipped the file.   *)
RatifyInv ==
  /\ \A g \in ratified \ undone : authorship[g] = "owner_ratified"
  /\ \A p \in Agents : cmd[p].op = "record" /\ cmd[p].goal \notin undone
                         => authorship[cmd[p].goal] = "owner_ratified"

LEMMA RatifyInit == Init => RatifyInv
BY DEF Init, RatifyInv, Idle

LEMMA RatifyStep == TypeOK /\ RatifyInv /\ [Next]_vars => RatifyInv'
<1> SUFFICES ASSUME TypeOK, RatifyInv, [Next]_vars PROVE RatifyInv'
  OBVIOUS
<1> USE DEF TypeOK, RatifyInv
<1>1. ASSUME NEW p \in Agents, NEW g \in Goals, NEW d \in LeaseLengths,
             BeginClaim(p, g, d)
      PROVE  RatifyInv'
  BY <1>1 DEF BeginClaim
<1>2. ASSUME NEW p \in Agents, NEW g \in Goals, BeginStart(p, g) \/ BeginHeartbeat(p, g)
      PROVE  RatifyInv'
  BY <1>2 DEF BeginStart, BeginHeartbeat
<1>3. ASSUME NEW p \in Agents, NEW g \in Goals, BeginRatify(p, g)
      PROVE  RatifyInv'
  BY <1>3 DEF BeginRatify
<1>3w. ASSUME NEW p \in Agents, WriteRatify(p)
       PROVE  RatifyInv'
  <2>1. \A q \in Agents : cmd[q].op \in {"ratify", "record"} => cmd[q].goal \in Goals
    BY DEF Commands, Idle
  <2>2. QED BY <1>3w, <2>1 DEF WriteRatify
<1>4. ASSUME NEW p \in Agents, NEW g \in Goals, NEW k \in PlainKinds, AppendOnly(p, g, k)
      PROVE  RatifyInv'
  BY <1>4 DEF AppendOnly
<1>5. ASSUME NEW p \in Agents,
             \/ FinishClaim(p) \/ FinishStart(p) \/ FinishHeartbeat(p)
             \/ FinishRatify(p) \/ Crash(p)
      PROVE  RatifyInv'
  BY <1>5 DEF FinishClaim, FinishStart, FinishHeartbeat, FinishRatify, Crash,
              Finished, Idle
<1>6. ASSUME NEW g \in Roots, NEW a \in Authorships, SaveAuthorship(g, a)
      PROVE  RatifyInv'
  BY <1>6 DEF SaveAuthorship
<1>7. CASE Tick \/ UNCHANGED vars
  BY <1>7 DEF Tick, vars
<1>8. QED
  BY <1>1, <1>2, <1>3, <1>3w, <1>4, <1>5, <1>6, <1>7
     DEF Next, BlockGoal, ReleaseGoal, CompleteGoal, VerifyGoal, PlainKinds

(* A ratification of the log keeps its mark, however commands overlap and  *)
(* die, until a save takes it out.                                         *)
LEMMA MarksAreKept == Spec => []RatifyInv
BY TypeInit, TypeStep, RatifyInit, RatifyStep, PTL DEF Spec

----------------------------------------------------------------------------
(* Claims, when commands do not overlap: a command in flight is alone, so  *)
(* the lease it checked is still there, or has expired, when it appends;   *)
(* and every step changes the claim of at most one goal (ClaimStep), which *)
(* is all the lease and the exclusion look at.                             *)

(* The inductive invariant: one command in flight, whose check still holds.*)
SerialInv ==
  /\ \A p, q \in Agents : cmd[p] # Idle /\ cmd[q] # Idle => p = q
  /\ \A p \in Agents : cmd[p].op = "claim" => HolderOf(cmd[p].goal) \in {Nobody, p}
  /\ \A p \in Agents :
       cmd[p].op = "heartbeat" => digest[cmd[p].goal].claim.holder # Nobody
  /\ PursuingHasClaim

ClaimOf(g) == digest[g].claim

(* What a step does to the claims. *)
Granted(g, p, x) == /\ HolderOf(g) \in {Nobody, p}
                    /\ digest'[g].claim = [holder |-> p, expires |-> x]
Dropped(g) == digest'[g].claim = NoClaim
OthersKept(g) == \A h \in Goals : h # g => digest'[h].claim = digest[h].claim
ClaimStep ==
  \/ /\ UNCHANGED now
     /\ \E g \in Goals : /\ OthersKept(g)
                         /\ \/ \E p \in Agents, x \in Nat : Granted(g, p, x)
                            \/ Dropped(g)
  \/ /\ UNCHANGED now
     /\ \A g \in Goals : digest'[g].claim = digest[g].claim
  \/ now' = now + 1 /\ UNCHANGED digest

LEMMA HolderIsHolder ==
  ASSUME TypeOK, NEW g \in Goals PROVE HolderOf(g) \in Holders
BY DEF TypeOK, HolderOf, Holder, Digests, Claims, Holders

LEMMA LoggedElsewhere ==
  ASSUME TypeOK, NEW g \in Goals, NEW e, LogEvent(g, e)
  PROVE  /\ digest'[g] = Digested(digest[g], e)
         /\ \A h \in Goals : h # g => digest'[h] = digest[h]
BY DEF TypeOK, LogEvent

LEMMA ClaimsStep == TypeOK /\ SerialInv /\ [Next]_vars => ClaimStep
<1> SUFFICES ASSUME TypeOK, SerialInv, [Next]_vars PROVE ClaimStep
  OBVIOUS
<1>a. \A g \in Goals : digest[g] \in Digests
  BY DEF TypeOK
<1>1. ASSUME NEW p \in Agents, NEW g \in Goals,
             NEW k \in {"blocked", "released", "evidence_pending", "verified"},
             AppendOnly(p, g, k)
      PROVE  ClaimStep
  <2>1. /\ digest'[g] = Digested(digest[g], Plain(k))
        /\ \A h \in Goals : h # g => digest'[h] = digest[h]
    BY <1>1, LoggedElsewhere DEF AppendOnly
  <2>2. CASE k \in {"released", "verified"}
    BY <1>1, <1>a, <2>1, <2>2, ReleaseDropsClaim
       DEF AppendOnly, ClaimStep, Dropped, OthersKept
  <2>3. CASE k \in {"blocked", "evidence_pending"}
    BY <1>1, <1>a, <2>1, <2>3, OtherEventsKeepClaim DEF AppendOnly, ClaimStep
  <2>4. QED BY <2>2, <2>3
<1>2. ASSUME NEW p \in Agents, FinishClaim(p)
      PROVE  ClaimStep
  <2> DEFINE g == cmd[p].goal
             x == cmd[p].expires
  <2>1. g \in Goals /\ x \in Nat
    BY <1>2 DEF FinishClaim, TypeOK, Commands, Idle
  <2>2. /\ digest'[g] = Digested(digest[g], Claimed(p, x))
        /\ \A h \in Goals : h # g => digest'[h] = digest[h]
    BY <1>2, <2>1, LoggedElsewhere DEF FinishClaim
  <2>3. digest'[g].claim = [holder |-> p, expires |-> x]
    BY <1>a, <2>1, <2>2, ClaimSetsClaim
  <2>4. HolderOf(g) \in {Nobody, p}
    BY <1>2 DEF FinishClaim, SerialInv
  <2>5. Granted(g, p, x)
    BY <2>3, <2>4 DEF Granted
  <2>6. OthersKept(g)
    BY <2>2 DEF OthersKept
  <2> HIDE DEF g, x
  <2>7. QED BY <1>2, <2>1, <2>5, <2>6 DEF FinishClaim, ClaimStep
<1>3. ASSUME NEW p \in Agents, FinishStart(p) \/ FinishHeartbeat(p)
      PROVE  ClaimStep
  <2>1. cmd[p].goal \in Goals
    BY <1>3 DEF FinishStart, FinishHeartbeat, TypeOK, Commands, Idle
  <2>2. PICK k \in {"started", "heartbeat"} : LogEvent(cmd[p].goal, Plain(k))
    BY <1>3 DEF FinishStart, FinishHeartbeat
  <2>3. \A h \in Goals : digest'[h].claim = digest[h].claim
    BY <1>a, <2>1, <2>2, LoggedElsewhere, OtherEventsKeepClaim
  <2>4. QED BY <1>3, <2>3 DEF FinishStart, FinishHeartbeat, ClaimStep
<1>4. ASSUME UNCHANGED <<now, digest>>
      PROVE  ClaimStep
  BY <1>4 DEF ClaimStep
<1>5. CASE Tick
  BY <1>5 DEF Tick, ClaimStep
<1>6. CASE \E p \in Agents : WriteRatify(p) \/ FinishRatify(p) \/ Crash(p)
  BY <1>4, <1>6 DEF WriteRatify, FinishRatify, Crash
<1>7. CASE \E g \in Roots, a \in Authorships : SaveAuthorship(g, a)
  BY <1>4, <1>7 DEF SaveAuthorship
<1>8. CASE UNCHANGED vars
  BY <1>4, <1>8 DEF vars
<1>9. CASE \E p \in Agents, g \in Goals, d \in LeaseLengths : BeginClaim(p, g, d)
  BY <1>4, <1>9 DEF BeginClaim
<1>10. CASE \E p \in Agents, g \in Goals :
              BeginStart(p, g) \/ BeginHeartbeat(p, g) \/ BeginRatify(p, g)
  BY <1>4, <1>10 DEF BeginStart, BeginHeartbeat, BeginRatify
<1>11. QED
  BY <1>1, <1>2, <1>3, <1>5, <1>6, <1>7, <1>8, <1>9, <1>10
     DEF Next, BlockGoal, ReleaseGoal, CompleteGoal, VerifyGoal

LEMMA ClaimStepExcludes ==
  ASSUME TypeOK, ClaimStep, NEW g \in Goals, HolderOf(g) # Nobody
  PROVE  HolderOf(g)' \in {HolderOf(g), Nobody}
<1>1. digest[g] \in Digests /\ now \in Nat
  BY DEF TypeOK
<1>2. CASE now' = now + 1 /\ UNCHANGED digest
  BY <1>1, <1>2 DEF HolderOf, Holder, Expired, Digests, Claims
<1>3. CASE UNCHANGED now /\ digest'[g].claim = digest[g].claim
  BY <1>3 DEF HolderOf, Holder, Expired
<1>4. ASSUME UNCHANGED now, NEW p \in Agents, NEW x \in Nat, Granted(g, p, x)
      PROVE  HolderOf(g)' \in {HolderOf(g), Nobody}
  <2>1. HolderOf(g) = p
    BY <1>4 DEF Granted
  <2>2. HolderOf(g)' \in {p, Nobody}
    BY <1>4 DEF Granted, HolderOf, Holder, Expired
  <2>3. QED BY <2>1, <2>2
<1>5. CASE UNCHANGED now /\ Dropped(g)
  BY <1>5 DEF Dropped, HolderOf, Holder, Expired, NoClaim
<1>6. QED BY <1>2, <1>3, <1>4, <1>5 DEF ClaimStep, OthersKept

----------------------------------------------------------------------------
(* The invariant is inductive *)

LEMMA SerialInit == Init => SerialInv
BY DEF Init, SerialInv, PursuingHasClaim, EmptyDigest, Idle

LEMMA SerialStep ==
  Serialized /\ TypeOK /\ SerialInv /\ [Next]_vars => SerialInv'
<1> SUFFICES ASSUME Serialized, TypeOK, SerialInv, [Next]_vars PROVE SerialInv'
  OBVIOUS
<1>t. /\ now \in Nat
      /\ \A g \in Goals : digest[g] \in Digests
      /\ \A p \in Agents : cmd[p].op \in {"claim", "start", "heartbeat", "ratify", "record"}
                             => cmd[p].goal \in Goals
  BY DEF TypeOK, Commands, Idle
<1>n. \A p \in Agents : cmd[p].op \in {"claim", "heartbeat", "start", "ratify", "record"}
                          => cmd[p] # Idle
  BY DEF Idle
(* Starting a command: everyone is idle, and its check holds now.          *)
<1>1. ASSUME NEW p \in Agents, NEW g \in Goals, Ready(p),
             UNCHANGED <<now, digest>>, cmd' = [cmd EXCEPT ![p] = cmd'[p]],
             cmd'[p].goal = g,
             cmd'[p].op = "claim" => MayTake(p, Replayed(g)),
             cmd'[p].op = "heartbeat" => MayHeartbeat(Replayed(g))
      PROVE  SerialInv'
  <2>1. \A q \in Agents : q # p => cmd'[q] = Idle
    BY <1>1 DEF Ready, TypeOK
  <2>2. LiveHolder(Replayed(g)) = HolderOf(g)
    BY <1>t, LiveHolderOfView DEF Replayed, HolderOf
  <2>3. cmd'[p].op = "claim" => HolderOf(g)' \in {Nobody, p}
    BY <1>1, <2>2 DEF MayTake, HolderOf
  <2>4. cmd'[p].op = "heartbeat" => digest'[g].claim.holder # Nobody
    BY <1>1, <2>2 DEF MayHeartbeat, HolderOf, Holder
  <2>5. PursuingHasClaim'
    BY <1>1 DEF SerialInv, PursuingHasClaim
  <2>6. QED BY <1>1, <2>1, <2>3, <2>4, <2>5 DEF SerialInv, Idle
(* Appending without a command in flight.                                  *)
<1>2. ASSUME NEW p \in Agents, NEW g \in Goals,
             NEW k \in {"blocked", "released", "evidence_pending", "verified"},
             AppendOnly(p, g, k)
      PROVE  SerialInv'
  <2>1. \A q \in Agents : cmd'[q] = Idle
    BY <1>2 DEF AppendOnly, Ready
  <2>2. digest'[g] = Digested(digest[g], Plain(k))
        /\ \A h \in Goals : h # g => digest'[h] = digest[h]
    BY <1>2, LoggedElsewhere DEF AppendOnly
  <2>3. digest'[g].phase = k
    BY <1>t, <2>2 DEF Digested, Plain, Digests
  <2>4. PursuingHasClaim'
    BY <2>2, <2>3 DEF SerialInv, PursuingHasClaim
  <2>5. QED BY <2>1, <2>4 DEF SerialInv, Idle
(* Finishing a command leaves none in flight.                              *)
<1>3. ASSUME NEW p \in Agents, cmd[p] # Idle, cmd' = [cmd EXCEPT ![p] = Idle]
      PROVE  \A q \in Agents : cmd'[q] = Idle
  BY <1>3 DEF TypeOK, SerialInv
<1>4. ASSUME NEW p \in Agents,
             FinishClaim(p) \/ FinishStart(p) \/ FinishHeartbeat(p)
      PROVE  SerialInv'
  <2>1. \A q \in Agents : cmd'[q] = Idle
    BY <1>3, <1>4, <1>n DEF FinishClaim, FinishStart, FinishHeartbeat, Finished
  <2>2. cmd[p].goal \in Goals
    BY <1>4, <1>t DEF FinishClaim, FinishStart, FinishHeartbeat
  <2>3. CASE FinishClaim(p) \/ FinishStart(p)
    <3>1. PICK e : /\ LogEvent(cmd[p].goal, e)
                   /\ e.event \in {"claimed", "started"}
      BY <2>3 DEF FinishClaim, FinishStart, Claimed, Plain
    <3>2. digest'[cmd[p].goal] = Digested(digest[cmd[p].goal], e)
          /\ \A h \in Goals : h # cmd[p].goal => digest'[h] = digest[h]
      BY <2>2, <3>1, LoggedElsewhere
    <3>3. digest'[cmd[p].goal].phase # "pursuing"
      BY <1>t, <2>2, <3>1, <3>2 DEF Digested, Digests
    <3>4. PursuingHasClaim'
      BY <3>2, <3>3 DEF SerialInv, PursuingHasClaim
    <3>5. QED BY <2>1, <3>4 DEF SerialInv, Idle
  <2>4. CASE FinishHeartbeat(p)
    <3>1. digest'[cmd[p].goal] = Digested(digest[cmd[p].goal], Plain("heartbeat"))
          /\ \A h \in Goals : h # cmd[p].goal => digest'[h] = digest[h]
      BY <2>2, <2>4, LoggedElsewhere DEF FinishHeartbeat
    <3>2. digest'[cmd[p].goal].claim.holder # Nobody
      BY <1>t, <2>2, <2>4, <3>1, OtherEventsKeepClaim DEF FinishHeartbeat, SerialInv
    <3>3. PursuingHasClaim'
      BY <3>1, <3>2 DEF SerialInv, PursuingHasClaim
    <3>4. QED BY <2>1, <3>3 DEF SerialInv, Idle
  <2>5. QED BY <1>4, <2>3, <2>4
<1>5. ASSUME NEW p \in Agents, FinishRatify(p) \/ Crash(p)
      PROVE  SerialInv'
  <2>1. \A q \in Agents : cmd'[q] = Idle
    BY <1>3, <1>5, <1>n DEF FinishRatify, Crash, Finished
  <2>2. PursuingHasClaim'
    BY <1>5 DEF FinishRatify, Crash, SerialInv, PursuingHasClaim
  <2>3. QED BY <2>1, <2>2 DEF SerialInv, Idle
<1>5w. ASSUME NEW p \in Agents, WriteRatify(p)
       PROVE  SerialInv'
  <2>1. cmd'[p].op = "record" /\ UNCHANGED <<now, digest>> /\ cmd[p] # Idle
    BY <1>5w, <1>n DEF WriteRatify, TypeOK
  <2>2. \A q \in Agents : q # p => cmd'[q] = cmd[q] /\ cmd[q] = Idle
    BY <1>5w, <2>1 DEF WriteRatify, TypeOK, SerialInv
  <2>3. PursuingHasClaim'
    BY <2>1 DEF SerialInv, PursuingHasClaim
  <2>4. QED BY <2>1, <2>2, <2>3 DEF SerialInv, Idle
(* The clock only frees goals.                                             *)
<1>6. CASE Tick
  <2>1. \A g \in Goals : HolderOf(g)' \in {HolderOf(g), Nobody}
    BY <1>6, <1>t DEF Tick, HolderOf, Holder, Expired, Digests, Claims
  <2>2. UNCHANGED <<cmd, digest>>
    BY <1>6 DEF Tick
  <2>3. ASSUME NEW p \in Agents, cmd'[p].op = "claim"
        PROVE  HolderOf(cmd[p].goal)' \in {Nobody, p}
    <3>1. cmd[p].goal \in Goals /\ HolderOf(cmd[p].goal) \in {Nobody, p}
      BY <1>t, <2>2, <2>3 DEF SerialInv
    <3>2. QED BY <2>1, <2>2, <3>1 DEF HolderOf
  <2>4. QED BY <2>2, <2>3 DEF SerialInv, PursuingHasClaim
<1>7. CASE (\E g \in Roots, a \in Authorships : SaveAuthorship(g, a)) \/ UNCHANGED vars
  BY <1>7 DEF SaveAuthorship, vars, SerialInv, PursuingHasClaim, HolderOf
<1>8. CASE \E p \in Agents, g \in Goals, d \in LeaseLengths : BeginClaim(p, g, d)
  <2>1. PICK p \in Agents, g \in Goals, d \in LeaseLengths : BeginClaim(p, g, d)
    BY <1>8
  <2>2. cmd'[p] = [op |-> "claim", goal |-> g, expires |-> now + d]
    BY <2>1 DEF BeginClaim, TypeOK
  <2>3. cmd' = [cmd EXCEPT ![p] = cmd'[p]]
    BY <2>1, <2>2 DEF BeginClaim
  <2>4. /\ Ready(p) /\ UNCHANGED <<now, digest>> /\ MayTake(p, Replayed(g))
        /\ cmd'[p].goal = g /\ cmd'[p].op = "claim"
    BY <2>1, <2>2 DEF BeginClaim
  <2>5. QED BY <1>1, <2>3, <2>4
<1>9. CASE \E p \in Agents, g \in Goals :
             BeginStart(p, g) \/ BeginHeartbeat(p, g) \/ BeginRatify(p, g)
  <2>1. PICK p \in Agents, g \in Goals :
               BeginStart(p, g) \/ BeginHeartbeat(p, g) \/ BeginRatify(p, g)
    BY <1>9
  <2>2. CASE BeginStart(p, g)
    <3>1. cmd'[p] = [op |-> "start", goal |-> g]
      BY <2>2 DEF BeginStart, TypeOK
    <3>2. cmd' = [cmd EXCEPT ![p] = cmd'[p]]
      BY <2>2, <3>1 DEF BeginStart
    <3>3. /\ Ready(p) /\ UNCHANGED <<now, digest>>
          /\ cmd'[p].goal = g /\ cmd'[p].op = "start"
      BY <2>2, <3>1 DEF BeginStart
    <3>4. QED BY <1>1, <3>2, <3>3
  <2>3. CASE BeginHeartbeat(p, g)
    <3>1. cmd'[p] = [op |-> "heartbeat", goal |-> g]
      BY <2>3 DEF BeginHeartbeat, TypeOK
    <3>2. cmd' = [cmd EXCEPT ![p] = cmd'[p]]
      BY <2>3, <3>1 DEF BeginHeartbeat
    <3>3. /\ Ready(p) /\ UNCHANGED <<now, digest>> /\ MayHeartbeat(Replayed(g))
          /\ cmd'[p].goal = g /\ cmd'[p].op = "heartbeat"
      BY <2>3, <3>1 DEF BeginHeartbeat
    <3>4. QED BY <1>1, <3>2, <3>3
  <2>4. CASE BeginRatify(p, g)
    <3>1. cmd'[p] = [op |-> "ratify", goal |-> g]
      BY <2>4 DEF BeginRatify, TypeOK
    <3>2. cmd' = [cmd EXCEPT ![p] = cmd'[p]]
      BY <2>4, <3>1 DEF BeginRatify
    <3>3. /\ Ready(p) /\ UNCHANGED <<now, digest>>
          /\ cmd'[p].goal = g /\ cmd'[p].op = "ratify"
      BY <2>4, <3>1 DEF BeginRatify
    <3>4. QED BY <1>1, <3>2, <3>3
  <2>5. QED BY <2>1, <2>2, <2>3, <2>4
<1>10. CASE \E p \in Agents, g \in Goals :
              \/ BlockGoal(p, g) \/ ReleaseGoal(p, g)
              \/ CompleteGoal(p, g) \/ VerifyGoal(p, g)
  BY <1>2, <1>10 DEF BlockGoal, ReleaseGoal, CompleteGoal, VerifyGoal
<1>11. QED BY <1>4, <1>5, <1>5w, <1>6, <1>7, <1>8, <1>9, <1>10 DEF Next

----------------------------------------------------------------------------
(* Theorems *)

(* Commands that do not overlap never pursue an unclaimed goal.            *)
THEOREM PursuitIsClaimed == Serialized => (Spec => []PursuingHasClaim)
<1> SUFFICES ASSUME Serialized PROVE Spec => []PursuingHasClaim
  OBVIOUS
<1>1. TypeOK /\ SerialInv /\ [Next]_vars => SerialInv'
  BY SerialStep
<1>2. SerialInv => PursuingHasClaim
  BY DEF SerialInv
<1>3. QED BY <1>1, <1>2, TypeInit, TypeStep, SerialInit, PTL DEF Spec

(* Commands that do not overlap never take a live claim from its holder.   *)
THEOREM ClaimsExclude == Serialized => (Spec => ClaimExclusion)
<1> SUFFICES ASSUME Serialized PROVE Spec => ClaimExclusion
  OBVIOUS
<1>1. TypeOK /\ SerialInv /\ [Next]_vars => SerialInv'
  BY SerialStep
<1>2. TypeOK /\ SerialInv /\ [Next]_vars
        => [\A g \in Goals : HolderOf(g) # Nobody
                               => HolderOf(g)' \in {HolderOf(g), Nobody}]_vars
  BY ClaimsStep, ClaimStepExcludes
<1>3. QED BY <1>1, <1>2, TypeInit, TypeStep, SerialInit, PTL DEF Spec, ClaimExclusion

(* Refinement: initial states and steps of the commands, seen through      *)
(* their live holders and deadlines, are those of the abstract lease.      *)
LEMMA LeaseInit == Init => L!Init
BY NobodyIsNoAgent
   DEF Init, L!Init, HolderOf, Deadline, Holder, Expired, EmptyDigest, NoClaim

LEMMA LeaseStep == TypeOK /\ ClaimStep => [L!Next]_(L!vars)
<1> SUFFICES ASSUME TypeOK, ClaimStep PROVE [L!Next]_(L!vars)
  OBVIOUS
<1>t. now \in Nat /\ \A g \in Goals : digest[g] \in Digests
  BY DEF TypeOK
<1>1. ASSUME NEW g \in Goals, UNCHANGED now, digest'[g].claim = digest[g].claim
      PROVE  HolderOf(g)' = HolderOf(g) /\ Deadline(g)' = Deadline(g)
  BY <1>1 DEF HolderOf, Deadline, Holder, Expired
<1>2. CASE UNCHANGED now /\ \A g \in Goals : digest'[g].claim = digest[g].claim
  BY <1>1, <1>2 DEF L!vars
<1>3. ASSUME NEW g \in Goals, UNCHANGED now, OthersKept(g)
      PROVE  /\ \A h \in Goals \ {g} : HolderOf(h)' = HolderOf(h)
             /\ \A h \in Goals \ {g} : Deadline(h)' = Deadline(h)
  BY <1>1, <1>3 DEF OthersKept
<1>4. ASSUME NEW g \in Goals, UNCHANGED now, OthersKept(g), HolderOf(g)' = Nobody
      PROVE  L!Free(g)
  <2>1. Deadline(g)' = 0
    BY <1>4 DEF Deadline
  <2>2. QED BY <1>3, <1>4, <2>1 DEF L!Free
<1>5. ASSUME NEW g \in Goals, NEW p \in Agents, NEW x \in Nat,
             UNCHANGED now, OthersKept(g), Granted(g, p, x)
      PROVE  L!Acquire(g, p) \/ L!Free(g)
  <2>1. CASE x <= now
    <3>1. HolderOf(g)' = Nobody
      BY <1>5, <2>1, NobodyIsNoAgent DEF Granted, HolderOf, Holder, Expired
    <3>2. QED BY <1>4, <1>5, <3>1
  <2>2. CASE x > now
    <3>1. HolderOf(g)' = p /\ Deadline(g)' = x
      BY <1>5, <1>t, <2>2, NobodyIsNoAgent
         DEF Granted, HolderOf, Holder, Expired, Deadline
    <3>2. HolderOf(g) \in {Nobody, p}
      BY <1>5 DEF Granted
    <3>3. QED BY <1>3, <1>5, <2>2, <3>1, <3>2 DEF L!Acquire
  <2>3. QED BY <1>t, <2>1, <2>2
<1>6. ASSUME NEW g \in Goals, UNCHANGED now, OthersKept(g), Dropped(g)
      PROVE  L!Free(g)
  <2>1. HolderOf(g)' = Nobody
    BY <1>6 DEF Dropped, HolderOf, Holder, Expired, NoClaim
  <2>2. QED BY <1>4, <1>6, <2>1
<1>7. CASE now' = now + 1 /\ UNCHANGED digest
  <2>1. ASSUME NEW g \in Goals
        PROVE  /\ HolderOf(g)' = IF Deadline(g) <= now + 1 THEN Nobody ELSE HolderOf(g)
               /\ Deadline(g)' = IF Deadline(g) <= now + 1 THEN 0 ELSE Deadline(g)
    BY <1>t, <1>7 DEF HolderOf, Deadline, Holder, Expired, Digests, Claims
  <2>2. L!Tick
    BY <1>7, <2>1 DEF L!Tick, L!Lapsed
  <2>3. QED BY <2>2 DEF L!Next
<1>8. QED BY <1>2, <1>5, <1>6, <1>7 DEF ClaimStep, L!Next

(* Commands that do not overlap implement a lock with a deadline.          *)
THEOREM CommandsImplementLease == Serialized => (Spec => LeaseSpec)
<1> SUFFICES ASSUME Serialized PROVE Spec => LeaseSpec
  OBVIOUS
<1>1. TypeOK /\ SerialInv /\ [Next]_vars => SerialInv'
  BY SerialStep
<1>2. TypeOK /\ SerialInv /\ [Next]_vars => [L!Next]_(L!vars)
  BY ClaimsStep, LeaseStep
<1>3. QED
  BY <1>1, <1>2, TypeInit, TypeStep, SerialInit, LeaseInit, PTL
     DEF Spec, LeaseSpec, L!Spec
=============================================================================
