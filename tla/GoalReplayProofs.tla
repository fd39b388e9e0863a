-------------------------- MODULE GoalReplayProofs --------------------------
(***************************************************************************)
(* The digest answers for the log, for logs of any length, any clocks and  *)
(* any file contents; and what that says of leases.  The proofs never look *)
(* back in the log: one more event changes the loop's variables and the    *)
(* digest in step (ViewCommutes, TallyStep).                               *)
(***************************************************************************)
EXTENDS GoalReplay, FiniteSetTheorems, TLAPS

----------------------------------------------------------------------------
(* The digest of a goal's events *)

LEMMA DigestedType ==
  ASSUME NEW d \in Digests, NEW e \in Events(Nat)
  PROVE  Digested(d, e) \in Digests
<1>1. CASE e \in ClaimEvents(Nat)
  <2>1. PICK a \in Agents, x \in Nat : e = Claimed(a, x)
    BY <1>1 DEF ClaimEvents
  <2>2. Digested(d, e) = [phase |-> "claimed", started |-> FALSE, blocked |-> FALSE,
                          claim |-> [holder |-> a, expires |-> x]]
    BY <2>1 DEF Digested, Claimed
  <2>3. QED BY <2>2 DEF Digests, Claims, States, Holders
<1>2. CASE e \in ContactEvents
  <2>1. e.event = "outcome_contact"
    BY <1>2 DEF ContactEvents, Contact
  <2>2. Digested(d, e) = d
    BY <2>1 DEF Digested
  <2>3. QED BY <2>2
<1>3. CASE e \in PlainEvents
  <2>1. PICK k \in PlainKinds : e = Plain(k)
    BY <1>3 DEF PlainEvents
  <2>2. e.event = k
    BY <2>1 DEF Plain
  <2>3. NoClaim \in Claims
    BY DEF NoClaim, Claims, Holders
  <2>4. d.phase \in States /\ d.claim \in Claims /\ d.started \in BOOLEAN
        /\ d.blocked \in BOOLEAN
        /\ d = [phase |-> d.phase, claim |-> d.claim, started |-> d.started,
                blocked |-> d.blocked]
    BY DEF Digests
  <2>5. CASE k \in {"started", "heartbeat"}
    BY <2>2, <2>4, <2>5 DEF Digested, Digests, States
  <2>6. CASE k \in {"blocked", "evidence_pending"}
    BY <2>2, <2>4, <2>6 DEF Digested, Digests, States
  <2>7. CASE k \in {"released", "verified", "ratified"}
    BY <2>2, <2>3, <2>4, <2>7 DEF Digested, Digests, States
  <2>8. QED BY <2>5, <2>6, <2>7 DEF PlainKinds
<1>4. QED BY <1>1, <1>2, <1>3 DEF Events

(* The lease check of the code reads the replayed lease; it finds exactly  *)
(* the holder whose claim has not expired.                                 *)
LEMMA LiveHolderOfView ==
  ASSUME NEW d \in Digests, NEW t \in Nat
  PROVE  LiveHolder(View(d, t)) = Holder(d, t)
BY NobodyIsNoAgent
   DEF LiveHolder, View, Holder, Expired, NoLease, Digests, Claims

----------------------------------------------------------------------------
(* Replaying one more event *)

(* Whatever the reader's clock, viewing the digest commutes with replaying *)
(* one more event: the heart of "the digest answers for the log".          *)
LEMMA ViewCommutes ==
  ASSUME NEW d \in Digests, NEW e \in Events(Nat), NEW t \in Nat
  PROVE  ReplayLife(View(d, t), e, t) = View(Digested(d, e), t)
<1>d. /\ d = [phase |-> d.phase, claim |-> d.claim, started |-> d.started,
              blocked |-> d.blocked]
      /\ d.claim = [holder |-> d.claim.holder, expires |-> d.claim.expires]
      /\ d.phase \in States /\ d.claim.holder \in Holders /\ d.claim.expires \in Nat
  BY DEF Digests, Claims
<1>1. CASE e \in ClaimEvents(Nat)
  <2>1. PICK a \in Agents, x \in Nat : e = Claimed(a, x)
    BY <1>1 DEF ClaimEvents
  <2>2. e.event = "claimed" /\ e.agent = a /\ e.lease_expires_at = x
    BY <2>1 DEF Claimed
  <2>3. Digested(d, e) = [phase |-> "claimed", started |-> FALSE, blocked |-> FALSE,
                          claim |-> [holder |-> a, expires |-> x]]
    BY <2>2 DEF Digested
  <2>4. ReplayLife(View(d, t), e, t) = OnClaimed(View(d, t), e, t)
    BY <2>2 DEF ReplayLife
  <2>5. a # Nobody
    BY NobodyIsNoAgent
  <2> DEFINE D == Digested(d, e)
  <2>6. /\ D.phase = "claimed" /\ D.started = FALSE /\ D.blocked = FALSE
        /\ D.claim.holder = a /\ D.claim.expires = x
    BY <2>3
  <2> HIDE DEF D
  <2>7. CASE x <= t
    <3> DEFINE Stale == [state   |-> "released", blocked |-> FALSE,
                         lease   |-> [holder |-> a, expires_at |-> x, stale |-> TRUE]]
    <3>1. View(D, t) = Stale
      BY <2>5, <2>6, <2>7 DEF View, Expired
    <3>2. OnClaimed(View(d, t), e, t) = Stale
      BY <2>2, <2>7 DEF OnClaimed
    <3>3. QED BY <2>4, <3>1, <3>2 DEF D
  <2>8. CASE ~(x <= t)
    <3> DEFINE Live == [state   |-> "claimed", blocked |-> FALSE,
                        lease   |-> [holder |-> a, expires_at |-> x, stale |-> FALSE]]
    <3>1. View(D, t) = Live
      BY <2>5, <2>6, <2>8 DEF View, Expired
    <3>2. (x <= t) = FALSE
      BY <2>8
    <3>3. OnClaimed(View(d, t), e, t) = Live
      BY <2>2, <3>2, Zenon DEF OnClaimed
    <3>4. QED BY <2>4, <3>1, <3>3 DEF D
  <2>9. QED BY <2>7, <2>8
<1>2. CASE e \in ContactEvents
  BY <1>2 DEF ContactEvents, Contact, ReplayLife, Digested
<1>3. CASE e \in PlainEvents
  <2>1. PICK k \in PlainKinds : e = Plain(k)
    BY <1>3 DEF PlainEvents
  <2>2. e.event = k
    BY <2>1 DEF Plain
  <2>3. CASE k = "started"
    BY <2>2, <2>3, <1>d DEF ReplayLife, OnStarted, Digested, View, Expired, NoLease
  <2>4. CASE k \in {"heartbeat", "blocked", "evidence_pending"}
    BY <2>2, <2>4, <1>d DEF ReplayLife, Digested, View, Expired, NoLease
  <2>5. CASE k \in {"released", "verified"}
    BY <2>2, <2>5, <1>d DEF ReplayLife, Digested, View, Expired, NoLease, NoClaim
  <2>6. CASE k = "ratified"
    BY <2>2, <2>6 DEF ReplayLife, Digested
  <2>7. QED BY <2>3, <2>4, <2>5, <2>6 DEF PlainKinds
<1>4. QED BY <1>1, <1>2, <1>3 DEF Events

Tallies == [receipts : Nat \cup {Uncounted}, last : OutcomeClasses \cup {NoClass},
            current : OutcomeClasses \cup {NoClass}, blocks : Nat]

(* What one more event does to each of the loop's counters.                *)
LEMMA TallyStep ==
  ASSUME NEW u \in Tallies, NEW e \in Events(Nat), NEW v \in Versions
  PROVE  LET w == ReplayTally(u, e, v)
         IN  /\ w \in Tallies
             /\ w.receipts = IF e.event = "outcome_contact" THEN 0
                             ELSE IF e.event = "verified" /\ u.receipts # Uncounted
                                  THEN u.receipts + 1 ELSE u.receipts
             /\ w.blocks = IF e.event = "claimed" THEN 0
                           ELSE u.blocks + (IF e.event = "blocked" THEN 1 ELSE 0)
             /\ w.current = IF e.event = "outcome_contact" /\ e.goal_sha256 = v
                            THEN e.class ELSE u.current
<1>u. /\ u = [receipts |-> u.receipts, last |-> u.last, current |-> u.current,
              blocks |-> u.blocks]
      /\ u.receipts \in Nat \cup {Uncounted} /\ u.blocks \in Nat
      /\ u.last \in OutcomeClasses \cup {NoClass}
      /\ u.current \in OutcomeClasses \cup {NoClass}
  BY DEF Tallies
<1>1. CASE e \in ContactEvents
  <2>1. PICK c \in OutcomeClasses, x \in Versions : e = Contact(c, x)
    BY <1>1 DEF ContactEvents
  <2>2. e.event = "outcome_contact" /\ e.class = c /\ e.goal_sha256 = x
    BY <2>1 DEF Contact
  <2>3. ReplayTally(u, e, v) = [receipts |-> 0, last |-> c, blocks |-> u.blocks,
                                current |-> IF x = v THEN c ELSE u.current]
    BY <1>u, <2>2 DEF ReplayTally, OnContact, ReceiptEvents
  <2>4. QED BY <1>u, <2>2, <2>3 DEF Tallies
<1>2. CASE e.event # "outcome_contact"
  BY <1>u, <1>2 DEF ReplayTally, Tallies, ReceiptEvents, Uncounted
<1>3. QED BY <1>1, <1>2 DEF Events, ClaimEvents, Claimed, PlainEvents, Plain, PlainKinds

----------------------------------------------------------------------------
(* The log and its digest *)

ReplayInv ==
  /\ digest \in Digests
  /\ DOMAIN life = Clocks /\ tally \in [Versions -> Tallies]
  /\ DigestAnswersForLog

LEMMA ReplayInit == Init => ReplayInv
<1> SUFFICES ASSUME Init PROVE ReplayInv
  OBVIOUS
<1>1. digest \in Digests
  BY DEF Init, EmptyDigest, Digests, States, Claims, NoClaim, Holders
<1>2. tally \in [Versions -> Tallies]
  BY DEF Init, InitialTally, Tallies
<1>3. DigestAnswersForLog
  BY DEF Init, DigestAnswersForLog, InitialLife, View, EmptyDigest, NoClaim, Expired
<1>4. QED BY <1>1, <1>2, <1>3 DEF Init, ReplayInv

LEMMA ReplayStep == ReplayInv /\ [Next]_vars => ReplayInv'
<1> SUFFICES ASSUME ReplayInv, [Next]_vars PROVE ReplayInv'
  OBVIOUS
<1>1. ASSUME NEW e \in Events(Clocks), Append1(e)
      PROVE  ReplayInv'
  <2>1. e \in Events(Nat)
    BY ClocksAreNaturals DEF Events, ClaimEvents
  <2>2. digest' \in Digests
    BY <1>1, <2>1, DigestedType DEF Append1, ReplayInv
  <2>3. tally' \in [Versions -> Tallies]
    BY <1>1, <2>1, TallyStep DEF Append1, ReplayInv
  <2>4. ASSUME NEW t \in Clocks PROVE life'[t] = View(digest', t)
    BY <1>1, <2>1, ViewCommutes, ClocksAreNaturals
       DEF Append1, ReplayInv, DigestAnswersForLog
  <2>5. QED
    BY <1>1, <2>2, <2>3, <2>4 DEF Append1, ReplayInv, DigestAnswersForLog
<1>2. CASE UNCHANGED vars
  BY <1>2 DEF vars, ReplayInv, DigestAnswersForLog
<1>3. QED BY <1>1, <1>2 DEF Next

(* Every replay of the log, at whatever clock, is the view of its digest.  *)
THEOREM DigestIsEnough == Spec => []DigestAnswersForLog
<1>1. ReplayInv => DigestAnswersForLog
  BY DEF ReplayInv
<1>2. QED BY <1>1, ReplayInit, ReplayStep, PTL DEF Spec

(* A later reader of a log never sees live a claim an earlier one did not. *)
THEOREM NoRevival == Spec => []ExpiryNeverRevives
<1>1. ReplayInv => ExpiryNeverRevives
  <2> SUFFICES ASSUME ReplayInv, NEW s \in Clocks, NEW t \in Clocks, s <= t,
                      LiveHolder(life[t]) # Nobody
               PROVE  LiveHolder(life[s]) = LiveHolder(life[t])
    BY DEF ExpiryNeverRevives
  <2>1. s \in Nat /\ t \in Nat
    BY ClocksAreNaturals
  <2>2. /\ LiveHolder(life[s]) = Holder(digest, s)
        /\ LiveHolder(life[t]) = Holder(digest, t)
    BY <2>1, LiveHolderOfView DEF ReplayInv, DigestAnswersForLog
  <2>3. digest.claim.expires \in Nat
    BY DEF ReplayInv, Digests, Claims
  <2>4. QED BY <2>1, <2>2, <2>3 DEF Holder, Expired
<1>2. QED BY <1>1, ReplayInit, ReplayStep, PTL DEF Spec

(* An event that is no claim leaves the claim or drops it.                 *)
LEMMA OnlyClaimsSetClaims ==
  ASSUME NEW d \in Digests, NEW e \in Events(Nat), e.event # "claimed"
  PROVE  Digested(d, e).claim \in {d.claim, NoClaim}
<1>1. d = [phase |-> d.phase, claim |-> d.claim, started |-> d.started, blocked |-> d.blocked]
  BY DEF Digests
<1>2. QED BY <1>1 DEF Digested

LEMMA LastOfAppend ==
  ASSUME NEW S, NEW s \in Seq(S), NEW e
  PROVE  /\ Len(Append(s, e)) = Len(s) + 1 /\ Append(s, e)[Len(s) + 1] = e
         /\ DOMAIN Append(s, e) = DOMAIN s \cup {Len(s) + 1}
         /\ DOMAIN s = 1..Len(s) /\ Len(s) \in Nat
         /\ \A i \in DOMAIN s : Append(s, e)[i] = s[i]
OBVIOUS

LogInv == log \in Seq(Events(Clocks))

LEMMA LogStep == LogInv /\ [Next]_vars => LogInv'
BY DEF LogInv, Next, Append1, vars

(* Of all events only a claim makes an agent a live holder, and the agent  *)
(* is the one it names: nothing hands a lease over or brings one back.     *)
THEOREM OnlyClaimsGrant == Spec => OnlyClaimGrants
<1>1. ASSUME ReplayInv, ReplayInv', LogInv, [Next]_vars
      PROVE  [\A t \in Clocks :
                LET h == LiveHolder(life[t])'
                IN  (h # Nobody /\ h # LiveHolder(life[t]))
                      => log'[Len(log')].event = "claimed" /\ log'[Len(log')].agent = h]_vars
  <2>1. SUFFICES ASSUME NEW e \in Events(Clocks), Append1(e), NEW t \in Clocks,
                        LiveHolder(life[t])' # Nobody,
                        LiveHolder(life[t])' # LiveHolder(life[t])
                 PROVE  /\ log'[Len(log')].event = "claimed"
                        /\ log'[Len(log')].agent = LiveHolder(life[t])'
    BY <1>1 DEF Next
  <2>2. /\ LiveHolder(life[t]) = Holder(digest, t)
        /\ LiveHolder(life'[t]) = Holder(digest', t)
    BY <1>1, LiveHolderOfView, ClocksAreNaturals DEF ReplayInv, DigestAnswersForLog
  <2>3. e \in Events(Nat) /\ digest' = Digested(digest, e)
    BY <2>1, ClocksAreNaturals DEF Append1, Events, ClaimEvents
  <2>4. e.event = "claimed"
    <3> SUFFICES ASSUME e.event # "claimed" PROVE FALSE
      OBVIOUS
    <3>1. digest'.claim \in {digest.claim, NoClaim}
      BY <1>1, <2>3, OnlyClaimsSetClaims DEF ReplayInv
    <3>2. QED BY <2>1, <2>2, <3>1 DEF Holder, Expired, NoClaim
  <2>5. digest'.claim.holder = e.agent
    BY <2>3, <2>4 DEF Digested
  <2>6. LiveHolder(life[t])' = e.agent
    BY <2>1, <2>2, <2>5 DEF Holder
  <2>7. log'[Len(log')] = e
    BY <1>1, <2>1, LastOfAppend DEF Append1, LogInv
  <2>8. QED BY <2>4, <2>6, <2>7
<1>2. Init => LogInv
  BY DEF Init, LogInv
<1>3. QED BY <1>1, <1>2, ReplayInit, ReplayStep, LogStep, PTL DEF Spec, OnlyClaimGrants

----------------------------------------------------------------------------
(* Positions in the log *)

Occurs(l, kind) == {0} \cup {i \in DOMAIN l : l[i].event = kind}
IsLatest(m, l, kind) == m \in Occurs(l, kind) /\ \A i \in Occurs(l, kind) : i <= m
After(l, i, kind) == {j \in DOMAIN l : j > i /\ l[j].event = kind}

LEMMA LatestIs ==
  ASSUME NEW S, NEW l \in Seq(S), NEW kind, NEW m, IsLatest(m, l, kind)
  PROVE  Max(Occurs(l, kind)) = m
<1>1. Occurs(l, kind) \subseteq Nat
  BY DEF Occurs
<1>2. \A n \in Occurs(l, kind) : (\A i \in Occurs(l, kind) : n >= i) => n = m
  BY <1>1 DEF IsLatest
<1>3. m \in Occurs(l, kind) /\ \A i \in Occurs(l, kind) : m >= i
  BY <1>1 DEF IsLatest
<1>4. QED BY <1>2, <1>3 DEF Max

LEMMA LatestStep ==
  ASSUME NEW S, NEW l \in Seq(S), NEW e, NEW kind, NEW m, IsLatest(m, l, kind)
  PROVE  IsLatest(IF e.event = kind THEN Len(l) + 1 ELSE m, Append(l, e), kind)
<1>1. Occurs(Append(l, e), kind)
        = Occurs(l, kind) \cup (IF e.event = kind THEN {Len(l) + 1} ELSE {})
  BY LastOfAppend DEF Occurs
<1>2. \A i \in Occurs(l, kind) : i \in Nat /\ i <= Len(l)
  BY LastOfAppend DEF Occurs
<1>3. QED BY <1>1, <1>2, LastOfAppend DEF IsLatest

LEMMA CountStep ==
  ASSUME NEW S, NEW l \in Seq(S), NEW e, NEW kind, NEW i \in Nat, i <= Len(l)
  PROVE  /\ Cardinality(After(l, i, kind)) \in Nat
         /\ e.event = kind => Cardinality(After(Append(l, e), i, kind))
                                = Cardinality(After(l, i, kind)) + 1
         /\ e.event # kind => Cardinality(After(Append(l, e), i, kind))
                                = Cardinality(After(l, i, kind))
         /\ Cardinality(After(Append(l, e), Len(l) + 1, kind)) = 0
<1>1. After(Append(l, e), i, kind)
        = After(l, i, kind) \cup (IF e.event = kind THEN {Len(l) + 1} ELSE {})
  BY LastOfAppend DEF After
<1>2. IsFiniteSet(After(l, i, kind))
  <2>1. 1 \in Int /\ Len(l) \in Int
    OBVIOUS
  <2>2. IsFiniteSet(1..Len(l))
    BY <2>1, FS_Interval
  <2>3. After(l, i, kind) \in SUBSET (1..Len(l))
    BY DEF After
  <2>4. QED BY <2>2, <2>3, FS_Subset
<1>3. Len(l) + 1 \notin After(l, i, kind)
  BY LastOfAppend DEF After
<1>4. After(Append(l, e), Len(l) + 1, kind) = {}
  BY LastOfAppend DEF After
<1>5. Cardinality(After(l, i, kind)) \in Nat
  BY <1>2, FS_CardinalityType
<1>6. CASE e.event = kind
  <2>1. After(Append(l, e), i, kind) = After(l, i, kind) \cup {Len(l) + 1}
    BY <1>1, <1>6
  <2>2. Cardinality(After(l, i, kind) \cup {Len(l) + 1}) = Cardinality(After(l, i, kind)) + 1
    BY <1>2, <1>3, FS_AddElement
  <2>3. QED BY <2>1, <2>2, <1>4, <1>5, <1>6, FS_EmptySet
<1>7. CASE e.event # kind
  <2>1. After(Append(l, e), i, kind) = After(l, i, kind)
    BY <1>1, <1>7
  <2>2. Cardinality(After(l, i, kind)) + 0 = Cardinality(After(l, i, kind))
    BY <1>5
  <2>3. QED BY <2>1, <2>2, <1>4, <1>5, <1>7, FS_EmptySet
<1>8. QED BY <1>6, <1>7

(* The counters start at the latest contact and the latest claim.          *)
CountInv ==
  /\ LogInv
  /\ \E c, k \in Nat :
       /\ IsLatest(c, log, "outcome_contact") /\ IsLatest(k, log, "claimed")
       /\ \A v \in Versions :
            /\ tally[v].receipts = IF c = 0 THEN Uncounted
                                   ELSE Cardinality(After(log, c, "verified"))
            /\ tally[v].blocks = Cardinality(After(log, k, "blocked"))

LEMMA CountInit == Init => CountInv
<1> SUFFICES ASSUME Init PROVE CountInv
  OBVIOUS
<1>1. log = <<>> /\ DOMAIN log = {} /\ log \in Seq(Events(Clocks))
  BY DEF Init
<1>2. IsLatest(0, log, "outcome_contact") /\ IsLatest(0, log, "claimed")
  BY <1>1 DEF IsLatest, Occurs
<1>3. After(log, 0, "blocked") = {}
  BY <1>1 DEF After
<1>4. \A v \in Versions : tally[v].receipts = Uncounted /\ tally[v].blocks = 0
  BY DEF Init, InitialTally
<1>5. Cardinality(After(log, 0, "blocked")) = 0
  BY <1>3, FS_EmptySet
<1>6. \A v \in Versions :
        /\ tally[v].receipts = IF 0 = 0 THEN Uncounted
                               ELSE Cardinality(After(log, 0, "verified"))
        /\ tally[v].blocks = Cardinality(After(log, 0, "blocked"))
  BY <1>4, <1>5
<1>7. QED BY <1>1, <1>2, <1>6 DEF CountInv, LogInv

LEMMA CountInvStep == ReplayInv /\ CountInv /\ [Next]_vars => CountInv'
<1>1. ASSUME ReplayInv, CountInv, NEW e \in Events(Clocks), Append1(e)
      PROVE  CountInv'
  <2>1. PICK c \in Nat, k \in Nat :
          /\ IsLatest(c, log, "outcome_contact") /\ IsLatest(k, log, "claimed")
          /\ \A v \in Versions :
               /\ tally[v].receipts = IF c = 0 THEN Uncounted
                                      ELSE Cardinality(After(log, c, "verified"))
               /\ tally[v].blocks = Cardinality(After(log, k, "blocked"))
    BY <1>1 DEF CountInv
  <2>2. c <= Len(log) /\ k <= Len(log) /\ Len(log) \in Nat /\ log \in Seq(Events(Clocks))
    BY <1>1, <2>1 DEF CountInv, LogInv, IsLatest, Occurs
  <2> DEFINE c1 == IF e.event = "outcome_contact" THEN Len(log) + 1 ELSE c
             k1 == IF e.event = "claimed" THEN Len(log) + 1 ELSE k
  <2>3. /\ IsLatest(c1, log', "outcome_contact") /\ IsLatest(k1, log', "claimed")
        /\ c1 \in Nat /\ k1 \in Nat
    BY <1>1, <2>1, <2>2, LatestStep DEF Append1
  <2>4. ASSUME NEW v \in Versions
        PROVE  /\ tally'[v].receipts =
                    IF e.event = "outcome_contact" THEN 0
                    ELSE IF e.event = "verified" /\ tally[v].receipts # Uncounted
                         THEN tally[v].receipts + 1 ELSE tally[v].receipts
               /\ tally'[v].blocks = IF e.event = "claimed" THEN 0
                    ELSE tally[v].blocks + (IF e.event = "blocked" THEN 1 ELSE 0)
    <3>1. e \in Events(Nat)
      BY ClocksAreNaturals DEF Events, ClaimEvents
    <3>2. tally[v] \in Tallies /\ tally'[v] = ReplayTally(tally[v], e, v)
      BY <1>1 DEF Append1, ReplayInv
    <3>3. QED BY <3>1, <3>2, TallyStep
  <2>5. /\ \A i \in Nat, kind \in {"verified", "blocked"} : i <= Len(log) =>
             /\ Cardinality(After(log, i, kind)) \in Nat
             /\ e.event = kind => Cardinality(After(log', i, kind))
                                    = Cardinality(After(log, i, kind)) + 1
             /\ e.event # kind => Cardinality(After(log', i, kind))
                                    = Cardinality(After(log, i, kind))
        /\ \A kind \in {"verified", "blocked"} :
             Cardinality(After(log', Len(log) + 1, kind)) = 0
    <3>1. log' = Append(log, e) /\ 0 \in Nat /\ 0 <= Len(log)
      BY <1>1, <2>2 DEF Append1
    <3>2. ASSUME NEW i \in Nat, NEW kind, i <= Len(log)
          PROVE  /\ Cardinality(After(log, i, kind)) \in Nat
                 /\ e.event = kind => Cardinality(After(log', i, kind))
                                        = Cardinality(After(log, i, kind)) + 1
                 /\ e.event # kind => Cardinality(After(log', i, kind))
                                        = Cardinality(After(log, i, kind))
                 /\ Cardinality(After(log', Len(log) + 1, kind)) = 0
      <4>1. /\ Cardinality(After(log, i, kind)) \in Nat
            /\ e.event = kind => Cardinality(After(Append(log, e), i, kind))
                                   = Cardinality(After(log, i, kind)) + 1
            /\ e.event # kind => Cardinality(After(Append(log, e), i, kind))
                                   = Cardinality(After(log, i, kind))
            /\ Cardinality(After(Append(log, e), Len(log) + 1, kind)) = 0
        BY <2>2, <3>2, CountStep
      <4>2. QED BY <3>1, <4>1
    <3>3. QED BY <3>1, <3>2
  <2>6. \A v \in Versions :
          tally'[v].receipts = IF c1 = 0 THEN Uncounted
                               ELSE Cardinality(After(log', c1, "verified"))
    <3> SUFFICES ASSUME NEW v \in Versions
                 PROVE  tally'[v].receipts = IF c1 = 0 THEN Uncounted
                                             ELSE Cardinality(After(log', c1, "verified"))
      OBVIOUS
    <3>1. CASE e.event = "outcome_contact"
      BY <2>2, <2>4, <2>5, <3>1
    <3>2. CASE e.event # "outcome_contact"
      <4>1. /\ tally[v].receipts = IF c = 0 THEN Uncounted
                                   ELSE Cardinality(After(log, c, "verified"))
            /\ tally'[v].receipts =
                 IF e.event = "verified" /\ tally[v].receipts # Uncounted
                 THEN tally[v].receipts + 1 ELSE tally[v].receipts
        BY <2>1, <2>4, <3>2
      <4>2. /\ Cardinality(After(log, c, "verified")) \in Nat
            /\ e.event = "verified" => Cardinality(After(log', c, "verified"))
                                         = Cardinality(After(log, c, "verified")) + 1
            /\ e.event # "verified" => Cardinality(After(log', c, "verified"))
                                         = Cardinality(After(log, c, "verified"))
        BY <2>2, <2>5
      <4>3. c1 = c
        BY <3>2
      <4> HIDE DEF c1
      <4>4. QED BY <4>1, <4>2, <4>3 DEF Uncounted
    <3>3. QED BY <3>1, <3>2
  <2>7. \A v \in Versions : tally'[v].blocks = Cardinality(After(log', k1, "blocked"))
    BY <2>1, <2>2, <2>4, <2>5
  <2>8. LogInv'
    BY <1>1, LogStep DEF CountInv, Next
  <2>9. QED BY <2>3, <2>6, <2>7, <2>8 DEF CountInv
<1>2. ASSUME CountInv, UNCHANGED vars PROVE CountInv'
  BY <1>2 DEF CountInv, LogInv, vars
<1>3. QED BY <1>1, <1>2 DEF Next

(* receipts and blocks are what a scan of the log would count: after the   *)
(* latest contact, and after the latest claim, for logs of any length.     *)
THEOREM CountsStartAtResets == Spec => []CountsStartAtTheirReset
<1>1. ASSUME ReplayInv, CountInv PROVE CountsStartAtTheirReset
  <2>1. PICK c \in Nat, k \in Nat :
          /\ IsLatest(c, log, "outcome_contact") /\ IsLatest(k, log, "claimed")
          /\ \A v \in Versions :
               /\ tally[v].receipts = IF c = 0 THEN Uncounted
                                      ELSE Cardinality(After(log, c, "verified"))
               /\ tally[v].blocks = Cardinality(After(log, k, "blocked"))
    BY <1>1 DEF CountInv
  <2>2. Latest("outcome_contact") = c /\ Latest("claimed") = k
    BY <1>1, <2>1, LatestIs DEF CountInv, LogInv, Latest, Occurs
  <2>3. /\ CountAfter(c, "verified") = Cardinality(After(log, c, "verified"))
        /\ CountAfter(k, "blocked") = Cardinality(After(log, k, "blocked"))
    BY DEF CountAfter, After
  <2>4. QED BY <2>1, <2>2, <2>3 DEF CountsStartAtTheirReset
<1>2. QED BY <1>1, ReplayInit, ReplayStep, CountInit, CountInvStep, PTL DEF Spec

----------------------------------------------------------------------------
(* Two ways to tell whether an outcome confirms the goal *)

Contacts(l, v) == {i \in DOMAIN l : l[i].event = "outcome_contact" /\ l[i].goal_sha256 = v}
LatestContact(i, l, v) == i \in Contacts(l, v) /\ \A j \in Contacts(l, v) : j <= i

(* The current outcome is the class of the latest contact with the content *)
OutcomeInv ==
  /\ LogInv
  /\ \A v \in Versions :
       IF Contacts(log, v) = {} THEN tally[v].current = NoClass
       ELSE \E i \in Contacts(log, v) :
              LatestContact(i, log, v) /\ tally[v].current = log[i].class

LEMMA OutcomeInit == Init => OutcomeInv
BY DEF Init, OutcomeInv, LogInv, Contacts, InitialTally

LEMMA OutcomeStep == ReplayInv /\ OutcomeInv /\ [Next]_vars => OutcomeInv'
<1>1. ASSUME ReplayInv, OutcomeInv, NEW e \in Events(Clocks), Append1(e), NEW v \in Versions
      PROVE  IF Contacts(log', v) = {} THEN tally'[v].current = NoClass
             ELSE \E i \in Contacts(log', v) :
                    LatestContact(i, log', v) /\ tally'[v].current = log'[i].class
  <2>1. /\ log' = Append(log, e) /\ Len(log) \in Nat /\ DOMAIN log = 1..Len(log)
        /\ DOMAIN log' = DOMAIN log \cup {Len(log) + 1} /\ log'[Len(log) + 1] = e
        /\ \A i \in DOMAIN log : log'[i] = log[i]
    BY <1>1, LastOfAppend DEF Append1, OutcomeInv, LogInv
  <2>2. e \in Events(Nat)
    BY ClocksAreNaturals DEF Events, ClaimEvents
  <2>3. tally'[v].current = IF e.event = "outcome_contact" /\ e.goal_sha256 = v
                            THEN e.class ELSE tally[v].current
    <3>1. tally[v] \in Tallies /\ tally'[v] = ReplayTally(tally[v], e, v)
      BY <1>1 DEF Append1, ReplayInv
    <3>2. QED BY <2>2, <3>1, TallyStep
  <2>4. CASE e.event = "outcome_contact" /\ e.goal_sha256 = v
    <3>1. Contacts(log', v) = Contacts(log, v) \cup {Len(log) + 1}
      BY <2>1, <2>4 DEF Contacts
    <3>2. LatestContact(Len(log) + 1, log', v)
      BY <2>1, <3>1 DEF Contacts, LatestContact
    <3>3. tally'[v].current = e.class
      BY <2>3, <2>4
    <3>4. QED BY <2>1, <3>1, <3>2, <3>3
  <2>5. CASE ~(e.event = "outcome_contact" /\ e.goal_sha256 = v)
    <3>1. Contacts(log', v) = Contacts(log, v)
      BY <2>1, <2>5 DEF Contacts
    <3>2. tally'[v].current = tally[v].current
      BY <2>3, <2>5
    <3>3. \A i \in Contacts(log, v) : log'[i] = log[i]
      BY <2>1 DEF Contacts
    <3>4. QED BY <1>1, <3>1, <3>2, <3>3 DEF OutcomeInv, LatestContact
  <2>6. QED BY <2>4, <2>5
<1>2. ASSUME OutcomeInv, UNCHANGED vars PROVE OutcomeInv'
  BY <1>2 DEF OutcomeInv, LogInv, vars
<1>3. QED BY <1>1, <1>2, LogStep DEF Next, OutcomeInv

(* The replayed outcome and the scan that goal verify reports say the same *)
(* of every content the goal file may have, for logs of any length.        *)
THEOREM ConfirmationsAgree == Spec => []ConfirmationAgrees
<1>1. ASSUME ReplayInv, OutcomeInv PROVE ConfirmationAgrees
  <2> SUFFICES ASSUME NEW v \in Versions
               PROVE  OutcomeConfirmed(log, v) <=> tally[v].current \in ConfirmingClasses
    BY DEF ConfirmationAgrees
  <2>1. OutcomeConfirmed(log, v) <=>
          \E i \in Contacts(log, v) : LatestContact(i, log, v)
                                      /\ log[i].class \in ConfirmingClasses
    BY DEF OutcomeConfirmed, Contacts, LatestContact
  <2>2. \A i, j \in Contacts(log, v) :
          LatestContact(i, log, v) /\ LatestContact(j, log, v) => i = j
    BY <1>1 DEF Contacts, LatestContact, OutcomeInv, LogInv
  <2>3. NoClass \notin ConfirmingClasses
    BY DEF NoClass, ConfirmingClasses
  <2>4. QED BY <1>1, <2>1, <2>2, <2>3 DEF OutcomeInv
<1>2. QED BY <1>1, ReplayInit, ReplayStep, OutcomeInit, OutcomeStep, PTL DEF Spec
=============================================================================
