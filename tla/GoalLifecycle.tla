--------------------------- MODULE GoalLifecycle ---------------------------
(***************************************************************************)
(* The dp goal commands of dp/core/goal_state.py, run by processes that    *)
(* share nothing but the goal files and the event log.                     *)
(*                                                                         *)
(* claim, start and heartbeat read the clock, replay the log, check, and   *)
(* only then append; nothing holds the log between the read and the        *)
(* append.  Each is a Begin step (clock, replay, checks) and a Finish step *)
(* (append).  ratify reads the goal file, writes it, and appends.  The     *)
(* other commands append without looking at the log and are one step.  A   *)
(* process may die between its steps (Crash).                              *)
(*                                                                         *)
(* A refused command changes nothing, so a failed guard is no step.  The   *)
(* log is kept as its digest (GoalEvents; GoalReplay shows it answers for  *)
(* the log).                                                               *)
(***************************************************************************)
EXTENDS GoalEvents

CONSTANTS
  Goals,
  Roots,         \* goals whose file starts as an agent-proposed root
                 \* (bound: only their authorship do people change)
  LeaseLengths,  \* the durations --lease may name (parse_lease_duration)
  MaxTime,       \* bound: the last clock value
  Serialized     \* TRUE: whoever calls dp lets one command end before the next

ASSUME RootsAreGoals == Roots \subseteq Goals
ASSUME LeasesAreFinite == LeaseLengths \subseteq Nat \ {0}
ASSUME MaxTimeIsNatural == MaxTime \in Nat
ASSUME SerializedIsBoolean == Serialized \in BOOLEAN

VARIABLES
  now,         \* the clock
  digest,      \* the event log, digested per goal
  authorship,  \* intent.authorship in each goal file
  ratified,    \* goals with a `ratified` event in the log
  undone,      \* history: goals of which a save took an adoption back
  cmd          \* the command each process is in the middle of

vars == <<now, digest, authorship, ratified, undone, cmd>>

NoAuthor == "none"                 \* no intent object, so no authorship
Authorships == {"agent_derived", "owner_ratified", "owner", NoAuthor}
Idle == [op |-> "idle"]

Init ==
  /\ now = 0
  /\ digest = [g \in Goals |-> EmptyDigest]
  /\ authorship = [g \in Goals |-> IF g \in Roots THEN "agent_derived" ELSE "owner"]
  /\ ratified = {}
  /\ undone = {}
  /\ cmd = [p \in Agents |-> Idle]

----------------------------------------------------------------------------
(* What a command reads *)

Replayed(g) == View(digest[g], now)      \* reconstruct_goal_state at this clock

(* _refuse_unratified_root; the alternative asks only on a fresh goal.     *)
RefusedRootWhenFresh(g) ==
  authorship[g] = "agent_derived" /\ digest[g].phase = "ready"
RefusedRoot(g) == authorship[g] = "agent_derived"

(* The lease check of claim and start.  The alternatives go by the state,  *)
(* and refuse the holder itself.                                           *)
MayTakeByState(p, s) == s.state = "claimed" => s.lease.holder = p
MayTakeWhenFree(p, s) == LiveHolder(s) = Nobody
MayTake(p, s) == LiveHolder(s) \in {Nobody, p}

(* The check of heartbeat; the alternative takes started work for a claim. *)
MayHeartbeatByState(s) == s.state \in {"claimed", "started", "pursuing"}
MayHeartbeat(s) == LiveHolder(s) # Nobody

(* A process can start a command; a serialized caller also waits for all.  *)
Ready(p) == IF Serialized THEN \A q \in Agents : cmd[q] = Idle ELSE cmd[p] = Idle

(* Appending an event; the alternative takes the event's name as the state. *)
LogEventByName(g, e) ==
  digest' = [digest EXCEPT ![g] = [Digested(@, e) EXCEPT !.phase = e.event]]
LogEvent(g, e) == digest' = [digest EXCEPT ![g] = Digested(@, e)]

Finished(p) == cmd' = [cmd EXCEPT ![p] = Idle]

----------------------------------------------------------------------------
(* claim_goal *)

BeginClaim(p, g, d) ==
  /\ Ready(p)
  /\ ~RefusedRoot(g)
  /\ MayTake(p, Replayed(g))
  /\ cmd' = [cmd EXCEPT ![p] = [op |-> "claim", goal |-> g, expires |-> now + d]]
  /\ UNCHANGED <<now, digest, authorship, ratified, undone>>

FinishClaim(p) ==
  /\ cmd[p].op = "claim"
  /\ LogEvent(cmd[p].goal, Claimed(p, cmd[p].expires))
  /\ Finished(p)
  /\ UNCHANGED <<now, authorship, ratified, undone>>

(* start_goal: no claim is needed, only that no other agent holds one.     *)
BeginStart(p, g) ==
  /\ Ready(p)
  /\ ~RefusedRoot(g)
  /\ MayTake(p, Replayed(g))
  /\ cmd' = [cmd EXCEPT ![p] = [op |-> "start", goal |-> g]]
  /\ UNCHANGED <<now, digest, authorship, ratified, undone>>

FinishStart(p) ==
  /\ cmd[p].op = "start"
  /\ LogEvent(cmd[p].goal, Plain("started"))
  /\ Finished(p)
  /\ UNCHANGED <<now, authorship, ratified, undone>>

(* heartbeat_goal: any process may send it; it does not extend the lease.  *)
BeginHeartbeat(p, g) ==
  /\ Ready(p)
  /\ MayHeartbeat(Replayed(g))
  /\ cmd' = [cmd EXCEPT ![p] = [op |-> "heartbeat", goal |-> g]]
  /\ UNCHANGED <<now, digest, authorship, ratified, undone>>

FinishHeartbeat(p) ==
  /\ cmd[p].op = "heartbeat"
  /\ LogEvent(cmd[p].goal, Plain("heartbeat"))
  /\ Finished(p)
  /\ UNCHANGED <<now, authorship, ratified, undone>>

----------------------------------------------------------------------------
(* Commands that append without reading the log.  goal verify checks the   *)
(* evidence files first (module EvidencePipeline), never the goal's state. *)

AppendOnly(p, g, kind) ==
  /\ Ready(p)
  /\ LogEvent(g, Plain(kind))
  /\ UNCHANGED <<now, authorship, ratified, undone, cmd>>

BlockGoal(p, g)    == AppendOnly(p, g, "blocked")
ReleaseGoal(p, g)  == AppendOnly(p, g, "released")
CompleteGoal(p, g) == AppendOnly(p, g, "evidence_pending")
VerifyGoal(p, g)   == AppendOnly(p, g, "verified")

----------------------------------------------------------------------------
(* ratify_goal: the file is read and checked, then written back with the   *)
(* owner's mark, then the event is appended.  A save between the read and  *)
(* the write is lost; one between the write and the append is not, and the *)
(* event is appended all the same.                                         *)

BeginRatify(p, g) ==
  /\ Ready(p)
  /\ RefusedRoot(g)
  /\ cmd' = [cmd EXCEPT ![p] = [op |-> "ratify", goal |-> g]]
  /\ UNCHANGED <<now, digest, authorship, ratified, undone>>

(* The alternative appends before it writes.                               *)
WriteRatifyEventFirst(p) ==
  /\ cmd[p].op = "ratify"
  /\ ratified' = ratified \cup {cmd[p].goal}
  /\ cmd' = [cmd EXCEPT ![p] = [op |-> "record", goal |-> cmd[p].goal]]
  /\ UNCHANGED <<now, digest, authorship, undone>>

WriteRatify(p) ==
  /\ cmd[p].op = "ratify"
  /\ authorship' = [authorship EXCEPT ![cmd[p].goal] = "owner_ratified"]
  /\ undone' = undone \ {cmd[p].goal}
  /\ cmd' = [cmd EXCEPT ![p] = [op |-> "record", goal |-> cmd[p].goal]]
  /\ UNCHANGED <<now, digest, ratified>>

FinishRatify(p) ==
  /\ cmd[p].op = "record"
  /\ ratified' = ratified \cup {cmd[p].goal}
  /\ Finished(p)
  /\ UNCHANGED <<now, digest, authorship, undone>>

(* Somebody saves the file with another authorship: adopts the goal by     *)
(* hand, as the refusal message suggests, or takes an adoption back, drops *)
(* the intent block, or saves an older copy over a ratification.           *)
SaveAuthorship(g, author) ==
  /\ authorship' = [authorship EXCEPT ![g] = author]
  /\ undone' = IF authorship[g] \in {"agent_derived", author} THEN undone
               ELSE undone \cup {g}
  /\ UNCHANGED <<now, digest, ratified, cmd>>

----------------------------------------------------------------------------
(* The environment *)

Crash(p) ==
  /\ cmd[p] # Idle
  /\ Finished(p)
  /\ UNCHANGED <<now, digest, authorship, ratified, undone>>

Tick ==
  /\ now < MaxTime
  /\ now' = now + 1
  /\ UNCHANGED <<digest, authorship, ratified, undone, cmd>>

Next ==
  \/ \E p \in Agents, g \in Goals, d \in LeaseLengths : BeginClaim(p, g, d)
  \/ \E p \in Agents, g \in Goals :
       \/ BeginStart(p, g) \/ BeginHeartbeat(p, g) \/ BeginRatify(p, g)
       \/ BlockGoal(p, g) \/ ReleaseGoal(p, g)
       \/ CompleteGoal(p, g) \/ VerifyGoal(p, g)
  \/ \E p \in Agents :
       \/ FinishClaim(p) \/ FinishStart(p) \/ FinishHeartbeat(p)
       \/ WriteRatify(p) \/ FinishRatify(p)
  \/ \E p \in Agents : Crash(p)
  \/ \E g \in Roots, author \in Authorships : SaveAuthorship(g, author)
  \/ Tick

Spec == Init /\ [][Next]_vars

----------------------------------------------------------------------------
(* Types *)

Commands == {Idle}
            \cup [op : {"claim"}, goal : Goals, expires : Nat]
            \cup [op : {"start", "heartbeat", "ratify", "record"}, goal : Goals]

(* The shape of the files, the log's digest and the commands in flight.    *)
TypeOK ==
  /\ now \in Nat
  /\ digest \in [Goals -> Digests]
  /\ authorship \in [Goals -> Authorships]
  /\ ratified \subseteq Goals
  /\ undone \subseteq Goals
  /\ cmd \in [Agents -> Commands]

----------------------------------------------------------------------------
(* Properties *)

HolderOf(g) == Holder(digest[g], now)
Deadline(g) == IF HolderOf(g) = Nobody THEN 0 ELSE digest[g].claim.expires

(* A non-stale claim by one agent blocks another from claiming             *)
(* (docs/reference/goal-state-machine.md, rule 3): a goal never passes     *)
(* from one live holder to another in one step, not even when a command    *)
(* that checked the lease earlier appends late.                            *)
ClaimExclusion ==
  [][\A g \in Goals : HolderOf(g) # Nobody => HolderOf(g)' \in {HolderOf(g), Nobody}]_vars

(* Claims implement the abstract lease.                                    *)
L == INSTANCE Lease WITH clock <- now,
                         holder <- [g \in Goals |-> HolderOf(g)],
                         deadline <- [g \in Goals |-> Deadline(g)]
LeaseSpec == L!Spec

(* `pursuing` is a heartbeat recorded under a claim (rule 5, state 3): no  *)
(* goal is pursued that nobody has claimed, though the claim may have      *)
(* expired since.                                                          *)
PursuingHasClaim ==
  \A g \in Goals : digest[g].phase = "pursuing" => digest[g].claim.holder # Nobody

(* Nobody works on a root no owner has adopted (rule 4): while authorship  *)
(* is agent_derived the goal has no claim and was neither claimed, started *)
(* nor pursued, and no command that passed the check is about to say so.   *)
(* Only a goal that a save turned back into a proposal may be in work.     *)
UnratifiedRootIdle ==
  \A g \in Goals \ undone : authorship[g] = "agent_derived" =>
    /\ digest[g].claim.holder = Nobody
    /\ digest[g].phase \notin {"claimed", "started", "pursuing"}
    /\ \A p \in Agents : cmd[p].op \in {"claim", "start", "heartbeat"} => cmd[p].goal # g
=============================================================================
