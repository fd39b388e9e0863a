--------------------------- MODULE BlockerRouting ---------------------------
(***************************************************************************)
(* dp goal block --write-artifact: block_goal of dp/core/goal_state.py     *)
(* with the routing of dp/core/blocker_routing.py and the ADR numbers of   *)
(* dp/core/adr.py.                                                         *)
(*                                                                         *)
(* A routed block writes a document, asks bd (the Beads tracker, another   *)
(* program) for a follow-up issue and then appends its event, whatever     *)
(* became of the other two; a crash can end it after any of them.  What    *)
(* the document says is: which goal it is for, and, in a spec stub and an  *)
(* ADR, the day.  A goal has one block reason here, so its spec or         *)
(* evidence stub has one path.                                             *)
(*                                                                         *)
(* Of a goal's log the module keeps what a reader replays: the state, the  *)
(* `blocked` record and the last event.                                    *)
(***************************************************************************)
EXTENDS Integers, FiniteSets

CONSTANTS
  Goals,
  Procs,      \* processes that run dp
  Route,      \* what blocked_routes makes of each goal's reason
  Followed,   \* goals whose route has also_create_beads_issue
  Followups,  \* ids bd can give to a new issue
  NoIssue,    \* a null issue_id
  MaxAdr,     \* bound on ADR numbers
  MaxDay,     \* bound on the days
  MaxCalls,   \* bound on the calls made and the events and edits of others
  Serialized  \* TRUE: callers wait, and nobody edits documents, while a block runs

ASSUME RoutesOfGoals == Route \in [Goals -> {"spec", "evidence", "adr", "none"}]
ASSUME FollowedAreGoals == Followed \subseteq Goals
ASSUME NoIssueIsNone == NoIssue \notin Followups
ASSUME BoundsAreNatural == MaxAdr \in Nat /\ MaxDay \in Nat /\ MaxCalls \in Nat
ASSUME SerializedIsBoolean == Serialized \in BOOLEAN

VARIABLES
  state,    \* the replayed state of each goal
  blocked,  \* the replayed `blocked` record
  last,     \* the last event
  docs,     \* the documents: what is in the file at each path that exists
  issues,   \* follow-up issues in the tracker
  cmd,      \* the command each process is in
  day, calls

routing == <<state, blocked, last, docs, issues, cmd, day, calls>>

States == {"ready", "claimed", "started", "pursuing", "blocked", "released",
           "evidence_pending", "verified"}

(* Paths: the one stub of a goal has number 0; ADRs are named by number    *)
(* and title, and the title is the goal's or, in an ADR from dp adr create,*)
(* another.                                                                *)
Stub(g) == [number |-> 0, title |-> g]
Adr(n, title) == [number |-> n, title |-> title]
ByHand == "by hand"
NoPath == [number |-> 0, title |-> "none"]
AdrsIn(paths) == {p \in paths : p.number > 0}

(* Contents; an evidence stub has no date.                                 *)
Torn == [kind |-> "torn"]
Edited == [kind |-> "edited"]
Text(g, d) == [kind |-> "generated", goal |-> g,
               day |-> IF g \in Goals /\ Route[g] = "evidence" THEN 0 ELSE d]

Other == [event |-> "other", artifact |-> NoPath, issue |-> NoIssue]
Blocked(path, issue) == [event |-> "blocked", artifact |-> path, issue |-> issue]
NotBlocked == [event |-> "none", artifact |-> NoPath, issue |-> NoIssue]

Idle == [stage |-> "idle"]
Block(g) == [stage |-> "routing", goal |-> g, day |-> day, path |-> NoPath,
             artifact |-> NoPath, issue |-> NoIssue]

DocPaths == [number : Nat, title : Goals \cup {ByHand, "none"}]
Contents == {Torn, Edited} \cup [kind : {"generated"}, goal : Goals, day : Nat]
BlockEvents == [event : {"other", "blocked", "none"}, artifact : DocPaths,
                issue : Followups \cup {NoIssue}]
Blocks == [stage : {"routing", "found", "writing", "written", "routed"}, goal : Goals,
           day : Nat, path : DocPaths, artifact : DocPaths, issue : Followups \cup {NoIssue}]

RoutingTypeOK ==
  /\ state \in [Goals -> States]
  /\ blocked \in [Goals -> BlockEvents] /\ last \in [Goals -> BlockEvents]
  /\ docs = [x \in DOMAIN docs |-> docs[x]]
  /\ DOMAIN docs \subseteq DocPaths /\ \A x \in DOMAIN docs : docs[x] \in Contents
  /\ issues \subseteq Followups
  /\ day \in Nat /\ calls \in Nat

RoutingInit ==
  /\ state = [g \in Goals |-> "ready"]
  /\ blocked = [g \in Goals |-> NotBlocked]
  /\ last = [g \in Goals |-> Other]
  /\ docs = [p \in {} |-> Torn]
  /\ issues = {}
  /\ cmd = [p \in Procs |-> Idle]
  /\ day = 0 /\ calls = 0

Quiet == \A q \in Procs : cmd[q] = Idle
Ready(p) == IF Serialized THEN Quiet ELSE cmd[p] = Idle
Counted == calls < MaxCalls /\ calls' = calls + 1
At(p, stage) == cmd[p].stage = stage
Becomes(p, r) == cmd' = [cmd EXCEPT ![p] = r]
Put(path, text) ==
  docs' = [x \in DOMAIN docs \cup {path} |-> IF x = path THEN text ELSE docs[x]]

----------------------------------------------------------------------------
(* The event                                                               *)

AppendBlockedEvent(g, e) ==
  /\ state' = [state EXCEPT ![g] = "blocked"]
  /\ blocked' = [blocked EXCEPT ![g] = e]
  /\ last' = [last EXCEPT ![g] = e]

(* Without --write-artifact                                                *)
BlockPlainly(p, g) ==
  /\ Ready(p) /\ Counted
  /\ AppendBlockedEvent(g, Blocked(NoPath, NoIssue))
  /\ UNCHANGED <<docs, issues, cmd, day>>

BeginBlock(p, g) ==
  /\ Ready(p) /\ Counted
  /\ Becomes(p, Block(g))
  /\ UNCHANGED <<state, blocked, last, docs, issues, day>>

----------------------------------------------------------------------------
(* route_blocker_artifact                                                  *)

(* A route that failed, or is missing, leads straight to the event.        *)
Unrouted(p) ==
  /\ At(p, "routing") /\ Route[cmd[p].goal] = "none"
  /\ Becomes(p, [cmd[p] EXCEPT !.stage = "routed"])
  /\ UNCHANGED <<state, blocked, last, docs, issues, day, calls>>

(* _write_deterministic_artifact: a file that is there is reused if it is  *)
(* what would be written, and otherwise kept.  The alternatives take a     *)
(* torn file for none, and reuse a file without reading it.                *)
FreeOrTorn(path) == path \in DOMAIN docs => docs[path].kind = "torn"
Free(path) == path \notin DOMAIN docs
ReusableIfThere(path, text) == path \in DOMAIN docs
Reusable(path, text) == path \in DOMAIN docs /\ docs[path] = text

FindStub(p) ==
  LET g == cmd[p].goal
      path == Stub(g)
  IN  /\ At(p, "routing") /\ Route[g] \in {"spec", "evidence"}
      /\ \/ /\ Free(path)
            /\ Becomes(p, [cmd[p] EXCEPT !.stage = "found", !.path = path])
         \/ /\ Reusable(path, Text(g, cmd[p].day))
            /\ Becomes(p, [cmd[p] EXCEPT !.stage = "written", !.artifact = path])
         \/ /\ ~Free(path) /\ ~Reusable(path, Text(g, cmd[p].day))
            /\ Becomes(p, [cmd[p] EXCEPT !.stage = "routed"])
      /\ UNCHANGED <<state, blocked, last, docs, issues, day, calls>>

(* _next_adr_id: one more than the highest number, 1 if there is none; the *)
(* alternative counts the files.                                           *)
IsNextAdrByCount(n) == n = Cardinality(AdrsIn(DOMAIN docs)) + 1
IsNextAdr(n) ==
  /\ \A a \in AdrsIn(DOMAIN docs) : a.number < n
  /\ n = 1 \/ \E a \in AdrsIn(DOMAIN docs) : n = a.number + 1

(* create_adr takes a number without looking whether the file is there.    *)
TakeAdrNumber(p) ==
  /\ At(p, "routing") /\ Route[cmd[p].goal] = "adr"
  /\ \E n \in 1..MaxAdr :
       /\ IsNextAdr(n)
       /\ Becomes(p, [cmd[p] EXCEPT !.stage = "found", !.path = Adr(n, cmd[p].goal)])
  /\ UNCHANGED <<state, blocked, last, docs, issues, day, calls>>

(* write_text: truncated or created, then filled; either can fail.         *)
OpenDoc(p) ==
  /\ At(p, "found")
  /\ Put(cmd[p].path, Torn)
  /\ Becomes(p, [cmd[p] EXCEPT !.stage = "writing"])
  /\ UNCHANGED <<state, blocked, last, issues, day, calls>>

FillDoc(p) ==
  /\ At(p, "writing")
  /\ Put(cmd[p].path, Text(cmd[p].goal, cmd[p].day))
  /\ Becomes(p, [cmd[p] EXCEPT !.stage = "written", !.artifact = cmd[p].path])
  /\ UNCHANGED <<state, blocked, last, issues, day, calls>>

(* artifact_write_failed; the alternative names the artifact all the same. *)
AfterFailedWriteNamed(p) == [cmd[p] EXCEPT !.stage = "routed", !.artifact = cmd[p].path]
AfterFailedWrite(p) == [cmd[p] EXCEPT !.stage = "routed"]

WriteFails(p) ==
  /\ cmd[p].stage \in {"found", "writing"}
  /\ Becomes(p, AfterFailedWrite(p))
  /\ UNCHANGED <<state, blocked, last, docs, issues, day, calls>>

(* _create_beads_followup: bd may fail, may create an issue, and may       *)
(* create one and answer with nothing that names it.                       *)
AskBeads(p) ==
  /\ At(p, "written") /\ cmd[p].goal \in Followed
  /\ \/ /\ Becomes(p, [cmd[p] EXCEPT !.stage = "routed"])
        /\ UNCHANGED issues
     \/ \E f \in Followups \ issues, named \in BOOLEAN :
          /\ issues' = issues \cup {f}
          /\ Becomes(p, [cmd[p] EXCEPT !.stage = "routed",
                                       !.issue = IF named THEN f ELSE NoIssue])
  /\ UNCHANGED <<state, blocked, last, docs, day, calls>>

AskNobody(p) ==
  /\ At(p, "written") /\ cmd[p].goal \notin Followed
  /\ Becomes(p, [cmd[p] EXCEPT !.stage = "routed"])
  /\ UNCHANGED <<state, blocked, last, docs, issues, day, calls>>

FinishBlock(p) ==
  /\ At(p, "routed")
  /\ AppendBlockedEvent(cmd[p].goal, Blocked(cmd[p].artifact, cmd[p].issue))
  /\ Becomes(p, Idle)
  /\ UNCHANGED <<docs, issues, day, calls>>

----------------------------------------------------------------------------
(* Others                                                                  *)

Crash(p) ==
  /\ cmd[p] # Idle
  /\ Becomes(p, Idle)
  /\ UNCHANGED <<state, blocked, last, docs, issues, day, calls>>

(* An event of another goal command (module GoalLifecycle says when it is  *)
(* appended), and what reconstruct_goal_state makes of it.                 *)
StateAfter == [claimed |-> "claimed", started |-> "started", heartbeat |-> "pursuing",
               released |-> "released", evidence_pending |-> "evidence_pending",
               verified |-> "verified"]
Unblocking == {"claimed", "started", "evidence_pending", "verified"}

OtherEvent(g, k) ==
  /\ Counted
  /\ state' = [state EXCEPT ![g] = IF k \in DOMAIN StateAfter THEN StateAfter[k] ELSE @]
  /\ blocked' = [blocked EXCEPT ![g] = IF k \in Unblocking THEN NotBlocked ELSE @]
  /\ last' = [last EXCEPT ![g] = Other]
  /\ UNCHANGED <<docs, issues, cmd, day>>

(* A stale claim with no event after it is replayed as released.           *)
ClaimExpires(g) ==
  /\ state[g] = "claimed"
  /\ state' = [state EXCEPT ![g] = "released"]
  /\ UNCHANGED <<blocked, last, docs, issues, cmd, day, calls>>

(* People write into documents, and write ADRs of any number.              *)
Edit(path) ==
  /\ Counted /\ (Serialized => Quiet)
  /\ path \in DOMAIN docs \/ (path.number > 0 /\ path.title = ByHand)
  /\ \A other \in DOMAIN docs : path.number = 0 \/ other.number # path.number \/ other = path
  /\ Put(path, Edited)
  /\ UNCHANGED <<state, blocked, last, issues, cmd, day>>

Midnight ==
  /\ day < MaxDay /\ day' = day + 1
  /\ UNCHANGED <<state, blocked, last, docs, issues, cmd, calls>>

OtherKinds == DOMAIN StateAfter \cup {"outcome_contact", "ratified"}
Paths == {Stub(g) : g \in Goals} \cup {Adr(n, t) : n \in 1..MaxAdr, t \in Goals \cup {ByHand}}

RoutingNext ==
  \/ \E p \in Procs, g \in Goals : BlockPlainly(p, g) \/ BeginBlock(p, g)
  \/ \E p \in Procs :
       \/ Unrouted(p) \/ FindStub(p) \/ TakeAdrNumber(p)
       \/ OpenDoc(p) \/ FillDoc(p) \/ WriteFails(p)
       \/ AskBeads(p) \/ AskNobody(p) \/ FinishBlock(p) \/ Crash(p)
  \/ \E g \in Goals, k \in OtherKinds : OtherEvent(g, k)
  \/ \E g \in Goals : ClaimExpires(g)
  \/ \E path \in Paths : Edit(path)
  \/ Midnight
=============================================================================
