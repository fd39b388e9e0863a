------------------------------ MODULE BeadsSync ------------------------------
(***************************************************************************)
(* dp campaign sync-beads (dp/core/campaign_beads_sync.py): what the goals *)
(* of a loop are doing is carried over to their issues in the tracker,     *)
(* beside the blocks of BlockerRouting that create follow-up issues there. *)
(*                                                                         *)
(* A sync reads the goals one by one, plans from what it read, and then    *)
(* gives bd one command at a time: first the dependency edges, node by     *)
(* node and in the order they are listed, leaving out those bd listed for  *)
(* the issue, then a status for each issue.  The first failure ends it.    *)
(* Without --write it only plans.  The ledger's lint accepts a dependency  *)
(* listed twice, and two nodes with one issue; so does this module.        *)
(***************************************************************************)
EXTENDS BlockerRouting, Sequences

CONSTANTS
  Order,       \* the goals of the loop in ledger order
  DependsOn,   \* depends_on of each node, a list
  IssueOf      \* beads_issue_id of each node, NoIssue if it has none

ASSUME OrderListsGoals ==
  /\ Order \in Seq(Goals)
  /\ \A g \in Goals : \E i \in 1..Len(Order) : Order[i] = g
  /\ \A i, j \in 1..Len(Order) : Order[i] = Order[j] => i = j
ASSUME DependenciesResolve == DependsOn \in [Goals -> Seq(Goals)]
ASSUME FollowupsAreNew == \A g \in Goals : IssueOf[g] \notin Followups

VARIABLES
  edges,   \* <<i, j>>: issue i depends on issue j
  status   \* of each node's issue

vars == <<routing, edges, status>>

Statuses == {"open", "in_progress", "blocked", "closed"}
NodeIssues == {IssueOf[g] : g \in Goals} \ {NoIssue}
NotRead == [state |-> "not read"]

Issues == NodeIssues \cup Followups
Readings == [state : States, blocked : BlockEvents, last : BlockEvents]
SeenNodes == [Goals -> Readings \cup {NotRead}]
Syncs ==
  [stage : {"reading"}, write : BOOLEAN, seen : SeenNodes]
    \cup [stage : {"updating"}, write : BOOLEAN, seen : SeenNodes, node : Nat]
    \cup [stage : {"linking"}, write : BOOLEAN, seen : SeenNodes, node : Nat, entry : Nat,
          listed : SUBSET Issues, known : SUBSET (Issues \X Issues)]
Commands == {Idle} \cup Blocks \cup Syncs

(* Types; bd is given only statuses it has.                                *)
TypeOK ==
  /\ RoutingTypeOK
  /\ cmd \in [Procs -> Commands]
  /\ edges \subseteq Issues \X Issues
  /\ status \in [NodeIssues -> Statuses]

Init ==
  /\ RoutingInit
  /\ edges = {}
  /\ status = [i \in NodeIssues |-> "open"]

----------------------------------------------------------------------------
(* The plan, from what was read                                            *)

Active == {"claimed", "started", "pursuing"}

(* _blocked_followup_issue_id looks at the last event.                     *)
Followup(s) == IF s.state = "blocked" THEN s.last.issue ELSE NoIssue

(* What is listed for a node: its dependencies, then its follow-up.  An    *)
(* entry is an edge if there is an issue at both ends.                     *)
Entries(g) == 1..(Len(DependsOn[g]) + 1)
Target(seen, g, k) ==
  IF k <= Len(DependsOn[g]) THEN IssueOf[DependsOn[g][k]] ELSE Followup(seen[g])
IsEdge(seen, g, k) == IssueOf[g] # NoIssue /\ Target(seen, g, k) # NoIssue
Edge(seen, g, k) == <<IssueOf[g], Target(seen, g, k)>>

(* _lifecycle_operation; the alternative hands on the state as it is.      *)
StatusForByName(s) == {s.state}
StatusFor(s) ==
  CASE s.state \in Active -> {"in_progress"}
    [] s.state = "blocked" -> {"blocked"}
    [] s.state = "released" -> {"open"}
    [] s.state = "verified" -> {"closed"}
    [] OTHER -> {}
PlannedStatus(seen, g) == IF IssueOf[g] = NoIssue THEN {} ELSE StatusFor(seen[g])

----------------------------------------------------------------------------
(* loop_status                                                             *)

BeginSync(p, write) ==
  /\ Ready(p) /\ Counted
  /\ Becomes(p, [stage |-> "reading", write |-> write, seen |-> [g \in Goals |-> NotRead]])
  /\ UNCHANGED <<state, blocked, last, docs, issues, day, edges, status>>

Tracker == <<edges, status>>
Quietly == UNCHANGED <<state, blocked, last, docs, issues, day, calls>>

ReadNode(p) ==
  /\ At(p, "reading")
  /\ \E i \in 1..Len(Order) :
       /\ cmd[p].seen[Order[i]] = NotRead
       /\ \A j \in 1..i - 1 : cmd[p].seen[Order[j]] # NotRead
       /\ Becomes(p, [cmd[p] EXCEPT !.seen[Order[i]] =
            [state |-> state[Order[i]], blocked |-> blocked[Order[i]], last |-> last[Order[i]]]])
  /\ Quietly /\ UNCHANGED Tracker

----------------------------------------------------------------------------
(* _apply_operations                                                       *)

Node(p) == Order[cmd[p].node]

StartLinking(p) ==
  /\ At(p, "reading") /\ \A g \in Goals : cmd[p].seen[g] # NotRead
  /\ Becomes(p, [stage |-> "linking", write |-> cmd[p].write, seen |-> cmd[p].seen,
                 node |-> 1, entry |-> 1, listed |-> {}, known |-> {}])
  /\ Quietly /\ UNCHANGED Tracker

AtEntry(p) ==
  /\ At(p, "linking") /\ cmd[p].node <= Len(Order) /\ cmd[p].entry \in Entries(Node(p))
AtEdge(p) == AtEntry(p) /\ IsEdge(cmd[p].seen, Node(p), cmd[p].entry)
TheEdge(p) == Edge(cmd[p].seen, Node(p), cmd[p].entry)
IsListed(p) == IssueOf[Node(p)] \in cmd[p].listed
NextEntry(p) == [cmd[p] EXCEPT !.entry = @ + 1]

PassEntry(p) ==
  /\ AtEntry(p) /\ ~AtEdge(p)
  /\ Becomes(p, NextEntry(p))
  /\ Quietly /\ UNCHANGED Tracker

LinkNextNode(p) ==
  /\ At(p, "linking") /\ cmd[p].node <= Len(Order) /\ ~AtEntry(p)
  /\ Becomes(p, [cmd[p] EXCEPT !.node = @ + 1, !.entry = 1])
  /\ Quietly /\ UNCHANGED Tracker

(* bd dep list of the issue, once for all edges from it.                   *)
ListEdges(p) ==
  /\ AtEdge(p) /\ ~IsListed(p)
  /\ Becomes(p, [cmd[p] EXCEPT !.listed = @ \cup {IssueOf[Node(p)]},
                               !.known = @ \cup {e \in edges : e[1] = IssueOf[Node(p)]}])
  /\ Quietly /\ UNCHANGED Tracker

ListFails(p) ==
  /\ AtEdge(p) /\ ~IsListed(p)
  /\ Becomes(p, Idle)
  /\ Quietly /\ UNCHANGED Tracker

(* Only what bd listed is left out, not what the sync has added since; the *)
(* alternative forgets what bd listed.                                     *)
SkippableNever(p) == FALSE
Skippable(p) == TheEdge(p) \in cmd[p].known

SkipEdge(p) ==
  /\ AtEdge(p) /\ IsListed(p) /\ Skippable(p)
  /\ Becomes(p, NextEntry(p))
  /\ Quietly /\ UNCHANGED Tracker

PlanEdge(p) ==
  /\ AtEdge(p) /\ IsListed(p) /\ ~Skippable(p) /\ ~cmd[p].write
  /\ Becomes(p, NextEntry(p))
  /\ Quietly /\ UNCHANGED Tracker

(* What follows a bd command that failed; the alternative goes on.         *)
AfterFailureNext(p, next) == next
AfterFailure(p, next) == Idle

AddEdge(p) ==
  LET added == edges \cup {TheEdge(p)}
  IN  /\ AtEdge(p) /\ IsListed(p) /\ ~Skippable(p) /\ cmd[p].write
      /\ \/ edges' = added /\ Becomes(p, NextEntry(p))
         \/ edges' \in {edges, added} /\ Becomes(p, AfterFailure(p, NextEntry(p)))
      /\ Quietly /\ UNCHANGED status

Updating(p, i) ==
  Becomes(p, [stage |-> "updating", write |-> cmd[p].write, seen |-> cmd[p].seen, node |-> i])

StartUpdating(p) ==
  /\ At(p, "linking") /\ cmd[p].node > Len(Order)
  /\ Updating(p, 1)
  /\ Quietly /\ UNCHANGED Tracker

UpdateNextNode(p) ==
  /\ At(p, "updating") /\ cmd[p].node <= Len(Order)
  /\ ~cmd[p].write \/ PlannedStatus(cmd[p].seen, Node(p)) = {}
  /\ Updating(p, cmd[p].node + 1)
  /\ Quietly /\ UNCHANGED Tracker

UpdateIssue(p) ==
  LET next == [cmd[p] EXCEPT !.node = @ + 1]
  IN  /\ At(p, "updating") /\ cmd[p].node <= Len(Order) /\ cmd[p].write
      /\ \E s \in PlannedStatus(cmd[p].seen, Node(p)) :
           LET updated == [status EXCEPT ![IssueOf[Node(p)]] = s]
           IN  \/ status' = updated /\ Becomes(p, next)
               \/ status' \in {status, updated} /\ Becomes(p, AfterFailure(p, next))
      /\ Quietly /\ UNCHANGED edges

Done(p) == At(p, "updating") /\ cmd[p].node > Len(Order)

FinishSync(p) ==
  /\ Done(p)
  /\ Becomes(p, Idle)
  /\ Quietly /\ UNCHANGED Tracker

Next ==
  \/ RoutingNext /\ UNCHANGED Tracker
  \/ \E p \in Procs, write \in BOOLEAN : BeginSync(p, write)
  \/ \E p \in Procs :
       \/ ReadNode(p) \/ StartLinking(p) \/ PassEntry(p) \/ LinkNextNode(p)
       \/ ListEdges(p) \/ ListFails(p) \/ SkipEdge(p) \/ PlanEdge(p) \/ AddEdge(p)
       \/ StartUpdating(p) \/ UpdateNextNode(p) \/ UpdateIssue(p) \/ FinishSync(p)

Spec == Init /\ [][Next]_vars

----------------------------------------------------------------------------
(* Properties, for Serialized                                              *)

(* A blocked event names only a document that holds, at that moment, all   *)
(* of what the block would write: one it wrote to the end, or found, never *)
(* one that a crash tore or a person changed, whatever else failed         *)
(* (SPEC-80-14, requirements 10, 12 and 13).                               *)
EventsNameDocuments ==
  [][\A p \in Procs : FinishBlock(p) /\ cmd[p].artifact # NoPath =>
       /\ cmd[p].artifact \in DOMAIN docs
       /\ docs[cmd[p].artifact] = Text(cmd[p].goal, cmd[p].day)]_vars

(* A block never writes over a document that is there, its own of another  *)
(* day, a person's or a torn one (SPEC-80-14, requirement 10).             *)
BlocksKeepDocuments ==
  [][\A p \in Procs : OpenDoc(p) => cmd[p].path \notin DOMAIN docs]_vars

(* No two ADRs get the same number, so that dp adr show finds each by it.  *)
AdrNumbersAreUnique ==
  \A a, b \in AdrsIn(DOMAIN docs) : a.number = b.number => a = b

(* An earlier entry of the sync is the same edge: a dependency is listed   *)
(* twice, or two nodes share an issue.                                     *)
Earlier(c, j, k) == j < c.node \/ (j = c.node /\ k < c.entry)
Repeats(p) ==
  \E j \in 1..Len(Order) : \E k \in Entries(Order[j]) :
    /\ Earlier(cmd[p], j, k)
    /\ IsEdge(cmd[p].seen, Order[j], k)
    /\ Edge(cmd[p].seen, Order[j], k) = TheEdge(p)

(* An edge that was in the tracker when a sync came to it first, from      *)
(* syncs that failed or ended well, is not given to bd again, nor proposed *)
(* (SPEC-80-18, invariant 2: existing records are not duplicated).  What   *)
(* the sync itself has just added it gives to bd once more for every       *)
(* repetition in the ledger; "no duplicate dependency edges" (docs/        *)
(* reference/campaign-beads-sync.md, safety rule 4) would be too much.     *)
ExistingEdgesAreNotDuplicated ==
  [][\A p \in Procs : PlanEdge(p) \/ AddEdge(p) =>
       TheEdge(p) \notin edges \/ (cmd[p].write /\ Repeats(p))]_vars

(* A write that reports no failure has carried over all it read: every     *)
(* planned edge is in the tracker, every issue shows the state of its goal *)
(* or, if nodes share it, of the last of them that has a status to show    *)
(* (SPEC-80-18, invariants 1, 3 and 4 to 7, for what the code plans).      *)
Overrules(seen, i, j) ==
  /\ IssueOf[Order[i]] = IssueOf[Order[j]]
  /\ PlannedStatus(seen, Order[i]) # {}
  /\ i > j
SyncLeavesPlan ==
  \A p \in Procs : Done(p) /\ cmd[p].write =>
    \A j \in 1..Len(Order) :
      LET g == Order[j]
          seen == cmd[p].seen
      IN  /\ \A k \in Entries(g) : IsEdge(seen, g, k) => Edge(seen, g, k) \in edges
          /\ \A s \in PlannedStatus(seen, g) :
               \/ status[IssueOf[g]] = s
               \/ \E i \in 1..Len(Order) : Overrules(seen, i, j)

(* For every blocked node whose routed blocker event created a follow-up,  *)
(* the tracker then has the dependency (SPEC-80-18, invariant 3).  The     *)
(* code looks at the last event, and an outcome after the block hides it.  *)
FollowupsAreLinked ==
  \A p \in Procs : Done(p) /\ cmd[p].write =>
    \A g \in Goals :
      LET s == cmd[p].seen[g]
      IN  s.state = "blocked" /\ s.blocked.issue # NoIssue /\ IssueOf[g] # NoIssue
            => <<IssueOf[g], s.blocked.issue>> \in edges
=============================================================================
