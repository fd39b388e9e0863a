----------------------------- MODULE BeadsProofs -----------------------------
(***************************************************************************)
(* Proofs about BlockerRouting and BeadsSync: when nobody else runs a      *)
(* command or edits a document meanwhile, blocks keep documents and name   *)
(* whole ones, ADR numbers differ, and a sync that ends well has carried   *)
(* its plan over, having given bd no edge that was there before it.  The   *)
(* invariant says of the one command under way what its stage promises:    *)
(* about the documents if it is a block (BlockHolds), about the tracker if *)
(* it is a sync (SyncHolds).                                               *)
(* Goal events and expiring claims go on meanwhile; neither depends on     *)
(* them, because a sync plans from what it has read.                       *)
(***************************************************************************)
EXTENDS BeadsSync, TLAPS

(* The document a block has chosen is still free, and its number the       *)
(* highest; the document it opened is there; the artifact it will name     *)
(* holds its text.                                                         *)
BlockHolds(c) ==
  /\ c.stage = "found" =>
       /\ c.path \notin DOMAIN docs
       /\ c.path.number > 0 => \A a \in AdrsIn(DOMAIN docs) : a.number < c.path.number
  /\ c.stage = "writing" => c.path \in DOMAIN docs
  /\ c.stage \in {"routing", "found", "writing"} => c.artifact = NoPath
  /\ c.stage \in {"written", "routed"} =>
       \/ c.artifact = NoPath
       \/ c.artifact \in DOMAIN docs /\ docs[c.artifact] = Text(c.goal, c.day)

(* Where a sync has been, the edges are there.  What bd listed is there;   *)
(* and what is there now of an issue it was asked about it listed, or the  *)
(* sync has added since.  Then the statuses: of the nodes of an issue that *)
(* have had their turn, the last decides.                                  *)
AllRead(c) == \A g \in Goals : c.seen[g] \in Readings
SameEdge(c, j, k, e) == IsEdge(c.seen, Order[j], k) /\ Edge(c.seen, Order[j], k) = e
Behind(c, e) ==
  \E j \in 1..Len(Order) : \E k \in Entries(Order[j]) : Earlier(c, j, k) /\ SameEdge(c, j, k, e)
LinkedBefore(c) == \A e : Behind(c, e) => e \in edges
ListIsRight(c) ==
  /\ c.known \subseteq edges
  /\ \A e \in edges : e[1] \in c.listed => e \in c.known \/ (c.write /\ Behind(c, e))
AllLinked(seen) ==
  \A g \in Goals : \A k \in Entries(g) : IsEdge(seen, g, k) => Edge(seen, g, k) \in edges
UpdatedBefore(c) ==
  \A j \in 1..Len(Order) : j < c.node =>
    \A s \in PlannedStatus(c.seen, Order[j]) :
      \/ status[IssueOf[Order[j]]] = s
      \/ \E i \in 1..Len(Order) : i < c.node /\ Overrules(c.seen, i, j)

SyncHolds(c) ==
  /\ c.stage \in {"linking", "updating"} => AllRead(c) /\ c.node >= 1
  /\ c.stage = "linking" => c.entry >= 1 /\ ListIsRight(c) /\ (c.write => LinkedBefore(c))
  /\ c.stage = "updating" /\ c.write => AllLinked(c.seen) /\ UpdatedBefore(c)

OneCommand == \A p, q \in Procs : cmd[p] # Idle /\ cmd[q] # Idle => p = q

Inv ==
  /\ TypeOK
  /\ OneCommand
  /\ AdrNumbersAreUnique
  /\ \A p \in Procs : BlockHolds(cmd[p]) /\ SyncHolds(cmd[p])

----------------------------------------------------------------------------
(* Shapes of commands                                                      *)

LEMMA IdleHolds ==
  /\ Idle \in Commands /\ Idle.stage = "idle"
  /\ BlockHolds(Idle) /\ SyncHolds(Idle)
BY DEF Idle, Commands, BlockHolds, SyncHolds

(* The stage tells what kind of record a command is.                       *)
LEMMA Kinds ==
  ASSUME NEW c \in Commands
  PROVE  /\ c.stage \in {"routing", "found", "writing", "written", "routed"} => c \in Blocks
         /\ c.stage = "reading" =>
              c \in [stage : {"reading"}, write : BOOLEAN, seen : SeenNodes]
         /\ c.stage = "updating" =>
              c \in [stage : {"updating"}, write : BOOLEAN, seen : SeenNodes, node : Nat]
         /\ c.stage = "linking" =>
              c \in [stage : {"linking"}, write : BOOLEAN, seen : SeenNodes, node : Nat,
                     entry : Nat, listed : SUBSET Issues, known : SUBSET (Issues \X Issues)]
         /\ c.stage = "idle" => c = Idle
BY DEF Commands, Blocks, Syncs, Idle

LEMMA OrderFacts ==
  /\ Len(Order) \in Nat
  /\ \A i \in 1..Len(Order) : Order[i] \in Goals
  /\ \A g \in Goals : \E i \in 1..Len(Order) : Order[i] = g
  /\ \A i, j \in 1..Len(Order) : Order[i] = Order[j] => i = j
BY OrderListsGoals

(* A command takes a step: the others are idle and stay so.                *)
LEMMA OneMoves ==
  ASSUME TypeOK, OneCommand, NEW p \in Procs, Quiet \/ cmd[p] # Idle,
         NEW c \in Commands, Becomes(p, c)
  PROVE  /\ cmd' \in [Procs -> Commands]
         /\ OneCommand'
         /\ cmd'[p] = c
         /\ \A q \in Procs : q # p => cmd'[q] = Idle
<1>1. \A q \in Procs : q # p => cmd[q] = Idle
  BY DEF Quiet, OneCommand
<1>2. cmd \in [Procs -> Commands] /\ cmd' = [cmd EXCEPT ![p] = c]
  BY DEF TypeOK, Becomes
<1>3. cmd' \in [Procs -> Commands] /\ cmd'[p] = c
  BY <1>2
<1>4. \A q \in Procs : q # p => cmd'[q] = cmd[q]
  BY <1>2
<1>5. OneCommand'
  BY <1>1, <1>4 DEF OneCommand
<1> QED
  BY <1>1, <1>3, <1>4, <1>5

(* So a step keeps the invariant if its own command's promise is kept.     *)
LEMMA StepWith ==
  ASSUME Inv, NEW p \in Procs, Quiet \/ cmd[p] # Idle,
         NEW c \in Commands, Becomes(p, c), BlockHolds(c)', SyncHolds(c)',
         RoutingTypeOK', (edges \subseteq Issues \X Issues)',
         (status \in [NodeIssues -> Statuses])', AdrNumbersAreUnique'
  PROVE  Inv'
<1>1. /\ cmd' \in [Procs -> Commands]
      /\ OneCommand'
      /\ cmd'[p] = c
      /\ \A q \in Procs : q # p => cmd'[q] = Idle
  BY OneMoves DEF Inv
<1>2. TypeOK'
  BY <1>1 DEF TypeOK
<1>3. ASSUME NEW q \in Procs PROVE (BlockHolds(cmd[q]) /\ SyncHolds(cmd[q]))'
  <2>1. CASE q = p
    BY <1>1, <2>1 DEF BlockHolds, SyncHolds, AllRead, LinkedBefore, ListIsRight, UpdatedBefore,
               AllLinked
  <2>2. CASE q # p
    <3>1. cmd'[q] = Idle /\ Idle.stage = "idle"
      BY <1>1, <2>2, IdleHolds
    <3> QED
      BY <3>1 DEF BlockHolds, SyncHolds
  <2> QED
    BY <2>1, <2>2
<1> QED
  BY <1>1, <1>2, <1>3 DEF Inv

----------------------------------------------------------------------------
(* Blocks                                                                  *)

LEMMA PutsADocument ==
  ASSUME RoutingTypeOK, NEW path \in DocPaths, NEW text \in Contents, Put(path, text)
  PROVE  /\ DOMAIN docs' = DOMAIN docs \cup {path}
         /\ docs' = [x \in DOMAIN docs' |-> docs'[x]]
         /\ DOMAIN docs' \subseteq DocPaths /\ \A x \in DOMAIN docs' : docs'[x] \in Contents
         /\ docs'[path] = text
         /\ \A x \in DOMAIN docs : x # path => docs'[x] = docs[x]
BY DEF RoutingTypeOK, Put

(* A step of a block that writes no document.                              *)
LEMMA BlockStep ==
  ASSUME Inv, NEW p \in Procs, Quiet \/ cmd[p] # Idle,
         NEW c \in Blocks \cup {Idle}, Becomes(p, c), BlockHolds(c), RoutingTypeOK',
         UNCHANGED <<docs, edges, status>>
  PROVE  Inv'
<1>1. c \in Commands
  BY DEF Commands
<1>2. BlockHolds(c)'
  BY DEF BlockHolds, AdrsIn
<1>3. SyncHolds(c)'
  BY DEF SyncHolds, Blocks, Idle
<1>4. AdrNumbersAreUnique'
  BY DEF Inv, AdrNumbersAreUnique, AdrsIn
<1>5. (edges \subseteq Issues \X Issues)' /\ (status \in [NodeIssues -> Statuses])'
  BY DEF Inv, TypeOK
<1> QED
  BY <1>1, <1>2, <1>3, <1>4, <1>5, StepWith

LEMMA InBlock ==
  ASSUME Inv, NEW p \in Procs,
         cmd[p].stage \in {"routing", "found", "writing", "written", "routed"}
  PROVE  cmd[p] \in Blocks /\ BlockHolds(cmd[p]) /\ cmd[p] # Idle /\ RoutingTypeOK
BY Kinds, IdleHolds DEF Inv, TypeOK

LEMMA StubIsPath ==
  /\ NoPath \in DocPaths
  /\ \A g \in Goals : Stub(g) \in DocPaths /\ Stub(g).number = 0
  /\ \A g \in Goals, n \in 1..MaxAdr :
       Adr(n, g) \in DocPaths /\ Adr(n, g).number = n /\ Adr(n, ByHand) \in DocPaths
<1>1. NoPath \in DocPaths
  BY DEF NoPath, DocPaths
<1>2. \A g \in Goals : Stub(g) \in DocPaths /\ Stub(g).number = 0
  BY DEF DocPaths, Stub
<1>3. ASSUME NEW n \in 1..MaxAdr, NEW t \in Goals \cup {ByHand}
      PROVE  Adr(n, t) \in DocPaths /\ Adr(n, t).number = n
  <2>1. n \in Nat
    BY BoundsAreNatural
  <2> QED
    BY <2>1 DEF DocPaths, Adr
<1> QED
  BY <1>1, <1>2, <1>3

LEMMA BeginBlockKeepsInv ==
  ASSUME Serialized, Inv, NEW p \in Procs, NEW g \in Goals,
         BeginBlock(p, g), UNCHANGED Tracker
  PROVE  Inv'
<1>1. PICK c : c = Block(g)
  OBVIOUS
<1>2. c \in Blocks /\ c.stage = "routing" /\ c.artifact = NoPath
  BY <1>1, StubIsPath DEF Block, Blocks, Inv, TypeOK, RoutingTypeOK
<1>3. BlockHolds(c)
  BY <1>2 DEF BlockHolds
<1>4. Quiet /\ Becomes(p, c) /\ UNCHANGED <<state, blocked, last, docs, issues, day>>
  BY <1>1 DEF BeginBlock, Ready
<1>5. RoutingTypeOK'
  BY <1>4 DEF Inv, TypeOK, RoutingTypeOK, BeginBlock, Counted
<1> QED
  BY <1>2, <1>3, <1>4, <1>5, BlockStep DEF Tracker

LEMMA FindStubKeepsInv ==
  ASSUME Serialized, Inv, NEW p \in Procs, FindStub(p), UNCHANGED Tracker
  PROVE  Inv'
<1>1. PICK b : b = cmd[p]
  OBVIOUS
<1>2. b \in Blocks /\ BlockHolds(b) /\ b # Idle /\ RoutingTypeOK /\ b.stage = "routing"
  BY <1>1, InBlock DEF FindStub, At
<1>3. b.artifact = NoPath /\ b.goal \in Goals
  BY <1>2 DEF BlockHolds, Blocks
<1>4. PICK path \in DocPaths : path = Stub(b.goal) /\ path.number = 0
  BY <1>3, StubIsPath
<1>5. PICK c \in Blocks : Becomes(p, c) /\ BlockHolds(c)
  <2>1. CASE Free(path) /\ Becomes(p, [b EXCEPT !.stage = "found", !.path = path])
    <3>1. PICK c : c = [b EXCEPT !.stage = "found", !.path = path]
      OBVIOUS
    <3>2. c \in Blocks /\ c.stage = "found" /\ c.path = path /\ c.artifact = NoPath
      BY <1>2, <1>3, <3>1 DEF Blocks
    <3>3. BlockHolds(c)
      BY <1>4, <2>1, <3>2 DEF BlockHolds, Free
    <3> QED
      BY <2>1, <3>1, <3>2, <3>3
  <2>2. CASE /\ Reusable(path, Text(b.goal, b.day))
             /\ Becomes(p, [b EXCEPT !.stage = "written", !.artifact = path])
    <3>1. PICK c : c = [b EXCEPT !.stage = "written", !.artifact = path]
      OBVIOUS
    <3>2. /\ c \in Blocks /\ c.stage = "written" /\ c.artifact = path
          /\ c.goal = b.goal /\ c.day = b.day
      BY <1>2, <3>1 DEF Blocks
    <3>3. BlockHolds(c)
      BY <2>2, <3>2 DEF BlockHolds, Reusable
    <3> QED
      BY <2>2, <3>1, <3>2, <3>3
  <2>3. CASE Becomes(p, [b EXCEPT !.stage = "routed"])
    <3>1. PICK c : c = [b EXCEPT !.stage = "routed"]
      OBVIOUS
    <3>2. c \in Blocks /\ c.stage = "routed" /\ c.artifact = NoPath
      BY <1>2, <1>3, <3>1 DEF Blocks
    <3>3. BlockHolds(c)
      BY <3>2 DEF BlockHolds
    <3> QED
      BY <2>3, <3>1, <3>2, <3>3
  <2> QED
    BY <1>1, <1>4, <2>1, <2>2, <2>3 DEF FindStub
<1>6. UNCHANGED <<state, blocked, last, docs, issues, day, calls>>
  BY DEF FindStub
<1>7. RoutingTypeOK'
  BY <1>2, <1>6 DEF RoutingTypeOK
<1> QED
  BY <1>1, <1>2, <1>5, <1>6, <1>7, BlockStep DEF Tracker

LEMMA TakeAdrNumberKeepsInv ==
  ASSUME Serialized, Inv, NEW p \in Procs, TakeAdrNumber(p), UNCHANGED Tracker
  PROVE  Inv'
<1>1. PICK b : b = cmd[p]
  OBVIOUS
<1>2. b \in Blocks /\ BlockHolds(b) /\ b # Idle /\ RoutingTypeOK /\ b.stage = "routing"
  BY <1>1, InBlock DEF TakeAdrNumber, At
<1>3. b.artifact = NoPath /\ b.goal \in Goals
  BY <1>2 DEF BlockHolds, Blocks
<1>4. PICK n \in 1..MaxAdr :
        IsNextAdr(n) /\ Becomes(p, [b EXCEPT !.stage = "found", !.path = Adr(n, b.goal)])
  BY <1>1 DEF TakeAdrNumber
<1>5. PICK path \in DocPaths : path = Adr(n, b.goal) /\ path.number = n
  BY <1>3, StubIsPath
<1>6. PICK c : c = [b EXCEPT !.stage = "found", !.path = path]
  OBVIOUS
<1>7. c \in Blocks /\ c.stage = "found" /\ c.path = path /\ c.artifact = NoPath
  BY <1>2, <1>3, <1>6 DEF Blocks
<1>8. path \notin DOMAIN docs
  BY <1>4, <1>5, BoundsAreNatural DEF IsNextAdr, AdrsIn
<1>9. BlockHolds(c)
  BY <1>4, <1>5, <1>7, <1>8 DEF BlockHolds, IsNextAdr
<1>10. UNCHANGED <<state, blocked, last, docs, issues, day, calls>>
  BY DEF TakeAdrNumber
<1>11. RoutingTypeOK'
  BY <1>2, <1>10 DEF RoutingTypeOK
<1> QED
  BY <1>1, <1>2, <1>4, <1>5, <1>6, <1>7, <1>9, <1>10, <1>11, BlockStep DEF Tracker

LEMMA OpenDocKeepsInv ==
  ASSUME Serialized, Inv, NEW p \in Procs, OpenDoc(p), UNCHANGED Tracker
  PROVE  Inv'
<1>1. PICK b : b = cmd[p]
  OBVIOUS
<1>2. b \in Blocks /\ BlockHolds(b) /\ b # Idle /\ RoutingTypeOK /\ b.stage = "found"
  BY <1>1, InBlock DEF OpenDoc, At
<1>3. PICK path \in DocPaths : path = b.path
  BY <1>2 DEF Blocks
<1>4. PICK c : c = [b EXCEPT !.stage = "writing"]
  OBVIOUS
<1>5. c \in Blocks /\ c.stage = "writing" /\ c.path = path /\ c.artifact = NoPath
  BY <1>2, <1>3, <1>4 DEF Blocks, BlockHolds
<1>6. /\ Put(path, Torn) /\ Becomes(p, c)
      /\ UNCHANGED <<state, blocked, last, issues, day, calls>>
  BY <1>1, <1>3, <1>4 DEF OpenDoc
<1>7. /\ DOMAIN docs' = DOMAIN docs \cup {path}
      /\ docs' = [x \in DOMAIN docs' |-> docs'[x]]
      /\ DOMAIN docs' \subseteq DocPaths /\ \A x \in DOMAIN docs' : docs'[x] \in Contents
  BY <1>2, <1>6, PutsADocument DEF Contents
<1>8. RoutingTypeOK'
  BY <1>2, <1>6, <1>7 DEF RoutingTypeOK
<1>9. BlockHolds(c)'
  BY <1>5, <1>7 DEF BlockHolds
<1>10. SyncHolds(c)'
  BY <1>5 DEF SyncHolds
<1>11. AdrNumbersAreUnique'
  <2>1. \A a \in AdrsIn(DOMAIN docs) : path.number > 0 => a.number < path.number
    BY <1>2, <1>3 DEF BlockHolds
  <2>2. \A a \in DOMAIN docs : a.number \in Nat
    BY <1>2 DEF RoutingTypeOK, DocPaths
  <2>3. path.number \in Nat
    BY DEF DocPaths
  <2> QED
    BY <1>7, <2>1, <2>2, <2>3 DEF Inv, AdrNumbersAreUnique, AdrsIn
<1>12. (edges \subseteq Issues \X Issues)' /\ (status \in [NodeIssues -> Statuses])'
  BY DEF Inv, TypeOK, Tracker
<1>13. c \in Commands
  BY <1>5 DEF Commands
<1> QED
  BY <1>1, <1>2, <1>6, <1>8, <1>9, <1>10, <1>11, <1>12, <1>13, StepWith

LEMMA FillDocKeepsInv ==
  ASSUME Serialized, Inv, NEW p \in Procs, FillDoc(p), UNCHANGED Tracker
  PROVE  Inv'
<1>1. PICK b : b = cmd[p]
  OBVIOUS
<1>2. b \in Blocks /\ BlockHolds(b) /\ b # Idle /\ RoutingTypeOK /\ b.stage = "writing"
  BY <1>1, InBlock DEF FillDoc, At
<1>3. PICK path \in DocPaths : path = b.path
  BY <1>2 DEF Blocks
<1>4. PICK text : text = Text(b.goal, b.day)
  OBVIOUS
<1>5. text \in Contents
  BY <1>2, <1>4 DEF Text, Contents, Blocks
<1>6. PICK c : c = [b EXCEPT !.stage = "written", !.artifact = path]
  OBVIOUS
<1>7. /\ c \in Blocks /\ c.stage = "written" /\ c.artifact = path
      /\ c.goal = b.goal /\ c.day = b.day
  BY <1>2, <1>3, <1>6 DEF Blocks
<1>8. /\ Put(path, text) /\ Becomes(p, c)
      /\ UNCHANGED <<state, blocked, last, issues, day, calls>>
  BY <1>1, <1>3, <1>4, <1>6 DEF FillDoc
<1>9. path \in DOMAIN docs
  BY <1>2, <1>3 DEF BlockHolds
<1>10. /\ DOMAIN docs' = DOMAIN docs
       /\ docs' = [x \in DOMAIN docs' |-> docs'[x]]
       /\ \A x \in DOMAIN docs' : docs'[x] \in Contents
       /\ docs'[path] = text
  BY <1>2, <1>5, <1>8, <1>9, PutsADocument
<1>11. RoutingTypeOK'
  BY <1>2, <1>8, <1>10 DEF RoutingTypeOK
<1>12. BlockHolds(c)'
  BY <1>4, <1>7, <1>9, <1>10 DEF BlockHolds, Text
<1>13. SyncHolds(c)'
  BY <1>7 DEF SyncHolds
<1>14. AdrNumbersAreUnique'
  BY <1>10 DEF Inv, AdrNumbersAreUnique, AdrsIn
<1>15. (edges \subseteq Issues \X Issues)' /\ (status \in [NodeIssues -> Statuses])'
  BY DEF Inv, TypeOK, Tracker
<1>16. c \in Commands
  BY <1>7 DEF Commands
<1> QED
  BY <1>1, <1>2, <1>8, <1>11, <1>12, <1>13, <1>14, <1>15, <1>16, StepWith

(* The steps that write nothing lead to "routed" with the artifact as it   *)
(* is, or, when the block is over, to nothing.                             *)
LEMMA RoutedHolds ==
  ASSUME NEW b \in Blocks, BlockHolds(b), NEW issue \in Followups \cup {NoIssue}
  PROVE  LET c == [b EXCEPT !.stage = "routed", !.issue = issue]
         IN  c \in Blocks /\ BlockHolds(c)
<1>1. PICK c : c = [b EXCEPT !.stage = "routed", !.issue = issue]
  OBVIOUS
<1>2. /\ c \in Blocks /\ c.stage = "routed" /\ c.artifact = b.artifact
      /\ c.goal = b.goal /\ c.day = b.day
  BY <1>1 DEF Blocks
<1>3. \/ b.artifact = NoPath
      \/ b.artifact \in DOMAIN docs /\ docs[b.artifact] = Text(b.goal, b.day)
  BY DEF BlockHolds, Blocks
<1>4. BlockHolds(c)
  BY <1>2, <1>3 DEF BlockHolds
<1> QED
  BY <1>1, <1>2, <1>4

LEMMA RoutedWithoutIssue ==
  ASSUME NEW b \in Blocks, BlockHolds(b)
  PROVE  LET c == [b EXCEPT !.stage = "routed"]
         IN  c \in Blocks /\ BlockHolds(c)
<1>1. [b EXCEPT !.stage = "routed"] = [b EXCEPT !.stage = "routed", !.issue = b.issue]
  BY DEF Blocks
<1>2. b.issue \in Followups \cup {NoIssue}
  BY DEF Blocks
<1> QED
  BY <1>1, <1>2, RoutedHolds

LEMMA RoutedKeepsInv ==
  ASSUME Serialized, Inv, NEW p \in Procs, UNCHANGED Tracker,
         Unrouted(p) \/ WriteFails(p) \/ AskBeads(p) \/ AskNobody(p)
  PROVE  Inv'
<1>1. cmd[p] \in Blocks /\ BlockHolds(cmd[p]) /\ cmd[p] # Idle /\ RoutingTypeOK
  BY InBlock DEF Unrouted, WriteFails, AskBeads, AskNobody, At
<1>2. UNCHANGED <<state, blocked, last, docs, day, calls>>
  BY DEF Unrouted, WriteFails, AskBeads, AskNobody
<1>3. issues' \subseteq Followups
  BY <1>1 DEF RoutingTypeOK, Unrouted, WriteFails, AskBeads, AskNobody
<1>4. RoutingTypeOK'
  BY <1>1, <1>2, <1>3 DEF RoutingTypeOK
<1>5. \/ Becomes(p, [cmd[p] EXCEPT !.stage = "routed"])
      \/ \E issue \in Followups \cup {NoIssue} :
           Becomes(p, [cmd[p] EXCEPT !.stage = "routed", !.issue = issue])
  <2>1. CASE ~AskBeads(p)
    BY <2>1 DEF Unrouted, WriteFails, AfterFailedWrite, AskNobody
  <2>2. CASE AskBeads(p)
    BY <2>2 DEF AskBeads
  <2> QED
    BY <2>1, <2>2
<1>6. PICK c \in Blocks : Becomes(p, c) /\ BlockHolds(c)
  BY <1>1, <1>5, RoutedHolds, RoutedWithoutIssue
<1> QED
  BY <1>1, <1>2, <1>4, <1>6, BlockStep DEF Tracker

LEMMA FinishBlockKeepsInv ==
  ASSUME Serialized, Inv, NEW p \in Procs, FinishBlock(p), UNCHANGED Tracker
  PROVE  Inv'
<1>1. PICK b : b = cmd[p]
  OBVIOUS
<1>2. b \in Blocks /\ b # Idle /\ RoutingTypeOK
  BY <1>1, InBlock DEF FinishBlock, At
<1>3. b.goal \in Goals /\ Blocked(b.artifact, b.issue) \in BlockEvents
  BY <1>2 DEF Blocks, Blocked, BlockEvents
<1>4. /\ AppendBlockedEvent(b.goal, Blocked(b.artifact, b.issue))
      /\ UNCHANGED <<docs, issues, day, calls>> /\ Becomes(p, Idle)
  BY <1>1 DEF FinishBlock
<1>5. /\ state' \in [Goals -> States]
      /\ blocked' \in [Goals -> BlockEvents] /\ last' \in [Goals -> BlockEvents]
  BY <1>2, <1>3, <1>4 DEF RoutingTypeOK, AppendBlockedEvent, States
<1>6. RoutingTypeOK'
  BY <1>2, <1>4, <1>5 DEF RoutingTypeOK
<1> QED
  BY <1>1, <1>2, <1>4, <1>6, IdleHolds, BlockStep DEF Tracker

LEMMA CrashKeepsInv ==
  ASSUME Serialized, Inv, NEW p \in Procs, Crash(p), UNCHANGED Tracker
  PROVE  Inv'
<1>1. /\ cmd[p] # Idle /\ Becomes(p, Idle)
      /\ UNCHANGED <<state, blocked, last, docs, issues, day, calls>>
  BY DEF Crash
<1>2. RoutingTypeOK'
  BY <1>1 DEF Inv, TypeOK, RoutingTypeOK
<1> QED
  BY <1>1, <1>2, IdleHolds, BlockStep DEF Tracker

----------------------------------------------------------------------------
(* Others, who leave commands, documents and tracker alone                 *)

LEMMA OthersStep ==
  ASSUME Inv, RoutingTypeOK', UNCHANGED <<cmd, docs, edges, status>>
  PROVE  Inv'
<1>1. TypeOK'
  BY DEF Inv, TypeOK
<1>2. OneCommand' /\ AdrNumbersAreUnique'
  BY DEF Inv, OneCommand, AdrNumbersAreUnique, AdrsIn
<1>3. ASSUME NEW q \in Procs PROVE (BlockHolds(cmd[q]) /\ SyncHolds(cmd[q]))'
  <2>1. BlockHolds(cmd[q])'
    BY DEF Inv, BlockHolds, AdrsIn
  <2>2. SyncHolds(cmd[q])'
    <3>1. PICK c : c = cmd[q]
      OBVIOUS
    <3>2. SyncHolds(c) /\ cmd'[q] = c
      BY <3>1 DEF Inv
    <3>3. SyncHolds(c)'
      BY <3>2 DEF SyncHolds, AllRead, LinkedBefore, ListIsRight, UpdatedBefore, AllLinked
    <3> QED
      BY <3>2, <3>3 DEF SyncHolds, AllRead, LinkedBefore, ListIsRight, UpdatedBefore, AllLinked
  <2> QED
    BY <2>1, <2>2
<1> QED
  BY <1>1, <1>2, <1>3 DEF Inv

LEMMA EventKeepsInv ==
  ASSUME Inv, NEW g \in Goals, UNCHANGED Tracker,
         \/ \E p \in Procs : BlockPlainly(p, g)
         \/ \E k \in OtherKinds : OtherEvent(g, k)
         \/ ClaimExpires(g)
  PROVE  Inv'
<1>1. RoutingTypeOK
  BY DEF Inv, TypeOK
<1>2. /\ Blocked(NoPath, NoIssue) \in BlockEvents
      /\ Other \in BlockEvents /\ NotBlocked \in BlockEvents
  BY StubIsPath DEF Blocked, Other, NotBlocked, BlockEvents
<1>3. /\ \A k \in DOMAIN StateAfter : StateAfter[k] \in States
      /\ "released" \in States /\ "blocked" \in States
  BY DEF StateAfter, States
<1>4. /\ state' \in [Goals -> States]
      /\ blocked' \in [Goals -> BlockEvents] /\ last' \in [Goals -> BlockEvents]
  <2>1. CASE \E p \in Procs : BlockPlainly(p, g)
    BY <1>1, <1>2, <1>3, <2>1 DEF RoutingTypeOK, BlockPlainly, AppendBlockedEvent
  <2>2. CASE \E k \in OtherKinds : OtherEvent(g, k)
    <3>1. PICK k \in OtherKinds : OtherEvent(g, k)
      BY <2>2
    <3>2. state' \in [Goals -> States]
      BY <1>1, <1>3, <3>1 DEF RoutingTypeOK, OtherEvent
    <3> QED
      BY <1>1, <1>2, <3>1, <3>2 DEF RoutingTypeOK, OtherEvent
  <2>3. CASE ClaimExpires(g)
    BY <1>1, <1>3, <2>3 DEF RoutingTypeOK, ClaimExpires
  <2> QED
    BY <2>1, <2>2, <2>3
<1>5. UNCHANGED <<cmd, docs, issues>> /\ day' \in Nat /\ calls' \in Nat
  BY <1>1 DEF RoutingTypeOK, BlockPlainly, OtherEvent, ClaimExpires, Counted
<1>6. RoutingTypeOK'
  BY <1>1, <1>4, <1>5 DEF RoutingTypeOK
<1> QED
  BY <1>5, <1>6, OthersStep DEF Tracker

LEMMA EditKeepsInv ==
  ASSUME Serialized, Inv, NEW path \in Paths, Edit(path), UNCHANGED Tracker
  PROVE  Inv'
<1>1. RoutingTypeOK /\ \A q \in Procs : cmd[q] = Idle
  BY DEF Inv, TypeOK, Edit, Quiet
<1>2. path \in DocPaths
  <2>1. CASE \E g \in Goals : path = Stub(g)
    BY <2>1, StubIsPath
  <2>2. CASE \E n \in 1..MaxAdr, t \in Goals \cup {ByHand} : path = Adr(n, t)
    BY <2>2, BoundsAreNatural DEF DocPaths, Adr
  <2> QED
    BY <2>1, <2>2 DEF Paths
<1>3. Put(path, Edited) /\ UNCHANGED <<state, blocked, last, issues, cmd, day>>
  BY DEF Edit
<1>4. /\ DOMAIN docs' = DOMAIN docs \cup {path}
      /\ docs' = [x \in DOMAIN docs' |-> docs'[x]]
      /\ DOMAIN docs' \subseteq DocPaths /\ \A x \in DOMAIN docs' : docs'[x] \in Contents
  BY <1>1, <1>2, <1>3, PutsADocument DEF Contents
<1>5. calls' \in Nat
  BY <1>1 DEF Edit, Counted, RoutingTypeOK
<1>6. TypeOK'
  <2>1. RoutingTypeOK'
    BY <1>1, <1>3, <1>4, <1>5 DEF RoutingTypeOK
  <2> QED
    BY <1>3, <2>1 DEF Inv, TypeOK, Tracker
<1>7. AdrNumbersAreUnique'
  <2>1. \A other \in DOMAIN docs : path.number = 0 \/ other.number # path.number \/ other = path
    BY DEF Edit
  <2> QED
    BY <1>4, <2>1 DEF Inv, AdrNumbersAreUnique, AdrsIn
<1>8. \A q \in Procs : cmd'[q] = Idle
  BY <1>1, <1>3
<1>9. Idle.stage = "idle"
  BY IdleHolds
<1>10. OneCommand' /\ \A q \in Procs : (BlockHolds(cmd[q]) /\ SyncHolds(cmd[q]))'
  BY <1>8, <1>9 DEF OneCommand, BlockHolds, SyncHolds
<1> QED
  BY <1>6, <1>7, <1>10 DEF Inv

LEMMA RoutingKeepsInv == Serialized /\ Inv /\ RoutingNext /\ UNCHANGED Tracker => Inv'
<1> SUFFICES ASSUME Serialized, Inv, RoutingNext, UNCHANGED Tracker PROVE Inv'
  OBVIOUS
<1>1. ASSUME NEW p \in Procs, NEW g \in Goals, BlockPlainly(p, g) \/ BeginBlock(p, g)
      PROVE  Inv'
  BY <1>1, EventKeepsInv, BeginBlockKeepsInv
<1>2. ASSUME NEW p \in Procs,
             \/ Unrouted(p) \/ FindStub(p) \/ TakeAdrNumber(p)
             \/ OpenDoc(p) \/ FillDoc(p) \/ WriteFails(p)
             \/ AskBeads(p) \/ AskNobody(p) \/ FinishBlock(p) \/ Crash(p)
      PROVE  Inv'
  BY <1>2, RoutedKeepsInv, FindStubKeepsInv, TakeAdrNumberKeepsInv, OpenDocKeepsInv,
     FillDocKeepsInv, FinishBlockKeepsInv, CrashKeepsInv
<1>3. ASSUME NEW g \in Goals, ClaimExpires(g) \/ \E k \in OtherKinds : OtherEvent(g, k)
      PROVE  Inv'
  BY <1>3, EventKeepsInv
<1>4. ASSUME NEW path \in Paths, Edit(path)
      PROVE  Inv'
  BY <1>4, EditKeepsInv
<1>5. ASSUME Midnight
      PROVE  Inv'
  <2>1. RoutingTypeOK' /\ UNCHANGED <<cmd, docs, edges, status>>
    BY <1>5 DEF Inv, TypeOK, RoutingTypeOK, Midnight, Tracker
  <2> QED
    BY <2>1, OthersStep
<1> QED
  BY <1>1, <1>2, <1>3, <1>4, <1>5 DEF RoutingNext

----------------------------------------------------------------------------
(* Syncs                                                                   *)

LEMMA SyncStep ==
  ASSUME Inv, NEW p \in Procs, Quiet \/ cmd[p] # Idle,
         NEW c \in Syncs \cup {Idle}, Becomes(p, c), SyncHolds(c)',
         (edges \subseteq Issues \X Issues)', (status \in [NodeIssues -> Statuses])',
         UNCHANGED <<state, blocked, last, docs, issues, day>>, calls' \in Nat
  PROVE  Inv'
<1>1. c \in Commands
  BY DEF Commands
<1>2. BlockHolds(c)'
  BY DEF BlockHolds, Syncs, Idle
<1>3. RoutingTypeOK' /\ AdrNumbersAreUnique'
  BY DEF Inv, TypeOK, RoutingTypeOK, AdrNumbersAreUnique, AdrsIn
<1> QED
  BY <1>1, <1>2, <1>3, StepWith

(* ... that leaves the tracker alone.                                      *)
LEMMA SyncReads ==
  ASSUME Inv, NEW p \in Procs, cmd[p] # Idle,
         NEW c \in Syncs \cup {Idle}, Becomes(p, c), SyncHolds(c),
         Quietly, UNCHANGED Tracker
  PROVE  Inv'
<1>1. SyncHolds(c)'
  BY DEF SyncHolds, AllRead, LinkedBefore, ListIsRight, UpdatedBefore, AllLinked, Tracker
<1>2. /\ (edges \subseteq Issues \X Issues)' /\ (status \in [NodeIssues -> Statuses])'
      /\ calls' \in Nat
  BY DEF Inv, TypeOK, RoutingTypeOK, Tracker, Quietly
<1> QED
  BY <1>1, <1>2, SyncStep DEF Quietly

LEMMA InSync ==
  ASSUME Inv, NEW p \in Procs, cmd[p].stage \in {"reading", "linking", "updating"}
  PROVE  cmd[p] \in Syncs /\ SyncHolds(cmd[p]) /\ cmd[p] # Idle
BY Kinds, IdleHolds DEF Inv, TypeOK, Syncs

LEMMA SyncFields ==
  ASSUME NEW c \in Syncs
  PROVE  /\ c.write \in BOOLEAN /\ c.seen \in SeenNodes
         /\ c.stage \in {"linking", "updating"} => c.node \in Nat
         /\ c.stage = "linking" => /\ c.entry \in Nat /\ c.listed \in SUBSET Issues
                                   /\ c.known \in SUBSET (Issues \X Issues)
BY DEF Syncs

LEMMA BeginSyncKeepsInv ==
  ASSUME Serialized, Inv, NEW p \in Procs, NEW write \in BOOLEAN, BeginSync(p, write)
  PROVE  Inv'
<1>1. PICK c : c = [stage |-> "reading", write |-> write, seen |-> [g \in Goals |-> NotRead]]
  OBVIOUS
<1>2. c \in Syncs /\ c.stage = "reading"
  BY <1>1 DEF Syncs, SeenNodes
<1>3. SyncHolds(c)'
  BY <1>2 DEF SyncHolds
<1>4. /\ Quiet /\ Becomes(p, c)
      /\ UNCHANGED <<state, blocked, last, docs, issues, day, edges, status>>
  BY <1>1 DEF BeginSync, Ready
<1>5. /\ (edges \subseteq Issues \X Issues)' /\ (status \in [NodeIssues -> Statuses])'
      /\ calls' \in Nat
  BY <1>4 DEF Inv, TypeOK, RoutingTypeOK, BeginSync, Counted
<1> QED
  BY <1>2, <1>3, <1>4, <1>5, SyncStep

LEMMA ReadNodeKeepsInv ==
  ASSUME Inv, NEW p \in Procs, ReadNode(p)
  PROVE  Inv'
<1>1. PICK b : b = cmd[p]
  OBVIOUS
<1>2. b \in Syncs /\ SyncHolds(b) /\ b # Idle /\ b.stage = "reading"
  BY <1>1, InSync DEF ReadNode, At
<1>3. PICK i \in 1..Len(Order) :
        Becomes(p, [b EXCEPT !.seen[Order[i]] =
          [state |-> state[Order[i]], blocked |-> blocked[Order[i]], last |-> last[Order[i]]]])
  BY <1>1 DEF ReadNode
<1>4. PICK g \in Goals : g = Order[i]
  BY OrderFacts
<1>5. PICK r : r = [state |-> state[g], blocked |-> blocked[g], last |-> last[g]]
  OBVIOUS
<1>6. r \in Readings
  BY <1>5 DEF Inv, TypeOK, RoutingTypeOK, Readings
<1>7. b \in [stage : {"reading"}, write : BOOLEAN, seen : SeenNodes]
  BY <1>2 DEF Syncs
<1>8. PICK c : c = [b EXCEPT !.seen[g] = r]
  OBVIOUS
<1>9. [b.seen EXCEPT ![g] = r] \in SeenNodes
  BY <1>6, <1>7 DEF SeenNodes
<1>10. c = [b EXCEPT !.seen = [b.seen EXCEPT ![g] = r]]
  BY <1>7, <1>8
<1>11. c \in Syncs /\ c.stage = "reading"
  BY <1>7, <1>9, <1>10 DEF Syncs
<1>12. SyncHolds(c)
  BY <1>11 DEF SyncHolds
<1>13. Becomes(p, c) /\ Quietly /\ UNCHANGED Tracker
  BY <1>3, <1>4, <1>5, <1>8 DEF ReadNode
<1> QED
  BY <1>1, <1>2, <1>11, <1>12, <1>13, SyncReads

LEMMA StartLinkingKeepsInv ==
  ASSUME Inv, NEW p \in Procs, StartLinking(p)
  PROVE  Inv'
<1>1. PICK b : b = cmd[p]
  OBVIOUS
<1>2. b \in Syncs /\ b # Idle /\ b.stage = "reading"
  BY <1>1, InSync DEF StartLinking, At
<1>3. AllRead(b) /\ b.write \in BOOLEAN /\ b.seen \in SeenNodes
  BY <1>1, <1>2, SyncFields DEF StartLinking, AllRead, SeenNodes
<1>4. PICK c : c = [stage |-> "linking", write |-> b.write, seen |-> b.seen,
                    node |-> 1, entry |-> 1, listed |-> {}, known |-> {}]
  OBVIOUS
<1>5. /\ c \in Syncs /\ c.stage = "linking" /\ c.seen = b.seen /\ c.node = 1 /\ c.entry = 1
      /\ c.listed = {} /\ c.known = {}
  BY <1>3, <1>4 DEF Syncs
<1>6. \A e : ~Behind(c, e)
  BY <1>5, OrderFacts DEF Behind, Earlier, Entries
<1>7. SyncHolds(c)
  BY <1>3, <1>5, <1>6 DEF SyncHolds, AllRead, LinkedBefore, ListIsRight
<1>8. Becomes(p, c) /\ Quietly /\ UNCHANGED Tracker
  BY <1>1, <1>4 DEF StartLinking
<1> QED
  BY <1>1, <1>2, <1>5, <1>7, <1>8, SyncReads

(* Where a linking sync stands.                                            *)
LEMMA InLinking ==
  ASSUME Inv, NEW p \in Procs, At(p, "linking")
  PROVE  /\ cmd[p] \in [stage : {"linking"}, write : BOOLEAN, seen : SeenNodes, node : Nat,
                         entry : Nat, listed : SUBSET Issues, known : SUBSET (Issues \X Issues)]
         /\ cmd[p] # Idle /\ AllRead(cmd[p]) /\ cmd[p].node >= 1 /\ cmd[p].entry >= 1
         /\ ListIsRight(cmd[p]) /\ (cmd[p].write => LinkedBefore(cmd[p]))
<1>1. cmd[p] \in Commands
  BY DEF Inv, TypeOK
<1> QED
  BY <1>1, Kinds, InSync DEF At, SyncHolds

(* The edge a sync has come to is from the node's issue, and typed.        *)
LEMMA EdgeIsTyped ==
  ASSUME Inv, NEW p \in Procs, AtEdge(p)
  PROVE  /\ Node(p) \in Goals
         /\ IssueOf[Node(p)] \in Issues
         /\ TheEdge(p) \in Issues \X Issues /\ TheEdge(p)[1] = IssueOf[Node(p)]
<1>1. PICK b : b = cmd[p]
  OBVIOUS
<1>2. /\ b.node \in Nat /\ b.node >= 1 /\ b.node <= Len(Order) /\ b.entry \in Nat
      /\ AllRead(b) /\ b.entry \in Entries(Node(p)) /\ IsEdge(b.seen, Node(p), b.entry)
  BY <1>1, InLinking DEF AtEdge, AtEntry
<1>3. PICK g \in Goals : g = Node(p)
  BY <1>1, <1>2, OrderFacts DEF Node
<1>4. IssueOf[g] \in Issues
  BY <1>2, <1>3 DEF IsEdge, Issues, NodeIssues
<1>5. Target(b.seen, g, b.entry) \in Issues
  <2>1. DependsOn[g] \in Seq(Goals)
    BY DependenciesResolve
  <2>2. CASE b.entry <= Len(DependsOn[g])
    <3>1. DependsOn[g][b.entry] \in Goals
      BY <1>2, <1>3, <2>1, <2>2 DEF Entries
    <3> QED
      BY <1>2, <1>3, <2>2, <3>1 DEF Target, IsEdge, Issues, NodeIssues
  <2>3. CASE ~(b.entry <= Len(DependsOn[g]))
    <3>1. b.seen[g].last.issue \in Followups \cup {NoIssue}
      BY <1>2 DEF AllRead, Readings, BlockEvents
    <3> QED
      BY <1>2, <1>3, <2>3, <3>1 DEF Target, IsEdge, Followup, Issues
  <2> QED
    BY <2>2, <2>3
<1> QED
  BY <1>1, <1>3, <1>4, <1>5 DEF TheEdge, Edge

(* The next entry has behind it what this one had, and this one's edge.    *)
LEMMA NextEntryFields ==
  ASSUME Inv, NEW p \in Procs, AtEntry(p), NEW c, c = NextEntry(p)
  PROVE  /\ c \in Syncs /\ c.stage = "linking" /\ c.entry = cmd[p].entry + 1
         /\ c.write = cmd[p].write /\ c.seen = cmd[p].seen /\ c.node = cmd[p].node
         /\ c.listed = cmd[p].listed /\ c.known = cmd[p].known
         /\ \A e : Behind(cmd[p], e) => Behind(c, e)
         /\ \A e : Behind(c, e) => Behind(cmd[p], e) \/ (AtEdge(p) /\ e = TheEdge(p))
         /\ AtEdge(p) => Behind(c, TheEdge(p))
<1>1. PICK b : b = cmd[p]
  OBVIOUS
<1>2. /\ b \in [stage : {"linking"}, write : BOOLEAN, seen : SeenNodes, node : Nat,
                 entry : Nat, listed : SUBSET Issues, known : SUBSET (Issues \X Issues)]
      /\ b.node >= 1 /\ b.node <= Len(Order) /\ b.entry \in Entries(Order[b.node])
  BY <1>1, InLinking DEF AtEntry, Node
<1>3. c = [b EXCEPT !.entry = b.entry + 1]
  BY <1>1, <1>2 DEF NextEntry
<1>4. /\ c \in [stage : {"linking"}, write : BOOLEAN, seen : SeenNodes, node : Nat,
                 entry : Nat, listed : SUBSET Issues, known : SUBSET (Issues \X Issues)]
      /\ c.entry = b.entry + 1 /\ c.write = b.write /\ c.seen = b.seen /\ c.node = b.node
      /\ c.listed = b.listed /\ c.known = b.known
  BY <1>2, <1>3
<1>5. ASSUME NEW j \in 1..Len(Order), NEW k \in Entries(Order[j])
      PROVE  /\ Earlier(b, j, k) => Earlier(c, j, k)
             /\ Earlier(c, j, k) => Earlier(b, j, k) \/ (j = b.node /\ k = b.entry)
  <2>1. k \in Int /\ b.entry \in Nat /\ j \in Int /\ b.node \in Nat
    BY <1>2 DEF Entries
  <2> QED
    BY <1>4, <2>1 DEF Earlier
<1>6. Earlier(c, b.node, b.entry) /\ b.node \in 1..Len(Order)
  BY <1>2, <1>4, OrderFacts DEF Earlier
<1>7. \A e : Behind(b, e) => Behind(c, e)
  BY <1>4, <1>5 DEF Behind, SameEdge
<1>8. AtEdge(p) <=> IsEdge(b.seen, Order[b.node], b.entry)
  BY <1>1 DEF AtEdge, Node
<1>9. TheEdge(p) = Edge(b.seen, Order[b.node], b.entry)
  BY <1>1 DEF TheEdge, Node
<1>10. ASSUME NEW e, Behind(c, e) PROVE Behind(b, e) \/ (AtEdge(p) /\ e = TheEdge(p))
  BY <1>4, <1>5, <1>8, <1>9, <1>10 DEF Behind, SameEdge
<1>11. AtEdge(p) => Behind(c, TheEdge(p))
  BY <1>2, <1>4, <1>6, <1>8, <1>9 DEF Behind, SameEdge
<1> QED
  BY <1>1, <1>4, <1>7, <1>10, <1>11 DEF Syncs

(* ... and holds if the edge, where there is one, is now there, or the     *)
(* sync only plans.                                                        *)
LEMMA NextEntryHolds ==
  ASSUME Inv, NEW p \in Procs, AtEntry(p), NEW c, c = NextEntry(p),
         edges \subseteq edges',
         \A e \in edges' : e \in edges \/ (cmd[p].write /\ AtEdge(p) /\ e = TheEdge(p)),
         cmd[p].write /\ AtEdge(p) => TheEdge(p) \in edges'
  PROVE  SyncHolds(c)'
<1>1. PICK b : b = cmd[p]
  OBVIOUS
<1>2. /\ c \in Syncs /\ c.stage = "linking" /\ c.entry = b.entry + 1
      /\ c.write = b.write /\ c.seen = b.seen /\ c.node = b.node
      /\ c.listed = b.listed /\ c.known = b.known
      /\ \A e : Behind(b, e) => Behind(c, e)
      /\ \A e : Behind(c, e) => Behind(b, e) \/ (AtEdge(p) /\ e = TheEdge(p))
      /\ AtEdge(p) => Behind(c, TheEdge(p))
  BY <1>1, NextEntryFields
<1>3. /\ AllRead(b) /\ b.node >= 1 /\ b.entry >= 1 /\ b.entry \in Nat
      /\ ListIsRight(b) /\ (b.write => LinkedBefore(b))
  BY <1>1, InLinking DEF AtEntry
<1>4. (\A e : Behind(c, e) => Behind(c, e)')
  BY DEF Behind
<1>5. c.write => LinkedBefore(c)'
  BY <1>1, <1>2, <1>3 DEF LinkedBefore, Behind
<1>6. ListIsRight(c)'
  <2>1. c.known \subseteq edges'
    BY <1>2, <1>3 DEF ListIsRight
  <2>2. ASSUME NEW e \in edges', e[1] \in c.listed
        PROVE  e \in c.known \/ (c.write /\ Behind(c, e))
    BY <1>1, <1>2, <1>3, <2>2 DEF ListIsRight
  <2> QED
    BY <2>1, <2>2 DEF ListIsRight, Behind
<1>7. AllRead(c)' /\ c.node >= 1 /\ c.entry >= 1
  BY <1>2, <1>3 DEF AllRead
<1> QED
  BY <1>2, <1>5, <1>6, <1>7 DEF SyncHolds

(* Entries passed over: no edge, an edge listed, an edge only planned.     *)
LEMMA PassKeepsInv ==
  ASSUME Inv, NEW p \in Procs, PassEntry(p) \/ SkipEdge(p) \/ PlanEdge(p)
  PROVE  Inv'
<1>1. /\ AtEntry(p) /\ Becomes(p, NextEntry(p)) /\ Quietly /\ UNCHANGED Tracker
      /\ ~AtEdge(p) \/ Skippable(p) \/ ~cmd[p].write
  BY DEF PassEntry, SkipEdge, PlanEdge, AtEdge
<1>2. cmd[p] # Idle /\ ListIsRight(cmd[p])
  BY <1>1, InLinking DEF AtEntry
<1>3. cmd[p].write /\ AtEdge(p) => TheEdge(p) \in edges
  BY <1>1, <1>2 DEF Skippable, ListIsRight
<1>4. PICK c : c = NextEntry(p)
  OBVIOUS
<1>5. c \in Syncs /\ SyncHolds(c)'
  BY <1>1, <1>3, <1>4, NextEntryFields, NextEntryHolds DEF Tracker
<1>6. /\ (edges \subseteq Issues \X Issues)' /\ (status \in [NodeIssues -> Statuses])'
      /\ calls' \in Nat
  BY <1>1 DEF Inv, TypeOK, RoutingTypeOK, Tracker, Quietly
<1> QED
  BY <1>1, <1>2, <1>4, <1>5, <1>6, SyncStep DEF Quietly

LEMMA AddEdgeKeepsInv ==
  ASSUME Inv, NEW p \in Procs, AddEdge(p)
  PROVE  Inv'
<1>1. AtEntry(p) /\ AtEdge(p) /\ cmd[p].write /\ cmd[p] # Idle
  BY InLinking DEF AddEdge, AtEdge, AtEntry
<1>2. TheEdge(p) \in Issues \X Issues
  BY <1>1, EdgeIsTyped
<1>3. edges' \in {edges, edges \cup {TheEdge(p)}} /\ UNCHANGED status /\ Quietly
  BY DEF AddEdge
<1>4. /\ (edges \subseteq Issues \X Issues)' /\ (status \in [NodeIssues -> Statuses])'
      /\ calls' \in Nat
  BY <1>2, <1>3 DEF Inv, TypeOK, RoutingTypeOK, Quietly
<1>5. CASE edges' = edges \cup {TheEdge(p)} /\ Becomes(p, NextEntry(p))
  <2>1. PICK c : c = NextEntry(p)
    OBVIOUS
  <2>2. c \in Syncs /\ SyncHolds(c)'
    BY <1>1, <1>5, <2>1, NextEntryFields, NextEntryHolds
  <2> QED
    BY <1>1, <1>3, <1>4, <1>5, <2>1, <2>2, SyncStep DEF Quietly
<1>6. CASE Becomes(p, Idle)
  <2>1. SyncHolds(Idle)'
    BY IdleHolds DEF SyncHolds, Idle
  <2> QED
    BY <1>1, <1>3, <1>4, <1>6, <2>1, SyncStep DEF Quietly
<1> QED
  BY <1>5, <1>6 DEF AddEdge, AfterFailure

(* Now all there is of the issue was listed.                               *)
LEMMA ListEdgesKeepsInv ==
  ASSUME Inv, NEW p \in Procs, ListEdges(p)
  PROVE  Inv'
<1>1. PICK b : b = cmd[p]
  OBVIOUS
<1>2. /\ b \in [stage : {"linking"}, write : BOOLEAN, seen : SeenNodes, node : Nat,
                 entry : Nat, listed : SUBSET Issues, known : SUBSET (Issues \X Issues)]
      /\ b # Idle /\ AllRead(b) /\ b.node >= 1 /\ b.entry >= 1
      /\ ListIsRight(b) /\ (b.write => LinkedBefore(b))
  BY <1>1, InLinking DEF ListEdges, AtEdge, AtEntry
<1>3. PICK i \in Issues : i = IssueOf[Node(p)]
  BY EdgeIsTyped DEF ListEdges
<1>4. PICK found : found = {e \in edges : e[1] = i}
  OBVIOUS
<1>5. found \in SUBSET (Issues \X Issues)
  BY <1>4 DEF Inv, TypeOK
<1>6. PICK c : c = [b EXCEPT !.listed = b.listed \cup {i}, !.known = b.known \cup found]
  OBVIOUS
<1>7. /\ c \in [stage : {"linking"}, write : BOOLEAN, seen : SeenNodes, node : Nat,
                 entry : Nat, listed : SUBSET Issues, known : SUBSET (Issues \X Issues)]
      /\ c.write = b.write /\ c.seen = b.seen /\ c.node = b.node /\ c.entry = b.entry
      /\ c.listed = b.listed \cup {i} /\ c.known = b.known \cup found
  BY <1>2, <1>5, <1>6
<1>8. \A e : Behind(b, e) <=> Behind(c, e)
  BY <1>7 DEF Behind, SameEdge, Earlier
<1>9. ListIsRight(c)
  BY <1>2, <1>4, <1>7, <1>8 DEF ListIsRight
<1>10. c.write => LinkedBefore(c)
  BY <1>2, <1>7, <1>8 DEF LinkedBefore
<1>11. c \in Syncs /\ SyncHolds(c)
  BY <1>2, <1>7, <1>9, <1>10 DEF Syncs, SyncHolds, AllRead
<1>12. Becomes(p, c) /\ Quietly /\ UNCHANGED Tracker
  BY <1>1, <1>2, <1>3, <1>4, <1>6 DEF ListEdges
<1> QED
  BY <1>1, <1>2, <1>11, <1>12, SyncReads

(* All entries of a node are behind, so the first of the next has as much. *)
LEMMA LinkNextNodeKeepsInv ==
  ASSUME Inv, NEW p \in Procs, LinkNextNode(p)
  PROVE  Inv'
<1>1. PICK b : b = cmd[p]
  OBVIOUS
<1>2. /\ b \in [stage : {"linking"}, write : BOOLEAN, seen : SeenNodes, node : Nat,
                 entry : Nat, listed : SUBSET Issues, known : SUBSET (Issues \X Issues)]
      /\ b # Idle /\ AllRead(b) /\ b.node >= 1 /\ b.entry >= 1 /\ b.node <= Len(Order)
      /\ ListIsRight(b) /\ (b.write => LinkedBefore(b))
  BY <1>1, InLinking DEF LinkNextNode
<1>3. b.entry \notin Entries(Order[b.node])
  BY <1>1 DEF LinkNextNode, AtEntry, Node
<1>4. PICK i \in Nat : i = b.node + 1
  BY <1>2
<1>5. PICK c : c = [b EXCEPT !.node = i, !.entry = 1]
  OBVIOUS
<1>6. /\ c \in [stage : {"linking"}, write : BOOLEAN, seen : SeenNodes, node : Nat,
                 entry : Nat, listed : SUBSET Issues, known : SUBSET (Issues \X Issues)]
      /\ c.write = b.write /\ c.seen = b.seen /\ c.node = b.node + 1 /\ c.entry = 1
      /\ c.listed = b.listed /\ c.known = b.known
  BY <1>2, <1>4, <1>5
<1>7. ASSUME NEW j \in 1..Len(Order), NEW k \in Entries(Order[j])
      PROVE  Earlier(b, j, k) <=> Earlier(c, j, k)
  <2>1. Order[j] \in Goals /\ Len(DependsOn[Order[j]]) \in Nat
    BY OrderFacts, DependenciesResolve
  <2>2. j \in Nat /\ b.node \in Nat /\ k \in Nat /\ k >= 1 /\ b.entry \in Nat
    BY <1>2, <2>1, OrderFacts DEF Entries
  <2>3. CASE j = b.node
    <3>1. b.entry > Len(DependsOn[Order[j]]) + 1
      BY <1>2, <1>3, <2>1, <2>2, <2>3 DEF Entries
    <3>2. k < b.entry
      BY <2>1, <2>2, <3>1 DEF Entries
    <3> QED
      BY <1>6, <2>2, <2>3, <3>2 DEF Earlier
  <2>4. CASE j # b.node
    BY <1>6, <2>2, <2>4 DEF Earlier
  <2> QED
    BY <2>3, <2>4
<1>8. \A e : Behind(b, e) <=> Behind(c, e)
  BY <1>6, <1>7 DEF Behind, SameEdge
<1>9. ListIsRight(c) /\ (c.write => LinkedBefore(c))
  BY <1>2, <1>6, <1>8 DEF ListIsRight, LinkedBefore
<1>10. c \in Syncs /\ SyncHolds(c)
  BY <1>2, <1>6, <1>9 DEF Syncs, SyncHolds, AllRead
<1>11. Becomes(p, c) /\ Quietly /\ UNCHANGED Tracker
  BY <1>1, <1>2, <1>4, <1>5 DEF LinkNextNode
<1> QED
  BY <1>1, <1>2, <1>10, <1>11, SyncReads

LEMMA EndKeepsInv ==
  ASSUME Inv, NEW p \in Procs, FinishSync(p) \/ ListFails(p)
  PROVE  Inv'
<1>1. cmd[p] # Idle /\ Becomes(p, Idle) /\ Quietly /\ UNCHANGED Tracker
  BY InSync DEF FinishSync, ListFails, Done, At, AtEdge, AtEntry
<1> QED
  BY <1>1, IdleHolds, SyncReads

(* A sync at a node whose status is next.                                  *)
LEMMA AtNode ==
  ASSUME NEW b \in Syncs, NEW i \in Nat,
         NEW c, c = [stage |-> "updating", write |-> b.write, seen |-> b.seen, node |-> i]
  PROVE  c \in Syncs /\ c.stage = "updating" /\ c.write = b.write /\ c.seen = b.seen /\ c.node = i
<1>1. b.write \in BOOLEAN /\ b.seen \in SeenNodes
  BY SyncFields
<1>2. c \in [stage : {"updating"}, write : BOOLEAN, seen : SeenNodes, node : Nat]
  BY <1>1
<1> QED
  BY <1>2 DEF Syncs

LEMMA StartUpdatingKeepsInv ==
  ASSUME Inv, NEW p \in Procs, StartUpdating(p)
  PROVE  Inv'
<1>1. PICK b : b = cmd[p]
  OBVIOUS
<1>2. /\ b \in Syncs /\ SyncHolds(b) /\ b # Idle /\ b.stage = "linking"
      /\ b.node > Len(Order)
  BY <1>1, InSync DEF StartUpdating, At
<1>3. AllRead(b) /\ b.node \in Nat
  BY <1>2, SyncFields DEF SyncHolds
<1>4. PICK c : c = [stage |-> "updating", write |-> b.write, seen |-> b.seen, node |-> 1]
  OBVIOUS
<1>5. /\ c \in Syncs /\ c.stage = "updating" /\ c.write = b.write /\ c.seen = b.seen
      /\ c.node = 1
  BY <1>2, <1>4, AtNode
<1>6. ASSUME c.write PROVE AllLinked(c.seen)
  <2> SUFFICES ASSUME NEW g \in Goals, NEW k \in Entries(g), IsEdge(c.seen, g, k)
               PROVE  Edge(c.seen, g, k) \in edges
    BY DEF AllLinked
  <2>1. PICK j \in 1..Len(Order) : Order[j] = g
    BY OrderFacts
  <2>2. LinkedBefore(b) /\ Earlier(b, j, k)
    BY <1>2, <1>3, <1>5, <1>6, OrderFacts DEF SyncHolds, Earlier
  <2>3. Behind(b, Edge(c.seen, g, k))
    BY <1>5, <2>1, <2>2 DEF Behind, SameEdge
  <2> QED
    BY <2>2, <2>3 DEF LinkedBefore
<1>7. UpdatedBefore(c)
  BY <1>5, OrderFacts DEF UpdatedBefore
<1>8. SyncHolds(c)
  BY <1>3, <1>5, <1>6, <1>7 DEF SyncHolds, AllRead
<1>9. Becomes(p, c) /\ Quietly /\ UNCHANGED Tracker
  BY <1>1, <1>4 DEF StartUpdating, Updating
<1> QED
  BY <1>1, <1>2, <1>5, <1>8, <1>9, SyncReads

(* No two statuses are planned for a node.                                 *)
LEMMA PlannedStatusFacts ==
  ASSUME NEW c \in Syncs, NEW g \in Goals, NEW s \in PlannedStatus(c.seen, g)
  PROVE  /\ s \in Statuses /\ IssueOf[g] \in NodeIssues
         /\ \A t \in PlannedStatus(c.seen, g) : t = s
<1>1. IssueOf[g] # NoIssue /\ s \in StatusFor(c.seen[g])
  BY DEF PlannedStatus
<1>2. IssueOf[g] \in NodeIssues
  BY <1>1 DEF NodeIssues
<1>3. s \in Statuses /\ \A t \in StatusFor(c.seen[g]) : t = s
  BY <1>1 DEF StatusFor, Statuses
<1> QED
  BY <1>1, <1>2, <1>3 DEF PlannedStatus

(* A sync goes on to the node after b's: its status is in place, those     *)
(* before it are, or were of the same issue and are overruled by it.       *)
LEMMA NextNodeHolds ==
  ASSUME NEW b \in Syncs, SyncHolds(b), b.stage = "updating", b.node <= Len(Order),
         NEW c \in Syncs, c.stage = "updating", c.write = b.write, c.seen = b.seen,
         c.node = b.node + 1, edges' = edges,
         b.write => \A j \in 1..Len(Order) : j < b.node =>
                      \/ status'[IssueOf[Order[j]]] = status[IssueOf[Order[j]]]
                      \/ Overrules(b.seen, b.node, j),
         b.write => \A s \in PlannedStatus(b.seen, Order[b.node]) :
                      status'[IssueOf[Order[b.node]]] = s
  PROVE  SyncHolds(c)'
<1>1. b.node \in Nat /\ b.node >= 1 /\ AllRead(b) /\ Len(Order) \in Nat
  BY SyncFields, OrderFacts DEF SyncHolds
<1>2. ASSUME c.write PROVE UpdatedBefore(c)'
  <2> SUFFICES ASSUME NEW j \in 1..Len(Order), j < c.node, NEW s \in PlannedStatus(c.seen, Order[j])
               PROVE  \/ status'[IssueOf[Order[j]]] = s
                      \/ \E i \in 1..Len(Order) : i < c.node /\ Overrules(c.seen, i, j)
    BY DEF UpdatedBefore
  <2>1. b.write /\ UpdatedBefore(b) /\ b.node \in 1..Len(Order)
    BY <1>1, <1>2 DEF SyncHolds
  <2>2. CASE j = b.node
    BY <2>1, <2>2
  <2>3. CASE j < b.node
    <3>1. CASE Overrules(b.seen, b.node, j)
      BY <1>1, <2>1, <3>1
    <3>2. CASE status'[IssueOf[Order[j]]] = status[IssueOf[Order[j]]]
      <4>1. \/ status[IssueOf[Order[j]]] = s
            \/ \E i \in 1..Len(Order) : i < b.node /\ Overrules(b.seen, i, j)
        BY <2>1, <2>3 DEF UpdatedBefore
      <4>2. \A i \in 1..Len(Order) : i < b.node => i < c.node
        BY <1>1
      <4> QED
        BY <3>2, <4>1, <4>2
    <3> QED
      BY <2>1, <2>3, <3>1, <3>2
  <2> QED
    BY <1>1, <2>2, <2>3
<1>3. c.write => AllLinked(c.seen)'
  BY DEF SyncHolds, AllLinked
<1> QED
  BY <1>1, <1>2, <1>3 DEF SyncHolds, AllRead

LEMMA UpdateNextNodeKeepsInv ==
  ASSUME Inv, NEW p \in Procs, UpdateNextNode(p)
  PROVE  Inv'
<1>1. PICK b : b = cmd[p]
  OBVIOUS
<1>2. /\ b \in Syncs /\ SyncHolds(b) /\ b # Idle /\ b.stage = "updating"
      /\ b.node <= Len(Order)
  BY <1>1, InSync DEF UpdateNextNode, At
<1>3. b.node \in Nat
  BY <1>2, SyncFields
<1>4. PICK i \in Nat : i = b.node + 1
  BY <1>3
<1>5. PICK c : c = [stage |-> "updating", write |-> b.write, seen |-> b.seen, node |-> i]
  OBVIOUS
<1>6. /\ c \in Syncs /\ c.stage = "updating" /\ c.write = b.write /\ c.seen = b.seen
      /\ c.node = b.node + 1
  BY <1>2, <1>4, <1>5, AtNode
<1>7. b.write => PlannedStatus(b.seen, Order[b.node]) = {}
  BY <1>1 DEF UpdateNextNode, Node
<1>8. Becomes(p, c) /\ Quietly /\ UNCHANGED Tracker
  BY <1>1, <1>4, <1>5 DEF UpdateNextNode, Updating
<1>9. SyncHolds(c)'
  BY <1>2, <1>6, <1>7, <1>8, NextNodeHolds DEF Tracker
<1>10. /\ (edges \subseteq Issues \X Issues)' /\ (status \in [NodeIssues -> Statuses])'
       /\ calls' \in Nat
  BY <1>8 DEF Inv, TypeOK, RoutingTypeOK, Tracker, Quietly
<1> QED
  BY <1>1, <1>2, <1>6, <1>8, <1>9, <1>10, SyncStep DEF Quietly

LEMMA UpdateIssueKeepsInv ==
  ASSUME Inv, NEW p \in Procs, UpdateIssue(p)
  PROVE  Inv'
<1>1. PICK b : b = cmd[p]
  OBVIOUS
<1>2. /\ b \in Syncs /\ SyncHolds(b) /\ b # Idle /\ b.stage = "updating"
      /\ b.node <= Len(Order) /\ b.write
  BY <1>1, InSync DEF UpdateIssue, At
<1>3. b.node \in Nat /\ b.node >= 1
  BY <1>2, SyncFields DEF SyncHolds
<1>4. PICK g \in Goals : g = Order[b.node]
  BY <1>2, <1>3, OrderFacts
<1>5. PICK c : c = [b EXCEPT !.node = b.node + 1]
  OBVIOUS
<1>6. /\ c \in Syncs /\ c.stage = "updating" /\ c.write = b.write /\ c.seen = b.seen
      /\ c.node = b.node + 1
  <2>1. b \in [stage : {"updating"}, write : BOOLEAN, seen : SeenNodes, node : Nat]
    BY <1>2 DEF Syncs
  <2>2. /\ c \in [stage : {"updating"}, write : BOOLEAN, seen : SeenNodes, node : Nat]
        /\ c.stage = b.stage /\ c.write = b.write /\ c.seen = b.seen /\ c.node = b.node + 1
    BY <1>3, <1>5, <2>1
  <2> QED
    BY <1>2, <2>2 DEF Syncs
<1>7. PICK s \in PlannedStatus(b.seen, g) :
        \/ /\ status' = [status EXCEPT ![IssueOf[g]] = s] /\ Becomes(p, c)
        \/ /\ status' \in {status, [status EXCEPT ![IssueOf[g]] = s]}
           /\ Becomes(p, Idle)
  BY <1>1, <1>4, <1>5 DEF UpdateIssue, Node, AfterFailure
<1>8. /\ s \in Statuses /\ IssueOf[g] \in NodeIssues
      /\ \A t \in PlannedStatus(b.seen, g) : t = s
  BY <1>2, PlannedStatusFacts
<1>9. Quietly /\ UNCHANGED edges /\ status \in [NodeIssues -> Statuses]
  BY DEF UpdateIssue, Inv, TypeOK
<1>10. /\ (edges \subseteq Issues \X Issues)' /\ (status \in [NodeIssues -> Statuses])'
       /\ calls' \in Nat
  BY <1>7, <1>8, <1>9 DEF Inv, TypeOK, RoutingTypeOK, Quietly
<1>11. CASE status' = [status EXCEPT ![IssueOf[g]] = s] /\ Becomes(p, c)
  <2>1. status'[IssueOf[g]] = s
    BY <1>8, <1>9, <1>11
  <2>2. ASSUME NEW j \in 1..Len(Order), j < b.node
        PROVE  \/ status'[IssueOf[Order[j]]] = status[IssueOf[Order[j]]]
               \/ Overrules(b.seen, b.node, j)
    <3>1. CASE IssueOf[Order[j]] = IssueOf[g]
      BY <1>3, <1>4, <1>7, <2>2, <3>1, OrderFacts DEF Overrules
    <3>2. CASE IssueOf[Order[j]] # IssueOf[g]
      BY <1>9, <1>11, <3>2
    <3> QED
      BY <3>1, <3>2
  <2>3. SyncHolds(c)'
    BY <1>2, <1>4, <1>6, <1>8, <1>9, <2>1, <2>2, NextNodeHolds
  <2> QED
    BY <1>1, <1>2, <1>6, <1>9, <1>10, <1>11, <2>3, SyncStep DEF Quietly
<1>12. CASE Becomes(p, Idle)
  <2>1. SyncHolds(Idle)'
    BY IdleHolds DEF SyncHolds, Idle
  <2> QED
    BY <1>1, <1>2, <1>9, <1>10, <1>12, <2>1, SyncStep DEF Quietly
<1> QED
  BY <1>7, <1>11, <1>12

----------------------------------------------------------------------------
LEMMA InitHasInv == Init => Inv
<1> SUFFICES ASSUME Init PROVE Inv
  OBVIOUS
<1>1. \A p \in Procs : cmd[p] = Idle
  BY DEF Init, RoutingInit
<1>2. RoutingTypeOK
  <2>1. Other \in BlockEvents /\ NotBlocked \in BlockEvents /\ "ready" \in States
    BY StubIsPath DEF Other, NotBlocked, BlockEvents, States
  <2>2. docs = [x \in DOMAIN docs |-> docs[x]] /\ DOMAIN docs = {}
    BY DEF Init, RoutingInit
  <2> QED
    BY <2>1, <2>2 DEF Init, RoutingInit, RoutingTypeOK
<1>3. TypeOK
  <2>1. cmd \in [Procs -> Commands]
    BY IdleHolds DEF Init, RoutingInit
  <2> QED
    BY <1>2, <2>1 DEF Init, TypeOK, Statuses
<1>4. OneCommand /\ AdrNumbersAreUnique
  BY <1>1 DEF OneCommand, AdrNumbersAreUnique, AdrsIn, Init, RoutingInit
<1> QED
  BY <1>1, <1>3, <1>4, IdleHolds DEF Inv

LEMMA StepKeepsInv == Serialized /\ Inv /\ [Next]_vars => Inv'
<1> SUFFICES ASSUME Serialized, Inv, [Next]_vars PROVE Inv'
  OBVIOUS
<1>1. CASE UNCHANGED vars
  <2>1. RoutingTypeOK' /\ UNCHANGED <<cmd, docs, edges, status>>
    BY <1>1 DEF vars, routing, Inv, TypeOK, RoutingTypeOK
  <2> QED
    BY <2>1, OthersStep
<1>2. CASE RoutingNext /\ UNCHANGED Tracker
  BY <1>2, RoutingKeepsInv
<1>3. ASSUME NEW p \in Procs, NEW write \in BOOLEAN, BeginSync(p, write)
      PROVE  Inv'
  BY <1>3, BeginSyncKeepsInv
<1>4. ASSUME NEW p \in Procs,
             \/ ReadNode(p) \/ StartLinking(p) \/ PassEntry(p) \/ LinkNextNode(p)
             \/ ListEdges(p) \/ ListFails(p) \/ SkipEdge(p) \/ PlanEdge(p) \/ AddEdge(p)
             \/ StartUpdating(p) \/ UpdateNextNode(p) \/ UpdateIssue(p) \/ FinishSync(p)
      PROVE  Inv'
  BY <1>4, ReadNodeKeepsInv, StartLinkingKeepsInv, PassKeepsInv, LinkNextNodeKeepsInv,
     ListEdgesKeepsInv, AddEdgeKeepsInv, StartUpdatingKeepsInv, UpdateNextNodeKeepsInv,
     UpdateIssueKeepsInv, EndKeepsInv
<1> QED
  BY <1>1, <1>2, <1>3, <1>4 DEF Next

LEMMA InvHolds == Serialized => (Spec => []Inv)
<1> SUFFICES ASSUME Serialized PROVE Spec => []Inv
  OBVIOUS
<1>1. Inv /\ [Next]_vars => Inv'
  BY StepKeepsInv
<1> QED
  BY InitHasInv, <1>1, PTL DEF Spec

----------------------------------------------------------------------------
(* Each theorem is for any goals, routes, dependencies and issues, and any *)
(* bounds, when callers wait for one another and nobody edits a document   *)
(* while a command runs.                                                   *)

(* The state of blocks and syncs, and of the tracker they drive, stays in  *)
(* its types; bd is given only statuses it has.                            *)
THEOREM SyncTypesHold == Serialized => (Spec => []TypeOK)
<1>1. Inv => TypeOK
  BY DEF Inv
<1> QED
  BY InvHolds, <1>1, PTL

(* The ADRs that blocks create and those written by hand all have numbers  *)
(* of their own.                                                           *)
THEOREM NumbersAreUnique == Serialized => (Spec => []AdrNumbersAreUnique)
<1>1. Inv => AdrNumbersAreUnique
  BY DEF Inv
<1> QED
  BY InvHolds, <1>1, PTL

(* A block never writes over a document that is there.                     *)
THEOREM DocumentsAreKept == Serialized => (Spec => BlocksKeepDocuments)
<1>1. Inv /\ [Next]_vars =>
        [\A p \in Procs : OpenDoc(p) => cmd[p].path \notin DOMAIN docs]_vars
  BY InBlock DEF OpenDoc, At, BlockHolds
<1> QED
  BY InvHolds, <1>1, PTL DEF Spec, BlocksKeepDocuments

(* A blocked event names only a document that is there with all the block  *)
(* would write, whatever failed before.                                    *)
THEOREM EventsNameWholeDocuments == Serialized => (Spec => EventsNameDocuments)
<1>1. Inv /\ [Next]_vars =>
        [\A p \in Procs : FinishBlock(p) /\ cmd[p].artifact # NoPath =>
           /\ cmd[p].artifact \in DOMAIN docs
           /\ docs[cmd[p].artifact] = Text(cmd[p].goal, cmd[p].day)]_vars
  BY InBlock DEF FinishBlock, At, BlockHolds
<1> QED
  BY InvHolds, <1>1, PTL DEF Spec, EventsNameDocuments

(* An edge that is in the tracker when a sync first comes to it is neither *)
(* given to bd nor proposed, however often syncs before it failed; only a  *)
(* repetition of one that the sync added itself is.                        *)
THEOREM ExistingEdgesAreKept == Serialized => (Spec => ExistingEdgesAreNotDuplicated)
<1>1. ASSUME Inv, NEW p \in Procs, PlanEdge(p) \/ AddEdge(p), TheEdge(p) \in edges
      PROVE  cmd[p].write /\ Repeats(p)
  <2>1. AtEdge(p) /\ At(p, "linking") /\ IsListed(p) /\ TheEdge(p) \notin cmd[p].known
    BY <1>1 DEF PlanEdge, AddEdge, AtEdge, AtEntry, Skippable
  <2>2. TheEdge(p)[1] \in cmd[p].listed
    BY <1>1, <2>1, EdgeIsTyped DEF IsListed
  <2>3. cmd[p].write /\ Behind(cmd[p], TheEdge(p))
    BY <1>1, <2>1, <2>2, InLinking DEF ListIsRight
  <2> QED
    BY <2>3 DEF Behind, SameEdge, Repeats
<1>2. Inv /\ [Next]_vars =>
        [\A p \in Procs : PlanEdge(p) \/ AddEdge(p) =>
           TheEdge(p) \notin edges \/ (cmd[p].write /\ Repeats(p))]_vars
  BY <1>1
<1> QED
  BY InvHolds, <1>2, PTL DEF Spec, ExistingEdgesAreNotDuplicated

(* A write that reports no failure leaves all it planned in the tracker,   *)
(* edges and statuses, whatever syncs before it left undone; of nodes that *)
(* share an issue the last one's status.                                   *)
THEOREM SyncsLeaveTheirPlan == Serialized => (Spec => []SyncLeavesPlan)
<1>1. ASSUME Inv, NEW p \in Procs, Done(p), cmd[p].write, NEW j \in 1..Len(Order)
      PROVE  /\ \A k \in Entries(Order[j]) :
                  IsEdge(cmd[p].seen, Order[j], k) => Edge(cmd[p].seen, Order[j], k) \in edges
             /\ \A s \in PlannedStatus(cmd[p].seen, Order[j]) :
                  \/ status[IssueOf[Order[j]]] = s
                  \/ \E i \in 1..Len(Order) : Overrules(cmd[p].seen, i, j)
  <2>1. /\ AllLinked(cmd[p].seen) /\ UpdatedBefore(cmd[p])
        /\ cmd[p].node > Len(Order) /\ cmd[p].node \in Nat
    BY <1>1, InSync, SyncFields DEF Done, At, SyncHolds
  <2>2. Order[j] \in Goals /\ j < cmd[p].node
    BY <2>1, OrderFacts
  <2> QED
    BY <2>1, <2>2 DEF UpdatedBefore, AllLinked
<1>2. Inv => SyncLeavesPlan
  BY <1>1 DEF SyncLeavesPlan
<1> QED
  BY InvHolds, <1>2, PTL
=============================================================================
