----------------------- MODULE CampaignAuthoringProofs -----------------------
(***************************************************************************)
(* Proofs about the authoring of a campaign, for primary specs of any      *)
(* length, any replies of a model and any number of commands, edits and    *)
(* failures.                                                               *)
(***************************************************************************)
EXTENDS CampaignAuthoring, FiniteSetTheorems, WellFoundedInduction, TLAPS

----------------------------------------------------------------------------
(* Files and their types *)

LEMMA NodesAreNaturals ==
  /\ Nodes \subseteq Nat /\ 0 \notin Nodes
  /\ \A n \in Nodes : Sections[n] \in SectionsOf(Cues) /\ n \in DOMAIN Sections
  /\ DOMAIN Sections = Nodes
BY HeadingsHaveCues DEF Nodes

LEMMA PathsAre ==
  /\ \A kind \in {"campaign", "loop", "marker"} :
       Path(kind) \in Paths /\ Path(kind)[1] = kind
  /\ \A kind \in {"spec", "goal", "evidence"}, n \in Nodes :
       NodePath(kind, n) \in Paths /\ NodePath(kind, n)[1] = kind /\ NodePath(kind, n)[2] = n
  /\ \A n \in Nodes \cup {0}, number \in Nat :
       /\ AdrPath(n, number) \in Paths /\ AdrPath(n, number)[1] = "adr"
       /\ AdrPath(n, number)[2] = n /\ AdrPath(n, number)[3] = number
BY NodesAreNaturals DEF Paths, Path, NodePath, AdrPath

Kinds == {"campaign", "loop", "marker", "spec", "goal", "evidence", "adr"}

LEMMA PathParts ==
  ASSUME NEW p \in Paths
  PROVE  /\ p[1] \in Kinds /\ p[2] \in Nodes \cup {0} /\ p[3] \in Nat
         /\ p[1] \in {"campaign", "loop", "marker"} => p = Path(p[1])
         /\ p[1] \in {"spec", "goal", "evidence"} => p[2] \in Nodes /\ p = NodePath(p[1], p[2])
         /\ p[1] = "adr" => p = AdrPath(p[2], p[3])
<1>1. CASE p \in {"campaign", "loop", "marker"} \X {0} \X {0}
  BY <1>1 DEF Kinds, Path
<1>2. CASE p \in {"spec", "goal", "evidence"} \X Nodes \X {0}
  BY <1>2 DEF Kinds, NodePath
<1>3. CASE p \in {"adr"} \X (Nodes \cup {0}) \X Nat
  BY <1>3 DEF Kinds, AdrPath
<1>4. QED BY <1>1, <1>2, <1>3 DEF Paths

LEMMA PathNumber == \A p \in Paths : p[3] \in Nat
<1> TAKE p \in Paths
<1>1. QED BY PathParts

LEMMA CompilerNodeType ==
  ASSUME NEW s \in SectionsOf(Cues)
  PROVE  /\ CompilerNode(s) \in [class : Classes, state : States, routes : SUBSET RoutedStates]
         /\ CompilerNode(s).routes = {CompilerNode(s).state} \cap RoutedStates
<1>1. Classification(s) \in Classes
  BY DEF Classification, Classes
<1>2. RefinementState(s) \in States
  BY DEF RefinementState, States, RoutedStates
<1>3. QED BY <1>1, <1>2 DEF CompilerNode, RoutesFor

LEMMA BlockTypes ==
  ASSUME NEW b \in KnownBlocks
  PROVE  /\ b \in [class : Classes, state : States, routes : SUBSET RoutedStates]
         /\ "needs_decision" \in b.routes => b.state = "needs_decision"
         /\ SettledBlock(b) \in KnownBlocks
         /\ SettledBlock(b).class = b.class
         /\ SettledBlock(b).state = "settled" /\ SettledBlock(b).routes = {}
<1>1. PICK n \in Nodes : LET c == CompilerNode(Sections[n]) IN b = c \/ b = SettledBlock(c)
  BY DEF KnownBlocks, Blocks
<1> DEFINE c == CompilerNode(Sections[n])
<1>2. /\ c \in [class : Classes, state : States, routes : SUBSET RoutedStates]
      /\ c.routes = {c.state} \cap RoutedStates
  BY CompilerNodeType, NodesAreNaturals
<1>3. c \in Blocks
  BY DEF Blocks
<1> HIDE DEF c
<1>4. CASE b = c
  BY <1>2, <1>3, <1>4 DEF KnownBlocks, SettledBlock
<1>5. CASE b = SettledBlock(c)
  <2>1. SettledBlock(c) \in [class : Classes, state : States, routes : SUBSET RoutedStates]
        /\ SettledBlock(c).class = c.class /\ SettledBlock(c).state = "settled"
        /\ SettledBlock(c).routes = {}
    BY <1>2 DEF SettledBlock, States
  <2>2. SettledBlock(b) = b
    BY <1>5, <2>1 DEF SettledBlock
  <2>3. QED BY <1>3, <1>5, <2>1, <2>2 DEF KnownBlocks
<1>6. QED BY <1>1, <1>4, <1>5 DEF c

LEMMA WithAdrType ==
  ASSUME NEW b \in KnownBlocks, NEW k \in Nat
  PROVE  /\ WithAdr(b, k) \in Refinements /\ WithAdr(b, k) # NotRefined
         /\ WithAdr(b, k).adr = k /\ WithAdr(b, k).class = b.class
         /\ WithAdr(b, k).state = b.state /\ WithAdr(b, k).routes = b.routes
<1>1. b.class \in Classes /\ b.state \in States /\ b.routes \in SUBSET RoutedStates
  BY BlockTypes
<1>2. WithAdr(b, k) \in Refined
  BY <1>1 DEF WithAdr, Refined
<1>3. WithAdr(b, k) # NotRefined
  <2>1. "adr" \in DOMAIN WithAdr(b, k) /\ "adr" \notin DOMAIN NotRefined
    BY DEF WithAdr, NotRefined
  <2>2. QED BY <2>1
<1>4. QED BY <1>2, <1>3 DEF Refinements, WithAdr

LEMMA SettledRefinement ==
  ASSUME NEW r \in Refinements
  PROVE  /\ SettledIfAny(r) \in Refinements
         /\ r = NotRefined <=> SettledIfAny(r) = NotRefined
         /\ r # NotRefined =>
              /\ SettledIfAny(r).adr = r.adr /\ SettledIfAny(r).class = r.class
              /\ SettledIfAny(r).state = "settled" /\ SettledIfAny(r).routes = {}
<1>1. CASE r = NotRefined
  BY <1>1 DEF SettledIfAny
<1>2. CASE r # NotRefined
  <2>1. r \in Refined
    BY <1>2 DEF Refinements
  <2>2. SettledIfAny(r) = [r EXCEPT !.state = "settled", !.routes = {}]
    BY <1>2 DEF SettledIfAny, SettledBlock
  <2>3. SettledIfAny(r) \in Refined
        /\ SettledIfAny(r).adr = r.adr /\ SettledIfAny(r).class = r.class
        /\ SettledIfAny(r).state = "settled" /\ SettledIfAny(r).routes = {}
    BY <2>1, <2>2 DEF Refined, States
  <2>4. "adr" \in DOMAIN SettledIfAny(r) /\ "adr" \notin DOMAIN NotRefined
    BY <2>3 DEF NotRefined, Refined
  <2>5. QED BY <1>2, <2>1, <2>2, <2>3, <2>4 DEF Refinements
<1>3. QED BY <1>1, <1>2

LEMMA DraftTypes ==
  ASSUME NEW v \in SpecVersions
  PROVE  /\ DraftCampaign(v) \in Campaigns
         /\ \A n \in Nodes : DraftGoal(v, n) \in Goals
         /\ \A p \in DraftPaths : p \in Paths /\ Draft(v, p) \in Contents(p[1])
<1>1. MarkerRoutes(Sections) \in SUBSET RoutedStates
  <2>1. \A n \in DOMAIN Sections : CompilerNode(Sections[n]).routes \subseteq RoutedStates
    BY CompilerNodeType, NodesAreNaturals
  <2>2. QED BY <2>1 DEF MarkerRoutes, RoutedStates
<1>2. <<>> \in Seq(Nat) /\ {} \in SUBSET Nodes /\ {} \in SUBSET [node : Nodes, number : Nat]
      /\ {} \in SUBSET (Nodes \X Nodes)
  OBVIOUS
<1>3. NotRefined \in Refinements /\ NotDrafted \in Answers
  BY DEF Refinements, Answers, NoAnswer
<1>4. DraftCampaign(v) \in Campaigns
  BY <1>1, <1>2, <1>3, NodesAreNaturals DEF DraftCampaign, Campaigns
<1>5. \A n \in Nodes : CompilerNode(Sections[n]) \in KnownBlocks
  BY DEF KnownBlocks, Blocks
<1>6. \A n \in Nodes : DraftGoal(v, n) \in Goals
  BY <1>3, <1>5 DEF DraftGoal, Goals
<1>7. \A n \in Nodes : DraftEvidence(n) \in Contents("evidence")
  BY <1>3 DEF DraftEvidence, Contents, EvidencePlans
<1>8. DraftLoop(v) \in Contents("loop") /\ DraftMarker(v) \in Contents("marker")
  BY <1>2 DEF DraftLoop, DraftMarker, Contents, Loops
<1>9. ASSUME NEW p \in DraftPaths PROVE p \in Paths /\ Draft(v, p) \in Contents(p[1])
  <2>1. CASE p \in {Path("campaign"), Path("loop"), Path("marker")}
    <3>1. CASE p = Path("campaign")
      BY <1>4, <3>1, PathsAre DEF Draft, Contents
    <3>2. CASE p = Path("loop")
      BY <1>8, <3>2, PathsAre DEF Draft, Contents
    <3>3. CASE p = Path("marker")
      BY <1>8, <3>3, PathsAre DEF Draft, Contents
    <3>4. QED BY <2>1, <3>1, <3>2, <3>3
  <2>2. ASSUME NEW kind \in {"goal", "evidence"}, NEW n \in Nodes, p = NodePath(kind, n)
        PROVE  p \in Paths /\ Draft(v, p) \in Contents(p[1])
    <3>1. p \in Paths /\ p[1] = kind /\ p[2] = n
      BY <2>2, PathsAre
    <3>2. CASE kind = "goal"
      BY <1>6, <3>1, <3>2 DEF Draft, Contents
    <3>3. CASE kind = "evidence"
      BY <1>7, <3>1, <3>3 DEF Draft, Contents
    <3>4. QED BY <3>2, <3>3
  <2>3. QED BY <2>1, <2>2 DEF DraftPaths
<1>10. QED BY <1>4, <1>6, <1>9

----------------------------------------------------------------------------
(* Numbers of decision records *)

LEMMA BoundedHasMax ==
  ASSUME NEW S \in SUBSET Nat, 0 \in S, NEW b \in Nat, \A s \in S : s <= b
  PROVE  \E m \in S : \A s \in S : s <= m
<1> DEFINE T == {k \in Nat : \A s \in S : s <= k}
           R == OpToRel(<, Nat)
<1>1. T \subseteq Nat /\ T # {}
  OBVIOUS
<1>2. IsWellFoundedOn(R, Nat)
  BY NatLessThanWellFounded
<1>3. PICK m \in T : \A k \in T : <<k, m>> \notin R
  <2> HIDE DEF T, R
  <2>1. QED BY <1>1, <1>2, WFMin
<1>4. \A k \in T : ~(k < m)
  BY <1>3 DEF OpToRel
<1>5. m \in S
  <2> SUFFICES ASSUME m \notin S PROVE FALSE
    OBVIOUS
  <2>1. m - 1 \in T /\ m - 1 < m
    OBVIOUS
  <2>2. QED BY <1>4, <2>1
<1>6. QED BY <1>5

(* The files are typed, and the numbers of ADRs have a bound.              *)
Typed(f) ==
  /\ \A p \in DOMAIN f : p \in Paths /\ (f[p] = Torn \/ f[p] \in Contents(p[1]))
  /\ \E b \in Nat : \A p \in DOMAIN f : p[1] = "adr" => p[3] <= b

LEMMA TypedWith ==
  ASSUME NEW f, Typed(f), NEW p \in Paths, NEW c, c = Torn \/ c \in Contents(p[1])
  PROVE  Typed(With(f, p, c))
<1>1. /\ DOMAIN With(f, p, c) = DOMAIN f \cup {p} /\ With(f, p, c)[p] = c
      /\ \A q \in DOMAIN f : q # p => With(f, p, c)[q] = f[q]
  BY DEF With
<1>2. \A q \in DOMAIN With(f, p, c) :
        q \in Paths /\ (With(f, p, c)[q] = Torn \/ With(f, p, c)[q] \in Contents(q[1]))
  BY <1>1 DEF Typed
<1>3. PICK b \in Nat : \A q \in DOMAIN f : q[1] = "adr" => q[3] <= b
  BY DEF Typed
<1>4. \A q \in Paths : q[3] \in Nat
  BY PathNumber, Zenon
<1>5. \E k \in Nat : \A q \in DOMAIN With(f, p, c) : q[1] = "adr" => q[3] <= k
  <2>0. p[3] \in Nat
    BY <1>4
  <2>1. CASE p[3] <= b
    BY <1>1, <1>3, <2>1
  <2>2. CASE p[3] > b
    <3>1. \A q \in DOMAIN With(f, p, c) : q[1] = "adr" => q[3] <= p[3]
      BY <1>1, <1>3, <1>4, <2>2 DEF Typed
    <3>2. QED BY <1>4, <3>1
  <2>3. QED BY <2>0, <2>1, <2>2
<1>6. QED BY <1>2, <1>5 DEF Typed

LEMMA HighestAdrIs ==
  ASSUME Typed(file)
  PROVE  HighestAdr \in Nat /\ \A p \in Adrs : p[3] <= HighestAdr
<1> DEFINE S == {0} \cup {p[3] : p \in Adrs}
<1>1. S \in SUBSET Nat /\ 0 \in S
  BY PathNumber DEF Adrs, Typed
<1>2. PICK b \in Nat : \A p \in Adrs : p[3] <= b
  BY DEF Adrs, Typed
<1>3. \A s \in S : s <= b
  BY <1>2
<1>4. PICK m \in S : \A s \in S : s <= m
  <2> HIDE DEF S
  <2>1. QED BY <1>1, <1>2, <1>3, BoundedHasMax
<1>5. \E k \in S : \A p \in Adrs : p[3] <= k
  BY <1>4
<1>6. HighestAdr \in S /\ \A p \in Adrs : p[3] <= HighestAdr
  BY <1>5 DEF HighestAdr
<1>7. QED BY <1>1, <1>6

LEMMA PlannedAdrsAre ==
  ASSUME Typed(file)
  PROVE  PlannedAdrs \in Plans /\ \A n \in Nodes : PlannedAdrs[n] # 0 <=> NeedsAdr(n)
<1> DEFINE D(n) == {m \in 1..n : NeedsAdr(m)}
<1>1. ASSUME NEW n \in Nodes
      PROVE  /\ HighestAdr + Cardinality(D(n)) \in Nat
             /\ NeedsAdr(n) => HighestAdr + Cardinality(D(n)) # 0
  <2>1. n \in Nat /\ n # 0 /\ 1 \in Int /\ n \in Int
    BY NodesAreNaturals
  <2>2. IsFiniteSet(1..n)
    BY <2>1, FS_Interval
  <2>3. D(n) \in SUBSET (1..n)
    OBVIOUS
  <2>4. IsFiniteSet(D(n))
    BY <2>2, <2>3, FS_Subset
  <2>5. Cardinality(D(n)) \in Nat
    BY <2>4, FS_CardinalityType
  <2>6. NeedsAdr(n) => n \in D(n)
    BY <2>1
  <2>7. NeedsAdr(n) => Cardinality(D(n)) # 0
    BY <2>4, <2>6, FS_EmptySet
  <2>8. QED BY <2>5, <2>7, HighestAdrIs
<1>2. PlannedAdrs = [n \in Nodes |-> IF NeedsAdr(n) THEN HighestAdr + Cardinality(D(n)) ELSE 0]
  BY DEF PlannedAdrs
<1> HIDE DEF D
<1>3. QED BY <1>1, <1>2 DEF Plans

LEMMA WholeTypes ==
  ASSUME Typed(file)
  PROVE  /\ Whole(Path("campaign")) => campaign \in Campaigns
         /\ Whole(Path("loop")) => loop \in Loops
         /\ \A n \in Nodes :
              /\ Whole(NodePath("goal", n)) => goal(n) \in Goals
              /\ Whole(NodePath("evidence", n)) => evidence(n) \in EvidencePlans
<1>1. Whole(Path("campaign")) => campaign \in Campaigns
  BY PathsAre DEF Typed, Whole, Contents, campaign
<1>2. Whole(Path("loop")) => loop \in Loops
  BY PathsAre DEF Typed, Whole, Contents, loop
<1>3. ASSUME NEW n \in Nodes
      PROVE  /\ Whole(NodePath("goal", n)) => goal(n) \in Goals
             /\ Whole(NodePath("evidence", n)) => evidence(n) \in EvidencePlans
  BY PathsAre DEF Typed, Whole, Contents, goal, evidence
<1>4. QED BY <1>1, <1>2, <1>3

LEMMA WorkedThroughTypes ==
  ASSUME primary \in SpecVersions, NEW p \in DraftPaths
  PROVE  WorkedThrough[p] \in Contents(p[1])
<1>1. /\ DraftCampaign(primary) \in Campaigns
      /\ \A n \in Nodes : DraftGoal(primary, n) \in Goals
      /\ p \in Paths /\ Draft(primary, p) \in Contents(p[1])
  BY DraftTypes
<1>2. CASE p[1] = "campaign"
  <2>1. WorkedThrough[p] = [DraftCampaign(primary) EXCEPT !.needs = {}]
    BY <1>2 DEF WorkedThrough
  <2>2. [DraftCampaign(primary) EXCEPT !.needs = {}] \in Campaigns
    BY <1>1 DEF Campaigns
  <2>3. QED BY <1>2, <2>1, <2>2 DEF Contents
<1>3. CASE p[1] = "loop"
  <2>1. WorkedThrough[p] = [DraftLoop(primary) EXCEPT !.linked = Nodes]
    BY <1>3 DEF WorkedThrough
  <2>2. [DraftLoop(primary) EXCEPT !.linked = Nodes] \in Loops
    BY DEF Loops, DraftLoop
  <2>3. QED BY <1>3, <2>1, <2>2 DEF Contents
<1>4. CASE p[1] = "goal"
  <2> DEFINE g == DraftGoal(primary, p[2])
  <2>1. p[2] \in Nodes
    BY <1>1, <1>4, PathParts
  <2>2. g \in Goals
    BY <1>1, <2>1
  <2>3. WorkedThrough[p] = [g EXCEPT !.needs = FALSE, !.compiler = SettledBlock(@)]
    BY <1>4 DEF WorkedThrough
  <2>4. SettledBlock(g.compiler) \in KnownBlocks
    BY <2>2, BlockTypes DEF Goals
  <2>5. [g EXCEPT !.needs = FALSE, !.compiler = SettledBlock(@)] \in Goals
    <3> HIDE DEF g
    <3>1. QED BY <2>2, <2>4 DEF Goals
  <2>6. QED BY <1>4, <2>3, <2>5 DEF Contents
<1>5. CASE p[1] \notin {"campaign", "loop", "goal"}
  BY <1>1, <1>5 DEF WorkedThrough
<1>6. QED BY <1>2, <1>3, <1>4, <1>5

LEMMA FilesStartTyped ==
  ASSUME primary \in SpecVersions, file \in {Empty, Scaffold, WorkedThrough}
  PROVE  Typed(file)
<1>1. \A p \in DraftPaths : p \in Paths /\ p[1] # "adr"
  BY PathsAre DEF DraftPaths
<1>2. CASE file = Empty
  <2>1. DOMAIN file = {}
    BY <1>2 DEF Empty
  <2>2. QED BY <2>1 DEF Typed
<1>3. CASE file = Scaffold
  <2>1. DOMAIN file = DraftPaths /\ \A p \in DraftPaths : file[p] \in Contents(p[1])
    BY <1>3, DraftTypes DEF Scaffold
  <2>2. QED BY <1>1, <2>1 DEF Typed
<1>4. CASE file = WorkedThrough
  <2>1. DOMAIN file = DraftPaths
    BY <1>4 DEF WorkedThrough
  <2>2. \A p \in DraftPaths : file[p] \in Contents(p[1])
    BY <1>4, WorkedThroughTypes
  <2>3. QED BY <1>1, <2>1, <2>2 DEF Typed
<1>5. QED BY <1>2, <1>3, <1>4

----------------------------------------------------------------------------
(* What a command holds, step by step *)

CmdOK(c) == c \in CmdStates /\ Holds(c)
Rest ==
  /\ primary \in SpecVersions /\ tracker \in Seq(Issues) /\ answer \in Answers
  /\ alone \in BOOLEAN /\ halfway \in BOOLEAN /\ stale \in BOOLEAN
  /\ calls \in 0..MaxCalls /\ edits \in 0..MaxEdits /\ failures \in 0..MaxFailures
TypeInv ==
  Typed(file) /\ CmdOK(cmd) /\ Rest /\ (cmd.op = "ready" => Whole(Path("campaign")))

LEMMA TypeInvIsEnough == TypeInv => TypeOK
BY DEF TypeInv, Typed, CmdOK, Rest, TypeOK

LEMMA IdleType == CmdOK(Idle)
<1>1. <<>> \in Seq(Nat) /\ NoAnswer \in Answers
  BY DEF Answers
<1>2. Idle \in CmdStates
  BY <1>1 DEF Idle, CmdStates
<1>3. Holds(Idle)
  BY DEF Idle, Holds
<1>4. QED BY <1>2, <1>3 DEF CmdOK

(* The commands begin.                                                     *)
LEMMA BeginTypes ==
  ASSUME TypeInv,
         BeginInit \/ (\E beads \in BOOLEAN : BeginRefine(beads)) \/ BeginImport \/ BeginReady
  PROVE  CmdOK(cmd')
<1>1. <<>> \in Seq(Nat) /\ NoAnswer \in Answers
  BY DEF Answers
<1>2. CASE BeginInit
  <2>1. DraftCampaign(primary) \in Campaigns /\ primary \in SpecVersions
    BY DraftTypes DEF TypeInv, Rest
  <2>2. cmd' \in CmdStates
    BY <1>1, <1>2, <2>1 DEF BeginInit, Started, Idle, CmdStates
  <2>3. Holds(cmd')
    BY <1>2, <2>1 DEF BeginInit, Started, Idle, Holds
  <2>4. QED BY <2>2, <2>3 DEF CmdOK
<1>3. ASSUME NEW beads \in BOOLEAN, BeginRefine(beads)
      PROVE  CmdOK(cmd')
  <2>1. cmd' \in CmdStates
    BY <1>1, <1>3 DEF BeginRefine, Started, Idle, CmdStates
  <2>2. Holds(cmd')
    BY <1>3 DEF BeginRefine, Started, Idle, Holds
  <2>3. QED BY <2>1, <2>2 DEF CmdOK
<1>4. CASE BeginImport
  <2>1. answer \in Answers /\ answer # NoAnswer
    BY <1>4 DEF BeginImport, TypeInv, Rest
  <2>2. cmd' \in CmdStates
    BY <1>1, <1>4, <2>1 DEF BeginImport, Started, Idle, CmdStates
  <2>3. Holds(cmd')
    BY <1>4, <2>1 DEF BeginImport, Started, Idle, Holds
  <2>4. QED BY <2>2, <2>3 DEF CmdOK
<1>5. CASE BeginReady
  <2>1. cmd' \in CmdStates
    BY <1>1, <1>5 DEF BeginReady, Started, Idle, CmdStates
  <2>2. Holds(cmd')
    BY <1>5 DEF BeginReady, Started, Idle, Holds
  <2>3. QED BY <2>1, <2>2 DEF CmdOK
<1>6. QED BY <1>2, <1>3, <1>4, <1>5

LEMMA WritesAreTasks ==
  ASSUME NEW c \in CmdStates, Planned(c), c.op = "import" => c.answer # NoAnswer
  PROVE  RefineWrites(c) \subseteq Tasks
<1>1. c.op = "import" => c.answer.said.nodes \subseteq Nodes
  BY RepliesNameNodes DEF CmdStates, Answers
<1>2. \A n \in Nodes : c.adrs[n] \in Nat
  BY DEF Planned, Plans
<1>3. QED BY <1>1, <1>2 DEF RefineWrites, Tasks, NodePath, AdrPath, Path

LEMMA CheckTypes ==
  ASSUME TypeInv,
         CheckInit \/ PlanRefine \/ CheckRefine \/ HasIssues \/ CheckImport \/ CheckReady
  PROVE  CmdOK(cmd')
<1> USE DEF TypeInv, CmdOK
<1>1. CASE CheckInit
  <2>1. CASE cmd' = Idle
    BY <2>1, IdleType
  <2>2. CASE cmd' = [cmd EXCEPT !.step = "write", !.todo = DraftPaths]
    <3>1. DraftPaths \subseteq Tasks
      BY DEF DraftPaths, Tasks, Path, NodePath
    <3>2. cmd' \in CmdStates
      BY <2>2, <3>1 DEF CmdStates
    <3>3. cmd.op = "init" /\ \E v \in SpecVersions : cmd.campaign = DraftCampaign(v)
      BY <1>1 DEF CheckInit, Holds
    <3>4. /\ cmd'.op = "init" /\ cmd'.step = "write" /\ cmd'.todo = DraftPaths
          /\ cmd'.campaign = cmd.campaign
      BY <2>2, <3>3 DEF CmdStates
    <3>5. QED BY <3>2, <3>3, <3>4 DEF Holds
  <2>3. QED BY <1>1, <2>1, <2>2 DEF CheckInit, Refused
<1>2. CASE PlanRefine
  <2>1. campaign \in Campaigns /\ [n \in Nodes |-> goal(n)] \in [Nodes -> Goals]
    BY <1>2, WholeTypes DEF PlanRefine, ReadsAll
  <2>2. PlannedAdrs \in Plans
    BY PlannedAdrsAre
  <2> DEFINE gs == [n \in Nodes |-> goal(n)]
  <2>3. gs \in [Nodes -> Goals]
    BY <2>1
  <2>4. /\ cmd' = [cmd EXCEPT !.step = "check", !.campaign = campaign,
                              !.goals = gs, !.adrs = PlannedAdrs]
        /\ cmd.op \in {"refine", "import"} /\ cmd.todo = {}
        /\ cmd.op = "import" => cmd.answer # NoAnswer
    BY <1>2 DEF PlanRefine, Holds
  <2> HIDE DEF gs
  <2>5. cmd' \in CmdStates
    BY <2>1, <2>2, <2>3, <2>4 DEF CmdStates
  <2>6. /\ cmd'.op = cmd.op /\ cmd'.step = "check" /\ cmd'.todo = {} /\ cmd'.answer = cmd.answer
        /\ cmd'.campaign = campaign /\ cmd'.goals = gs /\ cmd'.adrs = PlannedAdrs
    BY <2>4 DEF CmdStates
  <2>7. Planned(cmd')
    BY <2>1, <2>2, <2>3, <2>6 DEF Planned
  <2>8. QED BY <2>4, <2>5, <2>6, <2>7 DEF Holds
<1>3. ASSUME cmd.op \in {"refine", "import"}, cmd.step # "plan",
             cmd' = [cmd EXCEPT !.step = "write", !.todo = RefineWrites(cmd)]
      PROVE  CmdOK(cmd')
  <2>1. Planned(cmd) /\ (cmd.op = "import" => cmd.answer # NoAnswer)
    BY <1>3 DEF Holds
  <2>2. RefineWrites(cmd) \subseteq Tasks
    BY <2>1, WritesAreTasks
  <2>3. cmd' \in CmdStates
    BY <1>3, <2>2 DEF CmdStates
  <2>4. /\ cmd'.op = cmd.op /\ cmd'.step = "write" /\ cmd'.todo = RefineWrites(cmd)
        /\ cmd'.answer = cmd.answer /\ cmd'.campaign = cmd.campaign
        /\ cmd'.goals = cmd.goals /\ cmd'.adrs = cmd.adrs
    BY <1>3 DEF CmdStates
  <2>5. RefineWrites(cmd') = RefineWrites(cmd) /\ Planned(cmd')
    BY <2>1, <2>4 DEF RefineWrites, Planned
  <2>6. QED BY <1>3, <2>1, <2>3, <2>4, <2>5 DEF Holds
<1>4. CASE CheckRefine
  <2>1. CASE cmd' = Idle
    BY <2>1, IdleType
  <2>2. CASE cmd' = [cmd EXCEPT !.step = "write", !.todo = RefineWrites(cmd)]
    BY <1>3, <1>4, <2>2 DEF CheckRefine
  <2>3. CASE cmd' = [cmd EXCEPT !.step = "beads", !.epic = cmd.campaign.epic,
                                !.issues = cmd.campaign.issues]
    <3>1. Planned(cmd) /\ cmd.op = "refine" /\ cmd.todo = {}
      BY <1>4 DEF CheckRefine, Holds
    <3>2. cmd.campaign.epic \in Nat /\ cmd.campaign.issues \in Seq(Nat)
      BY <3>1 DEF Planned, Campaigns
    <3>3. cmd' \in CmdStates
      BY <2>3, <3>2 DEF CmdStates
    <3>4. /\ cmd'.op = "refine" /\ cmd'.step = "beads" /\ cmd'.todo = {}
          /\ cmd'.campaign = cmd.campaign /\ cmd'.goals = cmd.goals /\ cmd'.adrs = cmd.adrs
      BY <2>3, <3>1 DEF CmdStates
    <3>5. Planned(cmd')
      BY <3>1, <3>4 DEF Planned
    <3>6. QED BY <3>3, <3>4, <3>5 DEF Holds
  <2>4. QED BY <1>4, <2>1, <2>2, <2>3 DEF CheckRefine, Refused
<1>5. CASE HasIssues
  BY <1>3, <1>5 DEF HasIssues, BeadsStep
<1>6. CASE CheckImport
  BY <1>3, <1>6, IdleType DEF CheckImport, Refused
<1>7. CASE CheckReady
  <2>1. CASE cmd' = Idle
    BY <2>1, IdleType
  <2>2. CASE cmd' = [cmd EXCEPT !.step = "promote", !.campaign = campaign] /\ IsReady
    <3>1. campaign \in Campaigns /\ cmd.op = "ready" /\ cmd.todo = {}
      BY <1>7, WholeTypes DEF CheckReady, Holds
    <3>2. cmd' \in CmdStates
      BY <2>2, <3>1 DEF CmdStates
    <3>3. /\ cmd'.op = "ready" /\ cmd'.step = "promote" /\ cmd'.todo = {}
          /\ cmd'.campaign = campaign
      BY <2>2, <3>1 DEF CmdStates
    <3>4. QED BY <3>1, <3>2, <3>3 DEF Holds
  <2>3. QED BY <1>7, <2>1, <2>2 DEF CheckReady
<1>8. QED BY <1>1, <1>2, <1>4, <1>5, <1>6, <1>7

LEMMA CreateTypes ==
  ASSUME TypeInv, CreateEpic \/ CreateTask \/ CreateFails
  PROVE  CmdOK(cmd') /\ tracker' \in Seq(Issues)
<1> USE DEF TypeInv, CmdOK
<1>1. tracker \in Seq(Issues) /\ Len(tracker) + 1 \in Nat
  BY DEF Rest
<1>2. Planned(cmd) /\ cmd.op = "refine" /\ cmd.step = "beads" /\ cmd.todo = {}
      /\ cmd.epic \in Nat /\ cmd.issues \in Seq(Nat)
  BY DEF CreateEpic, CreateTask, CreateFails, BeadsStep, Holds, CmdStates
<1>3. Epic \in Issues /\ (NextTask \in Nodes => Task(NextTask, cmd.epic) \in Issues)
  BY <1>2, NodesAreNaturals DEF Epic, Task, Issues
<1>4. ASSUME NEW k \in Nat, NEW is \in Seq(Nat),
             cmd' = [cmd EXCEPT !.epic = k] \/ cmd' = [cmd EXCEPT !.issues = is]
      PROVE  CmdOK(cmd')
  <2>1. cmd' \in CmdStates
    BY <1>4 DEF CmdStates
  <2>2. /\ cmd'.op = "refine" /\ cmd'.step = "beads" /\ cmd'.todo = {}
        /\ cmd'.campaign = cmd.campaign /\ cmd'.goals = cmd.goals /\ cmd'.adrs = cmd.adrs
    BY <1>2, <1>4 DEF CmdStates
  <2>3. Planned(cmd')
    BY <1>2, <2>2 DEF Planned
  <2>4. QED BY <2>1, <2>2, <2>3 DEF Holds
<1>5. CASE CreateEpic
  <2>1. cmd' = [cmd EXCEPT !.epic = Len(tracker) + 1] /\ tracker' = Append(tracker, Epic)
    BY <1>5 DEF CreateEpic
  <2>2. CmdOK(cmd')
    BY <1>1, <1>2, <1>4, <2>1
  <2>3. QED BY <1>1, <1>3, <2>1, <2>2
<1>6. CASE CreateTask
  <2>1. Append(cmd.issues, Len(tracker) + 1) \in Seq(Nat)
    BY <1>1, <1>2
  <2>2. cmd' = [cmd EXCEPT !.issues = Append(cmd.issues, Len(tracker) + 1)]
    BY <1>6 DEF CreateTask
  <2>3. CmdOK(cmd')
    BY <1>4, <2>1, <2>2
  <2>4. tracker' \in Seq(Issues)
    BY <1>1, <1>3, <1>6 DEF CreateTask
  <2>5. QED BY <2>3, <2>4
<1>7. CASE CreateFails
  BY <1>1, <1>3, <1>7, IdleType DEF CreateFails, Refused
<1>8. QED BY <1>5, <1>6, <1>7

----------------------------------------------------------------------------
(* Writing *)

LEMMA WroteTypes ==
  ASSUME CmdOK(cmd), cmd.op # "idle", NEW p, Wrote(p)
  PROVE  CmdOK(cmd') /\ (cmd' = Idle \/ cmd'.op = cmd.op)
<1> USE DEF CmdOK
<1>1. CASE cmd' = Idle
  BY <1>1, IdleType
<1>2. CASE cmd' = [cmd EXCEPT !.todo = @ \ {p}, !.wrote = TRUE]
  <2>1. cmd' \in CmdStates
    BY <1>2 DEF CmdStates
  <2>2. /\ cmd'.op = cmd.op /\ cmd'.step = cmd.step /\ cmd'.todo = cmd.todo \ {p}
        /\ cmd'.answer = cmd.answer /\ cmd'.campaign = cmd.campaign
        /\ cmd'.goals = cmd.goals /\ cmd'.adrs = cmd.adrs
    BY <1>2 DEF CmdStates
  <2>3. RefineWrites(cmd') = RefineWrites(cmd) /\ (Planned(cmd) <=> Planned(cmd'))
    BY <2>2 DEF RefineWrites, Planned
  <2>4. QED BY <2>1, <2>2, <2>3 DEF Holds, Idle
<1>3. QED BY <1>1, <1>2 DEF Wrote

(* What a command may write, and into which file.                          *)
LEMMA WritesAre ==
  ASSUME CmdOK(cmd), NEW p, Writes(p)
  PROVE  /\ cmd.op = "init" => p \in DraftPaths /\ Target(p) = p
         /\ cmd.op # "init" =>
              /\ cmd.op \in {"refine", "import"} /\ Planned(cmd) /\ p \in RefineWrites(cmd)
              /\ p[1] \in {"spec", "adr", "goal", "evidence", "llm_goal", "llm_evidence",
                           "campaign", "llm_campaign"}
              /\ p[1] \in {"campaign", "llm_campaign"} => p = Path(p[1])
              /\ p[1] \in {"llm_goal", "llm_evidence", "llm_campaign"} => cmd.op = "import"
              /\ p[1] \notin {"campaign", "llm_campaign"} => p[2] \in Nodes
              /\ p[1] \in {"spec", "goal", "evidence", "llm_goal", "llm_evidence"} =>
                   p = NodePath(p[1], p[2])
              /\ p[1] = "adr" => p = AdrPath(p[2], cmd.adrs[p[2]]) /\ cmd.adrs[p[2]] \in Nat
                                 /\ cmd.adrs[p[2]] # 0
         /\ Target(p) \in Paths
<1> USE DEF CmdOK
<1>1. CASE cmd.op = "init"
  <2>1. p \in DraftPaths
    BY <1>1 DEF Writes, Holds
  <2>2. p \in Paths /\ p[1] \in {"campaign", "loop", "marker", "goal", "evidence"}
    BY <2>1, PathsAre DEF DraftPaths
  <2>3. QED BY <1>1, <2>1, <2>2 DEF Target
<1>2. CASE cmd.op # "init"
  <2>1. cmd.op \in {"refine", "import"} /\ Planned(cmd) /\ p \in RefineWrites(cmd)
        /\ (cmd.op = "import" => cmd.answer.said.nodes \subseteq Nodes)
    BY <1>2, RepliesNameNodes DEF Writes, Holds, CmdStates, Answers
  <2>2. \A n \in Nodes : cmd.adrs[n] \in Nat
    BY <2>1 DEF Planned, Plans
  <2>3. CASE \E kind \in {"spec", "goal", "evidence"}, n \in Nodes : p = NodePath(kind, n)
    <3>1. PICK kind \in {"spec", "goal", "evidence"}, n \in Nodes : p = NodePath(kind, n)
      BY <2>3
    <3>2. p[1] = kind /\ p[2] = n /\ p \in Paths
      BY <3>1, PathsAre
    <3>3. QED BY <1>2, <2>1, <3>1, <3>2 DEF Target
  <2>4. CASE \E n \in Nodes : cmd.adrs[n] # 0 /\ p = AdrPath(n, cmd.adrs[n])
    <3>1. PICK n \in Nodes : cmd.adrs[n] # 0 /\ p = AdrPath(n, cmd.adrs[n])
      BY <2>4
    <3>2. p[1] = "adr" /\ p[2] = n /\ p \in Paths
      BY <2>2, <3>1, PathsAre
    <3>3. QED BY <1>2, <2>1, <2>2, <3>1, <3>2 DEF Target
  <2>5. CASE \E kind \in {"llm_goal", "llm_evidence"}, n \in Nodes :
               cmd.op = "import" /\ p = NodePath(kind, n)
    <3>1. PICK kind \in {"llm_goal", "llm_evidence"}, n \in Nodes :
            cmd.op = "import" /\ p = NodePath(kind, n)
      BY <2>5
    <3>2. p[1] = kind /\ p[2] = n
      BY <3>1 DEF NodePath
    <3>3. Target(p) \in Paths
      BY <3>2, PathsAre DEF Target
    <3>4. QED BY <1>2, <2>1, <3>1, <3>2, <3>3
  <2>6. CASE p = Path("campaign") \/ (cmd.op = "import" /\ p = Path("llm_campaign"))
    <3>1. p[1] \in {"campaign", "llm_campaign"} /\ p = Path(p[1])
          /\ (p[1] = "llm_campaign" => cmd.op = "import")
      BY <2>6 DEF Path
    <3>2. Target(p) = Path("campaign")
      BY <3>1 DEF Target
    <3>3. QED BY <1>2, <2>1, <3>1, <3>2, PathsAre
  <2>7. QED BY <2>1, <2>3, <2>4, <2>5, <2>6 DEF RefineWrites
<1>3. QED BY <1>1, <1>2

WritesFile(p) ==
  \/ WriteDraft(p) \/ WriteSpec(p) \/ WriteAdr(p)
  \/ RefineGoal(p) \/ RefineEvidence(p) \/ RecordRefinement(p)
  \/ AnswerForGoal(p) \/ AnswerForEvidence(p) \/ RecordAnswer(p)

LEMMA RefinementTypes ==
  ASSUME Planned(cmd), NEW n \in Nodes
  PROVE  /\ cmd.goals[n] \in Goals /\ cmd.goals[n].compiler \in KnownBlocks
         /\ cmd.adrs[n] \in Nat /\ Refinement(cmd, n) \in Refinements
BY WithAdrType DEF Planned, Plans, Goals, Refinement

LEMMA ManifestTypes ==
  ASSUME Planned(cmd), cmd \in CmdStates
  PROVE  /\ RefinedManifest(cmd) \in Campaigns
         /\ RefinedManifest(cmd).specs = Nodes
         /\ RefinedManifest(cmd).adrs = cmd.campaign.adrs \cup PlannedDecisions(cmd)
         /\ RefinedManifest(cmd).epic =
              IF cmd.campaign.epic = 0 THEN cmd.epic ELSE cmd.campaign.epic
         /\ RefinedManifest(cmd).issues =
              IF Len(cmd.issues) > Len(cmd.campaign.issues) THEN cmd.issues ELSE cmd.campaign.issues
         /\ RefinedManifest(cmd).refinement = [adrs |-> cmd.adrs]
         /\ RefinedManifest(cmd).llm = NotDrafted /\ RefinedManifest(cmd).status = "draft"
         /\ RefinedManifest(cmd).needs = cmd.campaign.needs
         /\ RefinedManifest(cmd).plans = cmd.campaign.plans
<1>1. cmd.campaign \in Campaigns /\ cmd.adrs \in Plans
      /\ cmd.epic \in Nat /\ cmd.issues \in Seq(Nat)
  BY DEF Planned, CmdStates
<1>2. PlannedDecisions(cmd) \in SUBSET [node : Nodes, number : Nat]
  BY <1>1 DEF PlannedDecisions, Plans
<1>3. [adrs |-> cmd.adrs] \in [adrs : Plans] /\ NotDrafted \in Answers
  BY <1>1 DEF Answers, NoAnswer
<1> DEFINE c == cmd.campaign
           e == IF c.epic = 0 THEN cmd.epic ELSE c.epic
           i == IF Len(cmd.issues) > Len(c.issues) THEN cmd.issues ELSE c.issues
           a == c.adrs \cup PlannedDecisions(cmd)
           r == [adrs |-> cmd.adrs]
<1>4. RefinedManifest(cmd) =
        [c EXCEPT !.status = "draft", !.specs = Nodes, !.adrs = a, !.epic = e, !.issues = i,
                  !.refinement = r, !.llm = NotDrafted]
  BY DEF RefinedManifest
<1>5. c \in Campaigns /\ e \in Nat /\ i \in Seq(Nat) /\ a \in SUBSET [node : Nodes, number : Nat]
      /\ r \in {NotRefined} \cup [adrs : Plans] /\ NotDrafted \in Answers
  BY <1>1, <1>2, <1>3 DEF Campaigns
<1> HIDE DEF c, e, i, a, r
<1>6. RefinedManifest(cmd) =
        [spec |-> c.spec, status |-> "draft", needs |-> c.needs, plans |-> c.plans,
         specs |-> Nodes, adrs |-> a, epic |-> e, issues |-> i, refinement |-> r,
         llm |-> NotDrafted]
  BY <1>4, <1>5 DEF Campaigns
<1>7. RefinedManifest(cmd) \in Campaigns
  BY <1>5, <1>6 DEF Campaigns
<1>8. /\ RefinedManifest(cmd).specs = Nodes /\ RefinedManifest(cmd).adrs = a
      /\ RefinedManifest(cmd).epic = e /\ RefinedManifest(cmd).issues = i
      /\ RefinedManifest(cmd).refinement = r
      /\ RefinedManifest(cmd).llm = NotDrafted /\ RefinedManifest(cmd).status = "draft"
      /\ RefinedManifest(cmd).needs = c.needs /\ RefinedManifest(cmd).plans = c.plans
  BY <1>6
<1>9. QED BY <1>7, <1>8 DEF c, e, i, a, r

LEMMA WritingTypes ==
  ASSUME TypeInv, NEW p, WritesFile(p)
  PROVE  /\ Writes(p) /\ Wrote(p) /\ Target(p) \in Paths
         /\ \E c : c \in Contents(Target(p)[1]) /\ file' = With(file, Target(p), c)
<1> USE DEF TypeInv
<1>1. Writes(p) /\ Wrote(p)
  BY DEF WritesFile, WriteDraft, WriteSpec, WriteAdr, RefineGoal, RefineEvidence,
         RecordRefinement, AnswerForGoal, AnswerForEvidence, RecordAnswer
<1>2. /\ cmd.op = "init" => p \in DraftPaths /\ Target(p) = p
      /\ cmd.op # "init" => Planned(cmd)
      /\ cmd.op # "init" /\ p[1] \notin {"campaign", "llm_campaign"} => p[2] \in Nodes
      /\ cmd.op # "init" /\ p[1] \in {"spec", "adr", "goal", "evidence"} => p \in Paths
      /\ Target(p) \in Paths
  <2>1. CASE cmd.op = "init"
    BY <1>1, <2>1, WritesAre
  <2>2. CASE cmd.op # "init"
    <3>1. Target(p) = p \/ p[1] \in {"llm_goal", "llm_evidence", "llm_campaign"}
      BY <1>1, <2>2, WritesAre DEF Target
    <3>2. QED BY <1>1, <2>2, <3>1, WritesAre
  <2>3. QED BY <2>1, <2>2
<1> SUFFICES \E c : c \in Contents(Target(p)[1]) /\ file' = With(file, Target(p), c)
  BY <1>1, <1>2
<1>3. ASSUME NEW q, NEW c, q = Target(p), c \in Contents(q[1]), file' = With(file, q, c)
      PROVE  \E d : d \in Contents(Target(p)[1]) /\ file' = With(file, Target(p), d)
  BY <1>3
<1>4. CASE WriteDraft(p)
  <2>1. \E v \in SpecVersions : cmd.campaign = DraftCampaign(v)
    BY <1>4 DEF WriteDraft, CmdOK, Holds
  <2>2. cmd.campaign.spec \in SpecVersions
    BY <2>1 DEF DraftCampaign
  <2>3. p \in DraftPaths /\ p \in Paths /\ Draft(cmd.campaign.spec, p) \in Contents(p[1])
    BY <1>2, <1>4, <2>2, DraftTypes DEF WriteDraft
  <2>4. QED BY <1>2, <1>3, <1>4, <2>3 DEF WriteDraft, Put
<1>5. CASE WriteSpec(p)
  <2>1. p[1] = "spec" /\ cmd.op # "init"
    BY <1>2, <1>5, PathsAre DEF WriteSpec, DraftPaths
  <2>2. SpecStub(cmd, p[2]) \in Contents("spec")
    BY <1>2, <2>1, RefinementTypes DEF SpecStub, Contents
  <2>3. QED BY <1>2, <1>3, <1>5, <2>1, <2>2 DEF WriteSpec, Put, Target
<1>6. CASE WriteAdr(p)
  <2>1. p[1] = "adr" /\ cmd.op # "init"
    BY <1>2, <1>6, PathsAre DEF WriteAdr, DraftPaths
  <2>2. AdrStub(p[2]) \in Contents("adr")
    BY <1>2, <2>1 DEF AdrStub, Contents
  <2>3. QED BY <1>2, <1>3, <1>6, <2>1, <2>2 DEF WriteAdr, Put, Target
<1>7. CASE RefineGoal(p)
  <2>1. p[1] = "goal" /\ cmd.op # "init" /\ p[2] \in Nodes /\ Planned(cmd) /\ p \in Paths
    BY <1>2, <1>7 DEF RefineGoal
  <2> DEFINE g == cmd.goals[p[2]]
             r == Refinement(cmd, p[2])
  <2>2. g \in Goals /\ r \in Refinements /\ NotDrafted \in Answers
    BY <2>1, RefinementTypes DEF Answers, NoAnswer
  <2>3. file' = With(file, p, [g EXCEPT !.refinement = r, !.llm = NotDrafted])
    BY <1>7 DEF RefineGoal, Put
  <2> HIDE DEF g, r
  <2>4. [g EXCEPT !.refinement = r, !.llm = NotDrafted] \in Goals
    BY <2>2 DEF Goals
  <2>5. QED BY <1>3, <2>1, <2>3, <2>4 DEF Contents, Target
<1>8. CASE RefineEvidence(p)
  <2>1. p[1] = "evidence" /\ cmd.op # "init" /\ p[2] \in Nodes /\ Planned(cmd) /\ p \in Paths
        /\ Whole(p)
    BY <1>2, <1>8 DEF RefineEvidence
  <2> DEFINE g == file[p]
             r == Refinement(cmd, p[2])
  <2>2. g \in EvidencePlans /\ r \in Refinements /\ NotDrafted \in Answers
    BY <2>1, RefinementTypes DEF Answers, NoAnswer, Typed, Whole, Contents
  <2>3. file' = With(file, p, [g EXCEPT !.refinement = r, !.llm = NotDrafted])
    BY <1>8 DEF RefineEvidence, Put
  <2> HIDE DEF g, r
  <2>4. [g EXCEPT !.refinement = r, !.llm = NotDrafted] \in EvidencePlans
    BY <2>2 DEF EvidencePlans
  <2>5. QED BY <1>3, <2>1, <2>3, <2>4 DEF Contents, Target
<1>9. CASE RecordRefinement(p)
  <2>1. cmd.op # "init" /\ p = Path("campaign") /\ Planned(cmd) /\ cmd \in CmdStates
    BY <1>2, <1>9 DEF RecordRefinement, CmdOK
  <2>2. RefinedManifest(cmd) \in Campaigns
    BY <2>1, ManifestTypes
  <2>3. p \in Paths /\ p[1] = "campaign"
    BY <2>1, PathsAre
  <2>4. QED BY <1>3, <1>9, <2>2, <2>3 DEF RecordRefinement, Put, Contents, Target
<1>10. CASE AnswerForGoal(p)
  <2>1. p[1] = "llm_goal" /\ p[2] \in Nodes /\ Whole(NodePath("goal", p[2]))
    <3>1. p[1] = "llm_goal" /\ Whole(NodePath("goal", p[2]))
      BY <1>10 DEF AnswerForGoal
    <3>2. cmd.op # "init"
      BY <1>2, <3>1, PathsAre DEF DraftPaths
    <3>3. QED BY <1>2, <3>1, <3>2
  <2> DEFINE g == goal(p[2])
             a == cmd.answer
  <2>2. g \in Goals /\ a \in Answers
    BY <2>1, WholeTypes DEF CmdOK, CmdStates
  <2>3. file' = With(file, NodePath("goal", p[2]), [g EXCEPT !.llm = a])
    BY <1>10 DEF AnswerForGoal, Put
  <2> HIDE DEF g, a
  <2>4. [g EXCEPT !.llm = a] \in Goals
    BY <2>2 DEF Goals
  <2>5. NodePath("goal", p[2]) \in Paths /\ NodePath("goal", p[2])[1] = "goal"
    BY <2>1, PathsAre
  <2>6. QED BY <1>3, <2>1, <2>3, <2>4, <2>5 DEF Contents, Target
<1>11. CASE AnswerForEvidence(p)
  <2>1. p[1] = "llm_evidence" /\ p[2] \in Nodes /\ Whole(NodePath("evidence", p[2]))
    <3>1. p[1] = "llm_evidence" /\ Whole(NodePath("evidence", p[2]))
      BY <1>11 DEF AnswerForEvidence
    <3>2. cmd.op # "init"
      BY <1>2, <3>1, PathsAre DEF DraftPaths
    <3>3. QED BY <1>2, <3>1, <3>2
  <2> DEFINE g == evidence(p[2])
             a == cmd.answer
  <2>2. g \in EvidencePlans /\ a \in Answers
    BY <2>1, WholeTypes DEF CmdOK, CmdStates
  <2>3. file' = With(file, NodePath("evidence", p[2]), [g EXCEPT !.llm = a])
    BY <1>11 DEF AnswerForEvidence, Put
  <2> HIDE DEF g, a
  <2>4. [g EXCEPT !.llm = a] \in EvidencePlans
    BY <2>2 DEF EvidencePlans
  <2>5. NodePath("evidence", p[2]) \in Paths /\ NodePath("evidence", p[2])[1] = "evidence"
    BY <2>1, PathsAre
  <2>6. QED BY <1>3, <2>1, <2>3, <2>4, <2>5 DEF Contents, Target
<1>12. CASE RecordAnswer(p)
  <2> DEFINE a == cmd.answer
  <2>1. campaign \in Campaigns /\ a \in Answers
    BY <1>12, WholeTypes DEF RecordAnswer, CmdOK, CmdStates
  <2>2. file' = With(file, Path("campaign"), [campaign EXCEPT !.status = "draft", !.llm = a])
    BY <1>12 DEF RecordAnswer, Put
  <2> HIDE DEF a
  <2>3. [campaign EXCEPT !.status = "draft", !.llm = a] \in Campaigns
    BY <2>1 DEF Campaigns
  <2>4. Target(p) = Path("campaign")
    BY <1>12 DEF RecordAnswer, Target, Path
  <2>5. QED BY <1>3, <2>2, <2>3, <2>4, PathsAre DEF Contents
<1>13. QED BY <1>1, <1>4, <1>5, <1>6, <1>7, <1>8, <1>9, <1>10, <1>11, <1>12 DEF WritesFile

----------------------------------------------------------------------------
(* People *)

LEMMA NotTorn ==
  ASSUME NEW kind \in Kinds, NEW c \in Contents(kind)
  PROVE  c # Torn
<1> SUFFICES "torn" \notin DOMAIN c
  BY DEF Torn
<1>1. CASE kind = "campaign"
  BY <1>1 DEF Contents, Campaigns
<1>2. CASE kind = "loop"
  BY <1>2 DEF Contents, Loops
<1>3. CASE kind = "marker"
  BY <1>3 DEF Contents
<1>4. CASE kind = "goal"
  BY <1>4 DEF Contents, Goals
<1>5. CASE kind = "evidence"
  BY <1>5 DEF Contents, EvidencePlans
<1>6. CASE kind \in {"spec", "adr"}
  BY <1>6 DEF Contents, Authored
<1>7. QED BY <1>1, <1>2, <1>3, <1>4, <1>5, <1>6 DEF Kinds

(* An edit replaces or adds one file, and Settle two.                      *)
EditsFile ==
  \E n \in Nodes :
    \/ \E body \in {"edited", "broken"} : RewriteGoal(n, body)
    \/ \E for \in Nodes : RewriteEvidence(n, for)
    \/ \E m \in Nodes : AddDependency(m, n)
    \/ EditManifest(campaign.needs, campaign.plans \ {n})
EditsOther ==
  \/ EditManifest({}, campaign.plans)
  \/ AddAdr \/ LinkIssues
  \/ \E p \in DOMAIN file : WriteDocument(p)

(* What an edit leaves as it was.                                          *)
Keeps(q, c) ==
  /\ q[1] = "campaign" =>
       /\ Whole(q) /\ c.spec = file[q].spec /\ c.status = file[q].status
       /\ c.specs = file[q].specs /\ c.adrs = file[q].adrs
       /\ c.epic = file[q].epic /\ c.issues = file[q].issues
       /\ c.refinement = file[q].refinement /\ c.llm = file[q].llm
  /\ q[1] = "goal" =>
       /\ Whole(q) /\ c.compiler = file[q].compiler
       /\ c.refinement = file[q].refinement /\ c.llm = file[q].llm
  /\ q[1] = "evidence" =>
       Whole(q) /\ c.refinement = file[q].refinement /\ c.llm = file[q].llm

OneFileEdited ==
  /\ PersonActs /\ UNCHANGED primary
  /\ \E q \in Paths : \E c \in Contents(q[1]) : Keeps(q, c) /\ file' = With(file, q, c)

LEMMA EditTypes ==
  ASSUME TypeInv, EditsFile \/ EditsOther
  PROVE  OneFileEdited
<1> USE DEF TypeInv
<1>1. ASSUME NEW q \in Paths, NEW c, c \in Contents(q[1]), Keeps(q, c), EditFile(q, c)
      PROVE  OneFileEdited
  BY <1>1 DEF EditFile, Edit, OneFileEdited
<1>2. ASSUME NEW n \in Nodes, NEW body \in {"edited", "broken"}, RewriteGoal(n, body)
      PROVE  OneFileEdited
  <2>1. goal(n) \in Goals
    BY <1>2, WholeTypes DEF RewriteGoal
  <2>2. [goal(n) EXCEPT !.body = body] \in Goals
    BY <2>1 DEF Goals
  <2>3. NodePath("goal", n) \in Paths /\ Contents(NodePath("goal", n)[1]) = Goals
    BY PathsAre DEF Contents
  <2>4. Keeps(NodePath("goal", n), [goal(n) EXCEPT !.body = body])
    BY <1>2, <2>1, PathsAre DEF Keeps, RewriteGoal, goal, Goals
  <2>5. QED BY <1>1, <1>2, <2>2, <2>3, <2>4 DEF RewriteGoal
<1>3. ASSUME NEW n \in Nodes, NEW for \in Nodes, RewriteEvidence(n, for)
      PROVE  OneFileEdited
  <2>1. evidence(n) \in EvidencePlans
    BY <1>3, WholeTypes DEF RewriteEvidence
  <2>2. [evidence(n) EXCEPT !.body = "edited", !.goal = for] \in EvidencePlans
    BY <2>1 DEF EvidencePlans
  <2>3. NodePath("evidence", n) \in Paths /\ Contents(NodePath("evidence", n)[1]) = EvidencePlans
    BY PathsAre DEF Contents
  <2>4. Keeps(NodePath("evidence", n), [evidence(n) EXCEPT !.body = "edited", !.goal = for])
    BY <1>3, <2>1, PathsAre DEF Keeps, RewriteEvidence, evidence, EvidencePlans
  <2>5. QED BY <1>1, <1>3, <2>2, <2>3, <2>4 DEF RewriteEvidence
<1>4. Path("loop") \in Paths /\ Contents(Path("loop")[1]) = Loops /\ \A c : Keeps(Path("loop"), c)
  BY PathsAre DEF Contents, Keeps
<1>5. Path("campaign") \in Paths /\ Contents(Path("campaign")[1]) = Campaigns
  BY PathsAre DEF Contents
<1>6. ASSUME NEW m \in Nodes, NEW n \in Nodes, AddDependency(m, n)
      PROVE  OneFileEdited
  <2>1. loop \in Loops
    BY <1>6, WholeTypes DEF AddDependency
  <2>2. [loop EXCEPT !.deps = @ \cup {<<m, n>>}] \in Loops
    BY <2>1 DEF Loops
  <2>3. QED BY <1>1, <1>4, <1>6, <2>2 DEF AddDependency
<1>7. CASE LinkIssues
  <2>1. loop \in Loops
    BY <1>7, WholeTypes DEF LinkIssues
  <2>2. [loop EXCEPT !.linked = Nodes] \in Loops
    BY <2>1 DEF Loops
  <2>3. QED BY <1>1, <1>4, <1>7, <2>2 DEF LinkIssues
<1>8. ASSUME NEW needs, NEW plans, EditManifest(needs, plans),
             campaign \in Campaigns => needs \subseteq RoutedStates /\ plans \subseteq Nodes
      PROVE  OneFileEdited
  <2>1. campaign \in Campaigns
    BY <1>8, WholeTypes DEF EditManifest
  <2>2. [campaign EXCEPT !.needs = needs, !.plans = plans] \in Campaigns
    BY <1>8, <2>1 DEF Campaigns
  <2>3. Keeps(Path("campaign"), [campaign EXCEPT !.needs = needs, !.plans = plans])
    BY <1>8, <2>1, PathsAre DEF Keeps, EditManifest, campaign, Campaigns
  <2>4. QED BY <1>1, <1>5, <1>8, <2>2, <2>3 DEF EditManifest
<1>9. CASE AddAdr
  <2>1. HighestAdr + 1 \in Nat
    BY HighestAdrIs
  <2>2. AdrPath(0, HighestAdr + 1) \in Paths /\ AdrPath(0, HighestAdr + 1)[1] = "adr"
    BY <2>1, PathsAre
  <2>3. Authored \in Contents("adr")
    BY DEF Contents
  <2>4. Keeps(AdrPath(0, HighestAdr + 1), Authored)
    BY <2>2 DEF Keeps
  <2>5. QED BY <1>1, <1>9, <2>2, <2>3, <2>4 DEF AddAdr
<1>10. ASSUME NEW p \in DOMAIN file, WriteDocument(p)
       PROVE  OneFileEdited
  <2>1. p \in Paths /\ p[1] \in {"spec", "adr"} /\ EditFile(p, Authored)
    BY <1>10 DEF WriteDocument, Typed
  <2>2. Authored \in Contents(p[1])
    BY <2>1 DEF Contents
  <2>3. Keeps(p, Authored)
    BY <2>1 DEF Keeps
  <2>4. QED BY <1>1, <2>1, <2>2, <2>3
<1>11. ASSUME NEW n \in Nodes, EditManifest(campaign.needs, campaign.plans \ {n})
       PROVE  OneFileEdited
  BY <1>8, <1>11 DEF Campaigns
<1>12. CASE EditManifest({}, campaign.plans)
  BY <1>8, <1>12 DEF Campaigns
<1>13. QED BY <1>2, <1>3, <1>6, <1>7, <1>9, <1>10, <1>11, <1>12 DEF EditsFile, EditsOther

LEMMA SettleTypes ==
  ASSUME TypeInv, NEW n \in Nodes, Settle(n)
  PROVE  /\ PersonActs /\ UNCHANGED primary
         /\ \E g \in Goals, e \in EvidencePlans :
              /\ file' = With(With(file, NodePath("goal", n), g), NodePath("evidence", n), e)
              /\ g.spec = goal(n).spec /\ g.body = goal(n).body /\ g.needs = FALSE
              /\ g.compiler = SettledBlock(goal(n).compiler)
              /\ g.refinement = SettledIfAny(goal(n).refinement) /\ g.llm = goal(n).llm
              /\ e.body = evidence(n).body /\ e.goal = evidence(n).goal
              /\ e.refinement = SettledIfAny(evidence(n).refinement) /\ e.llm = evidence(n).llm
<1>1. goal(n) \in Goals /\ evidence(n) \in EvidencePlans
  BY WholeTypes DEF Settle, TypeInv
<1> DEFINE g0 == goal(n)
           e0 == evidence(n)
           g1 == [g0 EXCEPT !.needs = FALSE, !.compiler = SettledBlock(@),
                            !.refinement = SettledIfAny(@)]
           e1 == [e0 EXCEPT !.refinement = SettledIfAny(@)]
<1>2. SettledBlock(g0.compiler) \in KnownBlocks /\ SettledIfAny(g0.refinement) \in Refinements
      /\ SettledIfAny(e0.refinement) \in Refinements
  BY <1>1, BlockTypes, SettledRefinement DEF Goals, EvidencePlans
<1>3. /\ PersonActs /\ UNCHANGED primary
      /\ file' = With(With(file, NodePath("goal", n), g1), NodePath("evidence", n), e1)
  BY DEF Settle, Edit
<1>4. g0 \in Goals /\ e0 \in EvidencePlans
  BY <1>1
<1> HIDE DEF g0, e0
<1>5. /\ g1 \in Goals /\ g1.spec = g0.spec /\ g1.body = g0.body /\ g1.needs = FALSE
      /\ g1.compiler = SettledBlock(g0.compiler)
      /\ g1.refinement = SettledIfAny(g0.refinement) /\ g1.llm = g0.llm
  BY <1>2, <1>4 DEF Goals
<1>6. /\ e1 \in EvidencePlans /\ e1.body = e0.body /\ e1.goal = e0.goal
      /\ e1.refinement = SettledIfAny(e0.refinement) /\ e1.llm = e0.llm
  BY <1>2, <1>4 DEF EvidencePlans
<1> HIDE DEF g1, e1
<1>7. QED BY <1>3, <1>5, <1>6 DEF g0, e0

----------------------------------------------------------------------------
(* Every step keeps the types *)

LEMMA WholeAfter ==
  ASSUME NEW f, NEW q \in Paths, NEW c \in Contents(q[1]), file' = With(f, q, c)
  PROVE  \A p : (p \in DOMAIN f /\ f[p] # Torn => Whole(p)') /\ (p \in DOMAIN f => p \in DOMAIN file')
<1>1. c # Torn
  BY NotTorn, PathParts
<1>2. QED BY <1>1 DEF With, Whole

LEMMA PersonTypes ==
  ASSUME TypeInv, People
  PROVE  TypeInv'
<1> USE DEF TypeInv, CmdOK
<1>1. ASSUME PersonActs, primary' \in SpecVersions PROVE CmdOK(cmd') /\ Rest' /\ cmd' = cmd
  BY <1>1, BoundsAreNatural DEF PersonActs, Rest
<1>2. ASSUME NEW reply \in Replies, AskModel(reply) PROVE TypeInv'
  <2>1. campaign \in Campaigns /\ \A n \in Nodes : goal(n) \in Goals
    BY <1>2, WholeTypes DEF AskModel, CampaignLints, ArtifactsLint, LoopLints, GoalLints
  <2>2. Prompt(campaign.spec, [n \in Nodes |-> goal(n)], PlannedAdrs) \in Prompts
    <3>1. PlannedAdrs \in Plans /\ campaign.spec \in SpecVersions
      BY <2>1, PlannedAdrsAre DEF Campaigns
    <3>2. [n \in Nodes |-> [k \in Nodes |-> goal(k)][n].compiler] \in [Nodes -> KnownBlocks]
      BY <2>1 DEF Goals
    <3>3. QED BY <3>1, <3>2 DEF Prompt, Prompts
  <2>3. answer' \in Answers
    BY <1>2, <2>2 DEF AskModel, Answers
  <2>4. Rest'
    BY <1>2, <2>3, BoundsAreNatural DEF AskModel, Given, Rest
  <2>5. QED BY <1>2, <2>4 DEF AskModel, Typed, Whole
<1>3. CASE EditsFile \/ EditsOther
  <2>1. PICK q \in Paths : \E c \in Contents(q[1]) : file' = With(file, q, c)
    BY <1>3, EditTypes DEF OneFileEdited
  <2>2. Typed(file')
    BY <2>1, TypedWith
  <2>3. Whole(Path("campaign")) => Whole(Path("campaign"))'
    BY <2>1, WholeAfter DEF Whole
  <2>4. PersonActs /\ primary' = primary
    BY <1>3, EditTypes DEF OneFileEdited
  <2>5. QED BY <1>1, <2>2, <2>3, <2>4 DEF Rest
<1>4. ASSUME NEW n \in Nodes, Settle(n) PROVE TypeInv'
  <2>1. PICK g \in Goals, e \in EvidencePlans :
          file' = With(With(file, NodePath("goal", n), g), NodePath("evidence", n), e)
    BY <1>4, SettleTypes
  <2> DEFINE f == With(file, NodePath("goal", n), g)
  <2>2. /\ NodePath("goal", n) \in Paths /\ NodePath("evidence", n) \in Paths
        /\ g \in Contents(NodePath("goal", n)[1]) /\ e \in Contents(NodePath("evidence", n)[1])
    BY PathsAre DEF Contents
  <2>3. Typed(f)
    BY <2>2, TypedWith
  <2>4. Whole(Path("campaign")) => Path("campaign") \in DOMAIN f /\ f[Path("campaign")] # Torn
    BY DEF Whole, With, Path, NodePath
  <2> HIDE DEF f
  <2>5. file' = With(f, NodePath("evidence", n), e)
    BY <2>1 DEF f
  <2>6. Typed(file')
    BY <2>2, <2>3, <2>5, TypedWith
  <2>7. Whole(Path("campaign")) => Whole(Path("campaign"))'
    BY <2>2, <2>4, <2>5, WholeAfter
  <2>8. PersonActs /\ primary' = primary
    BY <1>4, SettleTypes
  <2>9. QED BY <1>1, <2>6, <2>7, <2>8 DEF Rest
<1>5. ASSUME NEW p \in DOMAIN file, Discard(p) PROVE TypeInv'
  <2>1. DOMAIN file' = DOMAIN file \ {p} /\ \A q \in DOMAIN file \ {p} : file'[q] = file[q]
    BY <1>5 DEF Discard
  <2>2. Typed(file')
    BY <2>1 DEF Typed
  <2>3. PersonActs /\ primary' = primary /\ cmd.op # "ready"
    BY <1>5 DEF Discard, Idle
  <2>4. QED BY <1>1, <2>2, <2>3 DEF Rest
<1>6. ASSUME NEW v \in SpecVersions, RewordPrimary(v) PROVE TypeInv'
  BY <1>1, <1>6 DEF RewordPrimary, Typed, Whole
<1>7. QED BY <1>2, <1>3, <1>4, <1>5, <1>6 DEF People, EditsFile, EditsOther

LEMMA FailureTypes ==
  ASSUME TypeInv, Failures
  PROVE  TypeInv'
<1> USE DEF TypeInv
<1>1. cmd' = Idle /\ CmdOK(cmd') /\ cmd'.op # "ready"
  <2>1. cmd' = Idle
    BY DEF Failures, Crash, TearPromotion, TearWrite
  <2>2. QED BY <2>1, IdleType DEF Idle
<1>2. Rest'
  <2>1. /\ primary' = primary /\ tracker' = tracker /\ answer' = answer /\ alone' = alone
        /\ calls' = calls /\ edits' = edits /\ Fails
        /\ halfway' \in BOOLEAN /\ stale' \in BOOLEAN
    <3>1. CASE Crash
      BY <3>1 DEF Crash
    <3>2. CASE TearPromotion
      BY <3>2 DEF TearPromotion, Others, Rest
    <3>3. ASSUME NEW p \in cmd.todo, TearWrite(p)
          PROVE  /\ primary' = primary /\ tracker' = tracker /\ answer' = answer /\ alone' = alone
                 /\ calls' = calls /\ edits' = edits /\ Fails
                 /\ halfway' \in BOOLEAN /\ stale' \in BOOLEAN
      BY <3>3 DEF TearWrite
    <3>4. QED BY <3>1, <3>2, <3>3 DEF Failures
  <2>2. failures' \in 0..MaxFailures
    BY <2>1, BoundsAreNatural DEF Fails, Rest
  <2>3. QED BY <2>1, <2>2 DEF Rest
<1>3. Typed(file')
  <2>1. CASE Crash
    BY <2>1 DEF Crash, Typed
  <2>2. CASE TearPromotion
    BY <2>2, TypedWith, PathsAre DEF TearPromotion, Put
  <2>3. ASSUME NEW p \in cmd.todo, TearWrite(p) PROVE Typed(file')
    <3>1. Target(p) \in Paths
      BY <2>3, WritesAre DEF TearWrite
    <3>2. QED BY <2>3, <3>1, TypedWith DEF TearWrite, Put
  <2>4. QED BY <2>1, <2>2, <2>3 DEF Failures
<1>4. QED BY <1>1, <1>2, <1>3

LEMMA CommandTypes ==
  ASSUME TypeInv, Commands
  PROVE  TypeInv'
<1> USE DEF TypeInv
<1>1. CASE BeginInit \/ (\E beads \in BOOLEAN : BeginRefine(beads)) \/ BeginImport \/ BeginReady
  <2>1. CmdOK(cmd')
    BY <1>1, BeginTypes
  <2>2. Rest'
    BY <1>1, BoundsAreNatural DEF BeginInit, BeginRefine, BeginImport, BeginReady, Given, Rest
  <2>3. file' = file
    BY <1>1 DEF BeginInit, BeginRefine, BeginImport, BeginReady
  <2>4. cmd'.op = "ready" => Whole(Path("campaign"))
    BY <1>1 DEF BeginInit, BeginRefine, BeginImport, BeginReady, Started, Idle, CampaignLints
  <2>5. QED BY <2>1, <2>2, <2>3, <2>4 DEF Typed, Whole
<1>2. CASE CheckInit \/ PlanRefine \/ CheckRefine \/ HasIssues \/ CheckImport \/ CheckReady
  <2>1. CmdOK(cmd')
    BY <1>2, CheckTypes
  <2>2. Rest'
    BY <1>2 DEF CheckInit, PlanRefine, CheckRefine, HasIssues, BeadsStep, CheckImport, CheckReady,
                Refused, NotFiles, Others, Rest
  <2>3. file' = file
    BY <1>2 DEF CheckInit, PlanRefine, CheckRefine, HasIssues, BeadsStep, CheckImport, CheckReady
  <2>4. cmd' = Idle \/ cmd'.op = cmd.op
    BY <1>2 DEF CheckInit, PlanRefine, CheckRefine, HasIssues, BeadsStep, CheckImport, CheckReady,
                Refused, CmdOK, CmdStates
  <2>5. QED BY <2>1, <2>2, <2>3, <2>4 DEF Typed, Whole, Idle
<1>3. CASE CreateEpic \/ CreateTask \/ CreateFails
  <2>1. CmdOK(cmd') /\ tracker' \in Seq(Issues)
    BY <1>3, CreateTypes
  <2>2. Rest'
    BY <1>3, <2>1, BoundsAreNatural DEF CreateEpic, CreateTask, CreateFails, Fails, Refused, Rest
  <2>3. file' = file /\ cmd.op = "refine"
    BY <1>3 DEF CreateEpic, CreateTask, CreateFails, BeadsStep
  <2>4. cmd' = Idle \/ cmd'.op = cmd.op
    BY <1>3 DEF CreateEpic, CreateTask, CreateFails, Refused, CmdOK, CmdStates
  <2>5. QED BY <2>1, <2>2, <2>3, <2>4 DEF Typed, Idle
<1>4. CASE Promote
  <2> DEFINE c == cmd.campaign
  <2>1. c \in Campaigns
    BY <1>4 DEF Promote, CmdOK, Holds
  <2>2. file' = With(file, Path("campaign"), [c EXCEPT !.status = "ready"])
    BY <1>4 DEF Promote, Put
  <2> HIDE DEF c
  <2>3. [c EXCEPT !.status = "ready"] \in Contents("campaign")
    BY <2>1 DEF Campaigns, Contents
  <2>4. Typed(file')
    BY <2>2, <2>3, TypedWith, PathsAre
  <2>5. cmd' = Idle /\ Rest'
    BY <1>4 DEF Promote, NotFiles, Others, Rest
  <2>6. QED BY <2>4, <2>5, IdleType DEF Idle
<1>5. QED BY <1>1, <1>2, <1>3, <1>4 DEF Commands

LEMMA TypeInit == Init => TypeInv
<1> SUFFICES ASSUME Init PROVE TypeInv
  OBVIOUS
<1>1. Typed(file)
  BY FilesStartTyped DEF Init
<1>2. CmdOK(cmd) /\ cmd.op # "ready"
  BY IdleType DEF Init, Idle
<1>3. Rest
  <2>1. tracker \in Seq(Issues) /\ answer \in Answers
    BY DEF Init, Answers
  <2>2. calls \in 0..MaxCalls /\ edits \in 0..MaxEdits /\ failures \in 0..MaxFailures
    BY BoundsAreNatural DEF Init
  <2>3. alone \in BOOLEAN /\ halfway \in BOOLEAN /\ stale \in BOOLEAN /\ primary \in SpecVersions
    BY DEF Init
  <2>4. QED BY <2>1, <2>2, <2>3 DEF Rest
<1>4. QED BY <1>1, <1>2, <1>3 DEF TypeInv

LEMMA TypeStep == TypeInv /\ [Next]_vars => TypeInv'
<1>1. ASSUME TypeInv, Writing PROVE TypeInv'
  <2>1. PICK p \in cmd.todo : WritesFile(p)
    BY <1>1 DEF Writing, WritesFile
  <2>2. Typed(file') /\ Writes(p) /\ Wrote(p)
    BY <1>1, <2>1, WritingTypes, TypedWith DEF TypeInv
  <2>3. cmd.op \in {"init", "refine", "import"}
    BY <2>2 DEF Writes
  <2>4. CmdOK(cmd') /\ cmd'.op # "ready"
    BY <1>1, <2>2, <2>3, WroteTypes DEF TypeInv, Idle
  <2>5. Rest'
    BY <1>1, <2>2 DEF Wrote, NotFiles, Others, Rest, TypeInv
  <2>6. QED BY <2>2, <2>4, <2>5 DEF TypeInv
<1>2. ASSUME TypeInv, UNCHANGED vars PROVE TypeInv'
  BY <1>2 DEF TypeInv, Typed, CmdOK, Rest, Whole, vars
<1>3. QED BY <1>1, <1>2, CommandTypes, FailureTypes, PersonTypes DEF Next

(* The files of a campaign stay what the code and the people may write,    *)
(* and a command holds what its step needs, for any primary spec.          *)
THEOREM TypesHold == Spec => []TypeOK
BY TypeInit, TypeStep, TypeInvIsEnough, PTL DEF Spec

----------------------------------------------------------------------------
(* What a step of a person keeps: the running command, the issues, every   *)
(* whole file, the manifest's record of a refinement, and in a goal and a  *)
(* plan the answer and, but for settling, the blocks refine owns.          *)

SameWork(c, d) ==
  /\ c.spec = d.spec /\ c.specs = d.specs /\ c.adrs = d.adrs
  /\ c.epic = d.epic /\ c.issues = d.issues /\ c.refinement = d.refinement
SameRecord(c, d) == SameWork(c, d) /\ c.status = d.status /\ c.llm = d.llm
MaySettle(x, y) ==
  y.llm = x.llm /\ (y.refinement = x.refinement \/ y.refinement = SettledIfAny(x.refinement))

FilesKept ==
  /\ \A p : Whole(p) => Whole(p)'
  /\ \A p \in DOMAIN file : p \notin DOMAIN file' =>
       /\ cmd = Idle /\ Whole(Path("campaign"))
       /\ p \notin SpecPaths(campaign.specs) \cup DeclaredAdrs(campaign)
  /\ Whole(Path("campaign"))' => Whole(Path("campaign")) /\ SameRecord(campaign', campaign)
  /\ \A n \in Nodes :
       /\ Whole(NodePath("goal", n))' =>
            /\ Whole(NodePath("goal", n)) /\ MaySettle(goal(n), goal(n)')
            /\ \/ goal(n)'.compiler = goal(n).compiler
               \/ goal(n)'.compiler = SettledBlock(goal(n).compiler)
       /\ Whole(NodePath("evidence", n))' =>
            Whole(NodePath("evidence", n)) /\ MaySettle(evidence(n), evidence(n)')

LEMMA NothingWritten ==
  ASSUME file' = file
  PROVE  FilesKept
BY DEF FilesKept, SameRecord, SameWork, MaySettle, Whole, campaign, goal, evidence

LEMMA EditKeeps ==
  ASSUME NEW q \in Paths, NEW c, c \in Contents(q[1]), Keeps(q, c), file' = With(file, q, c)
  PROVE  FilesKept
<1>0. \A p : Whole(p) => Whole(p)'
  BY WholeAfter DEF Whole
<1>1. DOMAIN file' = DOMAIN file \cup {q} /\ file'[q] = c
      /\ \A p \in DOMAIN file : p # q => file'[p] = file[p]
  BY DEF With
<1>2. ASSUME NEW p, p # q, Whole(p)' PROVE Whole(p) /\ file'[p] = file[p]
  BY <1>1, <1>2 DEF Whole
<1>3. Whole(Path("campaign"))' => Whole(Path("campaign")) /\ SameRecord(campaign', campaign)
  <2>1. CASE q = Path("campaign")
    BY <1>1, <2>1, PathsAre DEF Keeps, SameRecord, SameWork, campaign
  <2>2. CASE q # Path("campaign")
    BY <1>2, <2>2 DEF SameRecord, SameWork, campaign
  <2>3. QED BY <2>1, <2>2
<1>4. ASSUME NEW n \in Nodes, Whole(NodePath("goal", n))'
      PROVE  /\ Whole(NodePath("goal", n)) /\ MaySettle(goal(n), goal(n)')
             /\ goal(n)'.compiler = goal(n).compiler
  <2>1. CASE q = NodePath("goal", n)
    BY <1>1, <2>1, PathsAre DEF Keeps, MaySettle, goal
  <2>2. CASE q # NodePath("goal", n)
    BY <1>2, <1>4, <2>2 DEF MaySettle, goal
  <2>3. QED BY <2>1, <2>2
<1>5. ASSUME NEW n \in Nodes, Whole(NodePath("evidence", n))'
      PROVE  Whole(NodePath("evidence", n)) /\ MaySettle(evidence(n), evidence(n)')
  <2>1. CASE q = NodePath("evidence", n)
    BY <1>1, <2>1, PathsAre DEF Keeps, MaySettle, evidence
  <2>2. CASE q # NodePath("evidence", n)
    BY <1>2, <1>5, <2>2 DEF MaySettle, evidence
  <2>3. QED BY <2>1, <2>2
<1>6. QED BY <1>0, <1>1, <1>3, <1>4, <1>5 DEF FilesKept

LEMMA SettleKeeps ==
  ASSUME TypeInv, NEW n \in Nodes, Settle(n)
  PROVE  FilesKept
<1>1. PICK g \in Goals, e \in EvidencePlans :
        /\ file' = With(With(file, NodePath("goal", n), g), NodePath("evidence", n), e)
        /\ g.compiler = SettledBlock(goal(n).compiler)
        /\ g.refinement = SettledIfAny(goal(n).refinement) /\ g.llm = goal(n).llm
        /\ e.refinement = SettledIfAny(evidence(n).refinement) /\ e.llm = evidence(n).llm
  BY SettleTypes
<1> DEFINE pg == NodePath("goal", n)
           pe == NodePath("evidence", n)
<1>2. g # Torn /\ e # Torn
  <2>1. "goal" \in Kinds /\ "evidence" \in Kinds /\ g \in Contents("goal") /\ e \in Contents("evidence")
    BY DEF Contents, Kinds
  <2>2. QED BY <2>1, NotTorn
<1>3. pg # pe /\ \A m \in Nodes : m # n => NodePath("goal", m) # pg /\ NodePath("evidence", m) # pe
  BY DEF NodePath
<1>4. \A m \in Nodes : NodePath("goal", m) # pe /\ NodePath("evidence", m) # pg
      /\ Path("campaign") # pg /\ Path("campaign") # pe
  BY DEF NodePath, Path
<1>5. Whole(pg) /\ Whole(pe)
  BY DEF Settle
<1> HIDE DEF pg, pe
<1>6. /\ file' = With(With(file, pg, g), pe, e)
  BY <1>1 DEF pg, pe
<1>7. /\ DOMAIN file' = DOMAIN file \cup {pg, pe} /\ file'[pg] = g /\ file'[pe] = e
      /\ \A p \in DOMAIN file : p # pg /\ p # pe => file'[p] = file[p]
  BY <1>3, <1>6 DEF With
<1>8. \A p : Whole(p) => Whole(p)'
  BY <1>2, <1>7 DEF Whole
<1>9. \A p : p # pg /\ p # pe /\ Whole(p)' => Whole(p) /\ file'[p] = file[p]
  BY <1>7 DEF Whole
<1>10. Whole(Path("campaign"))' => Whole(Path("campaign")) /\ SameRecord(campaign', campaign)
  BY <1>4, <1>9 DEF SameRecord, SameWork, campaign
<1>11. ASSUME NEW m \in Nodes, Whole(NodePath("goal", m))'
       PROVE  /\ Whole(NodePath("goal", m)) /\ MaySettle(goal(m), goal(m)')
              /\ \/ goal(m)'.compiler = goal(m).compiler
                 \/ goal(m)'.compiler = SettledBlock(goal(m).compiler)
  <2>1. CASE m = n
    BY <1>1, <1>5, <1>7, <2>1 DEF MaySettle, goal, pg
  <2>2. CASE m # n
    BY <1>3, <1>4, <1>9, <1>11, <2>2 DEF MaySettle, goal
  <2>3. QED BY <2>1, <2>2
<1>12. ASSUME NEW m \in Nodes, Whole(NodePath("evidence", m))'
       PROVE  Whole(NodePath("evidence", m)) /\ MaySettle(evidence(m), evidence(m)')
  <2>1. CASE m = n
    BY <1>1, <1>5, <1>7, <2>1 DEF MaySettle, evidence, pe
  <2>2. CASE m # n
    BY <1>3, <1>4, <1>9, <1>12, <2>2 DEF MaySettle, evidence
  <2>3. QED BY <2>1, <2>2
<1>13. QED BY <1>7, <1>8, <1>10, <1>11, <1>12 DEF FilesKept

LEMMA DiscardKeeps ==
  ASSUME NEW p \in DOMAIN file, Discard(p)
  PROVE  FilesKept
<1>1. /\ DOMAIN file' = DOMAIN file \ {p} /\ \A q \in DOMAIN file \ {p} : file'[q] = file[q]
      /\ p[1] \in {"spec", "adr"} /\ file[p] = Torn /\ Whole(Path("campaign")) /\ cmd = Idle
      /\ p \notin SpecPaths(campaign.specs) \cup DeclaredAdrs(campaign)
  BY DEF Discard
<1>2. \A q : (Whole(q) => Whole(q)') /\ (Whole(q)' => Whole(q) /\ file'[q] = file[q])
  BY <1>1 DEF Whole
<1>3. QED BY <1>1, <1>2 DEF FilesKept, SameRecord, SameWork, MaySettle, campaign, goal, evidence

LEMMA PeopleKeep ==
  ASSUME TypeInv, People
  PROVE  /\ cmd' = cmd /\ tracker' = tracker /\ halfway' = halfway
         /\ alone' => alone /\ cmd = Idle
         /\ ~stale' => ~stale /\ file' = file
         /\ FilesKept
<1>1. ASSUME PersonActs
      PROVE  /\ cmd' = cmd /\ tracker' = tracker /\ halfway' = halfway
             /\ alone' => alone /\ cmd = Idle
             /\ stale'
  BY <1>1 DEF PersonActs
<1>2. ASSUME NEW reply \in Replies, AskModel(reply)
      PROVE  /\ cmd' = cmd /\ tracker' = tracker /\ halfway' = halfway
             /\ alone' => alone /\ cmd = Idle
             /\ ~stale' => ~stale /\ file' = file
             /\ FilesKept
  BY <1>2, NothingWritten DEF AskModel, Given
<1>3. CASE EditsFile \/ EditsOther
  BY <1>1, <1>3, EditTypes, EditKeeps DEF OneFileEdited
<1>4. ASSUME NEW n \in Nodes, Settle(n) PROVE PersonActs /\ FilesKept
  BY <1>4, SettleKeeps, SettleTypes
<1>5. ASSUME NEW p \in DOMAIN file, Discard(p) PROVE PersonActs /\ FilesKept
  BY <1>5, DiscardKeeps DEF Discard
<1>6. ASSUME NEW v \in SpecVersions, RewordPrimary(v) PROVE PersonActs /\ FilesKept
  BY <1>6, NothingWritten DEF RewordPrimary
<1>7. QED BY <1>1, <1>2, <1>3, <1>4, <1>5, <1>6 DEF People, EditsFile, EditsOther

----------------------------------------------------------------------------
(* The other steps: which of them touch the files, and what they make of   *)
(* the command.                                                            *)

Begins == BeginInit \/ (\E beads \in BOOLEAN : BeginRefine(beads)) \/ BeginImport \/ BeginReady
Checks == CheckInit \/ PlanRefine \/ CheckRefine \/ HasIssues \/ CheckImport \/ CheckReady
Creates == CreateEpic \/ CreateTask \/ CreateFails

LEMMA BeginIs ==
  ASSUME Begins
  PROVE  /\ file' = file /\ tracker' = tracker /\ alone' = alone
         /\ halfway' = halfway /\ stale' = stale /\ cmd = Idle
         /\ cmd'.epic = 0 /\ cmd'.issues = <<>> /\ cmd'.todo = {} /\ ~cmd'.wrote
         /\ \/ /\ cmd'.op = "init" /\ cmd'.step = "check"
               /\ cmd'.campaign = DraftCampaign(primary)
            \/ /\ cmd'.op \in {"refine", "import"} /\ cmd'.step = "plan"
               /\ cmd'.campaign = NotRead /\ CampaignLints
               /\ cmd'.op = "import" => cmd'.answer = answer /\ answer # NoAnswer
            \/ /\ cmd'.op = "ready" /\ cmd'.step = "gate"
               /\ cmd'.campaign = NotRead /\ CampaignLints
BY DEF Begins, BeginInit, BeginRefine, BeginImport, BeginReady, Given, Started, Idle

SameCommand(d, c) ==
  /\ d.op = c.op /\ d.wrote = c.wrote /\ d.campaign = c.campaign /\ d.goals = c.goals
  /\ d.adrs = c.adrs /\ d.answer = c.answer

LEMMA CheckIs ==
  ASSUME TypeInv, Checks
  PROVE  /\ file' = file /\ tracker' = tracker /\ alone' = alone /\ halfway' = halfway
         /\ \/ cmd' = Idle /\ stale' = stale
            \/ /\ cmd.op = "init" /\ cmd.step = "check" /\ InitIsFree(cmd.campaign.spec)
               /\ cmd'.step = "write" /\ cmd'.todo = DraftPaths /\ stale' = stale
               /\ SameCommand(cmd', cmd) /\ cmd'.epic = cmd.epic /\ cmd'.issues = cmd.issues
            \/ /\ Disturbs /\ cmd.step = "plan" /\ ReadsAll /\ stale' = stale
               /\ cmd'.op = cmd.op /\ cmd'.step = "check" /\ cmd'.todo = {}
               /\ cmd'.wrote = cmd.wrote /\ cmd'.answer = cmd.answer
               /\ cmd'.campaign = campaign /\ cmd'.goals = [n \in Nodes |-> goal(n)]
               /\ cmd'.adrs = PlannedAdrs /\ cmd'.epic = cmd.epic /\ cmd'.issues = cmd.issues
            \/ /\ cmd.op = "refine" /\ cmd.step = "check" /\ RefineIsFree(cmd)
               /\ cmd'.step = "beads" /\ cmd'.todo = {} /\ stale' = stale
               /\ SameCommand(cmd', cmd)
               /\ cmd'.epic = cmd.campaign.epic /\ cmd'.issues = cmd.campaign.issues
            \/ /\ Disturbs /\ cmd.step \in {"check", "beads"}
               /\ cmd.step = "check" => RefineIsFree(cmd)
               /\ cmd.op = "import" => AnswerFits(cmd)
               /\ cmd'.step = "write" /\ cmd'.todo = RefineWrites(cmd) /\ stale' = stale
               /\ SameCommand(cmd', cmd) /\ cmd'.epic = cmd.epic /\ cmd'.issues = cmd.issues
            \/ /\ cmd.op = "ready" /\ cmd.step = "gate" /\ IsReady
               /\ cmd'.op = "ready" /\ cmd'.step = "promote" /\ cmd'.campaign = campaign
               /\ cmd'.wrote = cmd.wrote /\ cmd'.todo = {} /\ cmd'.epic = cmd.epic /\ cmd'.issues = cmd.issues
               /\ ~stale'
<1> USE DEF TypeInv, CmdOK
<1>1. CASE CheckInit
  BY <1>1 DEF CheckInit, Refused, NotFiles, Others, CmdStates, SameCommand
<1>2. CASE PlanRefine
  BY <1>2 DEF PlanRefine, NotFiles, Others, CmdStates, Holds, Disturbs
<1>3. CASE CheckRefine
  BY <1>3 DEF CheckRefine, Refused, NotFiles, Others, CmdStates, Holds, SameCommand, Disturbs
<1>4. CASE HasIssues
  BY <1>4 DEF HasIssues, BeadsStep, NotFiles, Others, CmdStates, SameCommand, Disturbs
<1>5. CASE CheckImport
  BY <1>5 DEF CheckImport, Refused, NotFiles, Others, CmdStates, SameCommand, Disturbs
<1>6. CASE CheckReady
  BY <1>6 DEF CheckReady, CmdStates, Holds
<1>7. QED BY <1>1, <1>2, <1>3, <1>4, <1>5, <1>6 DEF Checks

LEMMA CreateIs ==
  ASSUME TypeInv, Creates
  PROVE  /\ file' = file /\ alone' = alone /\ halfway' = halfway /\ stale' = stale
         /\ cmd.op = "refine" /\ cmd.step = "beads" /\ cmd.todo = {}
         /\ tracker' = tracker \/ (\E task : tracker' = Append(tracker, task))
         /\ \/ cmd' = Idle
            \/ /\ cmd'.step = "beads" /\ cmd'.todo = {} /\ SameCommand(cmd', cmd)
               /\ \/ /\ cmd.epic = 0 /\ cmd'.epic = Len(tracker) + 1
                     /\ cmd'.issues = cmd.issues
                  \/ /\ cmd.epic # 0 /\ cmd'.epic = cmd.epic
                     /\ cmd'.issues = Append(cmd.issues, Len(tracker) + 1)
                     /\ tracker' = Append(tracker, Task(Len(cmd.issues) + 1, cmd.epic))
<1> USE DEF TypeInv, CmdOK, BeadsStep
<1>0. cmd.op = "refine" /\ cmd.step = "beads" /\ cmd.todo = {}
  BY DEF Creates, CreateEpic, CreateTask, CreateFails, Holds
<1>1. CASE CreateEpic
  BY <1>0, <1>1 DEF CreateEpic, CmdStates, SameCommand
<1>2. CASE CreateTask
  BY <1>0, <1>2 DEF CreateTask, NextTask, CmdStates, SameCommand
<1>3. CASE CreateFails
  BY <1>0, <1>3 DEF CreateFails, Refused
<1>4. QED BY <1>1, <1>2, <1>3 DEF Creates

LEMMA WroteIs ==
  ASSUME TypeInv, NEW p, Writes(p), Wrote(p)
  PROVE  /\ tracker' = tracker /\ alone' = alone /\ stale' = stale
         /\ cmd.todo # {} /\ p \in cmd.todo /\ cmd.step = "write"
         /\ \/ cmd.todo = {p} /\ cmd' = Idle /\ halfway' = (halfway /\ cmd.op = "init")
            \/ /\ cmd'.step = cmd.step /\ cmd'.todo = cmd.todo \ {p} /\ halfway' = halfway
               /\ cmd'.op = cmd.op /\ cmd'.wrote /\ cmd'.campaign = cmd.campaign
               /\ cmd'.goals = cmd.goals /\ cmd'.adrs = cmd.adrs /\ cmd'.answer = cmd.answer
               /\ cmd'.epic = cmd.epic /\ cmd'.issues = cmd.issues
BY DEF TypeInv, CmdOK, CmdStates, Writes, Wrote, NotFiles, Others

LEMMA FailureIs ==
  ASSUME TypeInv, Failures
  PROVE  /\ cmd' = Idle /\ tracker' = tracker /\ alone' = alone
         /\ \A q : (q \in DOMAIN file => q \in DOMAIN file')
                   /\ (Whole(q)' => Whole(q) /\ file'[q] = file[q])
         /\ \/ file' = file /\ halfway' = (halfway \/ (Disturbs /\ cmd.wrote))
               /\ stale' = (stale \/ (Disturbs /\ cmd.wrote))
            \/ /\ cmd.op = "ready" /\ cmd.step = "promote"
               /\ file' = With(file, Path("campaign"), Torn)
               /\ halfway' = halfway /\ stale' = stale
            \/ \E p \in cmd.todo :
                 /\ Writes(p) /\ (Rewrites(p) \/ p \notin DOMAIN file \/ ~Free(p, Text(p)))
                 /\ file' = With(file, Target(p), Torn)
                 /\ halfway' = (halfway \/ Disturbs) /\ stale' = (stale \/ Disturbs)
<1>1. ASSUME NEW t, file' = With(file, t, Torn)
      PROVE  \A q : (q \in DOMAIN file => q \in DOMAIN file')
                    /\ (Whole(q)' => Whole(q) /\ file'[q] = file[q])
  BY <1>1 DEF With, Whole
<1>2. CASE Crash
  BY <1>2 DEF Crash, Whole
<1>3. CASE TearPromotion
  BY <1>1, <1>3 DEF TearPromotion, Put, Others
<1>4. ASSUME NEW p \in cmd.todo, TearWrite(p)
      PROVE  /\ cmd' = Idle /\ tracker' = tracker /\ alone' = alone
             /\ \A q : (q \in DOMAIN file => q \in DOMAIN file')
                       /\ (Whole(q)' => Whole(q) /\ file'[q] = file[q])
             /\ Writes(p) /\ (Rewrites(p) \/ p \notin DOMAIN file \/ ~Free(p, Text(p)))
             /\ file' = With(file, Target(p), Torn)
             /\ halfway' = (halfway \/ Disturbs) /\ stale' = (stale \/ Disturbs)
  BY <1>1, <1>4 DEF TearWrite, Put
<1>5. QED BY <1>2, <1>3, <1>4 DEF Failures

LEMMA PromoteIs ==
  ASSUME TypeInv, Promote
  PROVE  /\ cmd' = Idle /\ tracker' = tracker /\ alone' = alone
         /\ halfway' = halfway /\ stale' = stale
         /\ cmd.op = "ready" /\ cmd.step = "promote" /\ cmd.campaign \in Campaigns
         /\ file' = With(file, Path("campaign"), [cmd.campaign EXCEPT !.status = "ready"])
         /\ SameWork(campaign', cmd.campaign) /\ campaign'.llm = cmd.campaign.llm
         /\ campaign'.status = "ready" /\ Whole(Path("campaign"))'
         /\ campaign'.needs = cmd.campaign.needs /\ campaign'.plans = cmd.campaign.plans
<1> DEFINE c == cmd.campaign
           d == [c EXCEPT !.status = "ready"]
<1>1. c \in Campaigns /\ file' = With(file, Path("campaign"), d)
  BY DEF TypeInv, CmdOK, Holds, Promote, Put
<1>2. campaign' = d
  BY <1>1 DEF campaign, With
<1> HIDE DEF c
<1>3. d \in Campaigns
  BY <1>1 DEF Campaigns
<1>4. d # Torn
  <2>1. "campaign" \in Kinds /\ d \in Contents("campaign")
    BY <1>3 DEF Kinds, Contents
  <2>2. QED BY <2>1, NotTorn
<1>5. Whole(Path("campaign"))'
  BY <1>1, <1>4 DEF Whole, With
<1>6. SameWork(d, c) /\ d.llm = c.llm /\ d.status = "ready"
      /\ d.needs = c.needs /\ d.plans = c.plans
  BY <1>1 DEF SameWork, Campaigns
<1>7. QED BY <1>1, <1>2, <1>5, <1>6 DEF c, Promote, NotFiles, Others

(* What a command has written into a file.                                 *)
LEMMA OthersUnwritten ==
  ASSUME TypeInv, NEW p, WritesFile(p)
  PROVE  /\ Whole(Target(p))'
         /\ \A q : /\ q \in DOMAIN file => q \in DOMAIN file'
                   /\ Whole(q) => Whole(q)'
                   /\ q # Target(p) =>
                        /\ q \in DOMAIN file' => q \in DOMAIN file
                        /\ q \in DOMAIN file => file'[q] = file[q]
                        /\ Whole(q)' => Whole(q) /\ file'[q] = file[q]
<1>1. PICK c : c \in Contents(Target(p)[1]) /\ file' = With(file, Target(p), c)
  BY WritingTypes
<1>2. Target(p) \in Paths /\ Target(p)[1] \in Kinds
  BY WritingTypes, PathParts
<1>3. c # Torn
  BY <1>1, <1>2, NotTorn
<1>4. QED BY <1>1, <1>3 DEF With, Whole

(* Targets: the file of a kind is written under its own name, and by the   *)
(* import once more.                                                       *)
LEMMA TargetIs ==
  ASSUME TypeInv, NEW p, Writes(p)
  PROVE  /\ Target(p) = Path("campaign") =>
              \/ p = Path("campaign")
              \/ p = Path("llm_campaign") /\ cmd.op = "import"
         /\ \A n \in Nodes :
              /\ Target(p) = NodePath("goal", n) =>
                   \/ p = NodePath("goal", n)
                   \/ p = NodePath("llm_goal", n) /\ cmd.op = "import"
              /\ Target(p) = NodePath("evidence", n) =>
                   \/ p = NodePath("evidence", n)
                   \/ p = NodePath("llm_evidence", n) /\ cmd.op = "import"
         /\ Target(p)[1] \in {"spec", "adr"} => Target(p) = p /\ cmd.op # "init"
<1>1. cmd.op \in {"init", "refine", "import"} /\ CmdOK(cmd)
  BY DEF Writes, TypeInv
<1>2. CASE cmd.op = "init"
  <2>1. Target(p) = p /\ p[1] \notin {"spec", "adr"}
    BY <1>1, <1>2, WritesAre, PathsAre DEF DraftPaths
  <2>2. QED BY <2>1
<1>3. CASE cmd.op # "init"
  <2>1. CASE p[1] = "llm_goal"
    BY <1>1, <1>3, <2>1, WritesAre DEF Target, NodePath, Path
  <2>2. CASE p[1] = "llm_evidence"
    BY <1>1, <1>3, <2>2, WritesAre DEF Target, NodePath, Path
  <2>3. CASE p[1] = "llm_campaign"
    BY <1>1, <1>3, <2>3, WritesAre DEF Target, NodePath, Path
  <2>4. CASE p[1] \notin {"llm_goal", "llm_evidence", "llm_campaign"}
    BY <1>3, <2>4 DEF Target
  <2>5. QED BY <2>1, <2>2, <2>3, <2>4
<1>4. QED BY <1>2, <1>3

LEMMA WriteKinds ==
  ASSUME TypeInv, NEW p, WritesFile(p)
  PROVE  /\ cmd.op = "init" => WriteDraft(p)
         /\ cmd.op # "init" =>
              /\ p[1] = "spec" => WriteSpec(p)
              /\ p[1] = "adr" => WriteAdr(p)
              /\ p[1] = "goal" => RefineGoal(p)
              /\ p[1] = "evidence" => RefineEvidence(p)
              /\ p[1] = "campaign" => RecordRefinement(p)
              /\ p[1] = "llm_goal" => AnswerForGoal(p)
              /\ p[1] = "llm_evidence" => AnswerForEvidence(p)
              /\ p[1] = "llm_campaign" => RecordAnswer(p)
<1>1. Writes(p) /\ CmdOK(cmd)
  BY WritingTypes DEF TypeInv
<1>2. CASE cmd.op = "init"
  <2>1. p[1] \in {"campaign", "loop", "marker", "goal", "evidence"}
    BY <1>1, <1>2, WritesAre, PathsAre DEF DraftPaths
  <2>2. QED BY <1>2, <2>1 DEF WritesFile, WriteSpec, WriteAdr, RefineGoal, RefineEvidence,
                 RecordRefinement, AnswerForGoal, AnswerForEvidence, RecordAnswer, Path
<1>3. CASE cmd.op # "init"
  BY <1>3 DEF WritesFile, WriteDraft, WriteSpec, WriteAdr, RefineGoal, RefineEvidence,
              RecordRefinement, AnswerForGoal, AnswerForEvidence, RecordAnswer, Path
<1>4. QED BY <1>2, <1>3

LEMMA ManifestWritten ==
  ASSUME TypeInv, NEW p, WritesFile(p), Target(p) = Path("campaign")
  PROVE  \/ /\ cmd.op = "init" /\ p = Path("campaign")
            /\ cmd.campaign.spec \in SpecVersions
            /\ cmd.campaign = DraftCampaign(cmd.campaign.spec) /\ campaign' = cmd.campaign
         \/ /\ Disturbs /\ p = Path("campaign") /\ Planned(cmd)
            /\ campaign' = RefinedManifest(cmd)
         \/ /\ cmd.op = "import" /\ p = Path("llm_campaign") /\ Planned(cmd)
            /\ Whole(Path("campaign")) /\ campaign' \in Campaigns
            /\ campaign'.status = "draft" /\ campaign'.llm = cmd.answer
            /\ campaign'.needs = campaign.needs /\ campaign'.plans = campaign.plans
            /\ SameWork(campaign', campaign)
<1>1. Writes(p) /\ CmdOK(cmd)
  BY WritingTypes DEF TypeInv
<1>2. p = Path("campaign") \/ (p = Path("llm_campaign") /\ cmd.op = "import")
  BY <1>1, TargetIs
<1>3. CASE cmd.op = "init"
  <2>1. WriteDraft(p) /\ p = Path("campaign")
    BY <1>2, <1>3, WriteKinds
  <2>2. \E v \in SpecVersions : cmd.campaign = DraftCampaign(v)
    BY <1>1, <1>3 DEF CmdOK, Holds
  <2>3. cmd.campaign.spec \in SpecVersions /\ cmd.campaign = DraftCampaign(cmd.campaign.spec)
    BY <2>2 DEF DraftCampaign
  <2>4. campaign' = Draft(cmd.campaign.spec, p)
    BY <2>1 DEF WriteDraft, Put, With, campaign
  <2>5. QED BY <1>3, <2>1, <2>3, <2>4, PathsAre DEF Draft
<1>4. CASE cmd.op # "init" /\ p = Path("campaign")
  <2>1. RecordRefinement(p)
    BY <1>4, PathsAre, WriteKinds
  <2>2. Disturbs /\ Planned(cmd)
    BY <1>1, <1>4, WritesAre DEF Disturbs
  <2>3. QED BY <1>4, <2>1, <2>2 DEF RecordRefinement, Put, With, campaign
<1>5. CASE cmd.op = "import" /\ p = Path("llm_campaign")
  <2> DEFINE a == cmd.answer
             d == [campaign EXCEPT !.status = "draft", !.llm = a]
  <2>1. RecordAnswer(p)
    BY <1>5, WriteKinds DEF Path
  <2>2. Planned(cmd) /\ a \in Answers
    BY <1>1, <1>5, WritesAre DEF CmdOK, CmdStates
  <2>3. Whole(Path("campaign")) /\ campaign' = d
    BY <2>1 DEF RecordAnswer, Put, With, campaign
  <2>4. campaign \in Campaigns
    BY <2>3, WholeTypes DEF TypeInv
  <2> HIDE DEF a
  <2>5. /\ d \in Campaigns /\ d.status = "draft" /\ d.llm = a
        /\ d.needs = campaign.needs /\ d.plans = campaign.plans
        /\ SameWork(d, campaign)
    BY <2>2, <2>4 DEF Campaigns, SameWork
  <2>6. QED BY <1>5, <2>2, <2>3, <2>5 DEF a
<1>6. QED BY <1>2, <1>3, <1>4, <1>5

LEMMA GoalWritten ==
  ASSUME TypeInv, NEW p, WritesFile(p), NEW n \in Nodes, Target(p) = NodePath("goal", n)
  PROVE  \/ /\ cmd.op = "init" /\ p = NodePath("goal", n)
            /\ cmd.campaign.spec \in SpecVersions
            /\ goal(n)' = Draft(cmd.campaign.spec, NodePath("goal", n))
         \/ /\ Disturbs /\ p = NodePath("goal", n) /\ Planned(cmd) /\ goal(n)' \in Goals
            /\ goal(n)'.body = cmd.goals[n].body /\ goal(n)'.needs = cmd.goals[n].needs
            /\ goal(n)'.compiler = cmd.goals[n].compiler
            /\ goal(n)'.refinement = Refinement(cmd, n) /\ goal(n)'.llm = NotDrafted
         \/ /\ cmd.op = "import" /\ p = NodePath("llm_goal", n) /\ Planned(cmd)
            /\ Whole(NodePath("goal", n)) /\ goal(n)' \in Goals
            /\ goal(n)'.body = goal(n).body /\ goal(n)'.needs = goal(n).needs
            /\ goal(n)'.compiler = goal(n).compiler
            /\ goal(n)'.refinement = goal(n).refinement /\ goal(n)'.llm = cmd.answer
<1>1. Writes(p) /\ CmdOK(cmd)
  BY WritingTypes DEF TypeInv
<1>2. p = NodePath("goal", n) \/ (p = NodePath("llm_goal", n) /\ cmd.op = "import")
  BY <1>1, TargetIs
<1>3. CASE cmd.op = "init"
  <2>1. WriteDraft(p) /\ p = NodePath("goal", n)
    BY <1>2, <1>3, WriteKinds
  <2>2. \E v \in SpecVersions : cmd.campaign = DraftCampaign(v)
    BY <1>1, <1>3 DEF CmdOK, Holds
  <2>3. cmd.campaign.spec \in SpecVersions
    BY <2>2 DEF DraftCampaign
  <2>4. goal(n)' = Draft(cmd.campaign.spec, p)
    BY <2>1 DEF WriteDraft, Put, With, goal
  <2>5. QED BY <1>3, <2>1, <2>3, <2>4
<1>4. CASE cmd.op # "init" /\ p = NodePath("goal", n)
  <2>1. RefineGoal(p) /\ p[2] = n
    BY <1>4, PathsAre, WriteKinds
  <2>2. Disturbs /\ Planned(cmd)
    BY <1>1, <1>4, WritesAre DEF Disturbs
  <2> DEFINE g == cmd.goals[n]
             r == Refinement(cmd, n)
             d == [g EXCEPT !.refinement = r, !.llm = NotDrafted]
  <2>3. g \in Goals /\ r \in Refinements /\ NotDrafted \in Answers
    BY <2>2, RefinementTypes DEF Answers, NoAnswer
  <2>4. goal(n)' = d
    BY <1>4, <2>1 DEF RefineGoal, Put, With, goal
  <2> HIDE DEF g, r
  <2>5. d \in Goals /\ d.body = g.body /\ d.needs = g.needs /\ d.compiler = g.compiler
        /\ d.refinement = r /\ d.llm = NotDrafted
    BY <2>3 DEF Goals
  <2>6. QED BY <1>4, <2>2, <2>4, <2>5 DEF g, r
<1>5. CASE cmd.op = "import" /\ p = NodePath("llm_goal", n)
  <2>1. AnswerForGoal(p) /\ p[2] = n
    BY <1>5, WriteKinds DEF NodePath
  <2> DEFINE g == goal(n)
             a == cmd.answer
             d == [g EXCEPT !.llm = a]
  <2>2. Planned(cmd) /\ a \in Answers
    BY <1>1, <1>5, WritesAre DEF CmdOK, CmdStates
  <2>3. Whole(NodePath("goal", n)) /\ goal(n)' = d
    BY <2>1 DEF AnswerForGoal, Put, With, goal
  <2>4. g \in Goals
    BY <2>3, WholeTypes DEF TypeInv
  <2> HIDE DEF g, a
  <2>5. d \in Goals /\ d.body = g.body /\ d.needs = g.needs /\ d.compiler = g.compiler
        /\ d.refinement = g.refinement /\ d.llm = a
    BY <2>2, <2>4 DEF Goals
  <2>6. QED BY <1>5, <2>2, <2>3, <2>5 DEF g, a
<1>6. QED BY <1>2, <1>3, <1>4, <1>5

LEMMA EvidenceWritten ==
  ASSUME TypeInv, NEW p, WritesFile(p), NEW n \in Nodes, Target(p) = NodePath("evidence", n)
  PROVE  \/ /\ cmd.op = "init" /\ p = NodePath("evidence", n)
            /\ evidence(n)' = Draft(cmd.campaign.spec, NodePath("evidence", n))
         \/ /\ Disturbs /\ p = NodePath("evidence", n) /\ Planned(cmd)
            /\ Whole(NodePath("evidence", n)) /\ evidence(n)' \in EvidencePlans
            /\ evidence(n)'.body = evidence(n).body /\ evidence(n)'.goal = evidence(n).goal
            /\ evidence(n)'.refinement = Refinement(cmd, n) /\ evidence(n)'.llm = NotDrafted
         \/ /\ cmd.op = "import" /\ p = NodePath("llm_evidence", n) /\ Planned(cmd)
            /\ Whole(NodePath("evidence", n)) /\ evidence(n)' \in EvidencePlans
            /\ evidence(n)'.body = evidence(n).body /\ evidence(n)'.goal = evidence(n).goal
            /\ evidence(n)'.refinement = evidence(n).refinement /\ evidence(n)'.llm = cmd.answer
<1>1. Writes(p) /\ CmdOK(cmd)
  BY WritingTypes DEF TypeInv
<1>2. p = NodePath("evidence", n) \/ (p = NodePath("llm_evidence", n) /\ cmd.op = "import")
  BY <1>1, TargetIs
<1>3. CASE cmd.op = "init"
  <2>1. WriteDraft(p) /\ p = NodePath("evidence", n)
    BY <1>2, <1>3, WriteKinds
  <2>2. evidence(n)' = Draft(cmd.campaign.spec, p)
    BY <2>1 DEF WriteDraft, Put, With, evidence
  <2>3. QED BY <1>3, <2>1, <2>2
<1>4. CASE cmd.op # "init" /\ p = NodePath("evidence", n)
  <2>1. RefineEvidence(p) /\ p[2] = n
    BY <1>4, PathsAre, WriteKinds
  <2>2. Disturbs /\ Planned(cmd)
    BY <1>1, <1>4, WritesAre DEF Disturbs
  <2> DEFINE g == evidence(n)
             r == Refinement(cmd, n)
             d == [g EXCEPT !.refinement = r, !.llm = NotDrafted]
  <2>3. r \in Refinements /\ NotDrafted \in Answers
    BY <2>2, RefinementTypes DEF Answers, NoAnswer
  <2>4. Whole(NodePath("evidence", n)) /\ evidence(n)' = d
    BY <1>4, <2>1 DEF RefineEvidence, Put, With, evidence
  <2>5. g \in EvidencePlans
    BY <2>4, WholeTypes DEF TypeInv
  <2> HIDE DEF g, r
  <2>6. d \in EvidencePlans /\ d.body = g.body /\ d.goal = g.goal
        /\ d.refinement = r /\ d.llm = NotDrafted
    BY <2>3, <2>5 DEF EvidencePlans
  <2>7. QED BY <1>4, <2>2, <2>4, <2>6 DEF g, r
<1>5. CASE cmd.op = "import" /\ p = NodePath("llm_evidence", n)
  <2>1. AnswerForEvidence(p) /\ p[2] = n
    BY <1>5, WriteKinds DEF NodePath
  <2> DEFINE g == evidence(n)
             a == cmd.answer
             d == [g EXCEPT !.llm = a]
  <2>2. Planned(cmd) /\ a \in Answers
    BY <1>1, <1>5, WritesAre DEF CmdOK, CmdStates
  <2>3. Whole(NodePath("evidence", n)) /\ evidence(n)' = d
    BY <2>1 DEF AnswerForEvidence, Put, With, evidence
  <2>4. g \in EvidencePlans
    BY <2>3, WholeTypes DEF TypeInv
  <2> HIDE DEF g, a
  <2>5. d \in EvidencePlans /\ d.body = g.body /\ d.goal = g.goal
        /\ d.refinement = g.refinement /\ d.llm = a
    BY <2>2, <2>4 DEF EvidencePlans
  <2>6. QED BY <1>5, <2>2, <2>3, <2>5 DEF g, a
<1>6. QED BY <1>2, <1>3, <1>4, <1>5

(* Child specs and ADRs are written by refine and import only.             *)
LEMMA DocumentWritten ==
  ASSUME TypeInv, NEW p, WritesFile(p), Target(p)[1] \in {"spec", "adr"}
  PROVE  /\ Disturbs /\ Planned(cmd) /\ Target(p) = p /\ p[2] \in Nodes
         /\ file'[p] = Text(p)
         /\ \/ p[1] = "spec" /\ p = NodePath("spec", p[2]) /\ Text(p) = SpecStub(cmd, p[2])
            \/ /\ p[1] = "adr" /\ p = AdrPath(p[2], cmd.adrs[p[2]]) /\ cmd.adrs[p[2]] # 0
               /\ Text(p) = AdrStub(p[2])
<1>1. Writes(p) /\ CmdOK(cmd) /\ Target(p) = p /\ cmd.op # "init"
  BY WritingTypes, TargetIs DEF TypeInv
<1>2. /\ Disturbs /\ Planned(cmd) /\ p[2] \in Nodes
      /\ p[1] = "spec" => p = NodePath("spec", p[2])
      /\ p[1] = "adr" => p = AdrPath(p[2], cmd.adrs[p[2]]) /\ cmd.adrs[p[2]] # 0
  BY <1>1, WritesAre DEF Disturbs
<1>3. CASE p[1] = "spec"
  <2>1. WriteSpec(p)
    BY <1>1, <1>3, WriteKinds
  <2>2. file'[p] = SpecStub(cmd, p[2])
    BY <2>1 DEF WriteSpec, Put, With
  <2>3. QED BY <1>1, <1>2, <1>3, <2>2 DEF Text
<1>4. CASE p[1] = "adr"
  <2>1. WriteAdr(p)
    BY <1>1, <1>4, WriteKinds
  <2>2. file'[p] = AdrStub(p[2])
    BY <2>1 DEF WriteAdr, Put, With
  <2>3. QED BY <1>1, <1>2, <1>4, <2>2 DEF Text
<1>5. QED BY <1>1, <1>3, <1>4

----------------------------------------------------------------------------
(* Issues.  What the manifest records, what the command read of it and     *)
(* what the command has created itself are tasks in their order under one  *)
(* epic, and without an epic there are none.                               *)

Fit(issuesInBd, epic, issues) ==
  /\ \A i \in DOMAIN issues :
       issues[i] \in DOMAIN issuesInBd /\ issuesInBd[issues[i]] = Task(i, epic)
  /\ epic = 0 => issues = <<>>

IssueInv ==
  /\ Whole(Path("campaign")) => Fit(tracker, campaign.epic, campaign.issues)
  /\ cmd.campaign \in Campaigns => Fit(tracker, cmd.campaign.epic, cmd.campaign.issues)
  /\ Fit(tracker, cmd.epic, cmd.issues)
  /\ Disturbs /\ cmd.step \in {"plan", "check"} => cmd.epic = 0
  /\ Disturbs /\ cmd.step = "beads" /\ cmd.campaign.epic # 0 => cmd.epic = cmd.campaign.epic
  /\ Disturbs /\ cmd.step = "write" /\ cmd.campaign.epic # 0 /\ cmd.epic # 0 =>
       cmd.epic = cmd.campaign.epic

LEMMA FitGrows ==
  ASSUME NEW t \in Seq(Issues), NEW u, u = t \/ (\E task : u = Append(t, task)),
         NEW epic, NEW issues, Fit(t, epic, issues)
  PROVE  Fit(u, epic, issues)
<1>1. \A i \in DOMAIN t : i \in DOMAIN u /\ u[i] = t[i]
  OBVIOUS
<1>2. QED BY <1>1 DEF Fit

LEMMA FitEmpty == \A t, epic : Fit(t, epic, <<>>)
BY DEF Fit

LEMMA FitAppends ==
  ASSUME NEW t \in Seq(Issues), NEW epic, epic # 0, NEW issues \in Seq(Nat), Fit(t, epic, issues)
  PROVE  Fit(Append(t, Task(Len(issues) + 1, epic)), epic, Append(issues, Len(t) + 1))
<1> DEFINE task == Task(Len(issues) + 1, epic)
           u == Append(t, task)
           more == Append(issues, Len(t) + 1)
<1>1. /\ \A i \in DOMAIN t : i \in DOMAIN u /\ u[i] = t[i]
      /\ Len(t) + 1 \in DOMAIN u /\ u[Len(t) + 1] = task
  OBVIOUS
<1>2. DOMAIN more = DOMAIN issues \cup {Len(issues) + 1} /\ more[Len(issues) + 1] = Len(t) + 1
      /\ \A i \in DOMAIN issues : more[i] = issues[i]
  OBVIOUS
<1>3. QED BY <1>1, <1>2 DEF Fit

LEMMA NotReadIsNoManifest == NotRead \notin Campaigns
<1>1. "read" \in DOMAIN NotRead /\ \A c \in Campaigns : "read" \notin DOMAIN c
  BY DEF NotRead, Campaigns
<1>2. QED BY <1>1

LEMMA IssueIdle ==
  ASSUME cmd' = Idle, Whole(Path("campaign"))' => Fit(tracker', campaign'.epic, campaign'.issues)
  PROVE  IssueInv'
BY NotReadIsNoManifest, FitEmpty DEF IssueInv, Idle, Disturbs

LEMMA IssueFits ==
  ASSUME TypeInv, IssueInv, Planned(cmd), Disturbs, cmd.step = "write"
  PROVE  Fit(tracker, RefinedManifest(cmd).epic, RefinedManifest(cmd).issues)
<1>1. cmd.campaign \in Campaigns /\ cmd \in CmdStates
  BY DEF Planned, TypeInv, CmdOK
<1>2. /\ Fit(tracker, cmd.campaign.epic, cmd.campaign.issues) /\ Fit(tracker, cmd.epic, cmd.issues)
      /\ cmd.campaign.epic # 0 /\ cmd.epic # 0 => cmd.epic = cmd.campaign.epic
  BY <1>1 DEF IssueInv
<1>3. cmd.campaign.issues \in Seq(Nat) /\ cmd.issues \in Seq(Nat)
  BY <1>1 DEF Campaigns, CmdStates
<1>4. CASE cmd.campaign.epic = 0
  <2>1. cmd.campaign.issues = <<>>
    BY <1>2, <1>4 DEF Fit
  <2>2. RefinedManifest(cmd).epic = cmd.epic /\ RefinedManifest(cmd).issues \in {<<>>, cmd.issues}
    BY <1>1, <1>4, <2>1, ManifestTypes
  <2>3. CASE RefinedManifest(cmd).issues = <<>>
    BY <2>2, <2>3, FitEmpty
  <2>4. CASE RefinedManifest(cmd).issues = cmd.issues
    BY <1>2, <2>2, <2>4
  <2>5. QED BY <2>2, <2>3, <2>4
<1>5. CASE cmd.campaign.epic # 0
  <2>1. RefinedManifest(cmd).epic = cmd.campaign.epic
    BY <1>1, <1>5, ManifestTypes
  <2>2. CASE cmd.epic = 0
    <3>1. Len(cmd.issues) = 0 /\ Len(cmd.campaign.issues) \in Nat
      BY <1>2, <1>3, <2>2 DEF Fit
    <3>2. ~(Len(cmd.issues) > Len(cmd.campaign.issues))
      BY <3>1
    <3>3. RefinedManifest(cmd).issues = cmd.campaign.issues
      BY <1>1, <3>2, ManifestTypes
    <3>4. QED BY <1>2, <2>1, <3>3
  <2>3. CASE cmd.epic # 0
    <3>1. cmd.epic = cmd.campaign.epic
      BY <1>2, <1>5, <2>3
    <3>2. RefinedManifest(cmd).issues \in {cmd.issues, cmd.campaign.issues}
      BY <1>1, ManifestTypes
    <3>3. QED BY <1>2, <2>1, <3>1, <3>2
  <2>4. QED BY <2>2, <2>3
<1>6. QED BY <1>4, <1>5

LEMMA IssueInit == Init => IssueInv
<1> SUFFICES ASSUME Init PROVE IssueInv
  OBVIOUS
<1>1. Whole(Path("campaign")) => campaign.issues = <<>>
  <2>1. CASE file = Empty
    BY <2>1 DEF Empty, Whole
  <2>2. CASE file = Scaffold
    BY <2>2, PathsAre DEF Scaffold, Whole, campaign, Draft, DraftCampaign
  <2>3. CASE file = WorkedThrough
    BY <2>3, PathsAre DEF WorkedThrough, Whole, campaign, DraftCampaign
  <2>4. QED BY <2>1, <2>2, <2>3 DEF Init
<1>2. cmd = Idle
  BY DEF Init
<1>3. QED BY <1>1, <1>2, FitEmpty, NotReadIsNoManifest DEF IssueInv, Idle, Disturbs

LEMMA IssueCommand ==
  ASSUME TypeInv, IssueInv, Commands
  PROVE  IssueInv'
<1>0. tracker \in Seq(Issues)
  BY DEF TypeInv, Rest
<1>1. CASE Begins
  <2>1. /\ file' = file /\ tracker' = tracker /\ cmd'.epic = 0 /\ cmd'.issues = <<>>
        /\ cmd'.step \in {"check", "plan", "gate"}
        /\ cmd'.campaign = DraftCampaign(primary) \/ cmd'.campaign = NotRead
    BY <1>1, BeginIs
  <2>2. cmd'.campaign \in Campaigns => cmd'.campaign.issues = <<>>
    BY <2>1, NotReadIsNoManifest DEF DraftCampaign
  <2>3. Whole(Path("campaign"))' => Fit(tracker', campaign'.epic, campaign'.issues)
    BY <2>1 DEF IssueInv, Whole, campaign
  <2>4. QED BY <2>1, <2>2, <2>3, FitEmpty DEF IssueInv, Disturbs
<1>2. CASE Checks
  <2>1. file' = file /\ tracker' = tracker
    BY <1>2, CheckIs
  <2>2. Whole(Path("campaign"))' => Fit(tracker', campaign'.epic, campaign'.issues)
    BY <2>1 DEF IssueInv, Whole, campaign
  <2>3. CASE cmd' = Idle
    BY <2>2, <2>3, IssueIdle
  <2>4. ASSUME cmd'.epic = cmd.epic, cmd'.issues = cmd.issues,
               cmd'.campaign = cmd.campaign \/ (cmd'.campaign = campaign /\ Whole(Path("campaign")))
        PROVE  /\ Fit(tracker', cmd'.epic, cmd'.issues)
               /\ cmd'.campaign \in Campaigns =>
                    Fit(tracker', cmd'.campaign.epic, cmd'.campaign.issues)
    BY <2>1, <2>4 DEF IssueInv
  <2>5. CASE /\ cmd.op = "init" /\ cmd'.step = "write" /\ SameCommand(cmd', cmd)
             /\ cmd'.epic = cmd.epic /\ cmd'.issues = cmd.issues
    BY <2>2, <2>4, <2>5 DEF IssueInv, SameCommand, Disturbs
  <2>6. CASE /\ Disturbs /\ cmd.step = "plan" /\ ReadsAll /\ cmd'.op = cmd.op
             /\ cmd'.step = "check" /\ cmd'.campaign = campaign
             /\ cmd'.epic = cmd.epic /\ cmd'.issues = cmd.issues
    BY <2>2, <2>4, <2>6 DEF IssueInv, ReadsAll, Disturbs
  <2>7. CASE /\ cmd.op = "refine" /\ cmd.step = "check" /\ cmd'.step = "beads"
             /\ SameCommand(cmd', cmd)
             /\ cmd'.epic = cmd.campaign.epic /\ cmd'.issues = cmd.campaign.issues
    <3>1. Planned(cmd)
      BY <2>7 DEF TypeInv, CmdOK, Holds
    <3>2. Fit(tracker, cmd.campaign.epic, cmd.campaign.issues)
      BY <3>1 DEF IssueInv, Planned
    <3>3. cmd'.campaign = cmd.campaign
      BY <2>7 DEF SameCommand
    <3>4. QED BY <2>1, <2>2, <2>7, <3>2, <3>3 DEF IssueInv, Disturbs
  <2>8. CASE /\ Disturbs /\ cmd.step \in {"check", "beads"} /\ cmd'.step = "write"
             /\ SameCommand(cmd', cmd) /\ cmd'.epic = cmd.epic /\ cmd'.issues = cmd.issues
    <3>1. cmd'.campaign = cmd.campaign /\ cmd'.op = cmd.op
      BY <2>8 DEF SameCommand
    <3>2. cmd'.campaign.epic # 0 /\ cmd'.epic # 0 => cmd'.epic = cmd'.campaign.epic
      BY <2>8, <3>1 DEF IssueInv
    <3>3. QED BY <2>2, <2>4, <2>8, <3>1, <3>2 DEF IssueInv, Disturbs
  <2>9. CASE /\ cmd.op = "ready" /\ cmd'.op = "ready" /\ cmd'.step = "promote"
             /\ cmd'.campaign = campaign /\ cmd'.epic = cmd.epic /\ cmd'.issues = cmd.issues
    BY <2>2, <2>4, <2>9 DEF IssueInv, Disturbs, TypeInv
  <2>10. QED BY <1>2, <2>3, <2>5, <2>6, <2>7, <2>8, <2>9, CheckIs
<1>3. CASE Creates
  <2>1. /\ file' = file /\ cmd.op = "refine" /\ cmd.step = "beads"
        /\ tracker' = tracker \/ (\E task : tracker' = Append(tracker, task))
    BY <1>3, CreateIs
  <2>2. \A epic, issues : Fit(tracker, epic, issues) => Fit(tracker', epic, issues)
    BY <1>0, <2>1, FitGrows
  <2>3. Whole(Path("campaign"))' => Fit(tracker', campaign'.epic, campaign'.issues)
    BY <2>1, <2>2 DEF IssueInv, Whole, campaign
  <2>4. CASE cmd' = Idle
    BY <2>3, <2>4, IssueIdle
  <2>5. CASE cmd' # Idle
    <3>1. /\ cmd'.step = "beads" /\ cmd'.op = "refine" /\ cmd'.campaign = cmd.campaign
          /\ \/ /\ cmd.epic = 0 /\ cmd'.epic = Len(tracker) + 1
                /\ cmd'.issues = cmd.issues
             \/ /\ cmd.epic # 0 /\ cmd'.epic = cmd.epic
                /\ cmd'.issues = Append(cmd.issues, Len(tracker) + 1)
                /\ tracker' = Append(tracker, Task(Len(cmd.issues) + 1, cmd.epic))
      BY <1>3, <2>1, <2>5, CreateIs DEF SameCommand
    <3>2. Fit(tracker, cmd.epic, cmd.issues) /\ cmd.issues \in Seq(Nat)
      BY DEF IssueInv, TypeInv, CmdOK, CmdStates
    <3>3. Fit(tracker', cmd'.epic, cmd'.issues)
      <4>1. CASE cmd.epic = 0
        <5>1. cmd'.issues = <<>>
          BY <3>1, <3>2, <4>1 DEF Fit
        <5>2. QED BY <5>1, FitEmpty
      <4>2. CASE cmd.epic # 0
        BY <1>0, <3>1, <3>2, <4>2, FitAppends
      <4>3. QED BY <4>1, <4>2
    <3>4. cmd'.campaign.epic # 0 => cmd'.epic = cmd'.campaign.epic
      BY <2>1, <3>1 DEF IssueInv, Disturbs
    <3>5. cmd'.campaign \in Campaigns => Fit(tracker', cmd'.campaign.epic, cmd'.campaign.issues)
      BY <2>2, <3>1 DEF IssueInv
    <3>6. QED BY <2>3, <3>1, <3>3, <3>4, <3>5 DEF IssueInv, Disturbs
  <2>6. QED BY <2>4, <2>5
<1>4. CASE Promote
  <2>1. cmd' = Idle /\ tracker' = tracker /\ cmd.campaign \in Campaigns
        /\ campaign'.epic = cmd.campaign.epic /\ campaign'.issues = cmd.campaign.issues
    BY <1>4, PromoteIs DEF SameWork
  <2>2. QED BY <2>1, IssueIdle DEF IssueInv
<1>5. QED BY <1>1, <1>2, <1>3, <1>4 DEF Commands, Begins, Checks, Creates

LEMMA IssueStep == TypeInv /\ IssueInv /\ [Next]_vars => IssueInv'
<1> SUFFICES ASSUME TypeInv, IssueInv, [Next]_vars PROVE IssueInv'
  OBVIOUS
<1>1. CASE People
  <2>1. cmd' = cmd /\ tracker' = tracker /\ FilesKept
    BY <1>1, PeopleKeep
  <2>2. QED BY <2>1 DEF IssueInv, FilesKept, SameRecord, SameWork, Disturbs
<1>2. CASE Failures
  <2>1. cmd' = Idle /\ tracker' = tracker
        /\ (Whole(Path("campaign"))' => Whole(Path("campaign")) /\ campaign' = campaign)
    BY <1>2, FailureIs DEF campaign
  <2>2. QED BY <2>1, IssueIdle DEF IssueInv
<1>3. CASE Writing
  <2>1. PICK p \in cmd.todo : WritesFile(p)
    BY <1>3 DEF Writing, WritesFile
  <2>2. Writes(p) /\ Wrote(p)
    BY <2>1, WritingTypes
  <2>3. Whole(Path("campaign"))' => Fit(tracker', campaign'.epic, campaign'.issues)
    <3>0. tracker' = tracker /\ cmd.step = "write"
      BY <2>2, WroteIs
    <3>1. CASE Target(p) # Path("campaign")
      <4>1. Whole(Path("campaign"))' => Whole(Path("campaign")) /\ campaign' = campaign
        BY <2>1, <3>1, OthersUnwritten DEF campaign
      <4>2. QED BY <3>0, <4>1 DEF IssueInv
    <3>2. CASE Target(p) = Path("campaign") /\ cmd.op = "init"
      <4>1. campaign' = DraftCampaign(cmd.campaign.spec)
        BY <2>1, <3>2, ManifestWritten DEF Disturbs
      <4>2. QED BY <4>1, FitEmpty DEF DraftCampaign
    <3>3. CASE Disturbs /\ Planned(cmd) /\ campaign' = RefinedManifest(cmd)
      BY <3>0, <3>3, IssueFits
    <3>4. CASE Whole(Path("campaign")) /\ SameWork(campaign', campaign)
      BY <3>0, <3>4 DEF IssueInv, SameWork
    <3>5. QED BY <2>1, <3>1, <3>2, <3>3, <3>4, ManifestWritten
  <2>4. CASE cmd' = Idle
    BY <2>3, <2>4, IssueIdle
  <2>5. CASE cmd' # Idle
    <3>1. /\ cmd'.step = cmd.step /\ cmd'.op = cmd.op /\ cmd'.campaign = cmd.campaign
          /\ cmd'.epic = cmd.epic /\ cmd'.issues = cmd.issues /\ tracker' = tracker
      BY <2>2, <2>5, WroteIs
    <3>2. QED BY <2>3, <3>1 DEF IssueInv, Disturbs
  <2>6. QED BY <2>4, <2>5
<1>4. CASE UNCHANGED vars
  BY <1>4 DEF IssueInv, Disturbs, Whole, campaign, vars
<1>5. QED BY <1>1, <1>2, <1>3, <1>4, IssueCommand DEF Next

(* The i-th issue a manifest records is the task bd has for the i-th node, *)
(* under the epic the manifest records, however often refine with          *)
(* --create-beads failed or died before, and whatever people edited.       *)
THEOREM IssuesAreOfTheirNodes == Spec => []IssuesBelongToNodes
<1>1. IssueInv => IssuesBelongToNodes
  BY DEF IssueInv, Fit, IssuesBelongToNodes
<1>2. QED BY <1>1, TypeInit, TypeStep, IssueInit, IssueStep, PTL DEF Spec

----------------------------------------------------------------------------
(* Checks hold.  While nobody edits during a command, and since the gate   *)
(* last passed, what a command has checked and read is still so at each of *)
(* its writes, its own writes notwithstanding.                             *)

Steady == alone \/ ~stale
PlanHolds ==
  /\ Whole(Path("campaign"))
  /\ campaign.needs = cmd.campaign.needs /\ campaign.plans = cmd.campaign.plans
  /\ \A n \in Nodes :
       /\ Whole(NodePath("goal", n)) /\ goal(n).body = cmd.goals[n].body
       /\ goal(n).needs = cmd.goals[n].needs /\ goal(n).compiler = cmd.goals[n].compiler

HeldInv ==
  Steady =>
    /\ cmd.op = "init" /\ cmd.step = "write" => InitIsFree(cmd.campaign.spec)
    /\ Disturbs /\ cmd.step \in {"beads", "write"} => RefineIsFree(cmd)
    /\ Disturbs /\ cmd.step # "plan" => PlanHolds
    /\ cmd.op = "ready" /\ cmd.step = "promote" => campaign = cmd.campaign

LEMMA HeldIdle ==
  ASSUME cmd' = Idle
  PROVE  HeldInv'
BY DEF HeldInv, Idle, Disturbs

LEMMA HeldCommand ==
  ASSUME TypeInv, HeldInv, Commands
  PROVE  HeldInv'
<1>1. CASE Begins
  BY <1>1, BeginIs DEF HeldInv, Disturbs
<1>2. CASE Checks
  <2>1. file' = file /\ alone' = alone
    BY <1>2, CheckIs
  <2>2. CASE cmd' = Idle
    BY <2>2, HeldIdle
  <2>3. CASE /\ cmd.op = "init" /\ InitIsFree(cmd.campaign.spec)
             /\ cmd'.step = "write" /\ SameCommand(cmd', cmd)
    BY <2>1, <2>3 DEF HeldInv, SameCommand, InitIsFree, Free, Disturbs
  <2>4. CASE /\ Disturbs /\ ReadsAll /\ cmd'.op = cmd.op /\ cmd'.step = "check"
             /\ cmd'.campaign = campaign /\ cmd'.goals = [n \in Nodes |-> goal(n)]
    <3>1. PlanHolds'
      BY <2>1, <2>4 DEF PlanHolds, ReadsAll, Whole, campaign, goal
    <3>2. QED BY <2>4, <3>1 DEF HeldInv, Disturbs
  <2>5. CASE /\ Disturbs /\ cmd.step \in {"check", "beads"} /\ stale' = stale
             /\ cmd.step = "check" => RefineIsFree(cmd)
             /\ cmd'.step \in {"beads", "write"} /\ SameCommand(cmd', cmd)
    <3>1. cmd'.op = cmd.op /\ cmd'.campaign = cmd.campaign /\ cmd'.goals = cmd.goals
          /\ cmd'.adrs = cmd.adrs
      BY <2>5 DEF SameCommand
    <3>2. ASSUME Steady' PROVE RefineIsFree(cmd) /\ PlanHolds
      BY <2>1, <2>5, <3>2 DEF HeldInv, Steady
    <3>3. RefineIsFree(cmd) => RefineIsFree(cmd)'
      BY <2>1, <3>1 DEF RefineIsFree, Free, SpecStub
    <3>4. PlanHolds => PlanHolds'
      BY <2>1, <3>1 DEF PlanHolds, Whole, campaign, goal
    <3>5. QED BY <2>5, <3>1, <3>2, <3>3, <3>4 DEF HeldInv, Disturbs
  <2>6. CASE cmd'.op = "ready" /\ cmd'.campaign = campaign
    BY <2>1, <2>6 DEF HeldInv, campaign, Disturbs
  <2>7. QED BY <1>2, <2>2, <2>3, <2>4, <2>5, <2>6, CheckIs DEF Disturbs
<1>3. CASE Creates
  <2>1. file' = file /\ alone' = alone /\ stale' = stale /\ Disturbs /\ cmd.step = "beads"
    BY <1>3, CreateIs DEF Disturbs
  <2>2. CASE cmd' = Idle
    BY <2>2, HeldIdle
  <2>3. CASE cmd' # Idle
    <3>1. cmd'.op = cmd.op /\ cmd'.campaign = cmd.campaign /\ cmd'.goals = cmd.goals
          /\ cmd'.adrs = cmd.adrs /\ cmd'.step = "beads"
      BY <1>3, <2>3, CreateIs DEF SameCommand
    <3>2. RefineIsFree(cmd) => RefineIsFree(cmd)'
      BY <2>1, <3>1 DEF RefineIsFree, Free, SpecStub
    <3>3. PlanHolds => PlanHolds'
      BY <2>1, <3>1 DEF PlanHolds, Whole, campaign, goal
    <3>4. QED BY <2>1, <3>1, <3>2, <3>3 DEF HeldInv, Steady, Disturbs
  <2>4. QED BY <2>2, <2>3
<1>4. CASE Promote
  BY <1>4, PromoteIs, HeldIdle
<1>5. QED BY <1>1, <1>2, <1>3, <1>4 DEF Commands, Begins, Checks, Creates

(* A write keeps what the command has checked and read.                    *)
LEMMA DraftsHeld ==
  ASSUME TypeInv, NEW p, WritesFile(p), cmd.op = "init", InitIsFree(cmd.campaign.spec)
  PROVE  \A q \in DraftPaths : q \in DOMAIN file' => file'[q] = Draft(cmd.campaign.spec, q)
<1>1. WriteDraft(p)
  BY WriteKinds
<1>2. file' = With(file, p, Draft(cmd.campaign.spec, p))
  BY <1>1 DEF WriteDraft, Put
<1>3. QED BY <1>2 DEF With, InitIsFree, Free

LEMMA StubsHeld ==
  ASSUME TypeInv, NEW p, WritesFile(p), Disturbs, RefineIsFree(cmd),
         cmd'.goals = cmd.goals, cmd'.adrs = cmd.adrs
  PROVE  RefineIsFree(cmd)'
<1>0. Writes(p) /\ Planned(cmd)
  BY WritingTypes, WritesAre DEF Disturbs, TypeInv
<1>1. ASSUME NEW n \in Nodes, NodePath("spec", n) \in DOMAIN file'
      PROVE  file'[NodePath("spec", n)] = SpecStub(cmd, n)
  <2>1. CASE Target(p) = NodePath("spec", n)
    <3>1. Target(p)[1] = "spec" /\ Target(p)[2] = n
      BY <2>1, PathsAre
    <3>2. Target(p) = p /\ file'[p] = SpecStub(cmd, p[2])
      BY <3>1, DocumentWritten
    <3>3. QED BY <2>1, <3>1, <3>2
  <2>2. CASE Target(p) # NodePath("spec", n)
    BY <1>1, <2>2, OthersUnwritten DEF RefineIsFree, Free
  <2>3. QED BY <2>1, <2>2
<1>2. ASSUME NEW n \in Nodes, cmd.adrs[n] # 0, AdrPath(n, cmd.adrs[n]) \in DOMAIN file'
      PROVE  file'[AdrPath(n, cmd.adrs[n])] = AdrStub(n)
  <2>1. CASE Target(p) = AdrPath(n, cmd.adrs[n])
    <3>1. Target(p)[1] = "adr" /\ Target(p)[2] = n
      BY <2>1 DEF AdrPath
    <3>2. Target(p) = p /\ file'[p] = AdrStub(p[2])
      BY <3>1, DocumentWritten
    <3>3. QED BY <2>1, <3>1, <3>2
  <2>2. CASE Target(p) # AdrPath(n, cmd.adrs[n])
    BY <1>2, <2>2, OthersUnwritten DEF RefineIsFree, Free
  <2>3. QED BY <2>1, <2>2
<1>3. QED BY <1>1, <1>2 DEF RefineIsFree, Free, SpecStub

LEMMA PlanHeld ==
  ASSUME TypeInv, NEW p, WritesFile(p), Disturbs, PlanHolds,
         cmd'.goals = cmd.goals, cmd'.campaign = cmd.campaign
  PROVE  PlanHolds'
<1>0. Planned(cmd) /\ cmd \in CmdStates /\ cmd.op # "init"
  BY WritingTypes, WritesAre DEF Disturbs, TypeInv, CmdOK
<1>1. \A q : Whole(q) => Whole(q)'
  BY OthersUnwritten
<1>2. campaign'.needs = cmd.campaign.needs /\ campaign'.plans = cmd.campaign.plans
  <2>1. CASE Target(p) = Path("campaign")
    BY <1>0, <2>1, ManifestWritten, ManifestTypes DEF PlanHolds
  <2>2. CASE Target(p) # Path("campaign")
    <3>1. campaign' = campaign
      BY <2>2, OthersUnwritten DEF PlanHolds, Whole, campaign
    <3>2. QED BY <3>1 DEF PlanHolds
  <2>3. QED BY <2>1, <2>2
<1>3. ASSUME NEW n \in Nodes
      PROVE  /\ goal(n)'.body = cmd.goals[n].body
             /\ goal(n)'.needs = cmd.goals[n].needs /\ goal(n)'.compiler = cmd.goals[n].compiler
  <2>1. CASE Target(p) = NodePath("goal", n)
    BY <1>0, <2>1, GoalWritten DEF PlanHolds
  <2>2. CASE Target(p) # NodePath("goal", n)
    <3>1. goal(n)' = goal(n)
      BY <2>2, OthersUnwritten DEF PlanHolds, Whole, goal
    <3>2. QED BY <3>1 DEF PlanHolds
  <2>3. QED BY <2>1, <2>2
<1>4. QED BY <1>1, <1>2, <1>3 DEF PlanHolds

LEMMA HeldInit == Init => HeldInv
BY DEF Init, HeldInv, Idle, Disturbs

LEMMA HeldStep == TypeInv /\ HeldInv /\ [Next]_vars => HeldInv'
<1> SUFFICES ASSUME TypeInv, HeldInv, [Next]_vars PROVE HeldInv'
  OBVIOUS
<1>0. ASSUME file' = file, cmd' = cmd, Steady' => Steady PROVE HeldInv'
  BY <1>0 DEF HeldInv, InitIsFree, RefineIsFree, Free, SpecStub, PlanHolds, Whole, campaign,
              goal, Disturbs
<1>1. CASE People
  <2>1. /\ cmd' = cmd /\ (alone' => cmd = Idle) /\ (~stale' => ~stale /\ file' = file)
    BY <1>1, PeopleKeep
  <2>2. CASE alone'
    BY <2>1, <2>2, HeldIdle
  <2>3. CASE ~stale'
    BY <1>0, <2>1, <2>3 DEF Steady
  <2>4. CASE ~Steady'
    BY <2>4 DEF HeldInv
  <2>5. QED BY <2>2, <2>3, <2>4 DEF Steady
<1>2. CASE Failures
  BY <1>2, FailureIs, HeldIdle
<1>3. CASE Writing
  <2>1. PICK p \in cmd.todo : WritesFile(p)
    BY <1>3 DEF Writing, WritesFile
  <2>2. Writes(p) /\ Wrote(p)
    BY <2>1, WritingTypes
  <2>3. CASE cmd' = Idle
    BY <2>3, HeldIdle
  <2>4. CASE cmd' # Idle
    <3>1. /\ alone' = alone /\ stale' = stale /\ cmd.step = "write" /\ cmd'.step = "write"
          /\ cmd'.op = cmd.op /\ cmd'.campaign = cmd.campaign
          /\ cmd'.goals = cmd.goals /\ cmd'.adrs = cmd.adrs
      BY <2>2, <2>4, WroteIs
    <3>2. CASE Steady
      <4>1. CASE cmd.op = "init"
        <5>1. InitIsFree(cmd.campaign.spec)
          BY <3>1, <3>2, <4>1 DEF HeldInv
        <5>2. \A q \in DraftPaths : q \in DOMAIN file' => file'[q] = Draft(cmd.campaign.spec, q)
          BY <2>1, <4>1, <5>1, DraftsHeld
        <5>3. QED BY <3>1, <4>1, <5>2 DEF HeldInv, InitIsFree, Free, Disturbs
      <4>2. CASE Disturbs
        <5>1. RefineIsFree(cmd) /\ PlanHolds
          BY <3>1, <3>2, <4>2 DEF HeldInv
        <5>2. RefineIsFree(cmd)' /\ PlanHolds'
          BY <2>1, <3>1, <4>2, <5>1, StubsHeld, PlanHeld
        <5>3. QED BY <3>1, <4>2, <5>2 DEF HeldInv, Disturbs
      <4>3. QED BY <2>2, <4>1, <4>2 DEF Writes, Disturbs
    <3>3. CASE ~Steady
      BY <3>1, <3>3 DEF HeldInv, Steady
    <3>4. QED BY <3>2, <3>3
  <2>5. QED BY <2>3, <2>4
<1>4. CASE UNCHANGED vars
  BY <1>0, <1>4 DEF vars, Steady
<1>5. QED BY <1>1, <1>2, <1>3, <1>4, HeldCommand DEF Next

(* What a step may do to a file that is there.                             *)
Respects(p) ==
  /\ p \in DOMAIN file'
  /\ file'[p] # file[p] =>
       IF file'[p] = Torn
       THEN p[1] \in {"campaign", "goal", "evidence"}
       ELSE file[p] # Torn /\ Authorship(p)' = Authorship(p)

LEMMA CommandsRespect ==
  ASSUME TypeInv, HeldInv, Commands, alone, NEW p \in DOMAIN file
  PROVE  Respects(p)
<1>1. CASE Begins \/ Checks \/ Creates
  BY <1>1, BeginIs, CheckIs, CreateIs DEF Respects
<1>2. CASE Promote
  <2>1. /\ file' = With(file, Path("campaign"), [cmd.campaign EXCEPT !.status = "ready"])
        /\ campaign'.needs = cmd.campaign.needs /\ campaign'.plans = cmd.campaign.plans
        /\ cmd.op = "ready" /\ cmd.step = "promote"
    BY <1>2, PromoteIs
  <2>2. campaign = cmd.campaign /\ Whole(Path("campaign"))
    BY <2>1 DEF HeldInv, Steady, TypeInv
  <2>3. CASE p = Path("campaign")
    BY <2>1, <2>2, <2>3, PathsAre, PromoteIs, <1>2 DEF Respects, Authorship, Whole, campaign
  <2>4. CASE p # Path("campaign")
    BY <2>1, <2>4 DEF Respects, With
  <2>5. QED BY <2>3, <2>4
<1>3. QED BY <1>1, <1>2 DEF Commands, Begins, Checks, Creates

LEMMA FailuresRespect ==
  ASSUME TypeInv, HeldInv, Failures, alone, NEW q \in DOMAIN file
  PROVE  Respects(q)
<1>1. CASE file' = file
  BY <1>1 DEF Respects
<1>2. CASE file' = With(file, Path("campaign"), Torn)
  <2>1. CASE q = Path("campaign")
    BY <1>2, <2>1, PathsAre DEF Respects, With
  <2>2. CASE q # Path("campaign")
    BY <1>2, <2>2 DEF Respects, With
  <2>3. QED BY <2>1, <2>2
<1>3. ASSUME NEW p \in cmd.todo, Writes(p), file' = With(file, Target(p), Torn),
             Rewrites(p) \/ p \notin DOMAIN file \/ ~Free(p, Text(p))
      PROVE  Respects(q)
  <2>1. CASE q # Target(p)
    BY <1>3, <2>1 DEF Respects, With
  <2>2. CASE q = Target(p) /\ q[1] \in {"campaign", "goal", "evidence"}
    BY <1>3, <2>2 DEF Respects, With
  <2>3. CASE q = Target(p) /\ cmd.op = "init"
    <3>1. p \in DraftPaths /\ q = p
      BY <1>3, <2>3, WritesAre DEF TypeInv
    <3>2. InitIsFree(cmd.campaign.spec)
      BY <1>3, <2>3 DEF HeldInv, Steady, Writes
    <3>3. Free(p, Text(p)) /\ ~Rewrites(p)
      BY <2>3, <3>1, <3>2 DEF InitIsFree, Text, Rewrites
    <3>4. QED BY <1>3, <3>1, <3>3
  <2>4. CASE q = Target(p) /\ cmd.op # "init" /\ p[1] \in {"spec", "adr"}
    <3>1. /\ q = p /\ cmd.op \in {"refine", "import"} /\ p[2] \in Nodes
          /\ p[1] = "spec" => p = NodePath("spec", p[2])
          /\ p[1] = "adr" => p = AdrPath(p[2], cmd.adrs[p[2]]) /\ cmd.adrs[p[2]] # 0
      BY <1>3, <2>4, WritesAre DEF TypeInv, Target
    <3>2. RefineIsFree(cmd)
      BY <1>3, <3>1 DEF HeldInv, Steady, Writes, Disturbs
    <3>3. Free(p, Text(p)) /\ ~Rewrites(p)
      BY <2>4, <3>1, <3>2 DEF RefineIsFree, Text, Rewrites
    <3>4. QED BY <1>3, <3>1, <3>3
  <2>5. CASE q = Target(p) /\ cmd.op # "init" /\ p[1] \notin {"spec", "adr"}
    <3>1. p[1] \in {"goal", "evidence", "llm_goal", "llm_evidence", "campaign", "llm_campaign"}
          /\ (p[1] \in {"campaign", "llm_campaign"} => p = Path(p[1]))
      BY <1>3, <2>5, WritesAre DEF TypeInv
    <3>2. q[1] \in {"campaign", "goal", "evidence"}
      BY <2>5, <3>1 DEF Target, NodePath, Path
    <3>3. QED BY <2>2, <2>5, <3>2
  <2>6. QED BY <2>1, <2>3, <2>4, <2>5
<1>4. QED BY <1>1, <1>2, <1>3, FailureIs

LEMMA WritesRespect ==
  ASSUME TypeInv, HeldInv, NEW p, WritesFile(p), alone, NEW q \in DOMAIN file
  PROVE  Respects(q)
<1>0. Writes(p) /\ cmd.step = "write" /\ Target(p) \in Paths /\ Whole(Target(p))'
  BY WritingTypes, OthersUnwritten DEF Writes
<1>1. q \in DOMAIN file' /\ (q # Target(p) => file'[q] = file[q])
  BY OthersUnwritten
<1>2. CASE q # Target(p)
  BY <1>1, <1>2 DEF Respects
<1>3. CASE q = Target(p) /\ cmd.op = "init"
  <2>1. InitIsFree(cmd.campaign.spec)
    BY <1>0, <1>3 DEF HeldInv, Steady
  <2>2. q \in DraftPaths
    BY <1>0, <1>3, WritesAre DEF TypeInv
  <2>3. file'[q] = file[q]
    BY <1>1, <1>3, <2>1, <2>2, DraftsHeld DEF InitIsFree, Free
  <2>4. QED BY <1>1, <2>3 DEF Respects
<1>4. CASE q = Target(p) /\ cmd.op # "init"
  <2>0. Disturbs /\ Planned(cmd) /\ cmd \in CmdStates /\ RefineIsFree(cmd) /\ PlanHolds
    BY <1>0, <1>4 DEF Writes, HeldInv, Steady, Disturbs, TypeInv, CmdOK, Holds
  <2>1. file'[q] # Torn
    BY <1>0, <1>4 DEF Whole
  <2>2. CASE q[1] \in {"spec", "adr"}
    <3>1. q = p /\ p[2] \in Nodes /\ file'[p] = Text(p)
          /\ \/ p = NodePath("spec", p[2]) /\ Text(p) = SpecStub(cmd, p[2])
             \/ /\ p = AdrPath(p[2], cmd.adrs[p[2]]) /\ cmd.adrs[p[2]] # 0
                /\ Text(p) = AdrStub(p[2])
      BY <1>4, <2>2, DocumentWritten
    <3>2. Free(p, Text(p))
      BY <2>0, <3>1 DEF RefineIsFree
    <3>3. QED BY <1>1, <3>1, <3>2 DEF Respects, Free
  <2>3. ASSUME NEW n \in Nodes, q = NodePath("goal", n) PROVE Respects(q)
    <3>1. Whole(q) /\ goal(n)'.body = goal(n).body /\ goal(n)'.needs = goal(n).needs
          /\ goal(n)'.compiler = goal(n).compiler
      BY <1>4, <2>0, <2>3, GoalWritten DEF PlanHolds
    <3>2. q[1] = "goal"
      BY <2>3, PathsAre
    <3>3. QED BY <1>1, <2>1, <2>3, <3>1, <3>2 DEF Respects, Authorship, Whole, goal
  <2>4. ASSUME NEW n \in Nodes, q = NodePath("evidence", n) PROVE Respects(q)
    <3>1. Whole(q) /\ evidence(n)'.body = evidence(n).body /\ evidence(n)'.goal = evidence(n).goal
      BY <1>4, <2>0, <2>4, EvidenceWritten DEF Disturbs
    <3>2. q[1] = "evidence"
      BY <2>4, PathsAre
    <3>3. QED BY <1>1, <2>1, <2>4, <3>1, <3>2 DEF Respects, Authorship, Whole, evidence
  <2>5. CASE q = Path("campaign")
    <3>1. campaign'.needs = campaign.needs /\ campaign'.plans = campaign.plans
      BY <1>4, <2>0, <2>5, ManifestWritten, ManifestTypes DEF PlanHolds
    <3>2. q[1] = "campaign" /\ Whole(q)
      BY <2>0, <2>5, PathsAre DEF PlanHolds
    <3>3. QED BY <1>1, <2>1, <2>5, <3>1, <3>2 DEF Respects, Authorship, Whole, campaign
  <2>6. q[1] \in {"spec", "adr"} \/ q = Path("campaign")
        \/ \E n \in Nodes : q = NodePath("goal", n) \/ q = NodePath("evidence", n)
    <3>1. /\ p[1] \in {"spec", "adr", "goal", "evidence", "llm_goal", "llm_evidence",
                       "campaign", "llm_campaign"}
          /\ p[1] \in {"campaign", "llm_campaign"} => p = Path(p[1])
          /\ p[1] \notin {"campaign", "llm_campaign"} => p[2] \in Nodes
          /\ p[1] \in {"goal", "evidence"} => p = NodePath(p[1], p[2])
      BY <1>0, <1>4, WritesAre DEF TypeInv
    <3>2. QED BY <1>4, <3>1 DEF Target
  <2>7. QED BY <2>2, <2>3, <2>4, <2>5, <2>6
<1>5. QED BY <1>2, <1>3, <1>4

(* While nobody edits during a command, no command, write or crash takes a *)
(* file away, changes what people wrote into it or tears a document of     *)
(* theirs: for any primary spec, replies and number of failures.           *)
THEOREM PeoplesWordsAreKept == Spec => KeepsPeoplesWords
<1>1. TypeInv /\ HeldInv /\ [Next]_vars =>
        [(Commands \/ Writing \/ Failures) /\ alone =>
           \A p \in DOMAIN file :
             /\ p \in DOMAIN file'
             /\ file'[p] # file[p] =>
                  IF file'[p] = Torn
                  THEN p[1] \in {"campaign", "goal", "evidence"}
                  ELSE file[p] # Torn /\ Authorship(p)' = Authorship(p)]_vars
  <2> SUFFICES ASSUME TypeInv, HeldInv, Commands \/ Writing \/ Failures, alone,
                      NEW q \in DOMAIN file
               PROVE  Respects(q)
    BY DEF Respects
  <2>1. CASE Writing
    <3>1. PICK p \in cmd.todo : WritesFile(p)
      BY <2>1 DEF Writing, WritesFile
    <3>2. QED BY <3>1, WritesRespect
  <2>2. QED BY <2>1, CommandsRespect, FailuresRespect
<1>2. QED BY <1>1, TypeInit, TypeStep, HeldInit, HeldStep, PTL DEF Spec, KeepsPeoplesWords

----------------------------------------------------------------------------
(* Declared documents.  Those the manifest declares, those the manifest a  *)
(* command has read declares, and those it has written itself are there.   *)

There(p) == p \in DOMAIN file /\ (alone => Whole(p))
Declared(c) == SpecPaths(c.specs) \cup DeclaredAdrs(c)
Closed(c) == \A p \in Declared(c) : There(p)
Documents(paths) == {p \in paths : p[1] \in {"spec", "adr"}}

ClosedInv ==
  /\ Whole(Path("campaign")) => Closed(campaign)
  /\ cmd.campaign \in Campaigns => Closed(cmd.campaign)
  /\ Disturbs /\ cmd.step = "write" =>
       \A p \in Documents(RefineWrites(cmd) \ cmd.todo) : There(p)

LEMMA DeclaredAre ==
  ASSUME NEW c \in Campaigns, NEW p \in Declared(c)
  PROVE  p \in Paths /\ p[1] \in {"spec", "adr"}
<1>1. c.specs \subseteq Nodes /\ c.adrs \subseteq [node : Nodes, number : Nat]
  BY DEF Campaigns
<1>2. CASE p \in SpecPaths(c.specs)
  BY <1>1, <1>2, PathsAre DEF SpecPaths
<1>3. CASE p \in DeclaredAdrs(c)
  <2>1. PICK a \in c.adrs : p = AdrPath(a.node, a.number)
    BY <1>3 DEF DeclaredAdrs
  <2>2. a.node \in Nodes /\ a.number \in Nat
    BY <1>1
  <2>3. QED BY <2>1, <2>2, PathsAre
<1>4. QED BY <1>2, <1>3 DEF Declared

(* The manifest is written after the specs and the ADRs, all of them.      *)
LEMMA ManifestComesLast ==
  ASSUME TypeInv, Disturbs, Writes(Path("campaign"))
  PROVE  /\ Planned(cmd)
         /\ cmd.todo \subseteq {Path("campaign"), Path("llm_campaign")}
<1>1. Planned(cmd) /\ cmd.todo \subseteq Tasks /\ cmd.todo \subseteq RefineWrites(cmd)
  BY DEF TypeInv, CmdOK, CmdStates, Holds, Writes, Disturbs
<1>2. ASSUME NEW q \in cmd.todo, q[2] \in Nodes PROVE FALSE
  <2>1. q # Path("campaign") /\ Path("campaign")[2] = 0
    BY <1>2, NodesAreNaturals DEF Path
  <2>2. Before(Path("campaign"), q)
    BY <1>2, <2>1 DEF Writes
  <2>3. Turn(Path("campaign")) = Len(Sections) + 1 /\ Turn(q) = q[2]
    BY <1>2, <2>1, NodesAreNaturals DEF Turn
  <2>4. Turn(Path("campaign")) < Turn(q) \/ Turn(Path("campaign")) = Turn(q)
    BY <2>2 DEF Before, Disturbs
  <2>5. Len(Sections) \in Nat /\ q[2] \in Nat /\ q[2] <= Len(Sections)
    BY <1>2, HeadingsHaveCues DEF Nodes
  <2>6. QED BY <2>3, <2>4, <2>5
<1>3. ASSUME NEW q \in cmd.todo
      PROVE  q \in {Path("campaign"), Path("llm_campaign")}
  <2>1. \A n \in Nodes : cmd.adrs[n] \in Nat
    BY <1>1 DEF Planned, Plans
  <2>2. cmd.op = "import" => cmd.answer.said.nodes \subseteq Nodes
    BY RepliesNameNodes DEF TypeInv, CmdOK, CmdStates, Holds, Answers
  <2>3. q[2] \in Nodes \/ q \in {Path("campaign"), Path("llm_campaign")}
    BY <1>1, <2>1, <2>2 DEF RefineWrites, NodePath, AdrPath, Path
  <2>4. QED BY <1>2, <2>3
<1>4. QED BY <1>1, <1>3

LEMMA ClosedIdle ==
  ASSUME cmd' = Idle, Whole(Path("campaign"))' => Closed(campaign)'
  PROVE  ClosedInv'
BY NotReadIsNoManifest DEF ClosedInv, Idle, Disturbs

LEMMA DraftDeclaresNothing == \A v : Declared(DraftCampaign(v)) = {}
BY DEF Declared, DraftCampaign, SpecPaths, DeclaredAdrs

LEMMA ClosedInit == Init => ClosedInv
<1> SUFFICES ASSUME Init PROVE ClosedInv
  OBVIOUS
<1>1. Whole(Path("campaign")) => campaign.specs = {} /\ campaign.adrs = {}
  <2>1. CASE file = Empty
    BY <2>1 DEF Empty, Whole
  <2>2. CASE file = Scaffold
    BY <2>2, PathsAre DEF Scaffold, Whole, campaign, Draft, DraftCampaign
  <2>3. CASE file = WorkedThrough
    BY <2>3, PathsAre DEF WorkedThrough, Whole, campaign, DraftCampaign
  <2>4. QED BY <2>1, <2>2, <2>3 DEF Init
<1>2. Whole(Path("campaign")) => Closed(campaign)
  BY <1>1 DEF Closed, Declared, SpecPaths, DeclaredAdrs
<1>3. cmd = Idle
  BY DEF Init
<1>4. QED BY <1>2, <1>3, NotReadIsNoManifest DEF ClosedInv, Idle, Disturbs

LEMMA ClosedCommand ==
  ASSUME TypeInv, ClosedInv, Commands
  PROVE  ClosedInv'
<1>1. CASE Begins
  <2>1. /\ file' = file /\ alone' = alone /\ cmd'.step \in {"check", "plan", "gate"}
        /\ cmd'.campaign = DraftCampaign(primary) \/ cmd'.campaign = NotRead
    BY <1>1, BeginIs
  <2>2. cmd'.campaign \in Campaigns => Closed(cmd.campaign)'
    BY <2>1, DraftDeclaresNothing, NotReadIsNoManifest DEF Closed
  <2>3. Whole(Path("campaign"))' => Closed(campaign)'
    BY <2>1 DEF ClosedInv, Closed, There, Whole, campaign
  <2>4. QED BY <2>1, <2>2, <2>3 DEF ClosedInv, Disturbs
<1>2. CASE Checks \/ Creates
  <2>1. /\ file' = file /\ alone' = alone
        /\ \/ cmd' = Idle
           \/ /\ cmd'.campaign = cmd.campaign
                 \/ (cmd'.campaign = campaign /\ Whole(Path("campaign")))
              /\ \/ cmd'.step # "write"
                 \/ cmd'.op = "init"
                 \/ cmd'.todo = RefineWrites(cmd) /\ SameCommand(cmd', cmd)
    BY <1>2, CheckIs, CreateIs DEF SameCommand, ReadsAll, TypeInv
  <2>2. Whole(Path("campaign"))' => Closed(campaign)'
    BY <2>1 DEF ClosedInv, Closed, There, Whole, campaign
  <2>3. CASE cmd' = Idle
    BY <2>2, <2>3, ClosedIdle
  <2>4. CASE cmd' # Idle
    <3>1. cmd'.campaign \in Campaigns => Closed(cmd.campaign)'
      BY <2>1, <2>4 DEF ClosedInv, Closed, There, Whole
    <3>2. SameCommand(cmd', cmd) => RefineWrites(cmd)' = RefineWrites(cmd)
      BY DEF SameCommand, RefineWrites
    <3>3. Disturbs' /\ cmd'.step = "write" => RefineWrites(cmd)' \ cmd'.todo = {}
      BY <2>1, <2>4, <3>2 DEF Disturbs
    <3>4. QED BY <2>2, <3>1, <3>3 DEF ClosedInv, Documents
  <2>5. QED BY <2>3, <2>4
<1>3. CASE Promote
  <2>1. /\ cmd' = Idle /\ alone' = alone /\ cmd.campaign \in Campaigns
        /\ file' = With(file, Path("campaign"), [cmd.campaign EXCEPT !.status = "ready"])
        /\ campaign'.specs = cmd.campaign.specs /\ campaign'.adrs = cmd.campaign.adrs
        /\ Whole(Path("campaign"))'
    BY <1>3, PromoteIs DEF SameWork
  <2>2. ASSUME NEW p, There(p) PROVE There(p)'
    <3>1. p \in DOMAIN file' /\ (p # Path("campaign") => file'[p] = file[p])
      BY <2>1, <2>2 DEF There, With
    <3>2. QED BY <2>1, <2>2, <3>1 DEF There, Whole
  <2>3. Declared(campaign)' = Declared(cmd.campaign) /\ Closed(cmd.campaign)
    BY <2>1 DEF ClosedInv, Declared, DeclaredAdrs
  <2>4. QED BY <2>1, <2>2, <2>3, ClosedIdle DEF Closed
<1>4. QED BY <1>1, <1>2, <1>3 DEF Commands, Begins, Checks, Creates

LEMMA ClosedWriting ==
  ASSUME TypeInv, ClosedInv, Writing
  PROVE  ClosedInv'
<1>1. PICK p \in cmd.todo : WritesFile(p)
  BY DEF Writing, WritesFile
<1>2. Writes(p) /\ Wrote(p) /\ Target(p) \in Paths /\ alone' = alone /\ cmd.step = "write"
  BY <1>1, WritingTypes, WroteIs
<1>3. \A q : There(q) => There(q)'
  BY <1>1, <1>2, OthersUnwritten DEF There
<1>4. There(Target(p))'
  BY <1>1, OthersUnwritten DEF There, Whole
<1>5. Whole(Path("campaign"))' => Closed(campaign)'
  <2>1. CASE Target(p) # Path("campaign")
    <3>1. Whole(Path("campaign"))' => Whole(Path("campaign")) /\ campaign' = campaign
      BY <1>1, <2>1, OthersUnwritten DEF campaign
    <3>2. QED BY <1>3, <3>1 DEF ClosedInv, Closed, Declared, DeclaredAdrs
  <2>2. CASE campaign' = DraftCampaign(cmd.campaign.spec)
    BY <2>2, DraftDeclaresNothing DEF Closed
  <2>3. CASE Disturbs /\ Planned(cmd) /\ p = Path("campaign") /\ campaign' = RefinedManifest(cmd)
    <3>0. cmd \in CmdStates /\ cmd.campaign \in Campaigns /\ \A n \in Nodes : cmd.adrs[n] \in Nat
      BY <2>3 DEF TypeInv, CmdOK, Planned, Plans
    <3>1. campaign'.specs = Nodes
          /\ campaign'.adrs = cmd.campaign.adrs \cup PlannedDecisions(cmd)
      BY <2>3, <3>0, ManifestTypes
    <3>2. \A q \in RefineWrites(cmd) : q[2] # 0 => q \notin cmd.todo
      BY <1>2, <2>3, ManifestComesLast DEF Path
    <3>3. ASSUME NEW n \in Nodes PROVE There(NodePath("spec", n))'
      <4>1. NodePath("spec", n) \in RefineWrites(cmd) /\ NodePath("spec", n)[2] # 0
            /\ NodePath("spec", n)[1] = "spec"
        BY PathsAre, NodesAreNaturals DEF RefineWrites
      <4>2. There(NodePath("spec", n))
        BY <1>2, <2>3, <3>2, <4>1 DEF ClosedInv, Documents
      <4>3. QED BY <1>3, <4>2
    <3>4. ASSUME NEW n \in Nodes, NEW k, k = cmd.adrs[n], k # 0 PROVE There(AdrPath(n, k))'
      <4>1. AdrPath(n, k) \in RefineWrites(cmd)
        BY <3>4 DEF RefineWrites
      <4>2. AdrPath(n, k)[2] # 0 /\ AdrPath(n, k)[1] = "adr"
        BY NodesAreNaturals DEF AdrPath
      <4>3. There(AdrPath(n, k))
        BY <1>2, <2>3, <3>2, <4>1, <4>2 DEF ClosedInv, Documents
      <4>4. QED BY <1>3, <4>3
    <3>5. ASSUME NEW a \in campaign'.adrs PROVE There(AdrPath(a.node, a.number))'
      <4>1. CASE a \in cmd.campaign.adrs
        <5>1. AdrPath(a.node, a.number) \in Declared(cmd.campaign)
          BY <4>1 DEF Declared, DeclaredAdrs
        <5>2. There(AdrPath(a.node, a.number))
          BY <3>0, <5>1 DEF ClosedInv, Closed
        <5>3. QED BY <1>3, <5>2
      <4>2. CASE a \in PlannedDecisions(cmd)
        <5>1. PICK n \in Nodes : cmd.adrs[n] # 0 /\ a = [node |-> n, number |-> cmd.adrs[n]]
          BY <4>2 DEF PlannedDecisions
        <5>2. a.node = n /\ a.number = cmd.adrs[n]
          BY <5>1
        <5>3. QED BY <3>4, <5>1, <5>2
      <4>3. QED BY <3>1, <3>5, <4>1, <4>2
    <3>6. ASSUME NEW q \in Declared(campaign') PROVE There(q)'
      <4>1. CASE \E n \in Nodes : q = NodePath("spec", n)
        BY <3>3, <4>1
      <4>2. CASE \E a \in campaign'.adrs : q = AdrPath(a.node, a.number)
        BY <3>5, <4>2
      <4>3. QED BY <3>1, <3>6, <4>1, <4>2 DEF Declared, SpecPaths, DeclaredAdrs
    <3>7. QED BY <3>6 DEF Closed
  <2>4. CASE Whole(Path("campaign")) /\ SameWork(campaign', campaign)
    BY <1>3, <2>4 DEF ClosedInv, Closed, Declared, DeclaredAdrs, SameWork
  <2>5. QED BY <1>1, <2>1, <2>2, <2>3, <2>4, ManifestWritten
<1>6. CASE cmd' = Idle
  BY <1>5, <1>6, ClosedIdle
<1>7. CASE cmd' # Idle
  <2>1. /\ cmd'.step = "write" /\ cmd'.todo = cmd.todo \ {p} /\ cmd'.op = cmd.op
        /\ cmd'.campaign = cmd.campaign /\ cmd'.goals = cmd.goals /\ cmd'.adrs = cmd.adrs
        /\ cmd'.answer = cmd.answer
    BY <1>2, <1>7, WroteIs
  <2>2. cmd'.campaign \in Campaigns => Closed(cmd.campaign)'
    BY <1>3, <2>1 DEF ClosedInv, Closed
  <2>3. RefineWrites(cmd)' = RefineWrites(cmd)
    BY <2>1 DEF RefineWrites
  <2>4. ASSUME Disturbs, NEW q \in Documents(RefineWrites(cmd) \ cmd'.todo) PROVE There(q)'
    <3>1. CASE q = p
      <4>1. Target(p) = p
        BY <2>4, <3>1 DEF Documents, Target
      <4>2. QED BY <1>4, <3>1, <4>1
    <3>2. CASE q # p
      BY <1>2, <1>3, <2>1, <2>4, <3>2 DEF ClosedInv, Documents
    <3>3. QED BY <3>1, <3>2
  <2>5. Disturbs' /\ cmd'.step = "write" =>
          \A q \in Documents(RefineWrites(cmd) \ cmd.todo)' : There(q)'
    BY <2>1, <2>3, <2>4 DEF Documents, Disturbs
  <2>6. QED BY <1>5, <2>2, <2>5 DEF ClosedInv
<1>8. QED BY <1>6, <1>7

LEMMA ClosedStep == TypeInv /\ HeldInv /\ ClosedInv /\ [Next]_vars => ClosedInv'
<1> SUFFICES ASSUME TypeInv, HeldInv, ClosedInv, [Next]_vars PROVE ClosedInv'
  OBVIOUS
<1>0. Whole(Path("campaign")) => campaign \in Campaigns
  BY WholeTypes DEF TypeInv
<1>1. CASE People
  <2>1. /\ cmd' = cmd /\ (alone' => alone /\ cmd = Idle) /\ FilesKept
    BY <1>1, PeopleKeep
  <2>2. Whole(Path("campaign"))' => Closed(campaign)'
    <3> SUFFICES ASSUME Whole(Path("campaign"))', NEW p \in Declared(campaign') PROVE There(p)'
      BY DEF Closed
    <3>1. Whole(Path("campaign")) /\ campaign'.specs = campaign.specs
          /\ campaign'.adrs = campaign.adrs
      BY <2>1 DEF FilesKept, SameRecord, SameWork
    <3>2. p \in SpecPaths(campaign.specs) \cup DeclaredAdrs(campaign)
      BY <3>1 DEF Declared, DeclaredAdrs
    <3>3. There(p)
      BY <3>1, <3>2 DEF ClosedInv, Closed, Declared
    <3>4. QED BY <2>1, <3>2, <3>3 DEF There, FilesKept
  <2>3. CASE cmd = Idle
    BY <2>1, <2>2, <2>3, ClosedIdle
  <2>4. CASE cmd # Idle
    <3>1. \A p : There(p) => There(p)'
      BY <2>1, <2>4 DEF There, FilesKept
    <3>2. RefineWrites(cmd)' = RefineWrites(cmd)
      BY <2>1 DEF RefineWrites
    <3>3. cmd'.campaign \in Campaigns => Closed(cmd.campaign)'
      BY <2>1, <3>1 DEF ClosedInv, Closed
    <3>4. Disturbs' /\ cmd'.step = "write" =>
            \A p \in Documents(RefineWrites(cmd) \ cmd.todo)' : There(p)'
      BY <2>1, <3>1, <3>2 DEF ClosedInv, Documents, Disturbs
    <3>5. QED BY <2>2, <3>3, <3>4 DEF ClosedInv
  <2>5. QED BY <2>3, <2>4
<1>2. CASE Failures
  <2>1. cmd' = Idle /\ alone' = alone /\ (\A q \in DOMAIN file : q \in DOMAIN file')
        /\ (Whole(Path("campaign"))' => Whole(Path("campaign")) /\ campaign' = campaign)
    BY <1>2, FailureIs DEF campaign
  <2>2. ASSUME NEW p, p[1] \in {"spec", "adr"}, There(p) PROVE There(p)'
    <3>1. alone => Respects(p)
      BY <1>2, <2>2, FailuresRespect DEF There
    <3>2. QED BY <2>1, <2>2, <3>1 DEF There, Respects, Whole
  <2>3. ASSUME Whole(Path("campaign"))', NEW p \in Declared(campaign') PROVE There(p)'
    <3>1. p \in Declared(campaign) /\ campaign \in Campaigns /\ There(p)
      BY <1>0, <2>1, <2>3 DEF ClosedInv, Closed
    <3>2. p[1] \in {"spec", "adr"}
      BY <3>1, DeclaredAre
    <3>3. QED BY <2>2, <3>1, <3>2
  <2>4. QED BY <2>1, <2>3, ClosedIdle DEF Closed
<1>3. CASE UNCHANGED vars
  <2>1. file' = file /\ cmd' = cmd /\ alone' = alone
    BY <1>3 DEF vars
  <2>2. QED BY <2>1 DEF ClosedInv, Closed, There, Whole, campaign, Documents, RefineWrites, Disturbs
<1>4. QED BY <1>1, <1>2, <1>3, ClosedCommand, ClosedWriting DEF Next

(* What the manifest declares is there, for any primary spec, however many *)
(* commands failed, died or were given again, and whatever people edited.  *)
THEOREM DeclaredIsThere == Spec => []ManifestClosed
<1>1. ClosedInv => ManifestClosed
  BY DEF ClosedInv, Closed, There, Declared, ManifestClosed
<1>2. QED BY <1>1, TypeInit, TypeStep, HeldInit, HeldStep, ClosedInit, ClosedStep, PTL DEF Spec

----------------------------------------------------------------------------
(* Retries.  From its plan on a command keeps to the campaign it has read, *)
(* which still lints, and the numbers of its decision records are those    *)
(* that follow some number: the highest one there is until the first       *)
(* record is written, and a lower one from then on.                        *)

Numbers(h) ==
  [n \in Nodes |-> IF NeedsAdr(n) THEN h + Cardinality({m \in 1..n : NeedsAdr(m)}) ELSE 0]
NumbersHold ==
  \E h \in Nat :
    /\ cmd.adrs = Numbers(h)
    /\ AdrWritten => h < HighestAdr
    /\ ~AdrWritten => h = HighestAdr

RetryInv ==
  alone =>
    /\ cmd.op = "init" => cmd.campaign.spec = primary
    /\ Disturbs => CampaignLints
    /\ cmd.op = "import" => cmd.answer = answer
    /\ cmd.op = "import" /\ cmd.step = "write" => AnswerFits(cmd)
    /\ Disturbs /\ cmd.step # "plan" => NumbersHold /\ campaign.spec = cmd.campaign.spec

HighestBounds == HighestAdr \in Nat /\ \A p \in Adrs : p[3] <= HighestAdr
LEMMA HighestAdrBounds == TypeInv => HighestBounds
BY HighestAdrIs DEF TypeInv, HighestBounds

(* Numbers that follow h are above h.                                      *)
LEMMA NumbersAre ==
  ASSUME NEW h \in Nat, NEW n \in Nodes
  PROVE  /\ Numbers(h)[n] \in Nat
         /\ Numbers(h)[n] # 0 <=> NeedsAdr(n)
         /\ NeedsAdr(n) =>
              \E k \in Nat : k > 0 /\ \A i \in Nat : Numbers(i)[n] = i + k
<1> DEFINE D == {m \in 1..n : NeedsAdr(m)}
<1>1. n \in Nat /\ n # 0 /\ 1 \in Int /\ n \in Int
  BY NodesAreNaturals
<1>2. IsFiniteSet(1..n)
  BY <1>1, FS_Interval
<1>3. D \in SUBSET (1..n)
  OBVIOUS
<1>4. IsFiniteSet(D)
  BY <1>2, <1>3, FS_Subset
<1>5. Cardinality(D) \in Nat
  BY <1>4, FS_CardinalityType
<1>6. NeedsAdr(n) => n \in D
  BY <1>1
<1>7. NeedsAdr(n) => Cardinality(D) # 0
  BY <1>4, <1>6, FS_EmptySet
<1>8. \A i \in Nat : Numbers(i)[n] = IF NeedsAdr(n) THEN i + Cardinality(D) ELSE 0
  BY DEF Numbers
<1> HIDE DEF D
<1>9. Numbers(h)[n] = IF NeedsAdr(n) THEN h + Cardinality(D) ELSE 0
  BY <1>8
<1>10. ASSUME NeedsAdr(n)
       PROVE  \E k \in Nat : k > 0 /\ \A i \in Nat : Numbers(i)[n] = i + k
  <2>1. Cardinality(D) > 0 /\ \A i \in Nat : Numbers(i)[n] = i + Cardinality(D)
    BY <1>5, <1>7, <1>8, <1>10
  <2>2. QED BY <1>5, <2>1
<1>11. QED BY <1>5, <1>7, <1>9, <1>10

LEMMA RetryIdle ==
  ASSUME cmd' = Idle
  PROVE  RetryInv'
BY DEF RetryInv, Idle, Disturbs

LEMMA RetryInit == Init => RetryInv
BY DEF Init, RetryInv, Idle, Disturbs

LEMMA LintsFromFiles ==
  ASSUME file' = file
  PROVE  /\ CampaignLints' <=> CampaignLints
         /\ \A n \in Nodes : NeedsAdr(n)' <=> NeedsAdr(n)
         /\ HighestAdr' = HighestAdr
BY DEF CampaignLints, ArtifactsLint, LoopLints, LoopIsClosed, GoalLints, EvidenceLints, Exists,
       Whole, campaign, loop, goal, evidence, NeedsAdr, HighestAdr, Adrs

(* The numbers of a plan stay the same while the nodes that need a record  *)
(* do.                                                                     *)
LEMMA NumbersStay ==
  ASSUME \A n \in Nodes : NeedsAdr(n)' <=> NeedsAdr(n), NEW h
  PROVE  Numbers(h)' = Numbers(h)
<1>1. ASSUME NEW n \in Nodes
      PROVE  {m \in 1..n : NeedsAdr(m)}' = {m \in 1..n : NeedsAdr(m)}
  <2>1. 1..n \subseteq Nodes
    BY HeadingsHaveCues DEF Nodes
  <2>2. QED BY <2>1
<1>2. QED BY <1>1 DEF Numbers

LEMMA NumbersHoldStill ==
  ASSUME \A n \in Nodes : NeedsAdr(n)' <=> NeedsAdr(n), HighestAdr' = HighestAdr,
         AdrWritten' <=> AdrWritten, cmd'.adrs = cmd.adrs, NumbersHold
  PROVE  NumbersHold'
<1>1. PICK h \in Nat : /\ cmd.adrs = Numbers(h)
                       /\ AdrWritten => h < HighestAdr
                       /\ ~AdrWritten => h = HighestAdr
  BY DEF NumbersHold
<1>2. Numbers(h)' = Numbers(h)
  BY NumbersStay
<1>3. QED BY <1>1, <1>2 DEF NumbersHold

LEMMA RetryCommand ==
  ASSUME TypeInv, RetryInv, Commands
  PROVE  RetryInv'
<1>0. primary' = primary /\ answer' = answer
  BY DEF Commands, BeginInit, CheckInit, BeginRefine, PlanRefine, CheckRefine, CreateEpic,
         CreateTask, CreateFails, HasIssues, BeginImport, CheckImport, BeginReady, CheckReady,
         Promote, NotFiles, Others
<1>1. CASE Begins
  BY <1>0, <1>1, BeginIs, LintsFromFiles DEF RetryInv, Disturbs, DraftCampaign
<1>2. CASE Checks \/ Creates
  <2>1. file' = file /\ alone' = alone
    BY <1>2, CheckIs, CreateIs
  <2>2. CASE cmd' = Idle
    BY <2>2, RetryIdle
  <2>3. CASE cmd'.op = "ready"
    BY <2>3 DEF RetryInv, Disturbs
  <2>4. CASE cmd.op = "init" /\ SameCommand(cmd', cmd)
    BY <1>0, <2>1, <2>4 DEF RetryInv, Disturbs, SameCommand
  <2>5. CASE /\ Disturbs /\ cmd.step = "plan" /\ ReadsAll
             /\ cmd'.op = cmd.op /\ cmd'.step = "check" /\ cmd'.answer = cmd.answer
             /\ cmd'.campaign = campaign /\ cmd'.adrs = PlannedAdrs
    <3>1. PlannedAdrs = Numbers(HighestAdr)
      BY DEF PlannedAdrs, Numbers
    <3>2. HighestAdr \in Nat /\ \A p \in Adrs : p[3] <= HighestAdr
      BY HighestAdrIs DEF TypeInv
    <3>3. ~AdrWritten'
      <4> SUFFICES ASSUME NEW n \in Nodes, cmd'.adrs[n] # 0,
                          AdrPath(n, cmd'.adrs[n]) \in DOMAIN file'
                   PROVE  FALSE
        BY DEF AdrWritten
      <4>1. AdrPath(n, cmd'.adrs[n]) \in Adrs /\ AdrPath(n, cmd'.adrs[n])[3] = cmd'.adrs[n]
        BY <2>1 DEF Adrs, AdrPath
      <4>2. PICK k \in Nat : k > 0 /\ cmd'.adrs[n] = HighestAdr + k
        BY <2>5, <3>1, <3>2, NumbersAre
      <4>3. QED BY <3>2, <4>1, <4>2
    <3>4. NumbersHold'
      <4>1. Numbers(HighestAdr)' = Numbers(HighestAdr) /\ HighestAdr' = HighestAdr
        BY <2>1, LintsFromFiles, NumbersStay DEF Numbers
      <4>2. QED BY <2>5, <3>1, <3>2, <3>3, <4>1 DEF NumbersHold
    <3>5. campaign' = campaign
      BY <2>1 DEF campaign
    <3>6. QED BY <1>0, <2>1, <2>5, <3>4, <3>5, LintsFromFiles DEF RetryInv, Disturbs
  <2>6. CASE /\ Disturbs /\ cmd.step \in {"check", "beads"}
             /\ cmd'.step = "write" => (cmd.op = "import" => AnswerFits(cmd))
             /\ SameCommand(cmd', cmd) /\ cmd'.step \in {"beads", "write"}
             /\ cmd'.step = "beads" => cmd.op = "refine"
    <3>1. cmd'.op = cmd.op /\ cmd'.campaign = cmd.campaign /\ cmd'.goals = cmd.goals
          /\ cmd'.adrs = cmd.adrs /\ cmd'.answer = cmd.answer
      BY <2>6 DEF SameCommand
    <3>2. AdrWritten' <=> AdrWritten
      BY <2>1, <3>1 DEF AdrWritten
    <3>3. NumbersHold => NumbersHold'
      BY <2>1, <3>1, <3>2, LintsFromFiles, NumbersHoldStill
    <3>4. AnswerFits(cmd) => AnswerFits(cmd)'
      BY <3>1 DEF AnswerFits, Prompt
    <3>5. campaign' = campaign
      BY <2>1 DEF campaign
    <3>6. QED BY <1>0, <2>1, <2>6, <3>1, <3>3, <3>4, <3>5, LintsFromFiles DEF RetryInv, Disturbs
  <2>7. QED
    <3>1. CASE Checks
      BY <3>1, <2>2, <2>3, <2>4, <2>5, <2>6, CheckIs DEF Disturbs
    <3>2. CASE Creates
      BY <3>2, <2>2, <2>6, CreateIs DEF Disturbs
    <3>3. QED BY <1>2, <3>1, <3>2
<1>3. CASE Promote
  BY <1>3, PromoteIs, RetryIdle
<1>4. QED BY <1>1, <1>2, <1>3 DEF Commands, Begins, Checks, Creates

(* What a write of refine or import leaves of the lint and the plan.       *)
LEMMA LintsWritten ==
  ASSUME TypeInv, TypeInv', NEW p, WritesFile(p), Disturbs, PlanHolds, PlanHolds', ClosedInv',
         cmd'.goals = cmd.goals, cmd'.campaign = cmd.campaign, CampaignLints
  PROVE  CampaignLints'
<1>0. cmd.op # "init" /\ CmdOK(cmd) /\ Writes(p)
  BY WritingTypes DEF Disturbs, TypeInv
<1>1. Whole(Path("campaign"))' /\ campaign' \in Campaigns /\ campaign'.plans = campaign.plans
      /\ campaign'.plans \subseteq Nodes
  <2>1. Whole(Path("campaign"))' /\ campaign'.plans = campaign.plans
    BY DEF PlanHolds
  <2>2. campaign' \in Campaigns
    BY <2>1, PathsAre DEF TypeInv, Typed, Whole, Contents, campaign
  <2>3. QED BY <2>1, <2>2 DEF Campaigns
<1>2. Exists(SpecPaths(campaign.specs))' /\ Exists(DeclaredAdrs(campaign))'
  BY <1>1 DEF ClosedInv, Closed, Declared, There, Exists
<1>3. \A n \in Nodes : GoalLints(n)'
  BY DEF PlanHolds, GoalLints, CampaignLints, ArtifactsLint
<1>4. ASSUME NEW n \in campaign'.plans PROVE EvidenceLints(n)'
  <2>1. n \in Nodes /\ Whole(NodePath("evidence", n)) /\ evidence(n).body # "broken"
    BY <1>1, <1>4 DEF CampaignLints, ArtifactsLint, EvidenceLints
  <2>2. Whole(NodePath("evidence", n))'
    BY <2>1, OthersUnwritten
  <2>3. evidence(n)'.body = evidence(n).body
    <3>1. CASE Target(p) = NodePath("evidence", n)
      BY <1>0, <2>1, <3>1, EvidenceWritten
    <3>2. CASE Target(p) # NodePath("evidence", n)
      BY <2>2, <3>2, OthersUnwritten DEF evidence
    <3>3. QED BY <3>1, <3>2
  <2>4. QED BY <2>1, <2>2, <2>3 DEF EvidenceLints
<1>5. LoopLints'
  <2>1. Target(p) # Path("loop")
    <3>1. p[1] \in {"spec", "adr", "goal", "evidence", "llm_goal", "llm_evidence", "campaign",
                    "llm_campaign"}
      BY <1>0, WritesAre
    <3>2. p # Path("loop")
      BY <3>1 DEF Path
    <3>3. QED BY <3>1, <3>2 DEF Target, NodePath, Path
  <2>2. Whole(Path("loop"))
    BY DEF CampaignLints, ArtifactsLint, LoopLints
  <2>3. Whole(Path("loop"))' /\ loop' = loop
    BY <2>1, <2>2, OthersUnwritten DEF loop
  <2>4. QED BY <1>3, <2>3 DEF CampaignLints, ArtifactsLint, LoopLints
<1>6. LoopIsClosed' /\ campaign'.status \in Statuses
  BY <1>1 DEF CampaignLints, LoopIsClosed, Campaigns, Statuses
<1>7. QED BY <1>1, <1>2, <1>3, <1>4, <1>5, <1>6 DEF CampaignLints, ArtifactsLint

LEMMA SpecKept ==
  ASSUME TypeInv, NEW p, WritesFile(p), Disturbs, PlanHolds, PlanHolds',
         campaign.spec = cmd.campaign.spec
  PROVE  campaign'.spec = cmd.campaign.spec
<1>1. CASE Target(p) = Path("campaign")
  <2>1. CASE campaign' = RefinedManifest(cmd) /\ Planned(cmd)
    BY <2>1 DEF RefinedManifest, Planned, Campaigns
  <2>2. CASE SameWork(campaign', campaign)
    BY <2>2 DEF SameWork
  <2>3. QED BY <1>1, <2>1, <2>2, ManifestWritten DEF Disturbs
<1>2. CASE Target(p) # Path("campaign")
  BY <1>2, OthersUnwritten DEF PlanHolds, Whole, campaign
<1>3. QED BY <1>1, <1>2

LEMMA NumbersWritten ==
  ASSUME TypeInv, TypeInv', NEW p, WritesFile(p), Disturbs, PlanHolds, PlanHolds',
         cmd'.goals = cmd.goals, cmd'.adrs = cmd.adrs, NumbersHold
  PROVE  NumbersHold'
<1>1. \A n \in Nodes : NeedsAdr(n)' <=> NeedsAdr(n)
  BY DEF PlanHolds, NeedsAdr
<1>2. PICK h \in Nat : /\ cmd.adrs = Numbers(h)
                       /\ AdrWritten => h < HighestAdr
                       /\ ~AdrWritten => h = HighestAdr
  BY DEF NumbersHold
<1>3. CASE Target(p)[1] = "adr"
  <2>1. /\ Target(p) = p /\ p[2] \in Nodes /\ p = AdrPath(p[2], cmd.adrs[p[2]])
        /\ cmd.adrs[p[2]] # 0
    BY <1>3, DocumentWritten
  <2>2. p \in DOMAIN file'
    BY <2>1, OthersUnwritten DEF Whole
  <2>3. PICK k \in Nat : k > 0 /\ cmd.adrs[p[2]] = h + k
    <3>1. \E k \in Nat : k > 0 /\ \A i \in Nat : Numbers(i)[p[2]] = i + k
      BY <1>2, <2>1, NumbersAre
    <3>2. QED BY <1>2, <3>1
  <2>4. HighestAdr' \in Nat /\ \A q \in Adrs' : q[3] <= HighestAdr'
    <3>1. HighestBounds'
      BY HighestAdrBounds, PTL
    <3>2. QED BY <3>1 DEF HighestBounds
  <2>5. p \in Adrs' /\ p[3] = h + k
    BY <2>1, <2>2, <2>3 DEF Adrs, AdrPath
  <2>6. h < HighestAdr'
    BY <2>3, <2>4, <2>5
  <2>7. AdrWritten'
    BY <2>1, <2>2 DEF AdrWritten
  <2>8. Numbers(h)' = Numbers(h)
    BY <1>1, NumbersStay
  <2>9. QED BY <1>2, <2>6, <2>7, <2>8 DEF NumbersHold
<1>4. CASE Target(p)[1] # "adr"
  <2>1. \A q : q[1] = "adr" => (q \in DOMAIN file' <=> q \in DOMAIN file)
    BY <1>4, OthersUnwritten
  <2>2. Adrs' = Adrs
    BY <2>1 DEF Adrs
  <2>3. HighestAdr' = HighestAdr
    BY <2>2 DEF HighestAdr
  <2>4. AdrWritten' <=> AdrWritten
    BY <2>1 DEF AdrWritten, AdrPath
  <2>5. QED BY <1>1, <2>3, <2>4, NumbersHoldStill
<1>5. QED BY <1>3, <1>4

LEMMA RetryStep ==
  TypeInv /\ TypeInv' /\ HeldInv /\ HeldInv' /\ ClosedInv' /\ RetryInv /\ [Next]_vars => RetryInv'
<1> SUFFICES ASSUME TypeInv, TypeInv', HeldInv, HeldInv', ClosedInv', RetryInv, [Next]_vars
             PROVE  RetryInv'
  OBVIOUS
<1>1. CASE People
  <2>1. alone' => cmd' = Idle
    BY <1>1, PeopleKeep
  <2>2. CASE alone'
    BY <2>1, <2>2, RetryIdle
  <2>3. CASE ~alone'
    BY <2>3 DEF RetryInv
  <2>4. QED BY <2>2, <2>3
<1>2. CASE Failures
  BY <1>2, FailureIs, RetryIdle
<1>3. CASE Writing
  <2>1. PICK p \in cmd.todo : WritesFile(p)
    BY <1>3 DEF Writing, WritesFile
  <2>2. Writes(p) /\ Wrote(p)
    BY <2>1, WritingTypes
  <2>0. primary' = primary /\ answer' = answer
    BY <2>2 DEF Wrote, NotFiles, Others
  <2>3. CASE cmd' = Idle
    BY <2>3, RetryIdle
  <2>4. CASE cmd' # Idle
    <3>1. /\ alone' = alone /\ cmd.step = "write" /\ cmd'.step = "write"
          /\ cmd'.op = cmd.op /\ cmd'.campaign = cmd.campaign /\ cmd'.answer = cmd.answer
          /\ cmd'.goals = cmd.goals /\ cmd'.adrs = cmd.adrs
      BY <2>2, <2>4, WroteIs
    <3>2. CASE ~alone
      BY <3>1, <3>2 DEF RetryInv
    <3>3. CASE alone /\ cmd.op = "init"
      BY <2>0, <3>1, <3>3 DEF RetryInv, Disturbs
    <3>4. CASE alone /\ Disturbs
      <4>1. /\ CampaignLints /\ NumbersHold /\ campaign.spec = cmd.campaign.spec
            /\ cmd.op = "import" => cmd.answer = answer /\ AnswerFits(cmd)
        BY <3>1, <3>4 DEF RetryInv
      <4>2. PlanHolds /\ PlanHolds'
        BY <3>1, <3>4 DEF HeldInv, Steady, Disturbs
      <4>3. CampaignLints' /\ NumbersHold' /\ campaign'.spec = cmd.campaign.spec
        BY <2>1, <3>1, <3>4, <4>1, <4>2, LintsWritten, NumbersWritten, SpecKept
      <4>4. AnswerFits(cmd) => AnswerFits(cmd)'
        BY <3>1 DEF AnswerFits, Prompt
      <4>5. QED BY <2>0, <3>1, <3>4, <4>1, <4>3, <4>4 DEF RetryInv, Disturbs
    <3>5. QED BY <2>2, <3>2, <3>3, <3>4 DEF Writes, Disturbs
  <2>5. QED BY <2>3, <2>4
<1>4. CASE UNCHANGED vars
  <2>1. file' = file /\ cmd' = cmd /\ alone' = alone /\ primary' = primary /\ answer' = answer
    BY <1>4 DEF vars
  <2>2. AdrWritten' <=> AdrWritten
    BY <2>1 DEF AdrWritten
  <2>3. NumbersHold => NumbersHold'
    BY <2>1, <2>2, LintsFromFiles, NumbersHoldStill
  <2>4. QED BY <2>1, <2>3, LintsFromFiles DEF RetryInv, Disturbs, AnswerFits, Prompt, campaign
<1>5. QED BY <1>1, <1>2, <1>3, <1>4, RetryCommand DEF Next

(* A command that dies between two of its writes, with nobody editing      *)
(* while it runs, finds its own checks passed when it is given again: the  *)
(* campaign lints, and every path of the new plan is free or holds what    *)
(* goes there.  The one check that may fail is the import's comparison of  *)
(* the prompt, and it fails from the first decision record on.             *)
THEOREM OnlyThePromptRefusesRetries == Spec => []RetriesFailByPromptOnly
<1>1. TypeInv /\ HeldInv /\ RetryInv => RetriesFailByPromptOnly
  <2> SUFFICES ASSUME TypeInv, HeldInv, RetryInv, alone, cmd.todo # {}
               PROVE  \/ cmd.op = "init" /\ InitIsFree(primary)
                      \/ /\ cmd.op # "init" /\ CampaignLints /\ RefineIsFree(Again)
                         /\ cmd.op = "import" =>
                              cmd.answer = answer /\ (AnswerFits(Again) <=> ~AdrWritten)
    BY DEF RetriesFailByPromptOnly
  <2>1. cmd.step = "write" /\ cmd.op \in {"init", "refine", "import"} /\ cmd \in CmdStates
    BY DEF TypeInv, CmdOK, CmdStates, Holds, Idle
  <2>2. CASE cmd.op = "init"
    BY <2>1, <2>2 DEF HeldInv, Steady, RetryInv
  <2>3. CASE cmd.op # "init"
    <3>1. RefineIsFree(cmd) /\ PlanHolds /\ CampaignLints /\ NumbersHold
          /\ campaign.spec = cmd.campaign.spec
          /\ (cmd.op = "import" => cmd.answer = answer /\ AnswerFits(cmd))
      BY <2>1, <2>3 DEF HeldInv, Steady, RetryInv, Disturbs
    <3>2. /\ Again.campaign = campaign /\ Again.goals = [n \in Nodes |-> goal(n)]
          /\ Again.adrs = PlannedAdrs /\ Again.answer = cmd.answer
      BY <2>1 DEF Again, CmdStates
    <3>3. PICK h \in Nat : /\ cmd.adrs = Numbers(h)
                           /\ AdrWritten => h < HighestAdr
                           /\ ~AdrWritten => h = HighestAdr
      BY <3>1 DEF NumbersHold
    <3>4. PlannedAdrs = Numbers(HighestAdr)
      BY DEF PlannedAdrs, Numbers
    <3>5. HighestAdr \in Nat /\ \A p \in Adrs : p[3] <= HighestAdr
      BY HighestAdrIs DEF TypeInv
    <3>6. RefineIsFree(Again)
      <4>1. ASSUME NEW n \in Nodes PROVE Free(NodePath("spec", n), SpecStub(Again, n))
        <5>1. SpecStub(Again, n) = SpecStub(cmd, n)
          BY <3>1, <3>2 DEF SpecStub, PlanHolds
        <5>2. QED BY <3>1, <5>1 DEF RefineIsFree
      <4>2. ASSUME NEW n \in Nodes, PlannedAdrs[n] # 0, AdrPath(n, PlannedAdrs[n]) \in DOMAIN file
            PROVE  FALSE
        <5>1. PICK k \in Nat : k > 0 /\ PlannedAdrs[n] = HighestAdr + k
          BY <3>4, <3>5, <4>2, NumbersAre
        <5>2. AdrPath(n, PlannedAdrs[n]) \in Adrs /\ AdrPath(n, PlannedAdrs[n])[3] = PlannedAdrs[n]
          BY <4>2 DEF Adrs, AdrPath
        <5>3. QED BY <3>5, <5>1, <5>2
      <4>3. QED BY <3>2, <4>1, <4>2 DEF RefineIsFree, Free
    <3>7. ASSUME cmd.op = "import" PROVE AnswerFits(Again) <=> ~AdrWritten
      <4>1. [n \in Nodes |-> Again.goals[n].compiler] = [n \in Nodes |-> cmd.goals[n].compiler]
        BY <3>1, <3>2 DEF PlanHolds
      <4>2. Prompt(Again.campaign.spec, Again.goals, Again.adrs) =
              Prompt(cmd.campaign.spec, cmd.goals, cmd.adrs) <=> PlannedAdrs = cmd.adrs
        BY <3>1, <3>2, <4>1 DEF Prompt
      <4>3. AnswerFits(Again) <=> PlannedAdrs = cmd.adrs
        BY <3>1, <3>2, <3>7, <4>2 DEF AnswerFits
      <4>4. CASE ~AdrWritten
        BY <3>3, <3>4, <4>3, <4>4
      <4>5. CASE AdrWritten
        <5>1. PICK n \in Nodes : cmd.adrs[n] # 0
          BY <4>5 DEF AdrWritten
        <5>2. PICK k \in Nat : \A i \in Nat : Numbers(i)[n] = i + k
          BY <3>3, <5>1, NumbersAre
        <5>3. cmd.adrs[n] = h + k /\ PlannedAdrs[n] = HighestAdr + k /\ h < HighestAdr
          BY <3>3, <3>4, <3>5, <4>5, <5>2
        <5>4. QED BY <3>5, <4>3, <4>5, <5>3
      <4>6. QED BY <4>4, <4>5
    <3>8. QED BY <2>3, <3>1, <3>6, <3>7
  <2>4. QED BY <2>2, <2>3
<1>2. QED BY <1>1, TypeInit, TypeStep, HeldInit, HeldStep, ClosedInit, ClosedStep, RetryInit,
              RetryStep, PTL DEF Spec

----------------------------------------------------------------------------
(* The story.  Between two commands that end well the manifest, the goals  *)
(* and the plans tell of one refinement and of one answer; while refine or *)
(* import writes, the files it is through with tell of its own.            *)

Tells(g, n, adrs, told) ==
  /\ g.refinement # NotRefined /\ g.refinement.adr = adrs[n]
  /\ g.llm = IF told # NotDrafted /\ n \in told.said.nodes THEN told ELSE NotDrafted
Story ==
  Whole(Path("campaign")) /\ campaign.refinement # NotRefined =>
    /\ campaign.llm # NotDrafted => campaign.llm.asked.adrs = campaign.refinement.adrs
    /\ \A n \in Nodes :
         /\ Whole(NodePath("goal", n)) =>
              Tells(goal(n), n, campaign.refinement.adrs, campaign.llm)
         /\ Whole(NodePath("evidence", n)) =>
              Tells(evidence(n), n, campaign.refinement.adrs, campaign.llm)

Imported(c, p, todo) == IF c.op = "import" /\ p \notin todo THEN c.answer ELSE NotDrafted
GoalTold(c, n, todo) ==
  NodePath("goal", n) \notin todo /\ Whole(NodePath("goal", n)) =>
    Tells(goal(n), n, c.adrs, Imported(c, NodePath("llm_goal", n), todo))
EvidenceTold(c, n, todo) ==
  NodePath("evidence", n) \notin todo /\ Whole(NodePath("evidence", n)) =>
    Tells(evidence(n), n, c.adrs, Imported(c, NodePath("llm_evidence", n), todo))
ManifestTold(c, todo) ==
  Path("campaign") \notin todo /\ Whole(Path("campaign")) =>
    /\ campaign.refinement = [adrs |-> c.adrs]
    /\ campaign.llm = Imported(c, Path("llm_campaign"), todo)
AnswersComeLast(c, todo) ==
  c.op = "import" =>
    /\ \A n \in c.answer.said.nodes :
         /\ NodePath("goal", n) \in todo => NodePath("llm_goal", n) \in todo
         /\ NodePath("evidence", n) \in todo => NodePath("llm_evidence", n) \in todo
    /\ Path("campaign") \in todo => Path("llm_campaign") \in todo
Progress(c, todo) ==
  /\ \A n \in Nodes : GoalTold(c, n, todo) /\ EvidenceTold(c, n, todo)
  /\ ManifestTold(c, todo)
  /\ AnswersComeLast(c, todo)

StoryInv ==
  /\ alone /\ ~halfway /\ ~(Disturbs /\ cmd.wrote) => Story
  /\ alone /\ Disturbs /\ cmd.step = "write" => Progress(cmd, cmd.todo)
  /\ cmd.op = "import" /\ cmd.step = "write" => cmd.answer.asked.adrs = cmd.adrs
  /\ cmd.wrote => cmd.step = "write"

LEMMA StoryIdle ==
  ASSUME cmd' = Idle, alone' /\ ~halfway' => Story'
  PROVE  StoryInv'
BY DEF StoryInv, Idle, Disturbs

LEMMA StoryStays ==
  ASSUME Story, Whole(Path("campaign"))' => Whole(Path("campaign")) /\ campaign' = campaign,
         \A n \in Nodes :
           /\ Whole(NodePath("goal", n))' => Whole(NodePath("goal", n)) /\ goal(n)' = goal(n)
           /\ Whole(NodePath("evidence", n))' =>
                Whole(NodePath("evidence", n)) /\ evidence(n)' = evidence(n)
  PROVE  Story'
BY DEF Story

LEMMA AnswersComeLastStays ==
  ASSUME TypeInv, NEW p, Writes(p), Disturbs, AnswersComeLast(cmd, cmd.todo)
  PROVE  AnswersComeLast(cmd, cmd.todo \ {p})
<1>1. ASSUME NEW q \in cmd.todo, q # p, p[2] = q[2]
      PROVE  \/ RefineRank[p[1]] < RefineRank[q[1]]
             \/ Turn(p) < Turn(p)
  <2>1. Before(p, q) /\ Turn(p) = Turn(q)
    BY <1>1 DEF Writes, Turn
  <2>2. QED BY <2>1 DEF Before, Disturbs
<1>2. ~(Turn(p) < Turn(p))
  <2>1. p[2] \in Nodes \cup {0}
    BY WritesAre, NodesAreNaturals DEF TypeInv, Path, Disturbs
  <2>2. Turn(p) \in Int
    BY <2>1, NodesAreNaturals, HeadingsHaveCues DEF Turn
  <2>3. QED BY <2>2
<1>3. ASSUME NEW n PROVE p = NodePath("llm_goal", n) => NodePath("goal", n) \notin cmd.todo
  BY <1>1, <1>2 DEF NodePath, RefineRank
<1>4. ASSUME NEW n
      PROVE  p = NodePath("llm_evidence", n) => NodePath("evidence", n) \notin cmd.todo
  BY <1>1, <1>2 DEF NodePath, RefineRank
<1>5. p = Path("llm_campaign") => Path("campaign") \notin cmd.todo
  BY <1>1, <1>2 DEF Path, RefineRank
<1>6. QED BY <1>3, <1>4, <1>5 DEF AnswersComeLast

LEMMA GoalToldStays ==
  ASSUME TypeInv, NEW p, WritesFile(p), Disturbs, NEW n \in Nodes,
         GoalTold(cmd, n, cmd.todo), AnswersComeLast(cmd, cmd.todo),
         NEW c, c = cmd, NEW todo, todo = cmd.todo \ {p}
  PROVE  GoalTold(c, n, todo)'
<1> DEFINE q == NodePath("goal", n)
           l == NodePath("llm_goal", n)
<1>0. Planned(cmd) /\ Writes(p) /\ p \in cmd.todo /\ p \in RefineWrites(cmd)
      /\ (cmd.op = "import" => cmd.answer # NotDrafted)
  BY WritingTypes, WritesAre DEF Disturbs, TypeInv, CmdOK, Holds, Writes, NoAnswer
<1>1. Target(q) = q /\ Target(l) = q /\ q # l
  BY DEF Target, NodePath
<1> SUFFICES ASSUME q \notin todo, Whole(q)'
             PROVE  Tells(goal(n)', n, c.adrs, Imported(c, l, todo))
  BY DEF GoalTold
<1>2. CASE Target(p) # q
  <2>1. Whole(q) /\ goal(n)' = goal(n)
    BY <1>2, OthersUnwritten DEF goal
  <2>2. p # q /\ p # l
    BY <1>1, <1>2
  <2>3. q \notin cmd.todo /\ Imported(c, l, todo) = Imported(cmd, l, cmd.todo)
    BY <2>2 DEF Imported
  <2>4. QED BY <2>1, <2>3 DEF GoalTold
<1>3. CASE Target(p) = q /\ p = q
  <2>1. goal(n)'.refinement = Refinement(cmd, n) /\ goal(n)'.llm = NotDrafted
    BY <1>1, <1>3, GoalWritten DEF Disturbs, NodePath
  <2>2. Refinement(cmd, n) # NotRefined /\ Refinement(cmd, n).adr = cmd.adrs[n]
    BY <1>0, RefinementTypes, WithAdrType DEF Refinement
  <2>3. cmd.op = "import" /\ l \notin todo => n \notin cmd.answer.said.nodes
    BY <1>0, <1>1, <1>3 DEF AnswersComeLast
  <2>4. QED BY <2>1, <2>2, <2>3 DEF Tells, Imported
<1>4. CASE Target(p) = q /\ p = l
  <2>1. /\ Whole(q) /\ cmd.op = "import" /\ goal(n)'.refinement = goal(n).refinement
        /\ goal(n)'.llm = cmd.answer
    BY <1>1, <1>4, GoalWritten DEF Disturbs, NodePath
  <2>2. q \notin cmd.todo
    BY <1>1, <1>4
  <2>3. n \in cmd.answer.said.nodes
    BY <1>0, <1>4, <2>1 DEF RefineWrites, NodePath, AdrPath, Path
  <2>4. QED BY <1>0, <1>4, <2>1, <2>2, <2>3 DEF GoalTold, Tells, Imported
<1>5. QED BY <1>0, <1>2, <1>3, <1>4, TargetIs

LEMMA EvidenceToldStays ==
  ASSUME TypeInv, NEW p, WritesFile(p), Disturbs, NEW n \in Nodes,
         EvidenceTold(cmd, n, cmd.todo), AnswersComeLast(cmd, cmd.todo),
         NEW c, c = cmd, NEW todo, todo = cmd.todo \ {p}
  PROVE  EvidenceTold(c, n, todo)'
<1> DEFINE q == NodePath("evidence", n)
           l == NodePath("llm_evidence", n)
<1>0. Planned(cmd) /\ Writes(p) /\ p \in cmd.todo /\ p \in RefineWrites(cmd)
      /\ (cmd.op = "import" => cmd.answer # NotDrafted)
  BY WritingTypes, WritesAre DEF Disturbs, TypeInv, CmdOK, Holds, Writes, NoAnswer
<1>1. Target(q) = q /\ Target(l) = q /\ q # l
  BY DEF Target, NodePath
<1> SUFFICES ASSUME q \notin todo, Whole(q)'
             PROVE  Tells(evidence(n)', n, c.adrs, Imported(c, l, todo))
  BY DEF EvidenceTold
<1>2. CASE Target(p) # q
  <2>1. Whole(q) /\ evidence(n)' = evidence(n)
    BY <1>2, OthersUnwritten DEF evidence
  <2>2. p # q /\ p # l
    BY <1>1, <1>2
  <2>3. q \notin cmd.todo /\ Imported(c, l, todo) = Imported(cmd, l, cmd.todo)
    BY <2>2 DEF Imported
  <2>4. QED BY <2>1, <2>3 DEF EvidenceTold
<1>3. CASE Target(p) = q /\ p = q
  <2>1. evidence(n)'.refinement = Refinement(cmd, n) /\ evidence(n)'.llm = NotDrafted
    BY <1>1, <1>3, EvidenceWritten DEF Disturbs, NodePath
  <2>2. Refinement(cmd, n) # NotRefined /\ Refinement(cmd, n).adr = cmd.adrs[n]
    BY <1>0, RefinementTypes, WithAdrType DEF Refinement
  <2>3. cmd.op = "import" /\ l \notin todo => n \notin cmd.answer.said.nodes
    BY <1>0, <1>1, <1>3 DEF AnswersComeLast
  <2>4. QED BY <2>1, <2>2, <2>3 DEF Tells, Imported
<1>4. CASE Target(p) = q /\ p = l
  <2>1. /\ Whole(q) /\ cmd.op = "import" /\ evidence(n)'.refinement = evidence(n).refinement
        /\ evidence(n)'.llm = cmd.answer
    BY <1>1, <1>4, EvidenceWritten DEF Disturbs, NodePath
  <2>2. q \notin cmd.todo
    BY <1>1, <1>4
  <2>3. n \in cmd.answer.said.nodes
    BY <1>0, <1>4, <2>1 DEF RefineWrites, NodePath, AdrPath, Path
  <2>4. QED BY <1>0, <1>4, <2>1, <2>2, <2>3 DEF EvidenceTold, Tells, Imported
<1>5. QED BY <1>0, <1>2, <1>3, <1>4, TargetIs

LEMMA ManifestToldStays ==
  ASSUME TypeInv, NEW p, WritesFile(p), Disturbs,
         ManifestTold(cmd, cmd.todo), AnswersComeLast(cmd, cmd.todo),
         NEW c, c = cmd, NEW todo, todo = cmd.todo \ {p}
  PROVE  ManifestTold(c, todo)'
<1> DEFINE q == Path("campaign")
           l == Path("llm_campaign")
<1>0. Planned(cmd) /\ Writes(p) /\ p \in cmd.todo /\ cmd \in CmdStates
  BY WritingTypes, WritesAre DEF Disturbs, TypeInv, CmdOK, Writes
<1>1. Target(q) = q /\ Target(l) = q /\ q # l
  BY DEF Target, NodePath, Path
<1> SUFFICES ASSUME q \notin todo, Whole(q)'
             PROVE  /\ campaign'.refinement = [adrs |-> c.adrs]
                    /\ campaign'.llm = Imported(c, l, todo)
  BY DEF ManifestTold
<1>2. CASE Target(p) # q
  <2>1. Whole(q) /\ campaign' = campaign
    BY <1>2, OthersUnwritten DEF campaign
  <2>2. p # q /\ p # l
    BY <1>1, <1>2
  <2>3. q \notin cmd.todo /\ Imported(c, l, todo) = Imported(cmd, l, cmd.todo)
    BY <2>2 DEF Imported
  <2>4. QED BY <2>1, <2>3 DEF ManifestTold
<1>3. CASE p = q
  <2>1. campaign' = RefinedManifest(cmd)
    BY <1>1, <1>3, ManifestWritten DEF Disturbs
  <2>2. campaign'.refinement = [adrs |-> cmd.adrs] /\ campaign'.llm = NotDrafted
    BY <1>0, <2>1, ManifestTypes
  <2>3. cmd.op = "import" => l \in todo
    BY <1>0, <1>1, <1>3 DEF AnswersComeLast
  <2>4. QED BY <2>2, <2>3 DEF Imported
<1>4. CASE p = l
  <2>1. /\ Whole(q) /\ cmd.op = "import" /\ campaign'.refinement = campaign.refinement
        /\ campaign'.llm = cmd.answer
    BY <1>1, <1>4, ManifestWritten DEF Disturbs, SameWork
  <2>2. q \notin cmd.todo
    BY <1>1, <1>4
  <2>3. QED BY <1>4, <2>1, <2>2 DEF ManifestTold, Imported
<1>5. QED BY <1>0, <1>2, <1>3, <1>4, TargetIs

LEMMA ProgressStays ==
  ASSUME TypeInv, NEW p, WritesFile(p), Disturbs, Progress(cmd, cmd.todo),
         NEW c, c = cmd, NEW todo, todo = cmd.todo \ {p}
  PROVE  Progress(c, todo)'
<1>1. AnswersComeLast(cmd, cmd.todo) /\ Writes(p)
  BY WritingTypes DEF Progress
<1>2. AnswersComeLast(c, todo)'
  <2>1. AnswersComeLast(cmd, cmd.todo \ {p})
    BY <1>1, AnswersComeLastStays
  <2>2. QED BY <2>1 DEF AnswersComeLast
<1>3. ASSUME NEW n \in Nodes PROVE GoalTold(c, n, todo)' /\ EvidenceTold(c, n, todo)'
  <2>1. GoalTold(cmd, n, cmd.todo) /\ EvidenceTold(cmd, n, cmd.todo)
    BY DEF Progress
  <2>2. GoalTold(c, n, todo)'
    BY <1>1, <2>1, GoalToldStays
  <2>3. EvidenceTold(c, n, todo)'
    BY <1>1, <2>1, EvidenceToldStays
  <2>4. QED BY <2>2, <2>3
<1>4. ManifestTold(c, todo)'
  <2>1. ManifestTold(cmd, cmd.todo)
    BY DEF Progress
  <2>2. QED BY <1>1, <2>1, ManifestToldStays
<1>5. QED BY <1>2, <1>3, <1>4 DEF Progress

LEMMA StoryEnds ==
  ASSUME NEW c, Progress(c, {})', c.op = "import" => c.answer.asked.adrs = c.adrs
  PROVE  Story'
<1> DEFINE told == IF c.op = "import" THEN c.answer ELSE NotDrafted
<1>1. \A p : Imported(c, p, {}) = told
  BY DEF Imported
<1>2. Whole(Path("campaign"))' =>
        campaign'.refinement = [adrs |-> c.adrs] /\ campaign'.llm = told
  BY <1>1 DEF Progress, ManifestTold
<1>3. ASSUME NEW n \in Nodes
      PROVE  /\ Whole(NodePath("goal", n))' => Tells(goal(n)', n, c.adrs, told)
             /\ Whole(NodePath("evidence", n))' => Tells(evidence(n)', n, c.adrs, told)
  <2>1. GoalTold(c, n, {})' /\ EvidenceTold(c, n, {})'
    BY DEF Progress
  <2>2. QED BY <1>1, <2>1 DEF GoalTold, EvidenceTold
<1>4. told # NotDrafted => told.asked.adrs = c.adrs
  OBVIOUS
<1> HIDE DEF told
<1>5. QED BY <1>2, <1>3, <1>4 DEF Story

LEMMA WritesBegin ==
  ASSUME TypeInv, Disturbs, cmd.step # "plan"
  PROVE  Progress(cmd, RefineWrites(cmd))
<1>1. \A n \in Nodes : NodePath("goal", n) \in RefineWrites(cmd)
                       /\ NodePath("evidence", n) \in RefineWrites(cmd)
  BY DEF RefineWrites
<1>2. Path("campaign") \in RefineWrites(cmd)
  BY DEF RefineWrites
<1>3. AnswersComeLast(cmd, RefineWrites(cmd))
  BY DEF RefineWrites, AnswersComeLast
<1>4. QED BY <1>1, <1>2, <1>3 DEF Progress, GoalTold, EvidenceTold, ManifestTold

LEMMA StoryInit == Init => StoryInv
<1> SUFFICES ASSUME Init PROVE StoryInv
  OBVIOUS
<1>1. Whole(Path("campaign")) => campaign.refinement = NotRefined
  <2>1. CASE file = Empty
    BY <2>1 DEF Empty, Whole
  <2>2. CASE file = Scaffold
    BY <2>2, PathsAre DEF Scaffold, Whole, campaign, Draft, DraftCampaign
  <2>3. CASE file = WorkedThrough
    BY <2>3, PathsAre DEF WorkedThrough, Whole, campaign, DraftCampaign
  <2>4. QED BY <2>1, <2>2, <2>3 DEF Init
<1>2. QED BY <1>1 DEF Init, StoryInv, Story, Idle, Disturbs

LEMMA StoryCommand ==
  ASSUME TypeInv, HeldInv, StoryInv, Commands
  PROVE  StoryInv'
<1>0. ASSUME file' = file, Story PROVE Story'
  BY <1>0, StoryStays DEF Whole, campaign, goal, evidence
<1>1. CASE Begins
  <2>1. /\ file' = file /\ alone' = alone /\ halfway' = halfway /\ cmd = Idle
        /\ ~cmd'.wrote /\ cmd'.step # "write"
    BY <1>1, BeginIs
  <2>2. alone' /\ ~halfway' => Story
    BY <2>1 DEF StoryInv, Idle, Disturbs
  <2>3. QED BY <1>0, <2>1, <2>2 DEF StoryInv
<1>2. CASE Checks \/ Creates
  <2>1. /\ file' = file /\ alone' = alone /\ halfway' = halfway
        /\ cmd.step # "write"
    BY <1>2, CheckIs, CreateIs DEF Checks, CheckInit, PlanRefine, CheckRefine, HasIssues,
       BeadsStep, CheckImport, CheckReady
  <2>2. ~cmd.wrote /\ (alone' /\ ~halfway' => Story')
    BY <1>0, <2>1 DEF StoryInv
  <2>3. CASE cmd' = Idle
    BY <2>2, <2>3, StoryIdle
  <2>4. CASE cmd' # Idle
    <3>1. /\ cmd'.wrote => cmd'.step = "write"
          /\ Disturbs' /\ cmd'.step = "write" =>
               /\ Disturbs /\ cmd.step # "plan" /\ SameCommand(cmd', cmd)
               /\ cmd'.todo = RefineWrites(cmd)
               /\ cmd.op = "import" => AnswerFits(cmd)
      <4>1. CASE Checks
        BY <2>2, <2>4, <4>1, CheckIs DEF SameCommand, Disturbs
      <4>2. CASE Creates
        BY <2>2, <2>4, <4>2, CreateIs DEF SameCommand
      <4>3. QED BY <1>2, <4>1, <4>2
    <3>2. ASSUME Disturbs', cmd'.step = "write" PROVE Progress(cmd, cmd.todo)'
      <4>1. Progress(cmd, RefineWrites(cmd)) /\ SameCommand(cmd', cmd)
            /\ cmd'.todo = RefineWrites(cmd)
        BY <3>1, <3>2, WritesBegin
      <4>2. QED BY <2>1, <4>1 DEF Progress, GoalTold, EvidenceTold, ManifestTold, AnswersComeLast,
                     Imported, SameCommand, Whole, campaign, goal, evidence
    <3>3. cmd'.op = "import" /\ cmd'.step = "write" => cmd'.answer.asked.adrs = cmd'.adrs
      BY <3>1 DEF SameCommand, AnswerFits, Prompt, Disturbs
    <3>4. QED BY <2>2, <3>1, <3>2, <3>3 DEF StoryInv
  <2>5. QED BY <2>3, <2>4
<1>3. CASE Promote
  <2>1. /\ cmd' = Idle /\ alone' = alone /\ halfway' = halfway
        /\ cmd.op = "ready" /\ cmd.step = "promote"
        /\ file' = With(file, Path("campaign"), [cmd.campaign EXCEPT !.status = "ready"])
        /\ campaign'.refinement = cmd.campaign.refinement
        /\ campaign'.llm = cmd.campaign.llm /\ Whole(Path("campaign"))'
    BY <1>3, PromoteIs DEF SameWork
  <2>2. Whole(Path("campaign")) /\ (alone => campaign = cmd.campaign)
    BY <2>1 DEF TypeInv, HeldInv, Steady
  <2>3. \A n \in Nodes :
          /\ Whole(NodePath("goal", n))' => Whole(NodePath("goal", n)) /\ goal(n)' = goal(n)
          /\ Whole(NodePath("evidence", n))' =>
               Whole(NodePath("evidence", n)) /\ evidence(n)' = evidence(n)
    BY <2>1 DEF With, Whole, goal, evidence, NodePath, Path
  <2>4. alone /\ ~halfway => Story
    BY <2>1 DEF StoryInv, Disturbs
  <2>5. alone' /\ ~halfway' => Story'
    BY <2>1, <2>2, <2>3, <2>4 DEF Story
  <2>6. QED BY <2>1, <2>5, StoryIdle
<1>4. QED BY <1>1, <1>2, <1>3 DEF Commands, Begins, Checks, Creates

LEMMA StoryWriting ==
  ASSUME TypeInv, HeldInv, StoryInv, Writing
  PROVE  StoryInv'
<1>1. PICK p \in cmd.todo : WritesFile(p)
  BY DEF Writing, WritesFile
<1>2. Writes(p) /\ Wrote(p) /\ alone' = alone /\ cmd.step = "write"
  BY <1>1, WritingTypes, WroteIs
<1>3. CASE cmd.op = "init"
  <2>1. alone => Story'
    <3> SUFFICES ASSUME alone, Whole(Path("campaign"))' PROVE campaign'.refinement = NotRefined
      BY DEF Story
    <3>1. InitIsFree(cmd.campaign.spec)
      BY <1>2, <1>3 DEF HeldInv, Steady
    <3>2. campaign' = Draft(cmd.campaign.spec, Path("campaign"))
      BY <1>1, <1>3, <3>1, DraftsHeld DEF DraftPaths, Whole, campaign
    <3>3. QED BY <3>2, PathsAre DEF Draft, DraftCampaign
  <2>2. CASE cmd' = Idle
    BY <1>2, <2>1, <2>2, StoryIdle
  <2>3. CASE cmd' # Idle
    <3>1. cmd'.op = "init" /\ cmd'.step = "write"
      BY <1>2, <1>3, <2>3, WroteIs
    <3>2. QED BY <1>2, <2>1, <3>1 DEF StoryInv, Disturbs
  <2>4. QED BY <2>2, <2>3
<1>4. CASE Disturbs
  <2>1. ASSUME alone, NEW c, c = cmd, NEW todo, todo = cmd.todo \ {p}
        PROVE  Progress(c, todo)'
    BY <1>1, <1>2, <1>4, <2>1, ProgressStays DEF StoryInv
  <2>2. cmd.op = "import" => cmd.answer.asked.adrs = cmd.adrs
    BY <1>2 DEF StoryInv
  <2>3. CASE cmd' = Idle
    <3>1. cmd.todo \ {p} = {}
      BY <1>2, <2>3, WroteIs DEF Idle
    <3>2. alone => Story'
      <4> SUFFICES ASSUME alone PROVE Story'
        OBVIOUS
      <4>1. PICK c : c = cmd
        OBVIOUS
      <4>2. Progress(c, {})' /\ (c.op = "import" => c.answer.asked.adrs = c.adrs)
        BY <2>1, <2>2, <3>1, <4>1
      <4>3. QED BY <4>2, StoryEnds
    <3>3. QED BY <1>2, <2>3, <3>2, StoryIdle
  <2>4. CASE cmd' # Idle
    <3>1. /\ cmd'.step = "write" /\ cmd'.todo = cmd.todo \ {p} /\ cmd'.op = cmd.op
          /\ cmd'.wrote /\ cmd'.goals = cmd.goals /\ cmd'.adrs = cmd.adrs
          /\ cmd'.answer = cmd.answer
      BY <1>2, <2>4, WroteIs
    <3>2. alone => Progress(cmd, cmd.todo)'
      <4> SUFFICES ASSUME alone PROVE Progress(cmd, cmd.todo)'
        OBVIOUS
      <4>1. PICK c, todo : c = cmd /\ todo = cmd.todo \ {p}
        OBVIOUS
      <4>2. Progress(c, todo)' /\ todo = cmd'.todo /\ cmd'.op = c.op /\ cmd'.adrs = c.adrs
            /\ cmd'.answer = c.answer
        BY <2>1, <3>1, <4>1
      <4>3. QED BY <4>2 DEF Progress, GoalTold, EvidenceTold, ManifestTold, AnswersComeLast, Imported
    <3>3. QED BY <1>2, <1>4, <2>2, <3>1, <3>2 DEF StoryInv, Disturbs
  <2>5. QED BY <2>3, <2>4
<1>5. QED BY <1>2, <1>3, <1>4 DEF Writes, Disturbs

LEMMA StoryStep == TypeInv /\ HeldInv /\ StoryInv /\ [Next]_vars => StoryInv'
<1> SUFFICES ASSUME TypeInv, HeldInv, StoryInv, [Next]_vars PROVE StoryInv'
  OBVIOUS
<1>1. CASE People
  <2>1. /\ cmd' = cmd /\ halfway' = halfway /\ (alone' => alone /\ cmd = Idle) /\ FilesKept
    BY <1>1, PeopleKeep
  <2>2. ASSUME Story PROVE Story'
    <3> SUFFICES ASSUME Whole(Path("campaign"))', campaign'.refinement # NotRefined
                 PROVE  /\ campaign'.llm # NotDrafted =>
                             campaign'.llm.asked.adrs = campaign'.refinement.adrs
                        /\ \A n \in Nodes :
                             /\ Whole(NodePath("goal", n))' =>
                                  Tells(goal(n)', n, campaign'.refinement.adrs, campaign'.llm)
                             /\ Whole(NodePath("evidence", n))' =>
                                  Tells(evidence(n)', n, campaign'.refinement.adrs, campaign'.llm)
      BY DEF Story
    <3>1. Whole(Path("campaign")) /\ campaign'.refinement = campaign.refinement
          /\ campaign'.llm = campaign.llm
      BY <2>1 DEF FilesKept, SameRecord, SameWork
    <3>2. ASSUME NEW n \in Nodes, Whole(NodePath("goal", n))'
          PROVE  Tells(goal(n)', n, campaign'.refinement.adrs, campaign'.llm)
      <4>1. Whole(NodePath("goal", n)) /\ MaySettle(goal(n), goal(n)')
        BY <2>1, <3>2 DEF FilesKept
      <4>2. Tells(goal(n), n, campaign.refinement.adrs, campaign.llm)
        BY <2>2, <3>1, <4>1 DEF Story
      <4>3. goal(n).refinement \in Refinements
        BY <4>1, WholeTypes DEF TypeInv, Goals
      <4>4. QED BY <3>1, <4>1, <4>2, <4>3, SettledRefinement DEF Tells, MaySettle
    <3>3. ASSUME NEW n \in Nodes, Whole(NodePath("evidence", n))'
          PROVE  Tells(evidence(n)', n, campaign'.refinement.adrs, campaign'.llm)
      <4>1. Whole(NodePath("evidence", n)) /\ MaySettle(evidence(n), evidence(n)')
        BY <2>1, <3>3 DEF FilesKept
      <4>2. Tells(evidence(n), n, campaign.refinement.adrs, campaign.llm)
        BY <2>2, <3>1, <4>1 DEF Story
      <4>3. evidence(n).refinement \in Refinements
        BY <4>1, WholeTypes DEF TypeInv, EvidencePlans
      <4>4. QED BY <3>1, <4>1, <4>2, <4>3, SettledRefinement DEF Tells, MaySettle
    <3>4. QED BY <2>2, <3>1, <3>2, <3>3 DEF Story
  <2>3. CASE alone'
    <3>1. cmd' = Idle /\ (~halfway' => Story')
      BY <2>1, <2>2, <2>3 DEF StoryInv, Idle, Disturbs
    <3>2. QED BY <3>1, StoryIdle
  <2>4. CASE ~alone'
    BY <2>1, <2>4 DEF StoryInv
  <2>5. QED BY <2>3, <2>4
<1>2. CASE Failures
  <2>1. /\ cmd' = Idle /\ alone' = alone
        /\ \A q : Whole(q)' => Whole(q) /\ file'[q] = file[q]
        /\ ~halfway' => ~halfway /\ ~(Disturbs /\ cmd.wrote)
    <3>1. halfway \in BOOLEAN
      BY DEF TypeInv, Rest
    <3>2. QED BY <1>2, <3>1, FailureIs DEF Disturbs
  <2>2. alone' /\ ~halfway' => Story'
    <3> SUFFICES ASSUME alone', ~halfway' PROVE Story'
      OBVIOUS
    <3>1. Story
      BY <2>1 DEF StoryInv
    <3>2. QED BY <2>1, <3>1, StoryStays DEF campaign, goal, evidence
  <2>3. QED BY <2>1, <2>2, StoryIdle
<1>3. CASE UNCHANGED vars
  <2>1. file' = file /\ cmd' = cmd /\ alone' = alone /\ halfway' = halfway
    BY <1>3 DEF vars
  <2>2. Story => Story'
    BY <2>1, StoryStays DEF Whole, campaign, goal, evidence
  <2>3. Progress(cmd, cmd.todo) => Progress(cmd, cmd.todo)'
    BY <2>1 DEF Progress, GoalTold, EvidenceTold, ManifestTold, AnswersComeLast, Imported, Whole,
                campaign, goal, evidence
  <2>4. QED BY <2>1, <2>2, <2>3 DEF StoryInv, Disturbs
<1>4. QED BY <1>1, <1>2, <1>3, StoryCommand, StoryWriting DEF Next

(* Whenever no command runs and the last to write ended well, manifest,    *)
(* goals and plans tell of one refinement, and of one answer or of none,   *)
(* for any replies of the model, as long as nobody edited during a command.*)
THEOREM StoriesAgree == Spec => []RefinementsAgree
<1>1. StoryInv => RefinementsAgree
  BY DEF StoryInv, Story, Tells, RefinementsAgree, Idle, Disturbs
<1>2. QED BY <1>1, TypeInit, TypeStep, HeldInit, HeldStep, StoryInit, StoryStep, PTL DEF Spec

----------------------------------------------------------------------------
(* Decisions.  A node that counts as a decision has had a number since it  *)
(* was refined, and the manifest declares a record under every number its  *)
(* refinement gave, whoever edited what.                                   *)

LooksDecided(g) ==
  \/ g.compiler.class = "decision" \/ "needs_decision" \in g.compiler.routes
  \/ /\ g.refinement # NotRefined
     /\ g.refinement.class = "decision" \/ "needs_decision" \in g.refinement.routes
Numbered(g) == g.refinement # NotRefined /\ LooksDecided(g) => g.refinement.adr # 0
Decides(b) == b.state = "needs_decision" \/ b.class = "decision"
OnRecord(c) == c.refinement # NotRefined => PlannedDecisions(c.refinement) \subseteq c.adrs

DecisionInv ==
  /\ \A n \in Nodes : Whole(NodePath("goal", n)) => Numbered(goal(n))
  /\ Disturbs /\ cmd.step # "plan" =>
       \A n \in Nodes : Decides(cmd.goals[n].compiler) => cmd.adrs[n] # 0
  /\ Whole(Path("campaign")) => OnRecord(campaign)
  /\ cmd.campaign \in Campaigns => OnRecord(cmd.campaign)

LEMMA DecisionIdle ==
  ASSUME cmd' = Idle, \A n \in Nodes : Whole(NodePath("goal", n))' => Numbered(goal(n)'),
         Whole(Path("campaign"))' => OnRecord(campaign')
  PROVE  DecisionInv'
BY NotReadIsNoManifest DEF DecisionInv, Idle, Disturbs

LEMMA SettlingStaysNumbered ==
  ASSUME NEW g \in Goals, NEW h, Numbered(g), MaySettle(g, h),
         h.compiler = g.compiler \/ h.compiler = SettledBlock(g.compiler)
  PROVE  Numbered(h)
<1>1. g.compiler \in KnownBlocks /\ g.refinement \in Refinements
  BY DEF Goals
<1>2. /\ h.refinement # NotRefined => g.refinement # NotRefined
      /\ h.refinement # NotRefined =>
           /\ h.refinement.adr = g.refinement.adr /\ h.refinement.class = g.refinement.class
           /\ h.refinement.routes = g.refinement.routes \/ h.refinement.routes = {}
  BY <1>1, SettledRefinement DEF MaySettle
<1>3. h.compiler.class = g.compiler.class
      /\ (h.compiler.routes = g.compiler.routes \/ h.compiler.routes = {})
  BY <1>1, BlockTypes
<1>4. QED BY <1>2, <1>3 DEF Numbered, LooksDecided

LEMMA DraftIsNumbered == \A v, n : DraftGoal(v, n).refinement = NotRefined
BY DEF DraftGoal

LEMMA DecisionInit == Init => DecisionInv
<1> SUFFICES ASSUME Init PROVE DecisionInv
  OBVIOUS
<1>1. \A n \in Nodes : NodePath("goal", n)[1] = "goal" /\ NodePath("goal", n)[2] = n
  BY PathsAre
<1>2. /\ Whole(Path("campaign")) => campaign.refinement = NotRefined
      /\ \A n \in Nodes : Whole(NodePath("goal", n)) => goal(n).refinement = NotRefined
  <2>1. CASE file = Empty
    BY <2>1 DEF Empty, Whole
  <2>2. CASE file = Scaffold
    BY <1>1, <2>2, PathsAre DEF Scaffold, Whole, campaign, goal, Draft, DraftCampaign, DraftGoal
  <2>3. CASE file = WorkedThrough
    BY <1>1, <2>3, PathsAre DEF WorkedThrough, Whole, campaign, goal, DraftCampaign, DraftGoal
  <2>4. QED BY <2>1, <2>2, <2>3 DEF Init
<1>3. QED BY <1>2, NotReadIsNoManifest DEF Init, DecisionInv, Numbered, OnRecord, Idle, Disturbs

LEMMA DecisionCommand ==
  ASSUME TypeInv, DecisionInv, Commands
  PROVE  DecisionInv'
<1>0. ASSUME file' = file
      PROVE  /\ \A n \in Nodes : Whole(NodePath("goal", n))' => Numbered(goal(n)')
             /\ Whole(Path("campaign"))' => OnRecord(campaign')
  BY <1>0 DEF DecisionInv, Whole, campaign, goal
<1>1. CASE Begins
  <2>1. /\ file' = file /\ (Disturbs' => cmd'.step = "plan")
        /\ cmd'.campaign = DraftCampaign(primary) \/ cmd'.campaign = NotRead
    BY <1>1, BeginIs DEF Disturbs
  <2>2. cmd'.campaign \in Campaigns => OnRecord(cmd'.campaign)
    BY <2>1, NotReadIsNoManifest DEF OnRecord, DraftCampaign
  <2>3. QED BY <1>0, <2>1, <2>2 DEF DecisionInv
<1>2. CASE Checks \/ Creates
  <2>1. /\ file' = file
        /\ \/ cmd' = Idle
           \/ /\ cmd'.campaign = cmd.campaign
                 \/ (cmd'.campaign = campaign /\ Whole(Path("campaign")))
              /\ \/ ~Disturbs'
                 \/ Disturbs /\ cmd.step # "plan" /\ SameCommand(cmd', cmd)
                 \/ cmd'.goals = [n \in Nodes |-> goal(n)] /\ cmd'.adrs = PlannedAdrs
    BY <1>2, CheckIs, CreateIs DEF SameCommand, ReadsAll, TypeInv, Disturbs
  <2>2. CASE cmd' = Idle
    BY <1>0, <2>1, <2>2, DecisionIdle
  <2>3. CASE cmd' # Idle
    <3>1. cmd'.campaign \in Campaigns => OnRecord(cmd'.campaign)
      BY <2>1, <2>3 DEF DecisionInv
    <3>2. ASSUME Disturbs', NEW n \in Nodes, Decides(cmd'.goals[n].compiler)
          PROVE  cmd'.adrs[n] # 0
      <4>1. CASE Disturbs /\ cmd.step # "plan" /\ SameCommand(cmd', cmd)
        BY <3>2, <4>1 DEF DecisionInv, SameCommand
      <4>2. CASE cmd'.goals = [m \in Nodes |-> goal(m)] /\ cmd'.adrs = PlannedAdrs
        <5>1. NeedsAdr(n)
          BY <3>2, <4>2 DEF Decides, NeedsAdr
        <5>2. QED BY <4>2, <5>1, PlannedAdrsAre DEF TypeInv
      <4>3. QED BY <2>1, <2>3, <3>2, <4>1, <4>2
    <3>3. QED BY <1>0, <2>1, <3>1, <3>2 DEF DecisionInv
  <2>4. QED BY <2>2, <2>3
<1>3. CASE Promote
  <2>1. /\ cmd' = Idle /\ cmd.campaign \in Campaigns /\ SameWork(campaign', cmd.campaign)
        /\ file' = With(file, Path("campaign"), [cmd.campaign EXCEPT !.status = "ready"])
    BY <1>3, PromoteIs
  <2>2. \A n \in Nodes :
          Whole(NodePath("goal", n))' => Whole(NodePath("goal", n)) /\ goal(n)' = goal(n)
    BY <2>1 DEF With, Whole, goal, NodePath, Path
  <2>3. OnRecord(campaign')
    BY <2>1 DEF DecisionInv, OnRecord, SameWork
  <2>4. QED BY <2>1, <2>2, <2>3, DecisionIdle DEF DecisionInv
<1>4. QED BY <1>1, <1>2, <1>3 DEF Commands, Begins, Checks, Creates

LEMMA DecisionWriting ==
  ASSUME TypeInv, DecisionInv, Writing
  PROVE  DecisionInv'
<1>1. PICK p \in cmd.todo : WritesFile(p)
  BY DEF Writing, WritesFile
<1>2. Writes(p) /\ Wrote(p) /\ cmd.step = "write" /\ cmd \in CmdStates
  BY <1>1, WritingTypes, WroteIs DEF TypeInv, CmdOK
<1>3. ASSUME NEW n \in Nodes, Whole(NodePath("goal", n))' PROVE Numbered(goal(n)')
  <2>1. CASE Target(p) # NodePath("goal", n)
    BY <1>1, <1>3, <2>1, OthersUnwritten DEF DecisionInv, goal
  <2>2. CASE goal(n)' = Draft(cmd.campaign.spec, NodePath("goal", n))
    BY <2>2, PathsAre, DraftIsNumbered DEF Draft, Numbered
  <2>3. CASE /\ Disturbs /\ Planned(cmd) /\ goal(n)'.compiler = cmd.goals[n].compiler
             /\ goal(n)'.refinement = Refinement(cmd, n)
    <3> DEFINE b == cmd.goals[n].compiler
    <3>1. b \in KnownBlocks /\ cmd.adrs[n] \in Nat
      BY <2>3, RefinementTypes
    <3>2. ("needs_decision" \in b.routes => b.state = "needs_decision")
          /\ goal(n)'.refinement.class = b.class /\ goal(n)'.refinement.routes = b.routes
          /\ goal(n)'.refinement.adr = cmd.adrs[n]
      BY <2>3, <3>1, BlockTypes, WithAdrType DEF Refinement
    <3>3. Decides(b) => cmd.adrs[n] # 0
      BY <1>2, <2>3 DEF DecisionInv
    <3>4. QED BY <2>3, <3>2, <3>3 DEF Numbered, LooksDecided, Decides
  <2>4. CASE /\ Whole(NodePath("goal", n)) /\ goal(n)'.compiler = goal(n).compiler
             /\ goal(n)'.refinement = goal(n).refinement
    BY <2>4 DEF DecisionInv, Numbered, LooksDecided
  <2>5. QED BY <1>1, <2>1, <2>2, <2>3, <2>4, GoalWritten
<1>4. Whole(Path("campaign"))' => OnRecord(campaign')
  <2>1. CASE Target(p) # Path("campaign")
    BY <1>1, <2>1, OthersUnwritten DEF DecisionInv, campaign
  <2>2. CASE campaign' = DraftCampaign(cmd.campaign.spec)
    BY <2>2 DEF OnRecord, DraftCampaign
  <2>3. CASE Planned(cmd) /\ campaign' = RefinedManifest(cmd)
    <3>1. campaign'.refinement = [adrs |-> cmd.adrs]
          /\ campaign'.adrs = cmd.campaign.adrs \cup PlannedDecisions(cmd)
      BY <1>2, <2>3, ManifestTypes
    <3>2. PlannedDecisions(campaign'.refinement) = PlannedDecisions(cmd)
      BY <3>1 DEF PlannedDecisions
    <3>3. QED BY <3>1, <3>2 DEF OnRecord
  <2>4. CASE Whole(Path("campaign")) /\ SameWork(campaign', campaign)
    BY <2>4 DEF DecisionInv, OnRecord, SameWork
  <2>5. QED BY <1>1, <2>1, <2>2, <2>3, <2>4, ManifestWritten
<1>5. CASE cmd' = Idle
  BY <1>3, <1>4, <1>5, DecisionIdle
<1>6. CASE cmd' # Idle
  <2>1. /\ cmd'.op = cmd.op /\ cmd'.campaign = cmd.campaign
        /\ cmd'.goals = cmd.goals /\ cmd'.adrs = cmd.adrs
    BY <1>2, <1>6, WroteIs
  <2>2. QED BY <1>2, <1>3, <1>4, <2>1 DEF DecisionInv, Disturbs
<1>7. QED BY <1>5, <1>6

LEMMA DecisionStep == TypeInv /\ DecisionInv /\ [Next]_vars => DecisionInv'
<1> SUFFICES ASSUME TypeInv, DecisionInv, [Next]_vars PROVE DecisionInv'
  OBVIOUS
<1>1. CASE People
  <2>1. cmd' = cmd /\ FilesKept
    BY <1>1, PeopleKeep
  <2>2. ASSUME NEW n \in Nodes, Whole(NodePath("goal", n))' PROVE Numbered(goal(n)')
    <3>1. /\ Whole(NodePath("goal", n)) /\ MaySettle(goal(n), goal(n)')
          /\ \/ goal(n)'.compiler = goal(n).compiler
             \/ goal(n)'.compiler = SettledBlock(goal(n).compiler)
      BY <2>1, <2>2 DEF FilesKept
    <3>2. goal(n) \in Goals /\ Numbered(goal(n))
      BY <3>1, WholeTypes DEF TypeInv, DecisionInv
    <3>3. QED BY <3>1, <3>2, SettlingStaysNumbered
  <2>3. Whole(Path("campaign"))' => OnRecord(campaign')
    BY <2>1 DEF FilesKept, SameRecord, SameWork, DecisionInv, OnRecord
  <2>4. QED BY <2>1, <2>2, <2>3 DEF DecisionInv, Disturbs
<1>2. CASE Failures
  <2>1. cmd' = Idle /\ \A q : Whole(q)' => Whole(q) /\ file'[q] = file[q]
    BY <1>2, FailureIs
  <2>2. QED BY <2>1, DecisionIdle DEF DecisionInv, campaign, goal
<1>3. CASE UNCHANGED vars
  BY <1>3 DEF DecisionInv, Disturbs, Whole, campaign, goal, vars
<1>4. QED BY <1>1, <1>2, <1>3, DecisionCommand, DecisionWriting DEF Next

(* After a refine or an import that ended well, every node the readiness   *)
(* gate takes for a decision has a record that is declared and there: what *)
(* the gate reads follows from what refine reads, for every section a      *)
(* primary spec can have.                                                  *)
THEOREM DecisionsHaveRecords == Spec => []DecisionsAreCovered
<1>1. TypeInv /\ ClosedInv /\ StoryInv /\ DecisionInv => DecisionsAreCovered
  <2> SUFFICES ASSUME TypeInv, ClosedInv, StoryInv, DecisionInv, cmd = Idle, ~halfway, alone,
                      Whole(Path("campaign")), campaign.refinement # NotRefined,
                      NEW n \in Nodes, GoalLints(n), DecisionLike(n)
               PROVE  /\ goal(n).refinement # NotRefined /\ goal(n).refinement.adr # 0
                      /\ [node |-> n, number |-> goal(n).refinement.adr] \in campaign.adrs
                      /\ AdrPath(n, goal(n).refinement.adr) \in DOMAIN file
    BY DEF DecisionsAreCovered, HasDecisionAdr, Exists
  <2> DEFINE k == goal(n).refinement.adr
             a == [node |-> n, number |-> k]
  <2>1. Story /\ Whole(NodePath("goal", n))
    BY DEF StoryInv, Idle, Disturbs, GoalLints
  <2>2. goal(n).refinement # NotRefined /\ k = campaign.refinement.adrs[n]
    BY <2>1 DEF Story, Tells
  <2>3. LooksDecided(goal(n))
    BY <2>2 DEF DecisionLike, BlocksOf, LooksDecided
  <2>4. k # 0
    BY <2>1, <2>2, <2>3 DEF DecisionInv, Numbered
  <2>5. a \in campaign.adrs
    BY <2>2, <2>4 DEF DecisionInv, OnRecord, PlannedDecisions
  <2>6. a.node = n /\ a.number = k
    OBVIOUS
  <2>7. AdrPath(a.node, a.number) \in Declared(campaign)
    BY <2>5 DEF Declared, DeclaredAdrs
  <2>8. AdrPath(n, k) \in DOMAIN file
    BY <2>6, <2>7 DEF ClosedInv, Closed, There
  <2>9. QED BY <2>2, <2>4, <2>5, <2>8
<1>2. QED BY <1>1, TypeInit, TypeStep, HeldInit, HeldStep, ClosedInit, ClosedStep, StoryInit,
         StoryStep, DecisionInit, DecisionStep, PTL DEF Spec

----------------------------------------------------------------------------
(* The gate.  Once the gate has passed, it would pass again until somebody *)
(* edits or refine and import write; and these leave the manifest a draft. *)

GateInv ==
  ~stale =>
    /\ Whole(Path("campaign")) /\ campaign.status = "ready" /\ ~(Disturbs /\ cmd.wrote) => IsReady
    /\ cmd.op = "ready" /\ cmd.step = "promote" => IsReady
    /\ Disturbs /\ cmd.step = "write" /\ Path("campaign") \notin cmd.todo
       /\ Whole(Path("campaign")) => campaign.status = "draft"

LEMMA GateIdle ==
  ASSUME cmd' = Idle, ~stale' /\ Whole(Path("campaign"))' /\ campaign'.status = "ready" => IsReady'
  PROVE  GateInv'
BY DEF GateInv, Idle, Disturbs

LEMMA GateReadsFiles ==
  ASSUME file' = file
  PROVE  IsReady' <=> IsReady
BY DEF IsReady, LoopLints, GoalLints, EvidenceLints, NodeIsReady, NodeDeclares, GoalIsRefined,
       BlocksOf, EvidenceIsAligned, HasChildSpec, HasDecisionAdr, DecisionLike, HintsAreEdges,
       Exists, Whole, campaign, loop, goal, evidence

(* Of the manifest the gate reads what promotion leaves as it was.         *)
LEMMA PromotionPasses ==
  ASSUME campaign \in Campaigns, IsReady, NEW c, file' = With(file, Path("campaign"), c),
         c.status = "ready", c.needs = campaign.needs, c.plans = campaign.plans,
         c.specs = campaign.specs, c.adrs = campaign.adrs
  PROVE  IsReady'
<1>1. campaign' = c /\ DOMAIN file \subseteq DOMAIN file'
  BY DEF With, campaign
<1>2. \A p : p # Path("campaign") /\ Whole(p) => Whole(p)' /\ file'[p] = file[p]
  BY DEF With, Whole
<1>3. loop' = loop /\ Whole(Path("loop"))'
  BY <1>2 DEF IsReady, LoopLints, loop, Path
<1>4. ASSUME NEW n \in Nodes PROVE GoalLints(n)' /\ goal(n)' = goal(n)
  BY <1>2 DEF IsReady, GoalLints, goal, NodePath, Path
<1>5. LoopLints'
  BY <1>3, <1>4 DEF IsReady, LoopLints
<1>6. campaign.plans \subseteq Nodes
  BY DEF Campaigns
<1>7. ASSUME NEW n \in campaign.plans PROVE EvidenceLints(n)' /\ evidence(n)' = evidence(n)
  BY <1>2, <1>6 DEF IsReady, EvidenceLints, evidence, NodePath, Path
<1>8. ASSUME NEW n \in Nodes PROVE NodeIsReady(n)'
  <2>1. NodeIsReady(n) /\ goal(n)' = goal(n)
    BY <1>4 DEF IsReady
  <2>2. BlocksOf(n)' = BlocksOf(n)
    BY <2>1 DEF BlocksOf
  <2>3. NodeDeclares(n)' /\ GoalIsRefined(n)' /\ HintsAreEdges(n)'
    BY <1>1, <1>3, <2>1, <2>2 DEF NodeIsReady, NodeDeclares, GoalIsRefined, HintsAreEdges
  <2>4. EvidenceIsAligned(n)'
    BY <1>1, <1>7, <2>1 DEF NodeIsReady, EvidenceIsAligned
  <2>5. HasChildSpec(n)' /\ HasDecisionAdr(n)'
    BY <1>1, <2>1, <2>2 DEF NodeIsReady, HasChildSpec, HasDecisionAdr, DecisionLike, Exists
  <2>6. QED BY <2>3, <2>4, <2>5 DEF NodeIsReady
<1>9. QED BY <1>1, <1>4, <1>5, <1>7, <1>8 DEF IsReady, Promotable

LEMMA GateInit == Init => GateInv
BY DEF Init, GateInv

(* Commands before their first write.                                      *)
LEMMA NotYetWriting ==
  ASSUME TypeInv, StoryInv, Begins \/ Checks \/ Creates
  PROVE  ~cmd.wrote
BY DEF StoryInv, Begins, BeginInit, BeginRefine, BeginImport, BeginReady, Given, Idle, Checks,
       CheckInit, PlanRefine, CheckRefine, HasIssues, CheckImport, CheckReady, Creates,
       CreateEpic, CreateTask, CreateFails, BeadsStep

LEMMA GateCommand ==
  ASSUME TypeInv, HeldInv, StoryInv, GateInv, Commands
  PROVE  GateInv'
<1>1. CASE Begins \/ Checks \/ Creates
  <2>1. file' = file /\ ~cmd.wrote
    BY <1>1, NotYetWriting, BeginIs, CheckIs, CreateIs
  <2>2. /\ IsReady \/ (stale' = stale /\ ~(cmd'.op = "ready" /\ cmd'.step = "promote"))
        /\ Disturbs' /\ cmd'.step = "write" => Path("campaign") \in cmd'.todo
    <3>1. Path("campaign") \in RefineWrites(cmd)
      BY DEF RefineWrites
    <3>2. QED BY <1>1, <3>1, BeginIs, CheckIs, CreateIs DEF Idle, Disturbs, SameCommand
  <2>3. (IsReady' <=> IsReady) /\ campaign' = campaign
        /\ (Whole(Path("campaign"))' <=> Whole(Path("campaign")))
    BY <2>1, GateReadsFiles DEF campaign, Whole
  <2>4. QED BY <2>1, <2>2, <2>3 DEF GateInv
<1>2. CASE Promote
  <2>1. /\ cmd' = Idle /\ stale' = stale /\ cmd.op = "ready" /\ cmd.step = "promote"
        /\ file' = With(file, Path("campaign"), [cmd.campaign EXCEPT !.status = "ready"])
        /\ cmd.campaign \in Campaigns
    BY <1>2, PromoteIs
  <2>2. CASE stale
    BY <2>1, <2>2 DEF GateInv
  <2>3. CASE ~stale
    <3>1. campaign = cmd.campaign /\ IsReady
      BY <2>1, <2>3 DEF HeldInv, Steady, GateInv
    <3> DEFINE c == [cmd.campaign EXCEPT !.status = "ready"]
    <3>2. /\ c.status = "ready" /\ c.needs = campaign.needs /\ c.plans = campaign.plans
          /\ c.specs = campaign.specs /\ c.adrs = campaign.adrs
      BY <2>1, <3>1 DEF Campaigns
    <3>3. file' = With(file, Path("campaign"), c)
      BY <2>1
    <3> HIDE DEF c
    <3>4. IsReady'
      BY <2>1, <3>1, <3>2, <3>3, PromotionPasses
    <3>5. QED BY <2>1, <3>4, GateIdle
  <2>4. QED BY <2>2, <2>3
<1>3. QED BY <1>1, <1>2 DEF Commands, Begins, Checks, Creates

LEMMA GateWriting ==
  ASSUME TypeInv, HeldInv, GateInv, Writing
  PROVE  GateInv'
<1>1. PICK p \in cmd.todo : WritesFile(p)
  BY DEF Writing, WritesFile
<1>2. Writes(p) /\ Wrote(p) /\ cmd.step = "write" /\ stale' = stale /\ cmd \in CmdStates
  BY <1>1, WritingTypes, WroteIs DEF TypeInv, CmdOK
<1>3. ASSUME ~stale, cmd.op = "init", Whole(Path("campaign"))' PROVE campaign'.status = "draft"
  <2>1. InitIsFree(cmd.campaign.spec)
    BY <1>2, <1>3 DEF HeldInv, Steady
  <2>2. Path("campaign") \in DraftPaths /\ Path("campaign")[1] = "campaign"
    BY PathsAre DEF DraftPaths
  <2>3. campaign' = DraftCampaign(cmd.campaign.spec)
    BY <1>1, <1>3, <2>1, <2>2, DraftsHeld DEF campaign, Draft, Whole
  <2>4. QED BY <2>3 DEF DraftCampaign
<1>4. ASSUME ~stale, Disturbs, Path("campaign") \notin cmd.todo \ {p}, Whole(Path("campaign"))'
      PROVE  campaign'.status = "draft"
  <2>1. CASE Target(p) # Path("campaign")
    <3>1. p # Path("campaign")
      BY <2>1 DEF Target, Path
    <3>2. Whole(Path("campaign")) /\ campaign' = campaign
      BY <1>1, <1>4, <2>1, OthersUnwritten DEF campaign
    <3>3. QED BY <1>2, <1>4, <3>1, <3>2 DEF GateInv
  <2>2. CASE Planned(cmd) /\ campaign' = RefinedManifest(cmd)
    BY <1>2, <2>2, ManifestTypes
  <2>3. QED BY <1>1, <1>4, <2>1, <2>2, ManifestWritten DEF Disturbs
<1>5. CASE cmd' = Idle
  <2>1. cmd.todo = {p}
    BY <1>1, <1>2, <1>5, WroteIs DEF Idle
  <2>2. ~stale' /\ Whole(Path("campaign"))' => campaign'.status = "draft"
    BY <1>2, <1>3, <1>4, <2>1 DEF Writes, Disturbs
  <2>3. QED BY <1>5, <2>2, GateIdle
<1>6. CASE cmd' # Idle
  <2>1. cmd'.step = "write" /\ cmd'.todo = cmd.todo \ {p} /\ cmd'.op = cmd.op /\ cmd'.wrote
    BY <1>2, <1>6, WroteIs
  <2>2. QED BY <1>2, <1>3, <1>4, <2>1 DEF GateInv, Writes, Disturbs
<1>7. QED BY <1>5, <1>6

LEMMA GateFailure ==
  ASSUME TypeInv, HeldInv, GateInv, Failures
  PROVE  GateInv'
<1>0. cmd' = Idle
  BY FailureIs
<1> SUFFICES ASSUME ~stale', Whole(Path("campaign"))', campaign'.status = "ready"
             PROVE  IsReady'
  BY <1>0, GateIdle
<1>1. Whole(Path("campaign")) /\ campaign' = campaign
  BY FailureIs DEF campaign
<1>2. CASE file' = file /\ stale' = (stale \/ (Disturbs /\ cmd.wrote))
  BY <1>1, <1>2, GateReadsFiles DEF GateInv
<1>3. CASE file' = With(file, Path("campaign"), Torn)
  BY <1>3 DEF Whole, With
<1>4. ASSUME NEW p \in cmd.todo, Writes(p), stale' = (stale \/ Disturbs)
      PROVE  FALSE
  <2>1. cmd.op = "init" /\ cmd.step = "write" /\ ~stale
    BY <1>4 DEF Writes, Disturbs
  <2>2. InitIsFree(cmd.campaign.spec)
    BY <2>1 DEF HeldInv, Steady
  <2>3. Path("campaign") \in DraftPaths /\ Path("campaign")[1] = "campaign"
    BY PathsAre DEF DraftPaths
  <2>4. campaign = DraftCampaign(cmd.campaign.spec)
    BY <1>1, <2>2, <2>3 DEF InitIsFree, Free, Draft, campaign, Whole
  <2>5. QED BY <1>1, <2>4 DEF DraftCampaign
<1>5. QED BY <1>2, <1>3, <1>4, FailureIs

LEMMA GateStep == TypeInv /\ HeldInv /\ StoryInv /\ GateInv /\ [Next]_vars => GateInv'
<1> SUFFICES ASSUME TypeInv, HeldInv, StoryInv, GateInv, [Next]_vars PROVE GateInv'
  OBVIOUS
<1>0. ASSUME file' = file, cmd' = cmd, ~stale' => ~stale PROVE GateInv'
  BY <1>0, GateReadsFiles DEF GateInv, Whole, campaign, Disturbs
<1>1. CASE People
  <2>1. cmd' = cmd /\ (~stale' => ~stale /\ file' = file)
    BY <1>1, PeopleKeep
  <2>2. QED BY <1>0, <2>1 DEF GateInv
<1>2. CASE UNCHANGED vars
  BY <1>0, <1>2 DEF vars
<1>3. QED BY <1>1, <1>2, GateCommand, GateWriting, GateFailure DEF Next

(* A campaign that is ready has its work, for any primary spec and replies *)
(* of a model: the files the gate let pass, linted and all, stay so until  *)
(* somebody edits or a refine dies over them, and a refine that ends well  *)
(* makes the campaign a draft again.                                       *)
THEOREM ReadyCampaignsHaveTheirWork == Spec => []ReadyHasItsWork
<1>1. TypeInv /\ ClosedInv /\ GateInv => ReadyHasItsWork
  <2> SUFFICES ASSUME TypeInv, ClosedInv, GateInv, cmd = Idle, ~stale,
                      Whole(Path("campaign")), campaign.status = "ready"
               PROVE  ReadyHasItsWork
    BY DEF ReadyHasItsWork
  <2>1. IsReady /\ campaign \in Campaigns
    BY WholeTypes DEF GateInv, Idle, Disturbs, TypeInv
  <2>2. \A p \in Declared(campaign) : There(p)
    BY DEF ClosedInv, Closed
  <2>3. /\ campaign.needs = {} /\ LoopLints /\ \A n \in campaign.plans : EvidenceLints(n)
        /\ \A n \in Nodes : GoalLints(n) /\ NodeIsReady(n)
    BY <2>1 DEF IsReady
  <2>4. LoopIsClosed /\ Nodes \subseteq loop.linked
    BY <2>3 DEF LoopIsClosed, NodeIsReady, NodeDeclares
  <2>5. loop.linked = Nodes
    <3>1. loop \in Loops
      BY <2>3, WholeTypes DEF TypeInv, LoopLints
    <3>2. QED BY <2>4, <3>1 DEF Loops
  <2>6. Exists(SpecPaths(campaign.specs)) /\ Exists(DeclaredAdrs(campaign))
    BY <2>2 DEF Declared, There, Exists
  <2>7. CampaignLints
    BY <2>3, <2>4, <2>6 DEF CampaignLints, ArtifactsLint, Statuses
  <2>8. ASSUME NEW n \in Nodes
        PROVE  /\ ~goal(n).needs
               /\ goal(n).compiler.state \notin UnresolvedStates
               /\ goal(n).refinement.state \notin UnresolvedStates
               /\ evidence(n).goal = n
               /\ NodePath("spec", n) \in DOMAIN file
               /\ alone => Whole(NodePath("spec", n))
               /\ goal(n).refinement.class = "decision" =>
                    AdrPath(n, goal(n).refinement.adr) \in DOMAIN file
               /\ goal(n).llm # NotDrafted =>
                    {n} \X goal(n).llm.said.hints[n] \subseteq loop.deps
    <3>1. NodeIsReady(n) /\ n \in campaign.plans
      BY <2>3 DEF NodeIsReady, NodeDeclares
    <3>2. goal(n).refinement # NotRefined /\ n \in campaign.specs
      BY <3>1 DEF NodeIsReady, HasChildSpec
    <3>3. goal(n).compiler \in BlocksOf(n) /\ goal(n).refinement \in BlocksOf(n)
      BY <3>2 DEF BlocksOf
    <3>4. /\ ~goal(n).needs
          /\ goal(n).compiler.state \notin UnresolvedStates
          /\ goal(n).refinement.state \notin UnresolvedStates
      BY <3>1, <3>3 DEF NodeIsReady, GoalIsRefined, Resolved
    <3>5. evidence(n).goal = n
      BY <3>1 DEF NodeIsReady, EvidenceIsAligned
    <3>6. There(NodePath("spec", n))
      BY <2>2, <3>2 DEF Declared, SpecPaths
    <3>7. goal(n).refinement.class = "decision" =>
            AdrPath(n, goal(n).refinement.adr) \in DOMAIN file
      BY <3>1, <3>3 DEF NodeIsReady, HasDecisionAdr, DecisionLike, Exists
    <3>8. goal(n).llm # NotDrafted => {n} \X goal(n).llm.said.hints[n] \subseteq loop.deps
      BY <3>1 DEF NodeIsReady, HintsAreEdges
    <3>9. QED BY <3>4, <3>5, <3>6, <3>7, <3>8 DEF There
  <2>9. QED BY <2>3, <2>5, <2>7, <2>8 DEF ReadyHasItsWork
<1>2. QED BY <1>1, TypeInit, TypeStep, HeldInit, HeldStep, ClosedInit, ClosedStep, StoryInit,
         StoryStep, GateInit, GateStep, PTL DEF Spec
=============================================================================
