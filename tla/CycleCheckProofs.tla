-------------------------- MODULE CycleCheckProofs --------------------------
(***************************************************************************)
(* The depth-first search of CycleCheck answers correctly on every graph.  *)
(*                                                                         *)
(* `acyclic` is right because the visited nodes only depend on visited     *)
(* nodes and hold no knot, which Return preserves; `cycle` is right        *)
(* because each call on the stack was made for a dependency of the call    *)
(* below it, so the calls from the node met again up to the top are a knot.*)
(***************************************************************************)
EXTENDS CycleCheck, SequenceTheorems, TLAPS

TypeInv ==
  /\ dependsOn \in [Nodes -> SUBSET Names]
  /\ pending \in SUBSET Nodes
  /\ stack \in Seq(Frames)
  /\ visiting \in SUBSET Nodes
  /\ visited \in SUBSET Nodes

StackInv ==
  /\ \A n \in visiting : \E i \in 1..Len(stack) : stack[i].node = n
  /\ \A i \in 1..Len(stack) - 1 : stack[i + 1].node \in dependsOn[stack[i].node]
  /\ \A i \in 1..Len(stack) :
       /\ stack[i].todo \subseteq dependsOn[stack[i].node]
       /\ \A d \in dependsOn[stack[i].node] \cap Nodes : d \in stack[i].todo \/ d \in visited

VisitedInv ==
  /\ \A n \in Nodes : n \in pending \/ n \in visited
  /\ \A n \in visited : dependsOn[n] \cap Nodes \subseteq visited
  /\ \A S \in SUBSET visited : ~Knot(S)

Inv == TypeInv /\ StackInv /\ VisitedInv /\ VerdictIsRight

(* A node whose dependencies are all visited, or no nodes, ties no knot    *)
(* with the visited ones.                                                  *)
LEMMA NoNewKnot ==
  ASSUME TypeInv, VisitedInv, NEW n \in Nodes, dependsOn[n] \cap Nodes \subseteq visited
  PROVE  \A S \in SUBSET (visited \cup {n}) : ~Knot(S)
<1> SUFFICES ASSUME NEW S \in SUBSET (visited \cup {n}), Knot(S)
             PROVE  FALSE
  OBVIOUS
<1>1. CASE n \in visited
  BY <1>1 DEF VisitedInv
<1>2. CASE n \notin visited
  <2> DEFINE R == S \cap visited
  <2>1. R # {}
    <3>1. PICK m \in S : TRUE
      BY DEF Knot
    <3>2. PICK k \in dependsOn[m] \cap S : TRUE
      BY <3>1 DEF Knot
    <3>3. k \in Nodes
      BY <3>2 DEF TypeInv
    <3>4. k \in visited
      <4>1. m = n \/ m \in visited
        OBVIOUS
      <4> QED BY <3>2, <3>3, <4>1 DEF VisitedInv
    <3> QED BY <3>2, <3>4
  <2>2. PICK m \in R : dependsOn[m] \cap R = {}
    BY <2>1 DEF VisitedInv, Knot
  <2>3. PICK k \in dependsOn[m] \cap S : TRUE
    BY <2>2 DEF Knot
  <2>4. k \in Nodes /\ k \in visited
    BY <2>2, <2>3 DEF TypeInv, VisitedInv
  <2> QED BY <2>2, <2>3, <2>4
<1> QED BY <1>1, <1>2

(* Meeting a node again whose visit is active closes a knot of calls.      *)
LEMMA StackKnot ==
  ASSUME TypeInv, StackInv, stack # <<>>, NEW d \in Nodes,
         d \in visiting, d \in dependsOn[Top.node]
  PROVE  \E S \in SUBSET Nodes : Knot(S)
<1>1. PICK b \in 1..Len(stack) : stack[b].node = d
  BY DEF StackInv
<1> DEFINE S == {stack[i].node : i \in b..Len(stack)}
<1>2. S \in SUBSET Nodes
  <2> SUFFICES ASSUME NEW i \in b..Len(stack) PROVE stack[i].node \in Nodes
    OBVIOUS
  <2>1. i \in 1..Len(stack)
    BY <1>1 DEF TypeInv
  <2>2. stack[i] \in Frames
    BY <2>1 DEF TypeInv
  <2> QED BY <2>2 DEF Frames
<1>3. d \in S
  <2>1. b \in b..Len(stack)
    BY <1>1 DEF TypeInv
  <2> QED BY <1>1, <2>1
<1>4. ASSUME NEW n \in S PROVE dependsOn[n] \cap S # {}
  <2>1. PICK i \in b..Len(stack) : n = stack[i].node
    OBVIOUS
  <2>2. CASE i = Len(stack)
    BY <1>3, <2>1, <2>2 DEF Top
  <2>3. CASE i # Len(stack)
    <3>1. i \in 1..Len(stack) - 1 /\ i + 1 \in b..Len(stack)
      BY <1>1, <2>3 DEF TypeInv
    <3>2. stack[i + 1].node \in dependsOn[n] /\ stack[i + 1].node \in S
      BY <2>1, <3>1 DEF StackInv
    <3> QED BY <3>2
  <2> QED BY <2>2, <2>3
<1> QED BY <1>2, <1>3, <1>4 DEF Knot

(* The loop of the top call goes through dependencies of its node.         *)
LEMMA TopIsOpen ==
  ASSUME Inv, stack # <<>>, NEW d \in Top.todo
  PROVE  d \in dependsOn[Top.node]
<1>1. Len(stack) \in 1..Len(stack)
  BY DEF Inv, TypeInv
<1> QED BY <1>1 DEF Top, Inv, StackInv

(* visit(n), for the first node or for a dependency of the top call.       *)
LEMMA EnterKeepsInv ==
  ASSUME Inv, NEW n \in Nodes, Enter(n), Running,
         stack # <<>> => n \in dependsOn[Top.node],
         UNCHANGED <<dependsOn, pending, verdict>>
  PROVE  Inv'
<1> DEFINE f == [node |-> n, todo |-> dependsOn[n]]
<1>1. f \in Frames /\ stack \in Seq(Frames)
  BY DEF Inv, TypeInv, Frames
<1>2. /\ stack' = Append(stack, f) /\ Len(stack') = Len(stack) + 1
      /\ stack'[Len(stack) + 1] = f
      /\ \A i \in 1..Len(stack) : stack'[i] = stack[i]
  BY <1>1 DEF Enter
<1>3. TypeInv'
  BY <1>1, <1>2 DEF Enter, Inv, TypeInv
<1>4. StackInv'
  <2>1. ASSUME NEW m \in visiting' PROVE \E i \in 1..Len(stack') : stack'[i].node = m
    <3>1. CASE m = n
      BY <1>1, <1>2, <3>1
    <3>2. CASE m \in visiting
      <4>1. PICK i \in 1..Len(stack) : stack[i].node = m
        BY <3>2 DEF Inv, StackInv
      <4> QED BY <1>1, <1>2, <4>1
    <3> QED BY <3>1, <3>2 DEF Enter
  <2>2. ASSUME NEW i \in 1..Len(stack') - 1
        PROVE  stack'[i + 1].node \in dependsOn'[stack'[i].node]
    <3>1. CASE i = Len(stack)
      BY <1>1, <1>2, <3>1 DEF Top
    <3>2. CASE i # Len(stack)
      <4>1. i \in 1..Len(stack) - 1 /\ i \in 1..Len(stack) /\ i + 1 \in 1..Len(stack)
        BY <1>1, <1>2, <3>2
      <4> QED BY <1>2, <4>1 DEF Inv, StackInv
    <3> QED BY <3>1, <3>2
  <2>3. ASSUME NEW i \in 1..Len(stack'),
               NEW d \in dependsOn'[stack'[i].node] \cap Nodes
        PROVE  d \in stack'[i].todo \/ d \in visited'
    <3>1. CASE i = Len(stack) + 1
      BY <1>2, <3>1
    <3>2. CASE i # Len(stack) + 1
      <4>1. i \in 1..Len(stack)
        BY <1>1, <1>2, <3>2
      <4> QED BY <1>2, <4>1 DEF Inv, StackInv, Enter
    <3> QED BY <3>1, <3>2
  <2>4. ASSUME NEW i \in 1..Len(stack')
        PROVE  stack'[i].todo \subseteq dependsOn'[stack'[i].node]
    <3>1. CASE i = Len(stack) + 1
      BY <1>2, <3>1
    <3>2. CASE i # Len(stack) + 1
      <4>1. i \in 1..Len(stack)
        BY <1>1, <1>2, <3>2
      <4> QED BY <1>2, <4>1 DEF Inv, StackInv
    <3> QED BY <3>1, <3>2
  <2> QED BY <2>1, <2>2, <2>3, <2>4 DEF StackInv
<1>5. VisitedInv' /\ VerdictIsRight'
  BY DEF Enter, Inv, VisitedInv, VerdictIsRight, Knot, Running
<1> QED BY <1>3, <1>4, <1>5 DEF Inv

(* A dependency whose visit has returned leaves the loop of the top call.  *)
LEMMA SkipKeepsInv ==
  ASSUME Inv, NEW d \in Names, Skip(d)
  PROVE  Inv'
<1> DEFINE k == Len(stack)
           f == [stack[k] EXCEPT !.todo = @ \ {d}]
<1>1. k \in Nat /\ k \in 1..k /\ stack \in Seq(Frames) /\ stack[k] \in Frames
  BY DEF Skip, Inv, TypeInv
<1>2. f \in Frames /\ f.node = stack[k].node /\ f.todo = stack[k].todo \ {d}
  BY <1>1 DEF Frames
<1>3. /\ Len(stack') = k /\ stack'[k] = f
      /\ \A i \in 1..k : i # k => stack'[i] = stack[i]
      /\ stack' \in Seq(Frames)
  <2>1. stack' = [stack EXCEPT ![k] = f]
    BY DEF Skip
  <2> HIDE DEF f
  <2> QED BY <1>1, <1>2, <2>1
<1>4. \A i \in 1..k : stack'[i].node = stack[i].node
  BY <1>2, <1>3
<1>5. TypeInv'
  BY <1>3 DEF Skip, Inv, TypeInv
<1>6. StackInv'
  <2>1. ASSUME NEW i \in 1..k, NEW e \in dependsOn'[stack'[i].node] \cap Nodes
        PROVE  e \in stack'[i].todo \/ e \in visited'
    <3>1. e \in stack[i].todo \/ e \in visited
      BY <1>4 DEF Skip, Inv, StackInv
    <3>2. CASE i = k
      BY <1>2, <1>3, <3>1, <3>2 DEF Skip
    <3>3. CASE i # k
      BY <1>3, <3>1, <3>3 DEF Skip
    <3> QED BY <3>2, <3>3
  <2>2. \A n \in visiting' : \E i \in 1..k : stack'[i].node = n
    BY <1>4 DEF Skip, Inv, StackInv
  <2>3. ASSUME NEW i \in 1..k - 1
        PROVE  stack'[i + 1].node \in dependsOn'[stack'[i].node]
    <3>1. i \in 1..k /\ i + 1 \in 1..k
      BY <1>1
    <3> QED BY <1>4, <3>1 DEF Skip, Inv, StackInv
  <2>4. ASSUME NEW i \in 1..k PROVE stack'[i].todo \subseteq dependsOn'[stack'[i].node]
    <3>1. stack[i].todo \subseteq dependsOn'[stack'[i].node]
      BY <1>4 DEF Skip, Inv, StackInv
    <3>2. stack'[i].todo \subseteq stack[i].todo
      BY <1>2, <1>3
    <3> QED BY <3>1, <3>2
  <2> QED BY <1>3, <2>1, <2>2, <2>3, <2>4 DEF StackInv
<1>7. VisitedInv' /\ VerdictIsRight'
  BY DEF Skip, Inv, VisitedInv, VerdictIsRight, Knot
<1> QED BY <1>5, <1>6, <1>7 DEF Inv

(* When visit returns, everything its node depends on has been visited.    *)
LEMMA ReturnKeepsInv ==
  ASSUME Inv, Return
  PROVE  Inv'
<1> DEFINE k == Len(stack)
           n == stack[k].node
<1>1. k \in Nat /\ k \in 1..k /\ stack \in Seq(Frames) /\ stack[k] \in Frames
  BY DEF Return, Inv, TypeInv
<1>2. n \in Nodes /\ n = Top.node /\ Top.todo = {} /\ Top = stack[k]
  BY <1>1 DEF Return, Top, Frames
<1>3. /\ Len(stack') = k - 1 /\ stack' \in Seq(Frames)
      /\ \A i \in 1..k - 1 : stack'[i] = stack[i]
  <2>1. stack' = SubSeq(stack, 1, k - 1)
    BY DEF Return
  <2>2. k - 1 \in Int /\ \A i \in 1..k - 1 : stack[i] \in Frames
    BY <1>1
  <2> DEFINE t == SubSeq(stack, 1, k - 1)
  <2>3. /\ t \in Seq(Frames)
        /\ Len(t) = IF 1 <= k - 1 THEN k - 1 - 1 + 1 ELSE 0
        /\ \A i \in 1..k - 1 - 1 + 1 : t[i] = stack[1 + i - 1]
    <3> HIDE DEF k
    <3> QED BY <2>2, SubSeqProperties
  <2>4. Len(t) = k - 1 /\ \A i \in 1..k - 1 : t[i] = stack[i]
    <3> HIDE DEF t, k
    <3> QED BY <1>1, <2>3
  <2> QED BY <2>1, <2>3, <2>4
<1>4. dependsOn[n] \cap Nodes \subseteq visited
  BY <1>1, <1>2 DEF Inv, StackInv
<1>5. TypeInv'
  BY <1>2, <1>3 DEF Return, Inv, TypeInv
<1>6. StackInv'
  <2>1. ASSUME NEW m \in visiting' PROVE \E i \in 1..k - 1 : stack'[i].node = m
    <3>1. m \in visiting /\ m # n
      BY <1>2 DEF Return
    <3>2. PICK i \in 1..k : stack[i].node = m
      BY <3>1 DEF Inv, StackInv
    <3>3. i \in 1..k - 1
      BY <1>1, <3>1, <3>2
    <3> QED BY <1>3, <3>2, <3>3
  <2>2. ASSUME NEW i \in 1..(k - 1) - 1
        PROVE  stack'[i + 1].node \in dependsOn'[stack'[i].node]
    <3>1. i \in 1..k - 1 /\ i + 1 \in 1..k - 1
      BY <1>1
    <3> QED BY <1>3, <3>1 DEF Return, Inv, StackInv
  <2>3. ASSUME NEW i \in 1..k - 1, NEW d \in dependsOn'[stack'[i].node] \cap Nodes
        PROVE  d \in stack'[i].todo \/ d \in visited'
    <3>1. i \in 1..k
      BY <1>1
    <3> QED BY <1>3, <3>1 DEF Return, Inv, StackInv
  <2>4. ASSUME NEW i \in 1..k - 1 PROVE stack'[i].todo \subseteq dependsOn'[stack'[i].node]
    <3>1. i \in 1..k
      BY <1>1
    <3> QED BY <1>3, <3>1 DEF Return, Inv, StackInv
  <2> QED BY <1>3, <2>1, <2>2, <2>3, <2>4 DEF StackInv
<1>7. VisitedInv'
  <2>1. visited' = visited \cup {n} /\ UNCHANGED <<dependsOn, pending>>
    BY <1>2 DEF Return
  <2>2. \A S \in SUBSET (visited \cup {n}) : ~Knot(S)
    BY <1>2, <1>4, NoNewKnot DEF Inv
  <2>3. \A S \in SUBSET visited' : ~Knot(S)'
    BY <2>1, <2>2 DEF Knot
  <2> QED BY <1>4, <2>1, <2>3 DEF Inv, VisitedInv
<1>8. VerdictIsRight'
  BY DEF Return, Running, Inv, VerdictIsRight
<1> QED BY <1>5, <1>6, <1>7, <1>8 DEF Inv

LEMMA InitHasInv == Init => Inv
BY DEF Init, Inv, TypeInv, StackInv, VisitedInv, VerdictIsRight, Knot, Frames

LEMMA StepKeepsInv == Inv /\ [Next]_vars => Inv'
<1> SUFFICES ASSUME Inv, [Next]_vars PROVE Inv'
  OBVIOUS
<1>1. ASSUME NEW n \in Nodes, Root(n) PROVE Inv'
  BY <1>1, EnterKeepsInv DEF Root
<1>2. ASSUME NEW n \in Nodes, NextRoot(n) PROVE Inv'
  BY <1>2 DEF NextRoot, Running, Inv, TypeInv, StackInv, VisitedInv, VerdictIsRight, Knot
<1>3. ASSUME NEW d \in Names, Descend(d) PROVE Inv'
  <2>1. d \in Nodes /\ d \in dependsOn[Top.node]
    BY <1>3, TopIsOpen DEF Descend
  <2> QED BY <1>3, <2>1, EnterKeepsInv DEF Descend
<1>4. ASSUME NEW d \in Names, Skip(d) PROVE Inv'
  BY <1>4, SkipKeepsInv
<1>5. ASSUME NEW d \in Names, CloseCycle(d) PROVE Inv'
  <2>1. d \in Nodes /\ d \in visiting /\ d \in dependsOn[Top.node]
    BY <1>5, TopIsOpen DEF CloseCycle, Inv, TypeInv
  <2>2. \E S \in SUBSET Nodes : Knot(S)
    BY <1>5, <2>1, StackKnot DEF CloseCycle, Inv
  <2>3. (\E S \in SUBSET Nodes : Knot(S))'
    BY <1>5, <2>2 DEF CloseCycle, Knot
  <2>4. VerdictIsRight'
    BY <1>5, <2>3 DEF CloseCycle, VerdictIsRight
  <2> QED BY <1>5, <2>4 DEF CloseCycle, Inv, TypeInv, StackInv, VisitedInv, Knot
<1>6. CASE Return
  BY <1>6, ReturnKeepsInv
<1>7. CASE Finish
  <2>1. visited = Nodes
    BY <1>7 DEF Finish, Inv, TypeInv, VisitedInv
  <2>2. VerdictIsRight'
    BY <1>7, <2>1 DEF Finish, Inv, VisitedInv, VerdictIsRight, Knot
  <2> QED BY <1>7, <2>2 DEF Finish, Inv, TypeInv, StackInv, VisitedInv, Knot
<1>8. CASE UNCHANGED vars
  BY <1>8 DEF vars, Inv, TypeInv, StackInv, VisitedInv, VerdictIsRight, Knot
<1> QED BY <1>1, <1>2, <1>3, <1>4, <1>5, <1>6, <1>7, <1>8 DEF Next

(* On every graph, the search that goes through sets in any order answers  *)
(* "cycle" exactly when some nodes each depend on one of them.             *)
THEOREM SearchIsRight == Spec => []VerdictIsRight
<1>1. Init => Inv
  BY InitHasInv
<1>2. Inv /\ [Next]_vars => Inv'
  BY StepKeepsInv
<1>3. Inv => VerdictIsRight
  BY DEF Inv
<1> QED BY <1>1, <1>2, <1>3, PTL DEF Spec

----------------------------------------------------------------------------
(* Why the search ends on a finite graph: each of its steps makes smaller, *)
(* in this order of importance, the nodes never visited, the nodes left to *)
(* the outer loop, the depth of the calls, and what the top call has still *)
(* to go through.                                                          *)

Unseen == Nodes \ (visited \cup visiting)
Shrinks(old, new) == new \subseteq old /\ new # old
Advances ==
  \/ Running /\ ~Running'
  \/ Shrinks(Unseen, Unseen')
  \/ Unseen' = Unseen /\ Shrinks(pending, pending')
  \/ Unseen' = Unseen /\ pending' = pending /\ Len(stack') < Len(stack)
  \/ /\ Unseen' = Unseen /\ pending' = pending /\ Len(stack') = Len(stack)
     /\ Shrinks(Top.todo, Top'.todo)

LEMMA EnterAdvances ==
  ASSUME NEW n \in Nodes, n \notin visited \cup visiting, Enter(n)
  PROVE  Advances
<1>1. Unseen' = Unseen \ {n} /\ n \in Unseen
  BY DEF Enter, Unseen
<1> QED BY <1>1 DEF Advances, Shrinks

LEMMA SkipAdvances ==
  ASSUME Inv, NEW d \in Names, Skip(d)
  PROVE  Advances
<1> DEFINE k == Len(stack)
<1>1. k \in 1..k /\ stack \in Seq(Frames) /\ stack[k] \in Frames
  BY DEF Skip, Inv, TypeInv
<1>2. stack' = [stack EXCEPT ![k].todo = @ \ {d}] /\ d \in stack[k].todo
  BY DEF Skip, Top
<1>3. Len(stack') = k
  BY <1>1, <1>2
<1>4. stack'[k].todo = stack[k].todo \ {d}
  BY <1>1, <1>2 DEF Frames
<1>5. Shrinks(Top.todo, Top'.todo)
  BY <1>2, <1>3, <1>4 DEF Top, Shrinks
<1> QED BY <1>3, <1>5 DEF Advances, Skip, Unseen

LEMMA ReturnAdvances ==
  ASSUME Inv, Return
  PROVE  Advances
<1> DEFINE k == Len(stack)
<1>1. k \in Nat /\ k \in 1..k /\ stack \in Seq(Frames) /\ stack[k] \in Frames
  BY DEF Return, Inv, TypeInv
<1>2. Len(stack') = k - 1
  <2> DEFINE t == SubSeq(stack, 1, k - 1)
  <2>1. \A i \in 1..k - 1 : stack[i] \in Frames
    BY <1>1
  <2>2. Len(t) = IF 1 <= k - 1 THEN k - 1 - 1 + 1 ELSE 0
    <3> HIDE DEF k
    <3> QED BY <1>1, <2>1, SubSeqProperties
  <2>3. stack' = t
    BY DEF Return
  <2> HIDE DEF t, k
  <2> QED BY <1>1, <2>2, <2>3
<1>3. Unseen' \subseteq Unseen
  BY DEF Return, Unseen
<1> HIDE DEF k
<1>4. Len(stack') < Len(stack) /\ pending' = pending
  BY <1>1, <1>2 DEF k, Return
<1> QED BY <1>3, <1>4 DEF Advances, Shrinks

(* Every step of the search gets on, on every graph, cyclic ones and those *)
(* with dependencies that do not resolve included: no step makes a node    *)
(* unseen again, gives the outer loop a node back, or deepens the calls    *)
(* without visiting a node for the first time.                             *)
THEOREM EveryStepAdvances == Spec => [][Advances]_vars
<1>1. Inv /\ [Next]_vars => [Advances]_vars
  <2> SUFFICES ASSUME Inv, Next PROVE Advances
    OBVIOUS
  <2>1. ASSUME NEW n \in Nodes, Root(n) PROVE Advances
    <3>1. visiting = {}
      BY <2>1 DEF Root, Inv, StackInv
    <3> QED BY <2>1, <3>1, EnterAdvances DEF Root
  <2>2. ASSUME NEW n \in Nodes, NextRoot(n) PROVE Advances
    <3>1. Shrinks(pending, pending') /\ Unseen' = Unseen
      BY <2>2 DEF NextRoot, Shrinks, Unseen
    <3> QED BY <3>1 DEF Advances
  <2>3. ASSUME NEW d \in Names, Descend(d) PROVE Advances
    BY <2>3, EnterAdvances DEF Descend
  <2>4. ASSUME NEW d \in Names, Skip(d) PROVE Advances
    BY <2>4, SkipAdvances
  <2>5. ASSUME NEW d \in Names, CloseCycle(d) PROVE Advances
    BY <2>5 DEF CloseCycle, Advances, Running
  <2>6. CASE Return
    BY <2>6, ReturnAdvances
  <2>7. CASE Finish
    BY <2>7 DEF Finish, Advances, Running
  <2> QED BY <2>1, <2>2, <2>3, <2>4, <2>5, <2>6, <2>7 DEF Next
<1> QED BY <1>1, InitHasInv, StepKeepsInv, PTL DEF Spec
=============================================================================
