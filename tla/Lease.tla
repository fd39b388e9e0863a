------------------------------- MODULE Lease -------------------------------
(***************************************************************************)
(* What goal claims promise: a lock per goal with a deadline.  A goal has  *)
(* at most one holder; it passes from one agent to another only by being   *)
(* free in between; a holder keeps it no longer than the deadline of its   *)
(* latest claim.  Anyone may free a goal (dp goal release, verify and      *)
(* start-after-expiry take no part in who asks).                           *)
(***************************************************************************)
EXTENDS Naturals

CONSTANTS Goals, Agents, Nobody

VARIABLES clock, holder, deadline

vars == <<clock, holder, deadline>>

Init == /\ clock = 0
        /\ holder = [g \in Goals |-> Nobody]
        /\ deadline = [g \in Goals |-> 0]

(* Take a free goal, or claim one's own again, until a later time.         *)
Acquire(g, a) ==
  /\ holder[g] \in {Nobody, a}
  /\ holder' = [holder EXCEPT ![g] = a]
  /\ deadline'[g] \in Nat /\ deadline'[g] > clock
  /\ deadline' = [deadline EXCEPT ![g] = deadline'[g]]
  /\ UNCHANGED clock

Free(g) ==
  /\ holder' = [holder EXCEPT ![g] = Nobody]
  /\ deadline' = [deadline EXCEPT ![g] = 0]
  /\ UNCHANGED clock

(* Time frees every goal whose deadline it reaches, and no other.          *)
Lapsed(g) == deadline[g] <= clock + 1
Tick ==
  /\ clock' = clock + 1
  /\ holder' = [g \in Goals |-> IF Lapsed(g) THEN Nobody ELSE holder[g]]
  /\ deadline' = [g \in Goals |-> IF Lapsed(g) THEN 0 ELSE deadline[g]]

Next == \/ \E g \in Goals, a \in Agents : Acquire(g, a)
        \/ \E g \in Goals : Free(g)
        \/ Tick

Spec == Init /\ [][Next]_vars
=============================================================================
