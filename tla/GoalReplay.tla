----------------------------- MODULE GoalReplay -----------------------------
(***************************************************************************)
(* reconstruct_goal_state over any log the commands can have written.  The *)
(* log grows by one event per step; `life` and `tally` are the loop's      *)
(* variables after the whole log, for every clock value and every file     *)
(* content a reader may have, and `digest` is what the other modules keep  *)
(* of the log's lifecycle events.                                          *)
(***************************************************************************)
EXTENDS GoalEvents, FiniteSetsExt

CONSTANTS Clocks,   \* the clock values of readers, and of lease expiries
          MaxLog    \* bound: the longest log

ASSUME ClocksAreNaturals == Clocks \subseteq Nat
ASSUME MaxLogIsNatural == MaxLog \in Nat

VARIABLES log, life, tally, digest

vars == <<log, life, tally, digest>>

Init == /\ log = <<>>
        /\ life = [t \in Clocks |-> InitialLife]
        /\ tally = [v \in Versions |-> InitialTally]
        /\ digest = EmptyDigest

Append1(e) ==
  /\ Len(log) < MaxLog
  /\ log' = Append(log, e)
  /\ life' = [t \in Clocks |-> ReplayLife(life[t], e, t)]
  /\ tally' = [v \in Versions |-> ReplayTally(tally[v], e, v)]
  /\ digest' = Digested(digest, e)

Next == \E e \in Events(Clocks) : Append1(e)

Spec == Init /\ [][Next]_vars

----------------------------------------------------------------------------
(* The digest answers for the log: whatever the reader's clock, the loop   *)
(* ends in the lifecycle that View reads off the digest.                   *)
DigestAnswersForLog == \A t \in Clocks : life[t] = View(digest, t)

(* A lease seen live by a late reader was live, with the same holder, for  *)
(* every earlier reader of the same log: no reader sees a claim come back. *)
ExpiryNeverRevives ==
  \A s, t \in Clocks :
    (s <= t /\ LiveHolder(life[t]) # Nobody)
      => LiveHolder(life[s]) = LiveHolder(life[t])

(* Only a claim makes an agent the live holder of a goal, and only the     *)
(* agent named in it: no other event hands a lease over or revives one.    *)
OnlyClaimGrants ==
  [][\A t \in Clocks :
       LET h == LiveHolder(life[t])'
       IN  (h # Nobody /\ h # LiveHolder(life[t]))
             => log'[Len(log')].event = "claimed" /\ log'[Len(log')].agent = h
    ]_vars

Latest(kind) == Max({0} \cup {i \in DOMAIN log : log[i].event = kind})
CountAfter(i, kind) == Cardinality({j \in DOMAIN log : j > i /\ log[j].event = kind})

(* receipts_since_last_outcome_contact counts verified events after the    *)
(* latest contact, null before one (docs/reference/goal-state-machine.md,  *)
(* point 4); blocks_since_claim counts blocked events after the latest     *)
(* claim, whatever other events lie between.                               *)
CountsStartAtTheirReset ==
  LET contact == Latest("outcome_contact")
      claim   == Latest("claimed")
  IN  \A v \in Versions :
        /\ tally[v].receipts = IF contact = 0 THEN Uncounted
                               ELSE CountAfter(contact, "verified")
        /\ tally[v].blocks = CountAfter(claim, "blocked")

(* The two places that decide whether an outcome confirms a goal agree:    *)
(* the replayed current_outcome and the separate scan that goal verify     *)
(* reports as outcome_confirmed, also after edits back to an older content.*)
ConfirmationAgrees ==
  \A v \in Versions :
    OutcomeConfirmed(log, v) <=> tally[v].current \in ConfirmingClasses
=============================================================================
