----------------------------- MODULE GoalEvents -----------------------------
(***************************************************************************)
(* The goal event log of dp/core/goal_state.py: the events the commands    *)
(* append, the loop by which reconstruct_goal_state replays them, and a    *)
(* finite digest of a log from which every replay can be read off.         *)
(*                                                                         *)
(* Every dp command replays the whole log of a goal with the clock value   *)
(* it reads when it starts, so what one log MEANS depends on the reader's  *)
(* clock: a claim is stale for one reader and live for an earlier one.     *)
(* The loop keeps two groups of variables that never look at each other:   *)
(* the lifecycle (state, lease, blocked), which depends on the clock, and  *)
(* the tallies (receipts, outcomes, blocks), which depend on the digest of *)
(* the goal file.  Timestamps, refs and block reasons are left out.        *)
(***************************************************************************)
EXTENDS Integers, Sequences

CONSTANTS Agents,    \* the agents that claim goals
          Nobody,    \* "no holder"
          Versions   \* the contents a goal file has had (its sha256 digests)

ASSUME NobodyIsNoAgent == Nobody \notin Agents

Holders == Agents \cup {Nobody}

OutcomeClasses == {"useful", "mixed", "not_useful"}
ConfirmingClasses == {"useful", "mixed"}
NoClass == "none"                        \* Python's None for an outcome

States == {"ready", "claimed", "started", "pursuing", "blocked", "released",
           "evidence_pending", "verified"}

----------------------------------------------------------------------------
(* Events *)

Claimed(a, x) == [event |-> "claimed", agent |-> a, lease_expires_at |-> x]
Contact(c, v) == [event |-> "outcome_contact", class |-> c, goal_sha256 |-> v]
Plain(k) == [event |-> k]

PlainKinds == {"started", "heartbeat", "blocked", "released",
               "evidence_pending", "verified", "ratified"}

ClaimEvents(times) == {Claimed(a, x) : a \in Agents, x \in times}
ContactEvents == {Contact(c, v) : c \in OutcomeClasses, v \in Versions}
PlainEvents == {Plain(k) : k \in PlainKinds}
Events(times) == ClaimEvents(times) \cup ContactEvents \cup PlainEvents

----------------------------------------------------------------------------
(* The replay loop: lifecycle variables *)

NoLease == [holder |-> Nobody, expires_at |-> 0, stale |-> FALSE]
InitialLife == [state |-> "ready", lease |-> NoLease, blocked |-> FALSE]

(* A claim replaces whatever lease was there, even when it is born stale.  *)
(* The first alternative below keeps the older lease then, the second lets *)
(* `started` revive a stale one, the third forgets to drop it.             *)
OnClaimedUnlessStale(s, e, now) ==
  IF e.lease_expires_at <= now THEN s
  ELSE [state   |-> "claimed", blocked |-> FALSE,
        lease   |-> [holder |-> e.agent, stale |-> FALSE,
                     expires_at |-> e.lease_expires_at]]
OnClaimed(s, e, now) ==
  LET stale == e.lease_expires_at <= now
  IN  [state   |-> IF stale THEN "released" ELSE "claimed",
       lease   |-> [holder |-> e.agent, stale |-> stale,
                    expires_at |-> e.lease_expires_at],
       blocked |-> FALSE]

OnStartedRenews(s) ==
  [state |-> "started", lease |-> [s.lease EXCEPT !.stale = FALSE], blocked |-> FALSE]
OnStartedKeepsStale(s) ==
  [state |-> "started", lease |-> s.lease, blocked |-> FALSE]
OnStarted(s) ==
  [state   |-> "started",
   lease   |-> IF s.lease.stale THEN NoLease ELSE s.lease,
   blocked |-> FALSE]

(* What one event does to (state, lease, blocked) for a reader at `now`.   *)
ReplayLife(s, e, now) ==
  CASE e.event = "claimed"   -> OnClaimed(s, e, now)
    [] e.event = "started"   -> OnStarted(s)
    [] e.event = "heartbeat" -> [s EXCEPT !.state = "pursuing"]
    [] e.event = "blocked"   -> [s EXCEPT !.state = "blocked", !.blocked = TRUE]
    [] e.event = "released"  -> [s EXCEPT !.state = "released", !.lease = NoLease]
    [] e.event = "evidence_pending" ->
         [s EXCEPT !.state = "evidence_pending", !.blocked = FALSE]
    [] e.event = "verified" ->
         [state |-> "verified", lease |-> NoLease, blocked |-> FALSE]
    [] OTHER -> s                     \* outcome_contact, ratified

(* _active_lease_holder: the holder of a lease that is present and live.   *)
LiveHolder(s) == IF s.lease.stale THEN Nobody ELSE s.lease.holder

----------------------------------------------------------------------------
(* The replay loop: tallies *)

Uncounted == -1                      \* receipts are null before first contact
InitialTally == [receipts |-> Uncounted, last |-> NoClass,
                 current |-> NoClass, blocks |-> 0]

(* RECEIPT_EVENTS; the alternative also counts evidence not yet verified.  *)
ReceiptEventsWithPending == {"verified", "evidence_pending"}
ReceiptEvents == {"verified"}

(* An outcome contact is current only for the content it was recorded      *)
(* against.  The alternative ignores the content.                          *)
OnContactAnyContent(s, e, version) ==
  [s EXCEPT !.receipts = 0, !.last = e.class, !.current = e.class]
OnContact(s, e, version) ==
  [s EXCEPT !.receipts = 0, !.last = e.class,
            !.current = IF e.goal_sha256 = version THEN e.class ELSE @]

(* What one event does to the tallies for a goal file of digest `version`. *)
ReplayTally(s, e, version) ==
  CASE e.event \in ReceiptEvents /\ s.receipts # Uncounted ->
         [s EXCEPT !.receipts = @ + 1]
    [] e.event = "outcome_contact" -> OnContact(s, e, version)
    [] e.event = "claimed" -> [s EXCEPT !.blocks = 0]
    [] e.event = "blocked" -> [s EXCEPT !.blocks = @ + 1]
    [] OTHER -> s

(* _outcome_confirmed scans the log on its own: the latest contact         *)
(* recorded against the current file content decides.                      *)
OutcomeConfirmed(log, version) ==
  LET relevant == {i \in DOMAIN log : /\ log[i].event = "outcome_contact"
                                      /\ log[i].goal_sha256 = version}
  IN  \E i \in relevant : /\ \A j \in relevant : j <= i
                          /\ log[i].class \in ConfirmingClasses

----------------------------------------------------------------------------
(* A log's digest.  It forgets the log but not the lifecycle that any      *)
(* reader, at any clock, would replay from it.                             *)

NoClaim == [holder |-> Nobody, expires |-> 0]
Claims == [holder : Holders, expires : Nat]
Digests == [phase : States, claim : Claims, started : BOOLEAN, blocked : BOOLEAN]
EmptyDigest == [phase |-> "ready", claim |-> NoClaim, started |-> FALSE,
                blocked |-> FALSE]

Digested(d, e) ==
  CASE e.event = "claimed" ->
         [phase |-> "claimed", started |-> FALSE, blocked |-> FALSE,
          claim |-> [holder |-> e.agent, expires |-> e.lease_expires_at]]
    [] e.event = "started" ->
         [d EXCEPT !.phase = "started", !.started = TRUE, !.blocked = FALSE]
    [] e.event = "heartbeat" -> [d EXCEPT !.phase = "pursuing"]
    [] e.event = "blocked" -> [d EXCEPT !.phase = "blocked", !.blocked = TRUE]
    [] e.event = "released" -> [d EXCEPT !.phase = "released", !.claim = NoClaim]
    [] e.event = "evidence_pending" ->
         [d EXCEPT !.phase = "evidence_pending", !.blocked = FALSE]
    [] e.event = "verified" ->
         [d EXCEPT !.phase = "verified", !.claim = NoClaim, !.blocked = FALSE]
    [] OTHER -> d

Expired(d, now) == d.claim.holder # Nobody /\ d.claim.expires <= now

(* reconstruct_goal_state's lifecycle fields, read off the digest.  A      *)
(* `started` event drops a lease its reader finds stale, so for a reader   *)
(* after the expiry a claim that was started has no lease at all, while    *)
(* one that was not started still shows its stale lease.                   *)
View(d, now) ==
  [state   |-> IF d.phase = "claimed" /\ Expired(d, now) THEN "released"
               ELSE d.phase,
   lease   |-> IF d.claim.holder = Nobody \/ (d.started /\ Expired(d, now))
               THEN NoLease
               ELSE [holder |-> d.claim.holder, stale |-> Expired(d, now),
                     expires_at |-> d.claim.expires],
   blocked |-> d.blocked]

Holder(d, now) == IF Expired(d, now) THEN Nobody ELSE d.claim.holder
=============================================================================
