-------------------------- MODULE CampaignCompiler --------------------------
(***************************************************************************)
(* What dp campaign init makes of the sections of a primary spec           *)
(* (dp/core/campaign_init.py).  A section is the set of cues in its title  *)
(* and the set in its body; which words count as a cue is left out.        *)
(***************************************************************************)
EXTENDS Naturals, FiniteSets, Sequences

(* "proofs" are the evidence words that also count as validators in a      *)
(* heading, "checks" the others.                                           *)
Cues == {"requirements", "checks", "proofs", "decisions", "blockers",
         "dependencies", "context", "implementation"}

SectionsOf(cues) == [title : SUBSET cues, body : SUBSET cues]

Anywhere(s) == s.title \cup s.body
EvidenceCues == {"checks", "proofs"}

(* _section_signals: the kinds of which some line has a cue.               *)
Signals(s) ==
  (Anywhere(s) \cap {"requirements", "decisions", "blockers", "dependencies"})
  \cup (IF Anywhere(s) \cap EvidenceCues # {} THEN {"evidence"} ELSE {})

Classification(s) ==
  IF "decisions" \in Signals(s) THEN "decision"
  ELSE IF s.title \cap EvidenceCues # {} THEN "evidence"
  ELSE IF "context" \in s.title THEN "context"
  ELSE IF Anywhere(s) \cap {"requirements", "implementation"} # {} THEN "implementation"
  ELSE "unknown"

(* A blocker makes the section wait for a decision whatever else it says.  *)
RefinementState(s) ==
  IF Classification(s) = "decision" \/ "blockers" \in Signals(s) THEN "needs_decision"
  ELSE IF Classification(s) = "evidence" THEN "evidence_candidate"
  ELSE IF "requirements" \notin Signals(s) THEN "needs_specification"
  ELSE IF "evidence" \in Signals(s) THEN "implementation_candidate"
  ELSE "needs_validator"

RoutedStates == {"needs_decision", "needs_validator", "needs_specification"}
RoutesFor(state) == {state} \cap RoutedStates

CompilerNode(s) ==
  [class  |-> Classification(s),
   state  |-> RefinementState(s),
   routes |-> RoutesFor(RefinementState(s))]

(* The routes of the campaign's refinement markers: one that is always     *)
(* there, what the headings lack or raise, and every route of a node.      *)
MarkerRoutes(sections) ==
  LET All == {sections[i] : i \in DOMAIN sections} IN
  {"needs_specification"}
  \cup (IF \E s \in All : "proofs" \in s.title THEN {} ELSE {"needs_validator"})
  \cup (IF \E s \in All : "decisions" \in s.title THEN {"needs_decision"} ELSE {})
  \cup UNION {CompilerNode(s).routes : s \in All}

(* Section ids are slugs of the headings; the k-th heading with one slug   *)
(* gets its number appended.  A slug is the sequence of its parts, so      *)
(* <<"a", 2>> is both the second heading "a" and a heading "a 2".          *)
SectionIds(slugs) ==
  [i \in DOMAIN slugs |->
     LET k == Cardinality({j \in 1..i : slugs[j] = slugs[i]})
     IN  IF k = 1 THEN slugs[i] ELSE Append(slugs[i], k)]
=============================================================================
