--------------------------- MODULE KnowledgeChanges ---------------------------
(***************************************************************************)
(* What governance promises of a knowledge change.  Questions are put to a *)
(* person while a change is examined; the change is cleared for            *)
(* publication when none of them is open, and a change that waits for      *)
(* answers is cleared by the answer that leaves none open and by nothing   *)
(* else.                                                                   *)
(***************************************************************************)
EXTENDS StateTransitions

CONSTANTS Changes, Questions

VARIABLES
  change,   \* status of each change
  open      \* the questions about each change that nobody has answered

Init ==
  /\ change = [ch \in Changes |-> "RECEIVED"]
  /\ open = [ch \in Changes |-> {}]

Move(ch, status) ==
  /\ change' = [change EXCEPT ![ch] = status]
  /\ CanTransition(KnowledgeChangeTransitions, change[ch], status)

Take(ch) == Move(ch, "VALIDATING") /\ UNCHANGED open

(* A change that was given up may still be examined.                       *)
Ask(ch, q) ==
  /\ change[ch] \in {"VALIDATING", "FAILED"} /\ q \notin open[ch]
  /\ open' = [open EXCEPT ![ch] = @ \cup {q}]
  /\ UNCHANGED change

Settle(ch, status) ==
  /\ change[ch] = "VALIDATING"
  /\ status = "PUBLISH_INTENT" => open[ch] = {}
  /\ Move(ch, status) /\ UNCHANGED open

Answer(ch, q, yes) ==
  /\ q \in open[ch]
  /\ open' = [open EXCEPT ![ch] = @ \ {q}]
  /\ IF change[ch] # "REVIEW_REQUIRED" \/ (yes /\ open[ch] # {q})
     THEN UNCHANGED change
     ELSE Move(ch, IF yes THEN "PUBLISH_INTENT" ELSE "FAILED")

GiveUp(ch) == Move(ch, "FAILED") /\ UNCHANGED open

Activate(ch) == Move(ch, "ACTIVE") /\ UNCHANGED open

Next ==
  \E ch \in Changes :
    \/ Take(ch) \/ GiveUp(ch) \/ Activate(ch)
    \/ \E q \in Questions : Ask(ch, q) \/ \E yes \in BOOLEAN : Answer(ch, q, yes)
    \/ \E status \in KnowledgeChangeStatus : Settle(ch, status)

Spec == Init /\ [][Next]_<<change, open>>
===============================================================================
