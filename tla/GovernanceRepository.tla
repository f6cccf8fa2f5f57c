------------------------- MODULE GovernanceRepository -------------------------
(***************************************************************************)
(* Knowledge changes, the governance run of each, its items and the review *)
(* requests it raises (persistence/governance_repository.py, and the       *)
(* knowledge changes of persistence/publication_repository.py).  There is  *)
(* one policy version, and so one run of a change.                         *)
(***************************************************************************)
EXTENDS KnowledgeRepository

VARIABLES
  change,   \* status of each knowledge change
  run,      \* status of the governance run of each change
  items,    \* per change, the stage and the quality check of each claim
  review    \* per change, the review request about each claim

ledger == <<change, run, items, review>>

TerminalRun == {"COMPLETED", "PARTIAL_FAILED", "FAILED", "QUARANTINED"}
TerminalStage == {"DECIDED", "REVIEW_REQUIRED", "FAILED"}
ReviewDecision == {"APPROVED", "REJECTED", "CANCELLED"}

RunRow == GovernanceRunStatus \cup {Absent}
Item == [stage : GovernanceItemStage, check : Changes \cup {None}]

Nothing == [c \in {} |-> None]

(* Something that is known of some of the claims, as a function of them.   *)
IsPerClaim(f, T) == DOMAIN f \subseteq Claims /\ f \in [DOMAIN f -> T]

LedgerTypeOK ==
  /\ change \in [Changes -> KnowledgeChangeStatus]
  /\ run \in [Changes -> RunRow]
  /\ DOMAIN items = Changes /\ DOMAIN review = Changes
  /\ \A ch \in Changes : /\ IsPerClaim(items[ch], Item)
                         /\ IsPerClaim(review[ch], ReviewRequestStatus)

LedgerInit ==
  /\ change = [ch \in Changes |-> "RECEIVED"]
  /\ run = [ch \in Changes |-> Absent]
  /\ items = [ch \in Changes |-> Nothing]
  /\ review = [ch \in Changes |-> Nothing]

-----------------------------------------------------------------------------

ItemsIn(ch, stage) == {c \in DOMAIN items[ch] : items[ch][c].stage = stage}

PendingReviews(ch) == {c \in DOMAIN review[ch] : review[ch][c] = "PENDING"}

MovesChange(ch, status) == CanTransition(KnowledgeChangeTransitions, change[ch], status)

MovesRun(ch, status) == CanTransition(GovernanceRunTransitions, run[ch], status)

(* add_run, and its way to EXTRACTING in the same unit of work.            *)
AddRun(ch) ==
  /\ MovesChange(ch, "VALIDATING")
  /\ change' = [change EXCEPT ![ch] = "VALIDATING"]
  /\ run' = [run EXCEPT ![ch] = "EXTRACTING"]
  /\ UNCHANGED <<items, review>>

(* add_item                                                                *)
ExtractedItems(cs) == [c \in cs |-> [stage |-> "EXTRACTED", check |-> None]]

\* mutant: a second extraction replaces the items of the first
AddItemsAgain(ch, cs) ==
  /\ items' = [items EXCEPT ![ch] = ExtractedItems(cs)]
  /\ run' = [run EXCEPT ![ch] = "EVALUATING"]
  /\ UNCHANGED <<change, review>>

(* add_item for every claim, and the run on its way to EVALUATING.         *)
AddItems(ch, cs) ==
  /\ MovesRun(ch, "EVALUATING")
  /\ items' = [items EXCEPT ![ch] = ExtractedItems(cs)]
  /\ run' = [run EXCEPT ![ch] = "EVALUATING"]
  /\ UNCHANGED <<change, review>>

(* transition_item and set_item_quality_check.                             *)
SettleItem(ch, c, stage, check) ==
  items' = [items EXCEPT ![ch][c] = [stage |-> stage, check |-> check]]

(* add_review_request                                                      *)
AddReview(ch, c) ==
  review' = [review EXCEPT ![ch] =
    [d \in DOMAIN review[ch] \cup {c} |-> IF d = c THEN "PENDING" ELSE review[ch][d]]]

(* decide_review                                                           *)
DecideReview(ch, c, decision) ==
  /\ CanTransition(ReviewRequestTransitions, review[ch][c], decision)
  /\ review' = [review EXCEPT ![ch][c] = decision]
  /\ UNCHANGED <<run, items>>
===============================================================================
