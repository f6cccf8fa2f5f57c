--------------------------- MODULE GovernanceRunner ---------------------------
(***************************************************************************)
(* The governance of knowledge changes: the runner of                      *)
(* governance/runner.py, called for one change at a time by any number of  *)
(* processes, the reviews of governance/review.py, and what publication    *)
(* takes over of a change that is cleared (publication/runner.py).  A unit *)
(* of work is one step.  Models, searches and fetches run between them and *)
(* leave nothing that the ledger depends on.                               *)
(***************************************************************************)
EXTENDS GovernanceRepository

CONSTANTS
  Workers,
  Assigned,                   \* the changes that each worker is called for
  TypeOf, TargetOf, BaseOf,   \* of each change; the base version may be None
  OriginTier,                 \* trust tier of the note of each change
  DraftOf,                    \* the draft that a fingerprint stands for
  Extractions,                \* what a model may extract from a version
  Assessments,                \* what a verifier may find
  Decisions                   \* what a reviewer may decide

ASSUME GovernanceAssumption ==
  /\ Assigned \in [Workers -> SUBSET Changes]
  /\ TypeOf \in [Changes -> {"CREATED", "UPDATED", "MOVED", "DELETED"}]
  /\ TargetOf \in [Changes -> Versions]
  /\ BaseOf \in [Changes -> Versions \cup {None}]
  /\ OriginTier \in [Changes -> TrustTier]
  /\ DraftOf \in [Fingerprints -> Draft]
  /\ Extractions \in [Versions -> SUBSET SUBSET Fingerprints]
  /\ Assessments \subseteq Finding
  /\ Decisions \subseteq ReviewDecision

VARIABLES
  call,   \* what each worker is doing
  calm    \* nothing fails by itself from here on

vars == <<knowledge, ledger, call, calm>>

Labels == {"idle", "extract", "apply", "evaluate", "reconcile"}

\* _PendingClaim: for each claim still to evaluate, the current check that it
\* had when it was extracted; a claim has none as long as it is PROPOSED.
Idle == [at |-> "idle", change |-> None, pending |-> Nothing]

TypeOK ==
  /\ KnowledgeTypeOK /\ LedgerTypeOK
  /\ call \in [Workers -> [at : Labels, change : Changes \cup {None},
                             pending : {call[w].pending : w \in Workers}]]
  /\ \A w \in Workers : IsPerClaim(call[w].pending, Changes \cup {None})
  /\ calm \in BOOLEAN

Init ==
  /\ KnowledgeInit /\ LedgerInit
  /\ call = [w \in Workers |-> Idle]
  /\ calm = FALSE

-----------------------------------------------------------------------------

At(w, label) == call[w].at = label

Goto(w, label) ==
  /\ call' = [call EXCEPT ![w].at = label]
  /\ UNCHANGED calm

Return(w) == call' = [call EXCEPT ![w] = Idle] /\ UNCHANGED calm

ChangesContent(ch) == TypeOf[ch] \in {"CREATED", "UPDATED"}

Called(w, ch) ==
  /\ call' = [call EXCEPT ![w] =
       [Idle EXCEPT !.at = IF ChangesContent(ch) THEN "extract" ELSE "apply",
                    !.change = ch]]
  /\ UNCHANGED calm

(* _begin, for a change that nobody has governed yet.                      *)
BeginRun(w, ch) ==
  /\ At(w, "idle") /\ ch \in Assigned[w] /\ run[ch] = Absent
  /\ AddRun(ch) /\ Called(w, ch)
  /\ UNCHANGED knowledge

(* The run is there, and has not ended; of a run that has ended, the call  *)
(* returns the report.                                                     *)
TakeUpRun(w, ch) ==
  /\ At(w, "idle") /\ ch \in Assigned[w] /\ run[ch] \notin TerminalRun \cup {Absent}
  /\ Called(w, ch)
  /\ UNCHANGED <<knowledge, ledger>>

-----------------------------------------------------------------------------
(* Changes without content.                                                *)

(* _apply_non_content_change                                               *)
ApplyNonContentChange(w) ==
  LET ch == call[w].change
  IN  /\ At(w, "apply") /\ MovesRun(ch, "EVALUATING")
      /\ IF TypeOf[ch] = "DELETED"
         THEN OutdateClaims(IF BaseOf[ch] # None THEN BaseOf[ch] ELSE TargetOf[ch])
         ELSE UNCHANGED claims
      /\ run' = [run EXCEPT ![ch] = "EVALUATING"]
      /\ Goto(w, "reconcile")
      /\ UNCHANGED <<evidence, change, items, review>>

(* The run is past EXTRACTING: the call raises, and the run stays.         *)
RefuseNonContentChange(w) ==
  /\ At(w, "apply") /\ ~MovesRun(call[w].change, "EVALUATING")
  /\ Return(w)
  /\ UNCHANGED <<knowledge, ledger>>

-----------------------------------------------------------------------------
(* Extraction.                                                             *)

(* _persist_extraction                                                     *)
PersistExtraction(w, drafts) ==
  LET ch == call[w].change
      cs == {ClaimFor(f) : f \in drafts}
  IN  /\ At(w, "extract") /\ drafts \in Extractions[TargetOf[ch]]
      /\ \A f \in drafts : CanPropose(f)
      /\ AddItems(ch, cs)
      /\ ProposeClaims(drafts, TargetOf[ch])
      /\ call' = [call EXCEPT ![w].at = "evaluate",
                              ![w].pending = [c \in cs |-> claims[c].check]]
      /\ UNCHANGED <<evidence, calm>>

(* _fail_run: the run unless it has ended, and the change wherever its     *)
(* table allows, a change that is cleared for publication included.        *)
FailRun(ch) ==
  /\ run' = [run EXCEPT ![ch] = IF @ \in TerminalRun THEN @ ELSE "FAILED"]
  /\ change' = [change EXCEPT ![ch] = IF MovesChange(ch, "FAILED") THEN "FAILED" ELSE @]
  /\ UNCHANGED <<items, review>>

\* mutant: the failed call is only reported
ReportFailedExtraction(w) ==
  LET ch == call[w].change
  IN  /\ At(w, "extract") /\ (~calm \/ ~MovesRun(ch, "EVALUATING"))
      /\ Return(w)
      /\ UNCHANGED <<knowledge, ledger>>

(* The snapshot, the model or the database fails, or another call has      *)
(* extracted the claims already.                                           *)
FailExtraction(w) ==
  LET ch == call[w].change
  IN  /\ At(w, "extract") /\ (~calm \/ ~MovesRun(ch, "EVALUATING"))
      /\ FailRun(ch) /\ Return(w)
      /\ UNCHANGED knowledge

-----------------------------------------------------------------------------
(* Evaluation of the claims.                                               *)

Evaluating(w, c) == At(w, "evaluate") /\ c \in DOMAIN call[w].pending

Evaluated(w, c) ==
  /\ call' = [call EXCEPT ![w].pending =
                [d \in DOMAIN call[w].pending \ {c} |-> call[w].pending[d]]]
  /\ UNCHANGED calm

(* _complete_reused_claim: the item takes the check over, and no review.   *)
CompleteReusedClaim(w, c) ==
  /\ Evaluating(w, c) /\ call[w].pending[c] # None
  /\ SettleItem(call[w].change, c, "DECIDED", call[w].pending[c])
  /\ Evaluated(w, c)
  /\ UNCHANGED <<knowledge, change, run, review>>

(* _collect_evidence up to the verifier's answer: any pages may be found   *)
(* and fetched, and any of them found to say anything.                     *)
Packs == {PackOf(Materials(supporting, challenging)) :
            supporting, challenging \in SUBSET Pages}
Collected == UNION {[pack -> Assessments] : pack \in Packs}

NoFindings == [m \in {} |-> None]

(* _evaluate_claim and _persist_decision                                   *)
DecideClaim(w, c, searchAvailable, findings) ==
  LET ch == call[w].change
      decision == Evaluate(DraftOf[c[1]], OriginTier[ch], searchAvailable, findings)
  IN  /\ Evaluating(w, c) /\ call[w].pending[c] = None
      /\ CanAddEvidence(c, findings)
      /\ AddEvidence(c, findings)
      /\ RecordCheck(c, ch, decision.verdict)
      /\ SettleItem(ch, c, IF decision.review THEN "REVIEW_REQUIRED" ELSE "DECIDED", ch)
      /\ IF decision.review THEN AddReview(ch, c) ELSE UNCHANGED review
      /\ Evaluated(w, c)
      /\ UNCHANGED <<change, run>>

EvaluateClaim(w, c) ==
  IF RequiresPublicEvidence(DraftOf[c[1]])
  THEN \/ DecideClaim(w, c, FALSE, NoFindings)
       \/ \E findings \in Collected : DecideClaim(w, c, TRUE, findings)
  ELSE DecideClaim(w, c, DraftOf[c[1]].type \notin PublicFactTypes, NoFindings)

(* _fail_item                                                              *)
FailItem(w, c) ==
  /\ Evaluating(w, c)
  /\ SettleItem(call[w].change, c, "FAILED", None)
  /\ Evaluated(w, c)
  /\ UNCHANGED <<knowledge, change, run, review>>

(* The search, the verifier or the database fails.                         *)
FailEvaluation(w, c) == ~calm /\ FailItem(w, c)

(* The evidence table refuses the pack.                                    *)
RefuseEvidence(w, c) ==
  /\ Evaluating(w, c) /\ call[w].pending[c] = None
  /\ RequiresPublicEvidence(DraftOf[c[1]])
  /\ \E findings \in Collected : ~CanAddEvidence(c, findings)
  /\ FailItem(w, c)

EndEvaluation(w) ==
  /\ At(w, "evaluate") /\ DOMAIN call[w].pending = {}
  /\ Goto(w, "reconcile")
  /\ UNCHANGED <<knowledge, ledger>>

-----------------------------------------------------------------------------
(* reconcile                                                               *)

Quarantined(ch) == {c \in DOMAIN items[ch] : claims[c].status = "QUARANTINED"}

(* _terminal_run_status                                                    *)
TerminalRunStatus(ch) ==
  LET all == DOMAIN items[ch]  failed == ItemsIn(ch, "FAILED")
  IN  IF all # {} /\ Quarantined(ch) = all THEN "QUARANTINED"
      ELSE IF all # {} /\ failed = all THEN "FAILED"
      ELSE IF failed # {} THEN "PARTIAL_FAILED"
      ELSE "COMPLETED"

\* mutant: review is asked for before failures are looked at
ReviewBeforeFailure(ch) ==
  IF ItemsIn(ch, "REVIEW_REQUIRED") # {} THEN "REVIEW_REQUIRED"
  ELSE IF ItemsIn(ch, "FAILED") # {} THEN "FAILED"
  ELSE "PUBLISH_INTENT"

(* _change_status                                                          *)
ChangeStatus(ch) ==
  LET all == DOMAIN items[ch]
  IN  IF all # {} /\ Quarantined(ch) = all THEN "QUARANTINED"
      ELSE IF ItemsIn(ch, "FAILED") # {} THEN "FAILED"
      ELSE IF ItemsIn(ch, "REVIEW_REQUIRED") # {} THEN "REVIEW_REQUIRED"
      ELSE "PUBLISH_INTENT"

Reconcile(w) ==
  LET ch == call[w].change
  IN  /\ At(w, "reconcile") /\ run[ch] \notin TerminalRun
      /\ run' = [run EXCEPT ![ch] = TerminalRunStatus(ch)]
      /\ change' = [change EXCEPT ![ch] = IF @ = "VALIDATING" THEN ChangeStatus(ch) ELSE @]
      /\ Return(w)
      /\ UNCHANGED <<knowledge, items, review>>

ReportEndedRun(w) ==
  /\ At(w, "reconcile") /\ run[call[w].change] \in TerminalRun
  /\ Return(w)
  /\ UNCHANGED <<knowledge, ledger>>

-----------------------------------------------------------------------------
(* The reviewer, publication, and the ways a call ends early.              *)

\* mutant: an approval clears the change whatever else is open
DecideAlone(ch, c, decision) ==
  /\ c \in DOMAIN review[ch]
  /\ DecideReview(ch, c, decision)
  /\ change' = [change EXCEPT ![ch] =
       IF @ # "REVIEW_REQUIRED" THEN @
       ELSE IF decision = "APPROVED" THEN "PUBLISH_INTENT" ELSE "FAILED"]
  /\ UNCHANGED <<knowledge, call, calm>>

(* ReviewService.decide                                                    *)
Decide(ch, c, decision) ==
  /\ c \in DOMAIN review[ch]
  /\ DecideReview(ch, c, decision)
  /\ change' = [change EXCEPT ![ch] =
       IF @ # "REVIEW_REQUIRED" \/ (decision = "APPROVED" /\ PendingReviews(ch) # {c}) THEN @
       ELSE IF decision = "APPROVED" THEN "PUBLISH_INTENT" ELSE "FAILED"]
  /\ UNCHANGED <<knowledge, call, calm>>

(* curation_claims; nobody asks for the reviews of a claim.                *)
Publishable(ch) ==
  {c \in ClaimsOf(TargetOf[ch]) : claims[c].status \in {"VERIFIED", "USER_ASSERTED", "OPINION"}}

(* Publication takes the claims of a cleared change over and activates it. *)
Publish(ch) ==
  /\ change[ch] = "PUBLISH_INTENT" /\ Publishable(ch) # {}
  /\ change' = [change EXCEPT ![ch] = "ACTIVE"]
  /\ UNCHANGED <<knowledge, run, items, review, call, calm>>

(* The process dies, or the call raises without a unit of work of its own. *)
Crash(w) ==
  /\ ~calm /\ ~At(w, "idle") /\ Return(w)
  /\ UNCHANGED <<knowledge, ledger>>

CalmDown == ~calm /\ calm' = TRUE /\ UNCHANGED <<knowledge, ledger, call>>

Step(w) ==
  \/ ApplyNonContentChange(w) \/ RefuseNonContentChange(w)
  \/ \E drafts \in SUBSET Fingerprints : PersistExtraction(w, drafts)
  \/ FailExtraction(w)
  \/ \E c \in DOMAIN call[w].pending :
       \/ CompleteReusedClaim(w, c) \/ EvaluateClaim(w, c)
       \/ FailEvaluation(w, c) \/ RefuseEvidence(w, c)
  \/ EndEvaluation(w) \/ Reconcile(w) \/ ReportEndedRun(w)

Next ==
  \/ \E w \in Workers :
       \/ Step(w) \/ Crash(w)
       \/ \E ch \in Changes : BeginRun(w, ch) \/ TakeUpRun(w, ch)
  \/ \E ch \in Changes :
       \/ Publish(ch)
       \/ \E c \in DOMAIN review[ch], decision \in Decisions : Decide(ch, c, decision)

Spec == Init /\ [][Next]_vars

(* A call goes on until it ends; the operator calls again for a change     *)
(* that is still VALIDATING.                                               *)
Recall(ch) == \E w \in Workers : TakeUpRun(w, ch)

Fairness ==
  /\ \A w \in Workers : WF_vars(Step(w))
  /\ \A ch \in Changes : SF_vars(Recall(ch))

FairSpec == Init /\ [][Next \/ CalmDown]_vars /\ Fairness

-----------------------------------------------------------------------------
(* Properties.                                                             *)

(* A change that publication may take up has been judged as a whole:       *)
(* every claim of its run is decided or was put to review, and no review   *)
(* of it is open, whichever calls overlapped and whenever the reviewer     *)
(* answered (runner.py reconcile, review.py decide).                       *)
PublishIntentIsDecided ==
  \A ch \in Changes : change[ch] \in {"PUBLISH_INTENT", "ACTIVE"} =>
    /\ run[ch] = "COMPLETED" /\ PendingReviews(ch) = {}
    /\ \A c \in DOMAIN items[ch] :
         items[ch][c].stage = "DECIDED" \/ c \in DOMAIN review[ch]

(* The status of a change and that of its run never come apart: a change   *)
(* is VALIDATING exactly while its run is open, also after a crash, and a  *)
(* run that lost an item leaves a failed change (runner.py _begin,         *)
(* _fail_run and reconcile).                                               *)
RunAndChangeAgree ==
  \A ch \in Changes :
    /\ run[ch] = Absent <=> change[ch] = "RECEIVED"
    /\ run[ch] \in {"EXTRACTING", "EVALUATING"} <=> change[ch] = "VALIDATING"
    /\ run[ch] \in {"PARTIAL_FAILED", "FAILED"} => change[ch] = "FAILED"
    /\ ItemsIn(ch, "FAILED") # {} => change[ch] \in {"VALIDATING", "FAILED"}

(* The evidence that decided a claim is on record with it: a VERIFIED      *)
(* claim has a supporting row from an authoritative page, a REJECTED one a *)
(* contradicting row, and every claim that left PROPOSED has a current     *)
(* check, although the check may be another change's than the status       *)
(* (runner.py _persist_decision).                                          *)
VerifiedIsSupported ==
  LET Recorded(c, stance) == \E r \in evidence : /\ r.claim = c /\ r.stance = stance
                                                 /\ TierOf[r.page] \in {"T1", "T2"}
  IN  \A c \in Claims :
        /\ claims[c].status = "VERIFIED" => Recorded(c, "SUPPORTS")
        /\ claims[c].status = "REJECTED" => Recorded(c, "CONTRADICTS")
        /\ claims[c].check = None <=> claims[c].status \in {Absent, "PROPOSED"}

(* Of the calls for a change one at most examines its claims: the one that *)
(* stored the extraction, which is done once.                              *)
Examines(w, ch) == call[w].change = ch /\ call[w].at \in {"evaluate", "reconcile"}

OneExaminer ==
  \A v, w \in Workers, ch \in Changes : Examines(v, ch) /\ Examines(w, ch) => v = w

(* What it has still to evaluate are the items that nobody has settled.    *)
CallInOrder(w) ==
  LET ch == call[w].change IN
  /\ ~At(w, "idle") => ch \in Changes /\ run[ch] # Absent
  /\ ~At(w, "evaluate") => DOMAIN call[w].pending = {}
  /\ ch \in Changes /\ Examines(w, ch) =>
       /\ run[ch] \notin {"EXTRACTING", "COMPLETED"}
       /\ ItemsIn(ch, "EXTRACTED") = DOMAIN call[w].pending

RunInOrder(ch) ==
  /\ run[ch] \in {Absent, "EXTRACTING", "EVALUATING", "COMPLETED", "PARTIAL_FAILED", "FAILED"}
  /\ run[ch] \in {Absent, "EXTRACTING"} => DOMAIN items[ch] = {}
  /\ change[ch] \in {"REVIEW_REQUIRED", "PUBLISH_INTENT", "ACTIVE"} => run[ch] = "COMPLETED"
  /\ run[ch] = "COMPLETED" =>
       \A c \in DOMAIN items[ch] : items[ch][c].stage \in {"DECIDED", "REVIEW_REQUIRED"}

(* Review is asked for with the stage of an item, and for nothing else.    *)
ItemsInOrder(ch) ==
  /\ DOMAIN review[ch] = ItemsIn(ch, "REVIEW_REQUIRED")
  /\ \A c \in DOMAIN items[ch] : /\ items[ch][c].stage \in {"EXTRACTED"} \cup TerminalStage
                                /\ claims[c].status # Absent

(* The inductive invariant of governance: the three properties above hold  *)
(* because one call examines a change, from the extraction to the verdict  *)
(* on its run, however many are made for it (runner.py _persist_extraction,*)
(* run_change and reconcile).                                              *)
GovernanceInv ==
  /\ TypeOK
  /\ OneExaminer /\ \A w \in Workers : CallInOrder(w)
  /\ \A ch \in Changes : RunInOrder(ch) /\ ItemsInOrder(ch)
  /\ \A c \in Claims : claims[c].status # "QUARANTINED"
  /\ PublishIntentIsDecided /\ RunAndChangeAgree /\ VerifiedIsSupported

(* Governance implements the lifecycle that it promises of a change.       *)
Promised == INSTANCE KnowledgeChanges
  WITH Questions <- Claims, open <- [ch \in Changes |-> PendingReviews(ch)]
ImplementsKnowledgeChanges == Promised!Spec

(* A content change whose governance was interrupted does not stay         *)
(* VALIDATING: called again, it is decided or failed (runner.py            *)
(* run_change).  A change without content may stay: a call that died       *)
(* between its two units of work is never completed.                       *)
ContentRunsEnd ==
  \A ch \in Changes : ChangesContent(ch) =>
    ((calm /\ change[ch] = "VALIDATING") ~> change[ch] # "VALIDATING")

(* What the design says of high-risk claims: even one that is VERIFIED     *)
(* keeps what is published with it waiting until a person has approved it  *)
(* (the L3 design, section 15.3).  A change without content publishes none *)
(* of its own.                                                             *)
HighRiskIsApproved ==
  \A ch \in Changes : ChangesContent(ch) /\ change[ch] \in {"PUBLISH_INTENT", "ACTIVE"} =>
    \A c \in Publishable(ch) : Risk(DraftOf[c[1]]) = "HIGH" =>
      \E other \in Changes : /\ c \in DOMAIN review[other]
                             /\ review[other][c] = "APPROVED"
===============================================================================
