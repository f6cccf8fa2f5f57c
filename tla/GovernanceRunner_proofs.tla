------------------------ MODULE GovernanceRunner_proofs ------------------------
(***************************************************************************)
(* Proofs about governance, for any number of changes, claims, pages and   *)
(* processes: what is cleared for publication has been judged as a whole   *)
(* and rests on recorded evidence, and governance implements the lifecycle *)
(* that it promises of a change.                                           *)
(***************************************************************************)
EXTENDS GovernanceRunner, FiniteSetTheorems, TLAPS

-----------------------------------------------------------------------------
(* The policy.                                                             *)

LEMMA RiskAccepted ==
  ASSUME NEW verdict, NEW risk
  PROVE  Accepted(verdict, risk).verdict = verdict /\ Accepted(verdict, risk).review \in BOOLEAN
BY DEF Accepted

LEMMA WeighDecides ==
  ASSUME NEW draft, NEW findings
  PROVE  /\ Weigh(draft, findings).verdict \in {"VERIFIED", "CONTESTED", "REJECTED", "INSUFFICIENT"}
         /\ Weigh(draft, findings).review \in BOOLEAN
         /\ Weigh(draft, findings).verdict = "VERIFIED" =>
              Authoritative(findings, "SUPPORTS") # {}
         /\ Weigh(draft, findings).verdict = "REJECTED" =>
              Authoritative(findings, "CONTRADICTS") # {}
BY DEF Weigh, Covers, Accepted, Insufficient

(* A verdict on the facts of a claim rests on a page of an authoritative   *)
(* tier that was found to say so (quality.py evaluate).                    *)
THEOREM VerdictsNeedAuthority ==
  ASSUME NEW draft, NEW tier, NEW searchAvailable, NEW findings
  PROVE  LET decision == Evaluate(draft, tier, searchAvailable, findings) IN
         /\ decision.verdict = "VERIFIED" => Authoritative(findings, "SUPPORTS") # {}
         /\ decision.verdict = "REJECTED" => Authoritative(findings, "CONTRADICTS") # {}
BY WeighDecides, RiskAccepted DEF Evaluate, Insufficient

LEMMA DecisionsTyped ==
  ASSUME NEW draft, NEW tier, NEW searchAvailable, NEW findings
  PROVE  LET decision == Evaluate(draft, tier, searchAvailable, findings) IN
         /\ decision.verdict \in {"VERIFIED", "USER_ASSERTED", "OPINION", "INSUFFICIENT",
                                  "CONTESTED", "REJECTED"}
         /\ decision.review \in BOOLEAN
BY WeighDecides, RiskAccepted DEF Evaluate, Insufficient

-----------------------------------------------------------------------------
(* Claims and evidence.                                                    *)

LEMMA PacksAreOfMaterials ==
  ASSUME NEW findings \in Collected
  PROVE  /\ DOMAIN findings \subseteq Material
         /\ \A m \in DOMAIN findings : findings[m] \in Assessments
<1>1. PICK supporting \in SUBSET Pages, challenging \in SUBSET Pages :
        findings \in [PackOf(Materials(supporting, challenging)) -> Assessments]
  BY DEF Collected, Packs
<1>2. PackOf(Materials(supporting, challenging)) \subseteq Material
  BY DEF PackOf, Materials, Material, SearchIntent
<1> QED
  BY <1>1, <1>2

(* What the evidence table holds of a claim for one of the authorities.    *)
Recorded(c, stance) ==
  \E r \in evidence : r.claim = c /\ r.stance = stance /\ TierOf[r.page] \in {"T1", "T2"}

LEMMA EvidenceRecorded ==
  ASSUME KnowledgeTypeOK, NEW c \in Claims, NEW findings,
         findings = NoFindings \/ findings \in Collected,
         AddEvidence(c, findings)
  PROVE  /\ evidence \subseteq evidence' /\ evidence' \subseteq EvidenceRow
         /\ \A stance : Authoritative(findings, stance) # {} => Recorded(c, stance)'
<1>1. \A m \in DOMAIN findings : m \in Material /\ findings[m] \in Finding
  BY PacksAreOfMaterials, GovernanceAssumption DEF NoFindings
<1>2. EvidenceOf(c, findings) \subseteq EvidenceRow
  BY <1>1 DEF EvidenceOf, EvidenceRow, Finding, Material
<1>3. ASSUME NEW stance, NEW m \in Authoritative(findings, stance)
      PROVE  Recorded(c, stance)'
  <2> DEFINE r == [claim |-> c, page |-> m.page, stance |-> findings[m].stance]
  <2>1. r \in evidence'
    BY <1>3 DEF AddEvidence, EvidenceOf, Authoritative
  <2>2. r.claim = c /\ r.stance = stance /\ TierOf[r.page] \in {"T1", "T2"}
    BY <1>3 DEF Authoritative
  <2> QED
    BY <2>1, <2>2 DEF Recorded
<1> QED
  BY <1>2, <1>3 DEF AddEvidence, KnowledgeTypeOK

LEMMA RowsAreFinite ==
  ASSUME NEW f \in Fingerprints
  PROVE  /\ IsFiniteSet(Rows(f)) /\ Cardinality(Rows(f)) \in Nat
<1>1. IsFiniteSet({f} \X (1..MaxIncarnations))
  <2>1. IsFiniteSet({f})
    BY FS_Singleton
  <2>2. IsFiniteSet(1..MaxIncarnations)
    BY FS_Interval, KnowledgeAssumption
  <2> QED
    BY <2>1, <2>2, FS_Product
<1>2. Rows(f) \in SUBSET ({f} \X (1..MaxIncarnations))
  BY DEF Rows, Claims
<1>3. IsFiniteSet(Rows(f))
  BY <1>1, <1>2, FS_Subset
<1> QED
  BY <1>3, FS_CardinalityType

LEMMA ClaimsAreProposed ==
  ASSUME NEW f \in Fingerprints, CanPropose(f)
  PROVE  ClaimFor(f) \in Claims
<1>1. CASE Active(f) # {}
  BY <1>1 DEF ClaimFor, Active, Rows
<1>2. CASE Active(f) = {}
  <2>1. Cardinality(Rows(f)) + 1 \in 1..MaxIncarnations
    BY <1>2, RowsAreFinite, KnowledgeAssumption DEF CanPropose
  <2> QED
    BY <1>2, <2>1 DEF ClaimFor, Claims
<1> QED
  BY <1>1, <1>2

(* What every step says of claims, whatever it does to them: a claim stays *)
(* proposed once it is, has a check when it has been decided, and is       *)
(* decided by evidence that is on record.                                  *)
ClaimInOrder(c) ==
  /\ claims[c].status # "QUARANTINED"
  /\ claims[c].status = "VERIFIED" => Recorded(c, "SUPPORTS")
  /\ claims[c].status = "REJECTED" => Recorded(c, "CONTRADICTS")
  /\ claims[c].check = None <=> claims[c].status \in {Absent, "PROPOSED"}

ClaimsKept ==
  /\ KnowledgeTypeOK' /\ \A c \in Claims : ClaimInOrder(c)'
  /\ \A c \in Claims : claims[c].status # Absent => claims'[c].status # Absent

LEMMA ClaimsInvariant ==
  VerifiedIsSupported /\ (\A c \in Claims : claims[c].status # "QUARANTINED")
    <=> \A c \in Claims : ClaimInOrder(c)
BY DEF VerifiedIsSupported, ClaimInOrder, Recorded

LEMMA UnchangedKeepsClaims ==
  ASSUME KnowledgeTypeOK, \A c \in Claims : ClaimInOrder(c), UNCHANGED knowledge
  PROVE  ClaimsKept
BY DEF ClaimsKept, knowledge, KnowledgeTypeOK, ClaimInOrder, Recorded

LEMMA ProposingKeepsClaims ==
  ASSUME KnowledgeTypeOK, \A c \in Claims : ClaimInOrder(c), UNCHANGED evidence,
         NEW drafts \in SUBSET Fingerprints, NEW v \in Versions,
         \A f \in drafts : CanPropose(f), ProposeClaims(drafts, v)
  PROVE  /\ ClaimsKept
         /\ \A f \in drafts : ClaimFor(f) \in Claims /\ claims'[ClaimFor(f)].status # Absent
<1>1. \A f \in drafts : ClaimFor(f) \in Claims
  BY ClaimsAreProposed
<1>2. claims' \in [Claims -> ClaimRow]
  BY DEF ProposeClaims, KnowledgeTypeOK, ClaimRow, ClaimStatus
<1>3. \A c \in Claims : /\ claims'[c].check = claims[c].check
                        /\ \/ claims'[c].status = claims[c].status
                           \/ claims[c].status = Absent /\ claims'[c].status = "PROPOSED"
  BY DEF ProposeClaims, KnowledgeTypeOK, ClaimRow
<1>4. \A f \in drafts : claims'[ClaimFor(f)].status # Absent
  BY <1>1 DEF ProposeClaims, KnowledgeTypeOK, ClaimRow, Absent
<1> QED
  BY <1>1, <1>2, <1>3, <1>4 DEF ClaimsKept, KnowledgeTypeOK, ClaimInOrder, Recorded, Absent

LEMMA OutdatingKeepsClaims ==
  ASSUME KnowledgeTypeOK, \A c \in Claims : ClaimInOrder(c), UNCHANGED evidence,
         NEW v, OutdateClaims(v)
  PROVE  ClaimsKept
<1>1. claims' \in [Claims -> ClaimRow]
  BY DEF OutdateClaims, KnowledgeTypeOK, ClaimRow, ClaimStatus
<1>2. \A c \in Claims : /\ claims'[c].check = claims[c].check
                        /\ \/ claims'[c].status = claims[c].status
                           \/ claims[c].status \notin {Absent, "PROPOSED"}
                                /\ claims'[c].status = "OUTDATED"
  BY DEF OutdateClaims, KnowledgeTypeOK, ClaimRow, CanTransition, ClaimTransitions, Absent
<1> QED
  BY <1>1, <1>2 DEF ClaimsKept, KnowledgeTypeOK, ClaimInOrder, Recorded, Absent

LEMMA DecidingKeepsClaims ==
  ASSUME KnowledgeTypeOK, \A c \in Claims : ClaimInOrder(c),
         NEW c \in Claims, claims[c].status # Absent, NEW ch \in Changes,
         NEW draft, NEW tier, NEW searchAvailable, NEW findings,
         findings = NoFindings \/ findings \in Collected,
         AddEvidence(c, findings),
         RecordCheck(c, ch, Evaluate(draft, tier, searchAvailable, findings).verdict)
  PROVE  ClaimsKept
<1> DEFINE verdict == Evaluate(draft, tier, searchAvailable, findings).verdict
<1>1. /\ verdict \in {"VERIFIED", "USER_ASSERTED", "OPINION", "INSUFFICIENT", "CONTESTED",
                      "REJECTED"}
      /\ verdict = "VERIFIED" => Recorded(c, "SUPPORTS")'
      /\ verdict = "REJECTED" => Recorded(c, "CONTRADICTS")'
  BY DecisionsTyped, VerdictsNeedAuthority, EvidenceRecorded
<1>2. evidence \subseteq evidence' /\ evidence' \subseteq EvidenceRow
  BY EvidenceRecorded
<1> HIDE DEF verdict
<1>3. RecordCheck(c, ch, verdict)
  BY DEF verdict
<1>4. claims' \in [Claims -> ClaimRow]
  <2>1. claims[c] \in ClaimRow /\ verdict \in ClaimStatus
    BY <1>1 DEF KnowledgeTypeOK, ClaimStatus
  <2>2. [claims[c] EXCEPT !.check = ch,
                          !.status = IF @ = "PROPOSED" THEN verdict ELSE @] \in ClaimRow
    BY <2>1 DEF ClaimRow
  <2> QED
    BY <1>3, <2>2 DEF RecordCheck, KnowledgeTypeOK
<1>5. \A d \in Claims : Recorded(d, "SUPPORTS") => Recorded(d, "SUPPORTS")'
  BY <1>2 DEF Recorded
<1>6. \A d \in Claims : Recorded(d, "CONTRADICTS") => Recorded(d, "CONTRADICTS")'
  BY <1>2 DEF Recorded
<1>7. \A d \in Claims \ {c} : claims'[d] = claims[d]
  BY <1>3 DEF RecordCheck, KnowledgeTypeOK
<1>8. /\ claims'[c].check = ch
      /\ claims'[c].status = IF claims[c].status = "PROPOSED" THEN verdict ELSE claims[c].status
  BY <1>3 DEF RecordCheck, KnowledgeTypeOK, ClaimRow
<1>9. ch # None
  BY KnowledgeAssumption
<1> QED
  BY <1>1, <1>2, <1>4, <1>5, <1>6, <1>7, <1>8, <1>9
     DEF ClaimsKept, KnowledgeTypeOK, ClaimInOrder, Absent

-----------------------------------------------------------------------------
(* Calls.                                                                  *)

IsCall(row) ==
  /\ row \in [at : Labels, change : Changes \cup {None}, pending : {row.pending}]
  /\ IsPerClaim(row.pending, Changes \cup {None})

CallsTypeOK == call = [w \in Workers |-> call[w]] /\ \A w \in Workers : IsCall(call[w])

LEMMA TypesSplit ==
  TypeOK <=> KnowledgeTypeOK /\ LedgerTypeOK /\ CallsTypeOK /\ calm \in BOOLEAN
<1>1. ASSUME TypeOK PROVE CallsTypeOK
  BY <1>1 DEF TypeOK, CallsTypeOK, IsCall
<1>2. ASSUME CallsTypeOK
      PROVE  /\ call \in [Workers -> [at : Labels, change : Changes \cup {None},
                                      pending : {call[w].pending : w \in Workers}]]
             /\ \A w \in Workers : IsPerClaim(call[w].pending, Changes \cup {None})
  <2>1. \A w \in Workers :
          call[w] \in [at : Labels, change : Changes \cup {None},
                       pending : {call[v].pending : v \in Workers}]
    BY <1>2 DEF CallsTypeOK, IsCall
  <2> QED
    BY <1>2, <2>1 DEF CallsTypeOK, IsCall
<1> QED
  BY <1>1, <1>2 DEF TypeOK

OthersStay(w) == \A u \in Workers \ {w} : call'[u] = call[u]

LEMMA CallWritten ==
  ASSUME CallsTypeOK, NEW w \in Workers, NEW row, IsCall(row), call' = [call EXCEPT ![w] = row]
  PROVE  CallsTypeOK' /\ OthersStay(w) /\ call'[w] = row
BY DEF CallsTypeOK, OthersStay

LEMMA NothingIsPerClaim == ASSUME NEW T PROVE IsPerClaim(Nothing, T) /\ DOMAIN Nothing = {}
BY DEF Nothing, IsPerClaim

LEMMA IdleIsCall == IsCall(Idle)
BY NothingIsPerClaim DEF IsCall, Idle, Labels

LEMMA CallBuilt ==
  ASSUME NEW row, NEW label \in Labels, NEW ch \in Changes \cup {None}, NEW pending,
         IsPerClaim(pending, Changes \cup {None}),
         row \in [at : {label}, change : {ch}, pending : {pending}]
  PROVE  IsCall(row) /\ row.at = label /\ row.change = ch /\ row.pending = pending
BY DEF IsCall

LEMMA GotoMoves ==
  ASSUME CallsTypeOK, NEW w \in Workers, NEW label \in Labels, Goto(w, label)
  PROVE  /\ CallsTypeOK' /\ OthersStay(w) /\ call'[w].at = label
         /\ call'[w].change = call[w].change /\ call'[w].pending = call[w].pending
<1> DEFINE row == [call[w] EXCEPT !.at = label]
<1>1. IsCall(call[w]) /\ call' = [call EXCEPT ![w] = row]
  BY DEF CallsTypeOK, Goto
<1>2. row \in [at : {label}, change : {call[w].change}, pending : {call[w].pending}]
  BY <1>1 DEF IsCall
<1> HIDE DEF row
<1> QED
  BY <1>1, <1>2, CallBuilt, CallWritten DEF IsCall

LEMMA ReturnMoves ==
  ASSUME CallsTypeOK, NEW w \in Workers, Return(w)
  PROVE  CallsTypeOK' /\ OthersStay(w) /\ call'[w] = Idle
BY IdleIsCall, CallWritten DEF Return

LEMMA CalledMoves ==
  ASSUME CallsTypeOK, NEW w \in Workers, NEW ch \in Changes, Called(w, ch)
  PROVE  /\ CallsTypeOK' /\ OthersStay(w) /\ call'[w].at \in {"extract", "apply"}
         /\ call'[w].change = ch /\ DOMAIN call'[w].pending = {}
<1> DEFINE label == IF ChangesContent(ch) THEN "extract" ELSE "apply"
           row == [Idle EXCEPT !.at = label, !.change = ch]
<1>1. label \in {"extract", "apply"} /\ call' = [call EXCEPT ![w] = row]
  BY DEF Called
<1> HIDE DEF label
<1>2. row \in [at : {label}, change : {ch}, pending : {Nothing}]
  BY DEF Idle
<1> HIDE DEF row
<1>3. IsPerClaim(Nothing, Changes \cup {None}) /\ DOMAIN Nothing = {}
  BY NothingIsPerClaim
<1>4. IsCall(row) /\ row.at = label /\ row.change = ch /\ row.pending = Nothing
  BY <1>1, <1>2, <1>3, CallBuilt DEF Labels
<1> QED
  BY <1>1, <1>3, <1>4, CallWritten

LEMMA EvaluatedMoves ==
  ASSUME CallsTypeOK, NEW w \in Workers, NEW c \in DOMAIN call[w].pending, Evaluated(w, c)
  PROVE  /\ CallsTypeOK' /\ OthersStay(w) /\ call'[w].at = call[w].at
         /\ call'[w].change = call[w].change
         /\ DOMAIN call'[w].pending = DOMAIN call[w].pending \ {c}
<1> DEFINE rest == [d \in DOMAIN call[w].pending \ {c} |-> call[w].pending[d]]
           row == [call[w] EXCEPT !.pending = rest]
<1>1. IsCall(call[w]) /\ call' = [call EXCEPT ![w] = row]
  BY DEF CallsTypeOK, Evaluated
<1>2. IsPerClaim(rest, Changes \cup {None}) /\ DOMAIN rest = DOMAIN call[w].pending \ {c}
  BY <1>1 DEF IsCall, IsPerClaim
<1> HIDE DEF rest
<1>3. row \in [at : {call[w].at}, change : {call[w].change}, pending : {rest}]
  BY <1>1 DEF IsCall
<1> HIDE DEF row
<1> QED
  BY <1>1, <1>2, <1>3, CallBuilt, CallWritten DEF IsCall

LEMMA ExtractedMoves ==
  ASSUME CallsTypeOK, NEW w \in Workers, NEW cs \in SUBSET Claims, KnowledgeTypeOK,
         call' = [call EXCEPT ![w].at = "evaluate",
                              ![w].pending = [c \in cs |-> claims[c].check]]
  PROVE  /\ CallsTypeOK' /\ OthersStay(w) /\ call'[w].at = "evaluate"
         /\ call'[w].change = call[w].change /\ DOMAIN call'[w].pending = cs
<1> DEFINE checks == [c \in cs |-> claims[c].check]
           row == [call[w] EXCEPT !.at = "evaluate", !.pending = checks]
<1>1. IsCall(call[w]) /\ call' = [call EXCEPT ![w] = row]
  BY DEF CallsTypeOK
<1>2. IsPerClaim(checks, Changes \cup {None}) /\ DOMAIN checks = cs
  BY DEF IsPerClaim, KnowledgeTypeOK, ClaimRow
<1> HIDE DEF checks
<1>3. row \in [at : {"evaluate"}, change : {call[w].change}, pending : {checks}]
  BY <1>1 DEF IsCall
<1> HIDE DEF row
<1>4. call[w].change \in Changes \cup {None} /\ "evaluate" \in Labels
  BY <1>1 DEF IsCall, Labels
<1>5. /\ IsCall(row) /\ row.at = "evaluate" /\ row.change = call[w].change
      /\ row.pending = checks
  BY <1>2, <1>3, <1>4, CallBuilt
<1> QED
  BY <1>1, <1>2, <1>5, CallWritten

-----------------------------------------------------------------------------
(* What a step has to keep: the change it is about, and the calls for it.  *)

Elsewhere(ch) ==
  \A k \in Changes \ {ch} : /\ change'[k] = change[k] /\ run'[k] = run[k]
                            /\ items'[k] = items[k] /\ review'[k] = review[k]

ChangeInOrder(ch) ==
  /\ RunInOrder(ch) /\ ItemsInOrder(ch)
  /\ run[ch] = Absent <=> change[ch] = "RECEIVED"
  /\ run[ch] \in {"EXTRACTING", "EVALUATING"} <=> change[ch] = "VALIDATING"
  /\ run[ch] \in {"PARTIAL_FAILED", "FAILED"} => change[ch] = "FAILED"
  /\ ItemsIn(ch, "FAILED") # {} => change[ch] \in {"VALIDATING", "FAILED"}
  /\ change[ch] \in {"PUBLISH_INTENT", "ACTIVE"} => PendingReviews(ch) = {}

(* The invariant, sorted by what it is about.                              *)
InOrder ==
  /\ KnowledgeTypeOK /\ LedgerTypeOK /\ CallsTypeOK /\ calm \in BOOLEAN
  /\ \A c \in Claims : ClaimInOrder(c)
  /\ OneExaminer /\ \A w \in Workers : CallInOrder(w)
  /\ \A ch \in Changes : ChangeInOrder(ch)

LEMMA InvariantSplit == GovernanceInv <=> InOrder
<1>1. ASSUME GovernanceInv, NEW ch \in Changes PROVE ChangeInOrder(ch)
  BY <1>1 DEF GovernanceInv, ChangeInOrder, PublishIntentIsDecided, RunAndChangeAgree
<1>2. ASSUME \A ch \in Changes : ChangeInOrder(ch)
      PROVE  PublishIntentIsDecided /\ RunAndChangeAgree
  <2>1. RunAndChangeAgree
    BY <1>2 DEF ChangeInOrder, RunAndChangeAgree
  <2>2. ASSUME NEW ch \in Changes, change[ch] \in {"PUBLISH_INTENT", "ACTIVE"},
               NEW c \in DOMAIN items[ch]
        PROVE  items[ch][c].stage = "DECIDED" \/ c \in DOMAIN review[ch]
    BY <1>2, <2>2 DEF ChangeInOrder, RunInOrder, ItemsInOrder, ItemsIn
  <2>3. PublishIntentIsDecided
    BY <1>2, <2>2 DEF ChangeInOrder, RunInOrder, PublishIntentIsDecided
  <2> QED
    BY <2>1, <2>3
<1> QED
  BY <1>1, <1>2, TypesSplit, ClaimsInvariant DEF GovernanceInv, ChangeInOrder, InOrder

LEMMA InvariantSplitNext == GovernanceInv' <=> InOrder'
BY InvariantSplit, PTL

LEMMA StepKeepsGovernance ==
  ASSUME InOrder, NEW ch \in Changes, NEW busy \in SUBSET Workers,
         \A v, w \in busy : v = w,
         ClaimsKept, LedgerTypeOK', CallsTypeOK', calm' \in BOOLEAN,
         Elsewhere(ch), ChangeInOrder(ch)',
         run[ch] # Absent => run'[ch] # Absent,
         \A u \in Workers \ busy : call'[u] = call[u],
         \A u \in Workers \ busy : Examines(u, ch) =>
           run'[ch] \notin {"EXTRACTING", "COMPLETED"} /\ items'[ch] = items[ch],
         \A w \in busy : CallInOrder(w)',
         \A w \in busy, k \in Changes : Examines(w, k)' =>
           \A u \in Workers \ busy : ~Examines(u, k)
  PROVE  InOrder'
<1>1. ASSUME NEW k \in Changes \ {ch} PROVE ChangeInOrder(k)'
  <2>1. ChangeInOrder(k)
    BY DEF InOrder
  <2>2. \A c \in DOMAIN items[k] : claims'[c].status # Absent
    BY <2>1 DEF InOrder, ChangeInOrder, ItemsInOrder, ClaimsKept, LedgerTypeOK, IsPerClaim
  <2> QED
    BY <2>1, <2>2 DEF Elsewhere, ChangeInOrder, RunInOrder, ItemsInOrder, ItemsIn, PendingReviews
<1>2. ASSUME NEW u \in Workers \ busy PROVE CallInOrder(u)'
  BY DEF InOrder, CallInOrder, Elsewhere, Examines, ItemsIn, At
<1>3. OneExaminer'
  <2> SUFFICES ASSUME NEW v \in Workers, NEW w \in Workers, NEW k \in Changes,
                      Examines(v, k)', Examines(w, k)'
               PROVE  v = w
    BY DEF OneExaminer
  <2>1. \A u \in Workers \ busy : Examines(u, k)' <=> Examines(u, k)
    BY DEF Examines
  <2> QED
    BY <2>1 DEF InOrder, OneExaminer
<1>4. \A c \in Claims : ClaimInOrder(c)'
  BY DEF ClaimsKept
<1> QED
  BY <1>1, <1>2, <1>3, <1>4 DEF InOrder, ClaimsKept

-----------------------------------------------------------------------------
(* Steps that leave the tables alone.                                      *)

LEMMA UnchangedKeepsTables ==
  ASSUME InOrder, UNCHANGED <<knowledge, ledger>>
  PROVE  /\ ClaimsKept /\ LedgerTypeOK'
         /\ \A ch \in Changes : ChangeInOrder(ch)' /\ Elsewhere(ch)
<1>1. ClaimsKept
  BY UnchangedKeepsClaims DEF InOrder
<1>2. UNCHANGED <<change, run, items, review, claims>>
  BY DEF ledger, knowledge
<1> QED
  BY <1>1, <1>2 DEF InOrder, LedgerTypeOK, ChangeInOrder, RunInOrder, ItemsInOrder, ItemsIn,
     PendingReviews, Elsewhere

LEMMA CallersAtWork ==
  ASSUME InOrder, NEW w \in Workers, ~At(w, "idle")
  PROVE  call[w].change \in Changes /\ run[call[w].change] # Absent
BY DEF InOrder, CallInOrder

(* A call that leaves the tables alone does not become an examiner.        *)
LEMMA QuietStepKeeps ==
  ASSUME InOrder, NEW w \in Workers, NEW ch \in Changes, UNCHANGED <<knowledge, ledger>>,
         CallsTypeOK', calm' \in BOOLEAN, OthersStay(w), CallInOrder(w)',
         \A k \in Changes : Examines(w, k)' => Examines(w, k)
  PROVE  InOrder'
<1> DEFINE busy == {w}
<1>1. \A u \in Workers \ busy : Examines(u, ch) =>
        run'[ch] \notin {"EXTRACTING", "COMPLETED"} /\ items'[ch] = items[ch]
  BY DEF InOrder, CallInOrder, Examines, ledger
<1>2. \A u \in Workers \ busy, k \in Changes : Examines(w, k) => ~Examines(u, k)
  BY DEF InOrder, OneExaminer
<1>3. run' = run
  BY DEF ledger
<1>4. \A u \in Workers \ busy : call'[u] = call[u]
  BY DEF OthersStay
<1> HIDE DEF busy
<1>5. busy = {w}
  BY DEF busy
<1> QED
  BY <1>1, <1>2, <1>3, <1>4, <1>5, UnchangedKeepsTables, StepKeepsGovernance

LEMMA ReturnInOrder ==
  ASSUME NEW w \in Workers, call'[w] = Idle
  PROVE  CallInOrder(w)' /\ \A k \in Changes : ~Examines(w, k)'
BY NothingIsPerClaim DEF CallInOrder, Examines, Idle, At

LEMMA ReturnKeeps ==
  ASSUME InOrder, NEW w \in Workers, ~At(w, "idle"), Return(w), UNCHANGED <<knowledge, ledger>>
  PROVE  InOrder'
BY CallersAtWork, ReturnMoves, ReturnInOrder, QuietStepKeeps DEF Return, InOrder

LEMMA TakeUpRunKeeps ==
  ASSUME InOrder, NEW w \in Workers, NEW ch \in Changes, TakeUpRun(w, ch)
  PROVE  InOrder'
<1>1. /\ CallsTypeOK' /\ OthersStay(w) /\ call'[w].at \in {"extract", "apply"}
      /\ call'[w].change = ch /\ DOMAIN call'[w].pending = {}
  BY CalledMoves DEF TakeUpRun, InOrder
<1>2. CallInOrder(w)' /\ \A k \in Changes : ~Examines(w, k)'
  BY <1>1 DEF CallInOrder, Examines, At, TakeUpRun, ledger
<1> QED
  BY <1>1, <1>2, QuietStepKeeps DEF TakeUpRun, Called, InOrder

LEMMA EndEvaluationKeeps ==
  ASSUME InOrder, NEW w \in Workers, EndEvaluation(w)
  PROVE  InOrder'
<1> DEFINE ch == call[w].change
<1>1. /\ CallsTypeOK' /\ OthersStay(w) /\ call'[w].at = "reconcile"
      /\ call'[w].change = ch /\ call'[w].pending = call[w].pending
  BY GotoMoves DEF EndEvaluation, InOrder, Labels
<1>2. call[w].at = "evaluate" /\ DOMAIN call[w].pending = {}
  BY DEF EndEvaluation, At
<1>3. ch \in Changes
  BY <1>2, CallersAtWork DEF At
<1>4. CallInOrder(w) /\ UNCHANGED <<run, items>>
  BY DEF EndEvaluation, InOrder, ledger
<1>5. CallInOrder(w)' /\ \A k \in Changes : Examines(w, k)' => Examines(w, k)
  BY <1>1, <1>2, <1>4 DEF CallInOrder, Examines, At, ItemsIn
<1> QED
  BY <1>1, <1>3, <1>5, QuietStepKeeps DEF EndEvaluation, Goto, InOrder

-----------------------------------------------------------------------------
(* Steps of a call that write.                                             *)

(* The general form of them: one call writes about its own change.         *)
LEMMA WritingStepKeeps ==
  ASSUME InOrder, NEW w \in Workers, NEW ch \in Changes,
         ClaimsKept, LedgerTypeOK', CallsTypeOK', UNCHANGED calm,
         Elsewhere(ch), OthersStay(w), ChangeInOrder(ch)', CallInOrder(w)',
         run'[ch] # Absent,
         \A u \in Workers \ {w} : Examines(u, ch) =>
           run'[ch] \notin {"EXTRACTING", "COMPLETED"} /\ items'[ch] = items[ch],
         \A k \in Changes : Examines(w, k)' =>
           k = ch /\ \A u \in Workers \ {w} : ~Examines(u, ch)
  PROVE  InOrder'
<1> DEFINE busy == {w}
<1>1. \A u \in Workers \ busy : call'[u] = call[u]
  BY DEF OthersStay
<1>2. calm' \in BOOLEAN
  BY DEF InOrder
<1> HIDE DEF busy
<1>3. busy = {w}
  BY DEF busy
<1> QED
  BY <1>1, <1>2, <1>3, StepKeepsGovernance

(* Nobody examines a change whose extraction has not been stored.          *)
LEMMA NoExaminerYet ==
  ASSUME InOrder, NEW ch \in Changes, run[ch] \in {Absent, "EXTRACTING", "COMPLETED"}
  PROVE  \A u \in Workers : ~Examines(u, ch)
BY DEF InOrder, CallInOrder, Examines, At

LEMMA OnlyExaminer ==
  ASSUME InOrder, NEW w \in Workers, NEW ch \in Changes, Examines(w, ch)
  PROVE  \A u \in Workers \ {w} : ~Examines(u, ch)
BY DEF InOrder, OneExaminer

LEMMA BeginRunKeeps ==
  ASSUME InOrder, NEW w \in Workers, NEW ch \in Changes, BeginRun(w, ch)
  PROVE  InOrder'
<1>1. /\ CallsTypeOK' /\ OthersStay(w) /\ call'[w].at \in {"extract", "apply"}
      /\ call'[w].change = ch /\ DOMAIN call'[w].pending = {}
  BY CalledMoves DEF BeginRun, InOrder
<1>2. /\ run' = [run EXCEPT ![ch] = "EXTRACTING"] /\ change' = [change EXCEPT ![ch] = "VALIDATING"]
      /\ UNCHANGED <<items, review, claims, calm>> /\ run[ch] = Absent
  BY DEF BeginRun, AddRun, Called, knowledge
<1>3. LedgerTypeOK' /\ Elsewhere(ch) /\ run'[ch] = "EXTRACTING" /\ change'[ch] = "VALIDATING"
  BY <1>2 DEF InOrder, LedgerTypeOK, RunRow, GovernanceRunStatus, KnowledgeChangeStatus, Elsewhere
<1>4. ClaimsKept
  BY UnchangedKeepsClaims DEF InOrder, BeginRun
<1>5. ChangeInOrder(ch)'
  BY <1>2, <1>3 DEF InOrder, ChangeInOrder, RunInOrder, ItemsInOrder, ItemsIn, PendingReviews, Absent
<1>6. CallInOrder(w)' /\ \A k \in Changes : ~Examines(w, k)'
  BY <1>1, <1>3 DEF CallInOrder, Examines, At, Absent
<1>7. \A u \in Workers : ~Examines(u, ch)
  BY <1>2, NoExaminerYet
<1> QED
  BY <1>1, <1>2, <1>3, <1>4, <1>5, <1>6, <1>7, WritingStepKeeps DEF Absent

LEMMA ApplyNonContentChangeKeeps ==
  ASSUME InOrder, NEW w \in Workers, ApplyNonContentChange(w)
  PROVE  InOrder'
<1> PICK ch \in Changes : ch = call[w].change
  BY CallersAtWork DEF ApplyNonContentChange, At
<1>1. run[ch] = "EXTRACTING" /\ At(w, "apply")
  BY CallersAtWork
     DEF ApplyNonContentChange, MovesRun, CanTransition, GovernanceRunTransitions, At
<1>2. /\ CallsTypeOK' /\ OthersStay(w) /\ call'[w].at = "reconcile"
      /\ call'[w].change = ch /\ call'[w].pending = call[w].pending
  BY GotoMoves DEF ApplyNonContentChange, InOrder, Labels
<1>3. ClaimsKept
  BY OutdatingKeepsClaims, UnchangedKeepsClaims DEF ApplyNonContentChange, InOrder, knowledge
<1>4. /\ run' = [run EXCEPT ![ch] = "EVALUATING"] /\ UNCHANGED <<change, items, review, calm>>
  BY DEF ApplyNonContentChange, Goto
<1>5. LedgerTypeOK' /\ Elsewhere(ch) /\ run'[ch] = "EVALUATING"
  BY <1>4 DEF InOrder, LedgerTypeOK, RunRow, GovernanceRunStatus, Elsewhere
<1>6. DOMAIN items[ch] = {} /\ DOMAIN call[w].pending = {}
  BY <1>1 DEF InOrder, ChangeInOrder, RunInOrder, CallInOrder, At
<1>7. ChangeInOrder(ch)'
  BY <1>1, <1>4, <1>5, <1>6
     DEF InOrder, ChangeInOrder, RunInOrder, ItemsInOrder, ItemsIn, PendingReviews, Absent
<1>8. CallInOrder(w)' /\ \A k \in Changes : Examines(w, k)' => k = ch
  BY <1>1, <1>2, <1>4, <1>5, <1>6 DEF CallInOrder, Examines, At, ItemsIn, Absent
<1>9. \A u \in Workers : ~Examines(u, ch)
  BY <1>1, NoExaminerYet
<1> QED
  BY <1>1, <1>2, <1>3, <1>4, <1>5, <1>7, <1>8, <1>9, WritingStepKeeps DEF Absent

LEMMA PersistExtractionKeeps ==
  ASSUME InOrder, NEW w \in Workers, NEW drafts \in SUBSET Fingerprints,
         PersistExtraction(w, drafts)
  PROVE  InOrder'
<1> PICK ch \in Changes : ch = call[w].change
  BY CallersAtWork DEF PersistExtraction, At
<1> DEFINE cs == {ClaimFor(f) : f \in drafts}
<1>1. run[ch] = "EXTRACTING" /\ At(w, "extract")
  BY CallersAtWork
     DEF PersistExtraction, AddItems, MovesRun, CanTransition, GovernanceRunTransitions, At
<1>2. ClaimsKept /\ cs \subseteq Claims /\ \A c \in cs : claims'[c].status # Absent
  BY ProposingKeepsClaims, GovernanceAssumption DEF PersistExtraction, InOrder
<1>3. /\ items' = [items EXCEPT ![ch] = ExtractedItems(cs)]
      /\ run' = [run EXCEPT ![ch] = "EVALUATING"] /\ UNCHANGED <<change, review, calm>>
      /\ call' = [call EXCEPT ![w].at = "evaluate",
                              ![w].pending = [c \in cs |-> claims[c].check]]
  BY DEF PersistExtraction, AddItems
<1> HIDE DEF cs
<1>4. /\ CallsTypeOK' /\ OthersStay(w) /\ call'[w].at = "evaluate"
      /\ call'[w].change = ch /\ DOMAIN call'[w].pending = cs
  BY <1>2, <1>3, ExtractedMoves DEF InOrder
<1>5. /\ DOMAIN items'[ch] = cs /\ IsPerClaim(items'[ch], Item)
      /\ \A c \in cs : items'[ch][c].stage = "EXTRACTED"
  BY <1>2, <1>3 DEF InOrder, LedgerTypeOK, ExtractedItems, IsPerClaim, Item, GovernanceItemStage
<1>6. LedgerTypeOK' /\ Elsewhere(ch) /\ run'[ch] = "EVALUATING"
  BY <1>3, <1>5 DEF InOrder, LedgerTypeOK, RunRow, GovernanceRunStatus, Elsewhere
<1>7. change[ch] = "VALIDATING" /\ DOMAIN review[ch] = {}
  BY <1>1 DEF InOrder, ChangeInOrder, RunInOrder, ItemsInOrder, ItemsIn
<1>8. ChangeInOrder(ch)'
  BY <1>2, <1>3, <1>5, <1>6, <1>7
     DEF ChangeInOrder, RunInOrder, ItemsInOrder, ItemsIn, PendingReviews, Absent
<1>9. CallInOrder(w)' /\ \A k \in Changes : Examines(w, k)' => k = ch
  BY <1>4, <1>5, <1>6 DEF CallInOrder, Examines, At, ItemsIn, Absent
<1>10. \A u \in Workers : ~Examines(u, ch)
  BY <1>1, NoExaminerYet
<1> QED
  BY <1>2, <1>3, <1>4, <1>6, <1>8, <1>9, <1>10, WritingStepKeeps DEF Absent

LEMMA FailExtractionKeeps ==
  ASSUME InOrder, NEW w \in Workers, FailExtraction(w)
  PROVE  InOrder'
<1> PICK ch \in Changes : ch = call[w].change
  BY CallersAtWork DEF FailExtraction, At
<1>1. run[ch] # Absent /\ ChangeInOrder(ch)
  BY CallersAtWork DEF FailExtraction, At, InOrder
<1>2. CallsTypeOK' /\ OthersStay(w) /\ call'[w] = Idle /\ UNCHANGED calm
  BY ReturnMoves DEF FailExtraction, Return, InOrder
<1>3. ClaimsKept
  BY UnchangedKeepsClaims DEF FailExtraction, InOrder
<1>4. /\ UNCHANGED <<items, review, claims>> /\ FailRun(ch)
  BY DEF FailExtraction, FailRun, knowledge
<1>5. /\ run'[ch] = IF run[ch] \in TerminalRun THEN run[ch] ELSE "FAILED"
      /\ change'[ch] = IF MovesChange(ch, "FAILED") THEN "FAILED" ELSE change[ch]
      /\ LedgerTypeOK' /\ Elsewhere(ch)
  BY <1>4 DEF FailRun, InOrder, LedgerTypeOK, RunRow, GovernanceRunStatus, KnowledgeChangeStatus,
     Elsewhere
<1>6. change[ch] \in {"VALIDATING", "REVIEW_REQUIRED", "PUBLISH_INTENT"} => change'[ch] = "FAILED"
  BY <1>5 DEF MovesChange, CanTransition, KnowledgeChangeTransitions
<1>7. change'[ch] \in {"FAILED", change[ch]} /\ run'[ch] # Absent
  BY <1>1, <1>5 DEF Absent
<1>8. ChangeInOrder(ch)'
  <2>1. RunInOrder(ch)' /\ ItemsInOrder(ch)'
    BY <1>1, <1>4, <1>5, <1>7
       DEF ChangeInOrder, RunInOrder, ItemsInOrder, ItemsIn, TerminalRun, Absent
  <2> QED
    BY <1>1, <1>4, <1>5, <1>6, <1>7, <2>1
       DEF ChangeInOrder, RunInOrder, ItemsIn, PendingReviews, TerminalRun, Absent
<1>9. CallInOrder(w)' /\ \A k \in Changes : ~Examines(w, k)'
  BY <1>2, ReturnInOrder
<1>10. \A u \in Workers : Examines(u, ch) => run'[ch] \notin {"EXTRACTING", "COMPLETED"}
  BY <1>5, NoExaminerYet DEF TerminalRun
<1> QED
  BY <1>2, <1>3, <1>4, <1>5, <1>7, <1>8, <1>9, <1>10, WritingStepKeeps

(* A call settles an item: the items that are left are those it has still  *)
(* to evaluate, and a review is asked for with the stage that says so.     *)
LEMMA SettlingKeeps ==
  ASSUME InOrder, NEW w \in Workers, NEW ch \in Changes, ch = call[w].change,
         NEW c, Evaluating(w, c),
         NEW stage \in TerminalStage, NEW check \in Changes \cup {None},
         SettleItem(ch, c, stage, check), Evaluated(w, c), ClaimsKept,
         UNCHANGED <<change, run>>,
         IF stage = "REVIEW_REQUIRED" THEN AddReview(ch, c) ELSE UNCHANGED review
  PROVE  InOrder'
<1> DEFINE item == [stage |-> stage, check |-> check]
<1>1. /\ CallsTypeOK' /\ OthersStay(w) /\ call'[w].at = "evaluate" /\ call'[w].change = ch
      /\ DOMAIN call'[w].pending = DOMAIN call[w].pending \ {c} /\ UNCHANGED calm
  BY EvaluatedMoves DEF Evaluating, At, InOrder, Evaluated
<1>2. Examines(w, ch) /\ CallInOrder(w) /\ ChangeInOrder(ch)
  BY DEF Examines, Evaluating, At, InOrder
<1>3. /\ run[ch] \notin {Absent, "EXTRACTING", "COMPLETED"}
      /\ c \in ItemsIn(ch, "EXTRACTED") /\ ItemsIn(ch, "EXTRACTED") = DOMAIN call[w].pending
  BY <1>2 DEF CallInOrder, Examines, Evaluating, At
<1>4. /\ c \in DOMAIN items[ch] /\ items[ch][c].stage = "EXTRACTED" /\ c \in Claims
      /\ IsPerClaim(items[ch], Item) /\ IsPerClaim(review[ch], ReviewRequestStatus)
      /\ DOMAIN items = Changes /\ DOMAIN review = Changes
  BY <1>3 DEF ItemsIn, InOrder, LedgerTypeOK, IsPerClaim
<1>5. item \in Item /\ item.stage = stage
  BY DEF Item, TerminalStage, GovernanceItemStage
<1>6. /\ items' = [items EXCEPT ![ch] = [items[ch] EXCEPT ![c] = item]]
  BY DEF SettleItem
<1> HIDE DEF item
<1>7. /\ DOMAIN items'[ch] = DOMAIN items[ch] /\ items'[ch][c].stage = stage
      /\ \A d \in DOMAIN items[ch] \ {c} : items'[ch][d] = items[ch][d]
      /\ IsPerClaim(items'[ch], Item) /\ DOMAIN items' = Changes
      /\ \A k \in Changes \ {ch} : items'[k] = items[k]
  BY <1>4, <1>5, <1>6 DEF IsPerClaim
<1>8. /\ DOMAIN review'[ch] = DOMAIN review[ch] \cup (IF stage = "REVIEW_REQUIRED" THEN {c} ELSE {})
      /\ IsPerClaim(review'[ch], ReviewRequestStatus) /\ DOMAIN review' = Changes
      /\ \A k \in Changes \ {ch} : review'[k] = review[k]
  <2>1. CASE stage = "REVIEW_REQUIRED"
    <3> DEFINE asked == [d \in DOMAIN review[ch] \cup {c} |->
                           IF d = c THEN "PENDING" ELSE review[ch][d]]
    <3>1. /\ DOMAIN asked = DOMAIN review[ch] \cup {c} /\ IsPerClaim(asked, ReviewRequestStatus)
          /\ review' = [review EXCEPT ![ch] = asked]
      BY <1>4, <2>1 DEF AddReview, IsPerClaim, ReviewRequestStatus
    <3> HIDE DEF asked
    <3> QED
      BY <1>4, <2>1, <3>1
  <2>2. CASE stage # "REVIEW_REQUIRED"
    BY <1>4, <2>2
  <2> QED
    BY <2>1, <2>2
<1>9. LedgerTypeOK' /\ Elsewhere(ch)
  <2>1. \A k \in Changes : IsPerClaim(items'[k], Item) /\ IsPerClaim(review'[k], ReviewRequestStatus)
    BY <1>7, <1>8 DEF InOrder, LedgerTypeOK
  <2> QED
    BY <1>7, <1>8, <2>1 DEF InOrder, LedgerTypeOK, Elsewhere, IsPerClaim
<1>10. ChangeInOrder(ch)'
  <2>1. ItemsInOrder(ch)'
    <3>1. \A d \in DOMAIN items'[ch] : claims'[d].status # Absent
      BY <1>2, <1>4, <1>7 DEF ChangeInOrder, ItemsInOrder, ClaimsKept, IsPerClaim
    <3> QED
      BY <1>2, <1>4, <1>7, <1>8, <3>1 DEF ChangeInOrder, ItemsInOrder, ItemsIn
  <2>2. /\ run'[ch] = run[ch] /\ change'[ch] = change[ch]
        /\ change[ch] \in {"VALIDATING", "FAILED"}
    BY <1>2, <1>3 DEF ChangeInOrder, RunInOrder
  <2> QED
    BY <1>2, <1>3, <2>1, <2>2 DEF ChangeInOrder, RunInOrder
<1>11. CallInOrder(w)' /\ \A k \in Changes : Examines(w, k)' => k = ch
  <2>1. ItemsIn(ch, "EXTRACTED")' = ItemsIn(ch, "EXTRACTED") \ {c}
    BY <1>4, <1>7 DEF ItemsIn, TerminalStage
  <2> QED
    BY <1>1, <1>3, <2>1 DEF CallInOrder, Examines, At
<1>12. \A u \in Workers \ {w} : ~Examines(u, ch)
  BY <1>2, OnlyExaminer
<1> QED
  BY <1>1, <1>3, <1>9, <1>10, <1>11, <1>12, WritingStepKeeps

LEMMA PendingCheck ==
  ASSUME InOrder, NEW w \in Workers, NEW c, Evaluating(w, c)
  PROVE  /\ call[w].change \in Changes /\ c \in Claims /\ claims[c].status # Absent
         /\ call[w].pending[c] \in Changes \cup {None}
<1>1. call[w].change \in Changes
  BY CallersAtWork DEF Evaluating, At
<1>2. c \in Claims /\ call[w].pending[c] \in Changes \cup {None}
  BY DEF Evaluating, InOrder, CallsTypeOK, IsCall, IsPerClaim
<1>3. c \in DOMAIN items[call[w].change]
  BY <1>1 DEF Evaluating, InOrder, CallInOrder, Examines, At, ItemsIn
<1> QED
  BY <1>1, <1>2, <1>3 DEF InOrder, ChangeInOrder, ItemsInOrder

LEMMA CompleteReusedClaimKeeps ==
  ASSUME InOrder, NEW w \in Workers, NEW c, CompleteReusedClaim(w, c)
  PROVE  InOrder'
<1> PICK ch \in Changes : ch = call[w].change
  BY PendingCheck DEF CompleteReusedClaim
<1>1. Evaluating(w, c) /\ SettleItem(ch, c, "DECIDED", call[w].pending[c]) /\ Evaluated(w, c)
  BY DEF CompleteReusedClaim
<1>2. ClaimsKept /\ UNCHANGED <<change, run, review>>
  BY UnchangedKeepsClaims DEF CompleteReusedClaim, InOrder
<1>3. call[w].pending[c] \in Changes \cup {None} /\ "DECIDED" \in TerminalStage
  BY <1>1, PendingCheck DEF TerminalStage
<1> QED
  BY <1>1, <1>2, <1>3, SettlingKeeps

LEMMA DecideClaimKeeps ==
  ASSUME InOrder, NEW w \in Workers, NEW c, NEW searchAvailable, NEW findings,
         findings = NoFindings \/ findings \in Collected,
         DecideClaim(w, c, searchAvailable, findings)
  PROVE  InOrder'
<1> PICK ch \in Changes : ch = call[w].change
  BY PendingCheck DEF DecideClaim
<1> DEFINE decision == Evaluate(DraftOf[c[1]], OriginTier[ch], searchAvailable, findings)
           stage == IF decision.review THEN "REVIEW_REQUIRED" ELSE "DECIDED"
<1>1. /\ Evaluating(w, c) /\ SettleItem(ch, c, stage, ch) /\ Evaluated(w, c)
      /\ IF decision.review THEN AddReview(ch, c) ELSE UNCHANGED review
      /\ AddEvidence(c, findings) /\ RecordCheck(c, ch, decision.verdict)
      /\ UNCHANGED <<change, run>>
  BY DEF DecideClaim
<1>2. ClaimsKept
  BY <1>1, PendingCheck, DecidingKeepsClaims DEF InOrder
<1>3. stage \in TerminalStage /\ (stage = "REVIEW_REQUIRED" <=> decision.review)
  BY DEF TerminalStage
<1>4. IF stage = "REVIEW_REQUIRED" THEN AddReview(ch, c) ELSE UNCHANGED review
  BY <1>1, <1>3
<1> HIDE DEF stage
<1> QED
  BY <1>1, <1>2, <1>3, <1>4, SettlingKeeps

LEMMA EvaluateClaimKeeps ==
  ASSUME InOrder, NEW w \in Workers, NEW c, EvaluateClaim(w, c)
  PROVE  InOrder'
<1>1. CASE RequiresPublicEvidence(DraftOf[c[1]])
  <2>1. CASE DecideClaim(w, c, FALSE, NoFindings)
    BY <2>1, DecideClaimKeeps
  <2>2. ASSUME NEW findings \in Collected, DecideClaim(w, c, TRUE, findings)
        PROVE  InOrder'
    BY <2>2, DecideClaimKeeps
  <2> QED
    BY <1>1, <2>1, <2>2 DEF EvaluateClaim
<1>2. CASE ~RequiresPublicEvidence(DraftOf[c[1]])
  <2>1. DecideClaim(w, c, DraftOf[c[1]].type \notin PublicFactTypes, NoFindings)
    BY <1>2 DEF EvaluateClaim
  <2> QED
    BY <2>1, DecideClaimKeeps
<1> QED
  BY <1>1, <1>2

LEMMA FailItemKeeps ==
  ASSUME InOrder, NEW w \in Workers, NEW c, FailItem(w, c)
  PROVE  InOrder'
<1> PICK ch \in Changes : ch = call[w].change
  BY PendingCheck DEF FailItem
<1>1. Evaluating(w, c) /\ SettleItem(ch, c, "FAILED", None) /\ Evaluated(w, c)
  BY DEF FailItem
<1>2. ClaimsKept /\ UNCHANGED <<change, run, review>>
  BY UnchangedKeepsClaims DEF FailItem, InOrder
<1> QED
  BY <1>1, <1>2, SettlingKeeps DEF TerminalStage

(* The verdict on a run, and with it on the change: nobody examines the    *)
(* change afterwards, and what the run leaves is settled.                  *)
LEMMA ReconcileKeeps ==
  ASSUME InOrder, NEW w \in Workers, Reconcile(w)
  PROVE  InOrder'
<1> PICK ch \in Changes : ch = call[w].change
  BY CallersAtWork DEF Reconcile, At
<1>1. /\ CallsTypeOK' /\ OthersStay(w) /\ call'[w] = Idle /\ UNCHANGED calm
  BY ReturnMoves DEF Reconcile, Return, InOrder
<1>2. Examines(w, ch) /\ CallInOrder(w) /\ ChangeInOrder(ch) /\ At(w, "reconcile")
  BY DEF Examines, Reconcile, At, InOrder
<1>3. run[ch] = "EVALUATING" /\ change[ch] = "VALIDATING" /\ ItemsIn(ch, "EXTRACTED") = {}
  BY <1>2 DEF CallInOrder, Examines, At, ChangeInOrder, RunInOrder, Reconcile, TerminalRun
<1>4. ItemsIn(ch, "FAILED") \subseteq DOMAIN items[ch]
      /\ (DOMAIN items[ch] # {} => Quarantined(ch) # DOMAIN items[ch])
  BY DEF ItemsIn, Quarantined, InOrder, ClaimInOrder, LedgerTypeOK, IsPerClaim
<1>5. /\ TerminalRunStatus(ch) = IF ItemsIn(ch, "FAILED") = {} THEN "COMPLETED"
                                 ELSE IF ItemsIn(ch, "FAILED") = DOMAIN items[ch] THEN "FAILED"
                                 ELSE "PARTIAL_FAILED"
      /\ ChangeStatus(ch) = IF ItemsIn(ch, "FAILED") # {} THEN "FAILED"
                            ELSE IF ItemsIn(ch, "REVIEW_REQUIRED") # {} THEN "REVIEW_REQUIRED"
                            ELSE "PUBLISH_INTENT"
  BY <1>4 DEF TerminalRunStatus, ChangeStatus
<1>6. /\ run' = [run EXCEPT ![ch] = TerminalRunStatus(ch)]
      /\ change' = [change EXCEPT ![ch] = ChangeStatus(ch)]
      /\ UNCHANGED <<items, review, claims>> /\ UNCHANGED knowledge
  BY <1>3 DEF Reconcile, knowledge
<1>7. /\ run'[ch] = TerminalRunStatus(ch) /\ change'[ch] = ChangeStatus(ch)
      /\ LedgerTypeOK' /\ Elsewhere(ch)
  BY <1>5, <1>6 DEF InOrder, LedgerTypeOK, RunRow, GovernanceRunStatus, KnowledgeChangeStatus,
     Elsewhere
<1>8. ClaimsKept
  BY <1>6, UnchangedKeepsClaims DEF InOrder
<1>9. ItemsIn(ch, "FAILED") = {} =>
        \A c \in DOMAIN items[ch] : items[ch][c].stage \in {"DECIDED", "REVIEW_REQUIRED"}
  BY <1>2, <1>3 DEF ItemsIn, ChangeInOrder, ItemsInOrder, TerminalStage
<1>10. ChangeInOrder(ch)'
  <2>1. RunInOrder(ch)'
    BY <1>5, <1>6, <1>7, <1>9 DEF RunInOrder, Absent
  <2>2. ItemsInOrder(ch)'
    BY <1>2, <1>6 DEF ChangeInOrder, ItemsInOrder, ItemsIn
  <2>3. ChangeStatus(ch) = "PUBLISH_INTENT" => PendingReviews(ch) = {}
    BY <1>2, <1>5 DEF ChangeInOrder, ItemsInOrder, PendingReviews
  <2> QED
    BY <1>5, <1>6, <1>7, <2>1, <2>2, <2>3 DEF ChangeInOrder, ItemsIn, PendingReviews, Absent
<1>11. CallInOrder(w)' /\ \A k \in Changes : ~Examines(w, k)'
  BY <1>1, ReturnInOrder
<1>12. \A u \in Workers \ {w} : ~Examines(u, ch)
  BY <1>2, OnlyExaminer
<1> QED
  BY <1>1, <1>5, <1>7, <1>8, <1>10, <1>11, <1>12, WritingStepKeeps DEF Absent

-----------------------------------------------------------------------------
(* Steps of others.                                                        *)

(* The general form of them: no call moves, and the run stays.             *)
LEMMA OthersStepKeeps ==
  ASSUME InOrder, NEW ch \in Changes, LedgerTypeOK', UNCHANGED <<knowledge, call, calm>>,
         Elsewhere(ch), ChangeInOrder(ch)', UNCHANGED <<run, items>>
  PROVE  InOrder'
<1> DEFINE busy == {}
<1>1. ClaimsKept
  BY UnchangedKeepsClaims DEF InOrder
<1>2. CallsTypeOK' /\ calm' \in BOOLEAN
  BY DEF InOrder, CallsTypeOK
<1>3. \A u \in Workers : Examines(u, ch) =>
        run'[ch] \notin {"EXTRACTING", "COMPLETED"} /\ items'[ch] = items[ch]
  BY DEF InOrder, CallInOrder, Examines
<1>4. \A u \in Workers : call'[u] = call[u]
  OBVIOUS
<1> HIDE DEF busy
<1>5. busy = {}
  BY DEF busy
<1> QED
  BY <1>1, <1>2, <1>3, <1>4, <1>5, StepKeepsGovernance

LEMMA PublishKeeps ==
  ASSUME InOrder, NEW ch \in Changes, Publish(ch)
  PROVE  InOrder'
<1>1. /\ change' = [change EXCEPT ![ch] = "ACTIVE"] /\ change[ch] = "PUBLISH_INTENT"
      /\ UNCHANGED <<run, items, review, claims>> /\ UNCHANGED <<knowledge, call, calm>>
  BY DEF Publish, knowledge
<1>2. LedgerTypeOK' /\ Elsewhere(ch) /\ change'[ch] = "ACTIVE"
  BY <1>1 DEF InOrder, LedgerTypeOK, KnowledgeChangeStatus, Elsewhere
<1>3. ChangeInOrder(ch)'
  BY <1>1, <1>2 DEF InOrder, ChangeInOrder, RunInOrder, ItemsInOrder, ItemsIn, PendingReviews
<1> QED
  BY <1>1, <1>2, <1>3, OthersStepKeeps

(* What an answer does to the reviews of the change.                       *)
LEMMA AnswerTaken ==
  ASSUME InOrder, NEW ch \in Changes, NEW c \in DOMAIN review[ch], NEW decision \in Decisions,
         DecideReview(ch, c, decision)
  PROVE  /\ c \in PendingReviews(ch) /\ PendingReviews(ch)' = PendingReviews(ch) \ {c}
         /\ DOMAIN review'[ch] = DOMAIN review[ch] /\ IsPerClaim(review'[ch], ReviewRequestStatus)
         /\ DOMAIN review' = Changes /\ \A k \in Changes \ {ch} : review'[k] = review[k]
<1>1. decision \in {"APPROVED", "REJECTED", "CANCELLED"} /\ review[ch][c] = "PENDING"
  BY GovernanceAssumption
     DEF DecideReview, CanTransition, ReviewRequestTransitions, ReviewDecision
<1>2. DOMAIN review = Changes /\ IsPerClaim(review[ch], ReviewRequestStatus)
  BY DEF InOrder, LedgerTypeOK
<1>3. review' = [review EXCEPT ![ch] = [review[ch] EXCEPT ![c] = decision]]
  BY DEF DecideReview
<1>4. /\ DOMAIN review'[ch] = DOMAIN review[ch] /\ review'[ch][c] = decision
      /\ \A d \in DOMAIN review[ch] \ {c} : review'[ch][d] = review[ch][d]
      /\ DOMAIN review' = Changes /\ \A k \in Changes \ {ch} : review'[k] = review[k]
  BY <1>2, <1>3 DEF IsPerClaim
<1> QED
  BY <1>1, <1>2, <1>3, <1>4 DEF PendingReviews, IsPerClaim, ReviewRequestStatus

LEMMA DecideKeeps ==
  ASSUME InOrder, NEW ch \in Changes, NEW c \in DOMAIN review[ch], NEW decision \in Decisions,
         Decide(ch, c, decision)
  PROVE  InOrder'
<1>1. /\ DecideReview(ch, c, decision) /\ UNCHANGED <<run, items, claims>>
      /\ UNCHANGED <<knowledge, call, calm>> /\ ChangeInOrder(ch)
  BY DEF Decide, DecideReview, knowledge, InOrder
<1>2. change'[ch] = IF change[ch] # "REVIEW_REQUIRED"
                         \/ (decision = "APPROVED" /\ PendingReviews(ch) # {c})
                    THEN change[ch]
                    ELSE IF decision = "APPROVED" THEN "PUBLISH_INTENT" ELSE "FAILED"
  BY DEF Decide, InOrder, LedgerTypeOK
<1>3. LedgerTypeOK' /\ Elsewhere(ch)
  <2>1. \A k \in Changes : IsPerClaim(review'[k], ReviewRequestStatus)
    BY <1>1, AnswerTaken DEF InOrder, LedgerTypeOK
  <2>2. change' \in [Changes -> KnowledgeChangeStatus]
    BY DEF Decide, InOrder, LedgerTypeOK, KnowledgeChangeStatus
  <2> QED
    BY <1>1, <2>1, <2>2, AnswerTaken DEF Decide, InOrder, LedgerTypeOK, Elsewhere
<1>4. RunInOrder(ch)' /\ ItemsInOrder(ch)'
  BY <1>1, <1>2, AnswerTaken DEF ChangeInOrder, RunInOrder, ItemsInOrder, ItemsIn
<1>5. change'[ch] \in {"PUBLISH_INTENT", "ACTIVE"} => PendingReviews(ch)' = {}
  BY <1>1, <1>2, AnswerTaken DEF ChangeInOrder
<1>6. ChangeInOrder(ch)'
  BY <1>1, <1>2, <1>4, <1>5 DEF ChangeInOrder, RunInOrder, ItemsIn, Absent
<1> QED
  BY <1>1, <1>3, <1>6, OthersStepKeeps

LEMMA StutteringKeeps ==
  ASSUME InOrder, UNCHANGED <<knowledge, ledger, call>>, calm' \in BOOLEAN
  PROVE  InOrder'
<1>1. ClaimsKept /\ LedgerTypeOK' /\ \A ch \in Changes : ChangeInOrder(ch)'
  BY UnchangedKeepsTables
<1>2. CallsTypeOK' /\ OneExaminer' /\ \A w \in Workers : CallInOrder(w)'
  BY DEF InOrder, CallsTypeOK, OneExaminer, Examines, CallInOrder, At, ledger, ItemsIn
<1> QED
  BY <1>1, <1>2 DEF InOrder, ClaimsKept

-----------------------------------------------------------------------------
(* The invariant.                                                          *)

LEMMA GovernanceStartsInOrder == Init => InOrder
<1> SUFFICES ASSUME Init PROVE InOrder
  OBVIOUS
<1>1. claims \in [Claims -> ClaimRow] /\ \A c \in Claims : claims[c] = NoClaim
  BY DEF Init, KnowledgeInit, NoClaim, ClaimRow
<1>2. KnowledgeTypeOK /\ \A c \in Claims : ClaimInOrder(c)
  BY <1>1 DEF Init, KnowledgeInit, KnowledgeTypeOK, ClaimInOrder, NoClaim, Absent
<1>3. \A T : IsPerClaim(Nothing, T) /\ DOMAIN Nothing = {}
  BY NothingIsPerClaim
<1>4. LedgerTypeOK
  BY <1>3 DEF Init, LedgerInit, LedgerTypeOK, KnowledgeChangeStatus, RunRow
<1>5. CallsTypeOK
  BY IdleIsCall DEF Init, CallsTypeOK
<1>6. \A w \in Workers : CallInOrder(w) /\ \A ch \in Changes : ~Examines(w, ch)
  BY <1>3 DEF Init, Idle, CallInOrder, Examines, At
<1>7. \A ch \in Changes : ChangeInOrder(ch)
  BY <1>3 DEF Init, LedgerInit, ChangeInOrder, RunInOrder, ItemsInOrder, ItemsIn, PendingReviews,
     Absent
<1>8. OneExaminer /\ \A w \in Workers : CallInOrder(w)
  BY <1>6 DEF OneExaminer
<1>9. calm \in BOOLEAN
  BY DEF Init
<1> QED
  BY <1>2, <1>4, <1>5, <1>7, <1>8, <1>9 DEF InOrder

LEMMA StepKeeps ==
  ASSUME InOrder, NEW w \in Workers, Step(w)
  PROVE  InOrder'
<1>1. CASE ApplyNonContentChange(w)
  BY <1>1, ApplyNonContentChangeKeeps
<1>2. CASE RefuseNonContentChange(w)
  BY <1>2, ReturnKeeps DEF RefuseNonContentChange, At
<1>3. ASSUME NEW drafts \in SUBSET Fingerprints, PersistExtraction(w, drafts)
      PROVE  InOrder'
  BY <1>3, PersistExtractionKeeps
<1>4. CASE FailExtraction(w)
  BY <1>4, FailExtractionKeeps
<1>5. ASSUME NEW c \in DOMAIN call[w].pending,
             \/ CompleteReusedClaim(w, c) \/ EvaluateClaim(w, c)
             \/ FailEvaluation(w, c) \/ RefuseEvidence(w, c)
      PROVE  InOrder'
  BY <1>5, CompleteReusedClaimKeeps, EvaluateClaimKeeps, FailItemKeeps
     DEF FailEvaluation, RefuseEvidence
<1>6. CASE EndEvaluation(w)
  BY <1>6, EndEvaluationKeeps
<1>7. CASE Reconcile(w)
  BY <1>7, ReconcileKeeps
<1>8. CASE ReportEndedRun(w)
  BY <1>8, ReturnKeeps DEF ReportEndedRun, At
<1> QED
  BY <1>1, <1>2, <1>3, <1>4, <1>5, <1>6, <1>7, <1>8 DEF Step

LEMMA GovernanceKeepsOrder == InOrder /\ [Next \/ CalmDown]_vars => InOrder'
<1> SUFFICES ASSUME InOrder, [Next \/ CalmDown]_vars PROVE InOrder'
  OBVIOUS
<1>1. ASSUME NEW w \in Workers, Step(w) PROVE InOrder'
  BY <1>1, StepKeeps
<1>2. ASSUME NEW w \in Workers, Crash(w) PROVE InOrder'
  BY <1>2, ReturnKeeps DEF Crash
<1>3. ASSUME NEW w \in Workers, NEW ch \in Changes, BeginRun(w, ch) PROVE InOrder'
  BY <1>3, BeginRunKeeps
<1>4. ASSUME NEW w \in Workers, NEW ch \in Changes, TakeUpRun(w, ch) PROVE InOrder'
  BY <1>4, TakeUpRunKeeps
<1>5. ASSUME NEW ch \in Changes, Publish(ch) PROVE InOrder'
  BY <1>5, PublishKeeps
<1>6. ASSUME NEW ch \in Changes, NEW c \in DOMAIN review[ch], NEW decision \in Decisions,
             Decide(ch, c, decision)
      PROVE  InOrder'
  BY <1>6, DecideKeeps
<1>7. CASE CalmDown
  BY <1>7, StutteringKeeps DEF CalmDown
<1>8. CASE UNCHANGED vars
  BY <1>8, StutteringKeeps DEF vars, InOrder
<1> QED
  BY <1>1, <1>2, <1>3, <1>4, <1>5, <1>6, <1>7, <1>8 DEF Next

(* The invariant of governance holds of every behaviour, with the failures *)
(* of models and processes that stop at some time and with those that do   *)
(* not (runner.py, review.py).                                             *)
THEOREM GovernanceCorrect == Init /\ [][Next \/ CalmDown]_vars => []GovernanceInv
<1>1. Init => GovernanceInv
  BY GovernanceStartsInOrder, InvariantSplit
<1>2. GovernanceInv /\ [Next \/ CalmDown]_vars => GovernanceInv'
  BY GovernanceKeepsOrder, InvariantSplit, InvariantSplitNext
<1> QED
  BY <1>1, <1>2, PTL

LEMMA GovernanceOfSpec == Spec => []GovernanceInv
<1>1. [Next]_vars => [Next \/ CalmDown]_vars
  OBVIOUS
<1> QED
  BY <1>1, GovernanceCorrect, PTL DEF Spec

(* The tables and the calls keep their types (runner.py, models.py).       *)
THEOREM GovernanceTypesCorrect == Spec => []TypeOK
<1>1. GovernanceInv => TypeOK
  BY DEF GovernanceInv
<1> QED
  BY <1>1, GovernanceOfSpec, PTL

(* A change that publication may take up has been judged as a whole        *)
(* (runner.py reconcile, review.py decide).                                *)
THEOREM ClearedChangesAreDecided == Spec => []PublishIntentIsDecided
<1>1. GovernanceInv => PublishIntentIsDecided
  BY DEF GovernanceInv
<1> QED
  BY <1>1, GovernanceOfSpec, PTL

(* A change is under validation exactly while its run is open, and a run   *)
(* that lost an item leaves a failed change (runner.py _begin, _fail_run   *)
(* and reconcile).                                                         *)
THEOREM RunsAndChangesAgree == Spec => []RunAndChangeAgree
<1>1. GovernanceInv => RunAndChangeAgree
  BY DEF GovernanceInv
<1> QED
  BY <1>1, GovernanceOfSpec, PTL

(* The evidence that decided a claim is on record with it (runner.py       *)
(* _persist_decision, quality.py evaluate).                                *)
THEOREM VerdictsHaveEvidence == Spec => []VerifiedIsSupported
<1>1. GovernanceInv => VerifiedIsSupported
  BY DEF GovernanceInv
<1> QED
  BY <1>1, GovernanceOfSpec, PTL

-----------------------------------------------------------------------------
(* Governance implements the lifecycle of a change.                        *)

Open == [ch \in Changes |-> PendingReviews(ch)]

LEMMA SameQuestions ==
  ASSUME UNCHANGED review
  PROVE  UNCHANGED Open
BY DEF Open, PendingReviews

LEMMA OthersQuestions ==
  ASSUME NEW ch \in Changes, NEW qs, PendingReviews(ch)' = qs,
         \A k \in Changes \ {ch} : review'[k] = review[k]
  PROVE  Open' = [Open EXCEPT ![ch] = qs]
BY DEF Open, PendingReviews

LEMMA SettlingAsks ==
  ASSUME InOrder, NEW w \in Workers, NEW c, Evaluating(w, c), NEW ch \in Changes,
         ch = call[w].change, AddReview(ch, c), UNCHANGED change
  PROVE  Promised!Next
<1>1. /\ c \in Claims /\ change[ch] \in {"VALIDATING", "FAILED"} /\ c \notin DOMAIN review[ch]
  BY PendingCheck
     DEF Evaluating, At, InOrder, CallInOrder, Examines, ChangeInOrder, RunInOrder, ItemsInOrder,
         ItemsIn
<1> DEFINE asked == [d \in DOMAIN review[ch] \cup {c} |->
                       IF d = c THEN "PENDING" ELSE review[ch][d]]
<1>2. DOMAIN review = Changes /\ review' = [review EXCEPT ![ch] = asked]
  BY DEF AddReview, InOrder, LedgerTypeOK
<1>3. {d \in DOMAIN asked : asked[d] = "PENDING"} = PendingReviews(ch) \cup {c}
  BY <1>1 DEF PendingReviews
<1> HIDE DEF asked
<1>4. /\ PendingReviews(ch)' = PendingReviews(ch) \cup {c}
      /\ \A k \in Changes \ {ch} : review'[k] = review[k]
  BY <1>2, <1>3 DEF PendingReviews
<1>5. Open' = [Open EXCEPT ![ch] = Open[ch] \cup {c}]
  BY <1>4, OthersQuestions DEF Open
<1>6. c \notin Open[ch]
  BY <1>1 DEF Open, PendingReviews
<1>7. Promised!Ask(ch, c)
  BY <1>1, <1>5, <1>6 DEF Promised!Ask, Open
<1> QED
  BY <1>1, <1>7 DEF Promised!Next

LEMMA SettlingKeepsPromise ==
  ASSUME InOrder, NEW w \in Workers, NEW c, Evaluating(w, c), UNCHANGED change,
         AddReview(call[w].change, c) \/ UNCHANGED review
  PROVE  [Promised!Next]_<<change, Open>>
<1>1. call[w].change \in Changes
  BY PendingCheck
<1> QED
  BY <1>1, SettlingAsks, SameQuestions

LEMMA ReconcileKeepsPromise ==
  ASSUME InOrder, NEW w \in Workers, Reconcile(w)
  PROVE  [Promised!Next]_<<change, Open>>
<1> PICK ch \in Changes : ch = call[w].change
  BY CallersAtWork DEF Reconcile, At
<1>1. CASE change[ch] # "VALIDATING"
  BY <1>1, SameQuestions DEF Reconcile, InOrder, LedgerTypeOK
<1>2. CASE change[ch] = "VALIDATING"
  <2>1. ChangeStatus(ch) \in {"PUBLISH_INTENT", "REVIEW_REQUIRED", "FAILED", "QUARANTINED"}
    BY DEF ChangeStatus
  <2>2. ChangeStatus(ch) = "PUBLISH_INTENT" => Open[ch] = {}
    BY DEF ChangeStatus, Open, InOrder, ChangeInOrder, ItemsInOrder, PendingReviews
  <2>3. change' = [change EXCEPT ![ch] = ChangeStatus(ch)] /\ UNCHANGED Open
    BY <1>2, SameQuestions DEF Reconcile
  <2>4. Promised!Move(ch, ChangeStatus(ch))
    BY <1>2, <2>1, <2>3 DEF Promised!Move, CanTransition, KnowledgeChangeTransitions,
       Promised!CanTransition, Promised!KnowledgeChangeTransitions
  <2>5. Promised!Settle(ch, ChangeStatus(ch)) /\ ChangeStatus(ch) \in KnowledgeChangeStatus
    BY <1>2, <2>1, <2>2, <2>3, <2>4 DEF Promised!Settle, Open, KnowledgeChangeStatus
  <2> QED
    BY <2>5 DEF Promised!Next, Promised!KnowledgeChangeStatus, KnowledgeChangeStatus
<1> QED
  BY <1>1, <1>2

LEMMA DecideKeepsPromise ==
  ASSUME InOrder, NEW ch \in Changes, NEW c \in DOMAIN review[ch], NEW decision \in Decisions,
         Decide(ch, c, decision)
  PROVE  Promised!Next
<1> DEFINE yes == decision = "APPROVED"
<1>1. /\ c \in Open[ch] /\ Open' = [Open EXCEPT ![ch] = Open[ch] \ {c}] /\ c \in Claims
  BY AnswerTaken, OthersQuestions DEF Decide, Open, InOrder, LedgerTypeOK, IsPerClaim
<1>2. CASE change[ch] # "REVIEW_REQUIRED" \/ (yes /\ Open[ch] # {c})
  <2>1. UNCHANGED change
    BY <1>2 DEF Decide, Open, InOrder, LedgerTypeOK
  <2> QED
    BY <1>1, <1>2, <2>1 DEF Promised!Next, Promised!Answer, Open
<1>3. CASE ~(change[ch] # "REVIEW_REQUIRED" \/ (yes /\ Open[ch] # {c}))
  <2>1. change' = [change EXCEPT ![ch] = IF yes THEN "PUBLISH_INTENT" ELSE "FAILED"]
    BY <1>3 DEF Decide, Open
  <2>2. Promised!Move(ch, IF yes THEN "PUBLISH_INTENT" ELSE "FAILED")
    BY <1>3, <2>1
       DEF Promised!Move, Promised!CanTransition, Promised!KnowledgeChangeTransitions
  <2> HIDE DEF yes
  <2>3. Promised!Answer(ch, c, yes)
    BY <1>1, <1>3, <2>2 DEF Promised!Answer, Open
  <2>4. yes \in BOOLEAN
    BY DEF yes
  <2> QED
    BY <1>1, <2>3, <2>4 DEF Promised!Next
<1> QED
  BY <1>2, <1>3

LEMMA StepKeepsPromise ==
  ASSUME InOrder, NEW w \in Workers, Step(w)
  PROVE  [Promised!Next]_<<change, Open>>
<1>1. CASE UNCHANGED <<change, review>>
  BY <1>1, SameQuestions
<1>2. CASE FailExtraction(w)
  <2> PICK ch \in Changes : ch = call[w].change
    BY <1>2, CallersAtWork DEF FailExtraction, At
  <2>1. CASE MovesChange(ch, "FAILED")
    <3>1. change' = [change EXCEPT ![ch] = "FAILED"] /\ UNCHANGED Open
      BY <1>2, <2>1, SameQuestions DEF FailExtraction, FailRun
    <3>2. Promised!GiveUp(ch)
      BY <2>1, <3>1 DEF Promised!GiveUp, Promised!Move, MovesChange, CanTransition,
         Promised!CanTransition, KnowledgeChangeTransitions, Promised!KnowledgeChangeTransitions,
         Open
    <3> QED
      BY <3>2 DEF Promised!Next
  <2>2. CASE ~MovesChange(ch, "FAILED")
    BY <1>2, <2>2, SameQuestions DEF FailExtraction, FailRun, InOrder, LedgerTypeOK
  <2> QED
    BY <2>1, <2>2
<1>3. ASSUME NEW c, EvaluateClaim(w, c) PROVE [Promised!Next]_<<change, Open>>
  <2>1. ASSUME NEW available, NEW findings, DecideClaim(w, c, available, findings)
        PROVE  [Promised!Next]_<<change, Open>>
    BY <2>1, SettlingKeepsPromise DEF DecideClaim
  <2> QED
    BY <1>3, <2>1 DEF EvaluateClaim
<1>4. CASE Reconcile(w)
  BY <1>4, ReconcileKeepsPromise
<1>5. \/ UNCHANGED <<change, review>> \/ FailExtraction(w) \/ Reconcile(w)
      \/ \E c : EvaluateClaim(w, c)
  BY DEF Step, ApplyNonContentChange, RefuseNonContentChange, PersistExtraction, AddItems,
     CompleteReusedClaim, FailEvaluation, RefuseEvidence, FailItem, EndEvaluation,
     ReportEndedRun, ledger
<1> QED
  BY <1>1, <1>2, <1>3, <1>4, <1>5

LEMMA GovernanceKeepsPromise ==
  ASSUME InOrder, [Next \/ CalmDown]_vars
  PROVE  [Promised!Next]_<<change, Open>>
<1>1. ASSUME NEW w \in Workers, Step(w) PROVE [Promised!Next]_<<change, Open>>
  BY <1>1, StepKeepsPromise
<1>2. ASSUME NEW w \in Workers, NEW ch \in Changes, BeginRun(w, ch)
      PROVE  [Promised!Next]_<<change, Open>>
  <2>1. Promised!Take(ch)
    BY <1>2, SameQuestions DEF BeginRun, AddRun, MovesChange, CanTransition, Promised!Take,
       KnowledgeChangeTransitions, Promised!Move, Promised!CanTransition,
       Promised!KnowledgeChangeTransitions, Open
  <2> QED
    BY <2>1 DEF Promised!Next
<1>3. ASSUME NEW ch \in Changes, Publish(ch) PROVE [Promised!Next]_<<change, Open>>
  <2>1. Promised!Activate(ch)
    BY <1>3, SameQuestions DEF Publish, Promised!Activate, Promised!Move,
       Promised!CanTransition, Promised!KnowledgeChangeTransitions, Open
  <2> QED
    BY <2>1 DEF Promised!Next
<1>4. ASSUME NEW ch \in Changes, NEW c \in DOMAIN review[ch], NEW decision \in Decisions,
             Decide(ch, c, decision)
      PROVE  [Promised!Next]_<<change, Open>>
  BY <1>4, DecideKeepsPromise
<1>5. CASE UNCHANGED <<change, review>>
  BY <1>5, SameQuestions
<1>6. \/ UNCHANGED <<change, review>>
      \/ \E w \in Workers : Step(w) \/ \E ch \in Changes : BeginRun(w, ch)
      \/ \E ch \in Changes :
           \/ Publish(ch)
           \/ \E c \in DOMAIN review[ch], decision \in Decisions : Decide(ch, c, decision)
  BY DEF Next, CalmDown, vars, ledger, Crash, TakeUpRun
<1> QED
  BY <1>1, <1>2, <1>3, <1>4, <1>5, <1>6

(* Governance implements what it promises of a change: a change is cleared *)
(* only while no question about it is open, and one that waits for answers *)
(* is cleared by the last of them and by nothing else (runner.py           *)
(* reconcile, review.py decide).                                           *)
THEOREM GovernanceKeepsItsPromise == Init /\ [][Next \/ CalmDown]_vars => ImplementsKnowledgeChanges
<1>1. Init => Promised!Init
  BY NothingIsPerClaim DEF Init, LedgerInit, Promised!Init, PendingReviews
<1>2. GovernanceInv /\ [Next \/ CalmDown]_vars =>
        [Promised!Next]_<<change, [ch \in Changes |-> PendingReviews(ch)]>>
  BY InvariantSplit, GovernanceKeepsPromise DEF Open
<1> QED
  BY <1>1, <1>2, GovernanceCorrect, PTL DEF ImplementsKnowledgeChanges, Promised!Spec

===============================================================================
