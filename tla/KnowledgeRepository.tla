------------------------- MODULE KnowledgeRepository -------------------------
(***************************************************************************)
(* Claims, the source versions they were extracted from, and the evidence  *)
(* recorded for them (persistence/knowledge_repository.py).  A claim is    *)
(* one row of a fingerprint: when the row is OUTDATED or REJECTED the same *)
(* statement is proposed again as another row.                             *)
(***************************************************************************)
EXTENDS QualityPolicy, StateTransitions

CONSTANTS
  Fingerprints,
  Versions,          \* source versions that claims are extracted from
  Changes,           \* knowledge changes; each makes at most one check of a claim
  MaxIncarnations,   \* bound on the rows of a fingerprint
  None

ASSUME KnowledgeAssumption == MaxIncarnations \in Nat /\ None \notin Changes

VARIABLES
  claims,     \* status, current quality check and origins of each claim
  evidence    \* rows of the evidence table: claim, page and stance

knowledge == <<claims, evidence>>

Claims == Fingerprints \X (1..MaxIncarnations)

\* The current check is named by the change that it was made for.
ClaimRow ==
  [status : ClaimStatus \cup {Absent}, check : Changes \cup {None},
   origins : SUBSET Versions]

NoClaim == [status |-> Absent, check |-> None, origins |-> {}]

EvidenceRow ==
  [claim : Claims, page : Pages, stance : {"SUPPORTS", "CONTRADICTS", "NEUTRAL"}]

KnowledgeTypeOK ==
  /\ claims \in [Claims -> ClaimRow]
  /\ evidence \subseteq EvidenceRow

KnowledgeInit ==
  /\ claims = [c \in Claims |-> NoClaim]
  /\ evidence = {}

-----------------------------------------------------------------------------

InactiveStatus == {"OUTDATED", "REJECTED", "SUPERSEDED", "QUARANTINED"}

Rows(f) == {c \in Claims : c[1] = f /\ claims[c].status # Absent}

(* find_active_claim_by_fingerprint                                        *)
Active(f) == {c \in Rows(f) : claims[c].status \notin InactiveStatus}

CanPropose(f) == Active(f) # {} \/ Cardinality(Rows(f)) < MaxIncarnations

(* The claim that a draft is about: the active one, or a new row.          *)
ClaimFor(f) ==
  IF Active(f) # {} THEN CHOOSE c \in Active(f) : TRUE
                    ELSE <<f, Cardinality(Rows(f)) + 1>>

(* add_claim and attach_claim_origin for every draft of a version.         *)
ProposeClaims(drafts, v) ==
  claims' = [c \in Claims |->
    IF \E f \in drafts : c = ClaimFor(f)
    THEN [claims[c] EXCEPT !.status = IF @ = Absent THEN "PROPOSED" ELSE @,
                           !.origins = @ \cup {v}]
    ELSE claims[c]]

(* list_claims_for_source_version                                          *)
ClaimsOf(v) == {c \in Claims : v \in claims[c].origins}

(* The effect of the deletion of a version on its claims; the other        *)
(* origins of a claim are not asked for.                                   *)
OutdateClaims(v) ==
  claims' = [c \in Claims |->
    IF c \in ClaimsOf(v) /\ CanTransition(ClaimTransitions, claims[c].status, "OUTDATED")
    THEN [claims[c] EXCEPT !.status = "OUTDATED"]
    ELSE claims[c]]

(* record_quality_check, set_current_quality_check and transition_claim:   *)
(* the check becomes the current one of a claim that another change has    *)
(* decided meanwhile, whose status stays.                                  *)
RecordCheck(c, ch, verdict) ==
  claims' = [claims EXCEPT
    ![c].check = ch,
    ![c].status = IF @ = "PROPOSED" THEN verdict ELSE @]

(* add_evidence for every candidate of the pack.                           *)
EvidenceOf(c, findings) ==
  {[claim |-> c, page |-> m.page, stance |-> findings[m].stance] : m \in DOMAIN findings}

(* A claim has one row for a place and a stance; the pack may not ask for  *)
(* one twice, nor for one that is there.                                   *)
CanAddEvidence(c, findings) ==
  /\ EvidenceOf(c, findings) \cap evidence = {}
  /\ \A m, n \in DOMAIN findings :
       m.page = n.page /\ findings[m].stance = findings[n].stance => m = n

\* mutant: what the challenging search found is not recorded
AddSupportingEvidence(c, findings) ==
  LET supporting == {m \in DOMAIN findings : m.intent = "SUPPORT"}
  IN  evidence' = evidence \cup EvidenceOf(c, [m \in supporting |-> findings[m]])

AddEvidence(c, findings) == evidence' = evidence \cup EvidenceOf(c, findings)
==============================================================================
