-------------------------- MODULE StateTransitions --------------------------
(***************************************************************************)
(* The lifecycle tables of src/trustworthy_kb/domain/transitions.py that   *)
(* ingestion, governance, publication and answers are driven by.  A table  *)
(* is the set of its declared pairs; every pair the code does not declare  *)
(* fails closed.                                                           *)
(***************************************************************************)

CuratedVersionTransitions ==
  ({"DRAFT"}      \X {"VALIDATING"}) \cup
  ({"VALIDATING"} \X {"STAGING", "QUARANTINED", "FAILED"}) \cup
  ({"STAGING"}    \X {"ACTIVE", "QUARANTINED", "FAILED"}) \cup
  ({"ACTIVE"}     \X {"STALE_PENDING_REVIEW", "SUPERSEDED"}) \cup
  ({"STALE_PENDING_REVIEW"} \X {"SUPERSEDED"})

IndexGenerationTransitions ==
  ({"STAGING"}    \X {"ACTIVE", "FAILED"}) \cup
  ({"ACTIVE"}     \X {"SUPERSEDED"}) \cup
  ({"SUPERSEDED"} \X {"ACTIVE"})

IndexJobTransitions ==
  ({"PENDING"}        \X {"INDEXING"}) \cup
  ({"INDEXING"}       \X {"INDEXED", "FAILED"}) \cup
  ({"INDEXED"}        \X {"ACTIVE_INDEXED"}) \cup
  ({"ACTIVE_INDEXED"} \X {"DELETE_PENDING"}) \cup
  ({"DELETE_PENDING"} \X {"DELETED", "ACTIVE_INDEXED"}) \cup
  ({"DELETED"}        \X {"PENDING"}) \cup
  ({"FAILED"}         \X {"PENDING"})

PublicationRunTransitions ==
  ({"PLANNING"}        \X {"CURATING", "FAILED"}) \cup
  ({"CURATING"}        \X {"VAULT_STAGED", "FAILED"}) \cup
  ({"VAULT_STAGED"}    \X {"INDEXING", "FAILED"}) \cup
  ({"INDEXING"}        \X {"INDEX_VERIFIED", "FAILED"}) \cup
  ({"INDEX_VERIFIED"}  \X {"VAULT_PUBLISHED", "FAILED"}) \cup
  ({"VAULT_PUBLISHED"} \X {"ACTIVATING", "FAILED"}) \cup
  ({"ACTIVATING"}      \X {"COMPLETED", "FAILED"}) \cup
  ({"FAILED"} \X {"CURATING", "VAULT_STAGED", "INDEXING",
                   "INDEX_VERIFIED", "VAULT_PUBLISHED", "ACTIVATING"})

SourceVersionTransitions ==
  ({"CAPTURED"}     \X {"PARSED", "PARSE_FAILED", "QUARANTINED", "DELETED"}) \cup
  ({"PARSED"}       \X {"READY", "PARSE_FAILED", "QUARANTINED", "DELETED"}) \cup
  ({"READY"}        \X {"DELETED"}) \cup
  ({"PARSE_FAILED"} \X {"PARSED", "QUARANTINED", "DELETED"}) \cup
  ({"QUARANTINED"}  \X {"DELETED"})

IngestionRunTransitions ==
  ({"PLANNING"} \X {"APPLYING", "FAILED", "ABANDONED"}) \cup
  ({"APPLYING"} \X {"COMPLETED", "PARTIAL_FAILED", "FAILED", "ABANDONED"})

IngestionItemTransitions ==
  ({"PENDING"}  \X {"APPLYING"}) \cup
  ({"APPLYING"} \X {"SUCCEEDED", "SKIPPED", "QUARANTINED", "FAILED"}) \cup
  ({"FAILED"}   \X {"PENDING"})

KnowledgeChangeTransitions ==
  ({"RECEIVED"}        \X {"VALIDATING", "FAILED", "QUARANTINED"}) \cup
  ({"VALIDATING"}      \X {"PUBLISH_INTENT", "REVIEW_REQUIRED", "FAILED", "QUARANTINED"}) \cup
  ({"REVIEW_REQUIRED"} \X {"PUBLISH_INTENT", "FAILED", "QUARANTINED"}) \cup
  ({"PUBLISH_INTENT"}  \X {"ACTIVE", "FAILED", "QUARANTINED"})

ClaimTransitions ==
  ({"PROPOSED"} \X {"VERIFIED", "USER_ASSERTED", "OPINION", "INSUFFICIENT",
                    "CONTESTED", "REJECTED", "QUARANTINED"}) \cup
  ({"VERIFIED", "USER_ASSERTED", "OPINION", "INSUFFICIENT", "CONTESTED"}
     \X {"OUTDATED", "SUPERSEDED"})

GovernanceRunTransitions ==
  ({"PLANNING"}    \X {"EXTRACTING", "FAILED", "QUARANTINED"}) \cup
  ({"EXTRACTING"}  \X {"EVALUATING", "FAILED", "QUARANTINED"}) \cup
  ({"EVALUATING"}  \X {"RECONCILING", "FAILED", "QUARANTINED"}) \cup
  ({"RECONCILING"} \X {"COMPLETED", "PARTIAL_FAILED", "FAILED", "QUARANTINED"})

GovernanceItemTransitions ==
  ({"EXTRACTED"}        \X {"EVIDENCE_PENDING", "DECIDING", "FAILED"}) \cup
  ({"EVIDENCE_PENDING"} \X {"VERIFYING", "FAILED"}) \cup
  ({"VERIFYING"}        \X {"DECIDING", "FAILED"}) \cup
  ({"DECIDING"}         \X {"DECIDED", "REVIEW_REQUIRED", "FAILED"})

ReviewRequestTransitions == {"PENDING"} \X {"APPROVED", "REJECTED", "CANCELLED"}

AnswerRunTransitions == {"IN_PROGRESS"} \X {"ANSWERED", "REFUSED", "FAILED"}

CanTransition(table, current, target) == <<current, target>> \in table

CuratedVersionStatus ==
  {"DRAFT", "VALIDATING", "STAGING", "ACTIVE", "STALE_PENDING_REVIEW",
   "SUPERSEDED", "QUARANTINED", "FAILED"}
IndexGenerationStatus == {"STAGING", "ACTIVE", "SUPERSEDED", "FAILED"}
IndexJobStatus ==
  {"PENDING", "INDEXING", "INDEXED", "ACTIVE_INDEXED", "DELETE_PENDING",
   "DELETED", "FAILED"}
KnowledgeChangeStatus ==
  {"RECEIVED", "VALIDATING", "REVIEW_REQUIRED", "PUBLISH_INTENT", "ACTIVE",
   "QUARANTINED", "FAILED"}
PublicationRunStatus ==
  {"PLANNING", "CURATING", "VAULT_STAGED", "INDEXING", "INDEX_VERIFIED",
   "VAULT_PUBLISHED", "ACTIVATING", "COMPLETED", "FAILED"}
SourceVersionStatus ==
  {"CAPTURED", "PARSED", "PARSE_FAILED", "READY", "QUARANTINED", "DELETED"}
IngestionRunStatus ==
  {"PLANNING", "APPLYING", "COMPLETED", "PARTIAL_FAILED", "FAILED", "ABANDONED"}
IngestionItemStatus ==
  {"PENDING", "APPLYING", "SUCCEEDED", "SKIPPED", "QUARANTINED", "FAILED"}

ClaimStatus ==
  {"PROPOSED", "VERIFIED", "USER_ASSERTED", "OPINION", "INSUFFICIENT",
   "CONTESTED", "OUTDATED", "REJECTED", "SUPERSEDED", "QUARANTINED"}
GovernanceRunStatus ==
  {"PLANNING", "EXTRACTING", "EVALUATING", "RECONCILING", "COMPLETED",
   "PARTIAL_FAILED", "FAILED", "QUARANTINED"}
GovernanceItemStage ==
  {"EXTRACTED", "EVIDENCE_PENDING", "VERIFYING", "DECIDING", "DECIDED",
   "REVIEW_REQUIRED", "FAILED"}
ReviewRequestStatus == {"PENDING", "APPROVED", "REJECTED", "CANCELLED"}
AnswerRunStatus == {"IN_PROGRESS", "ANSWERED", "REFUSED", "FAILED"}

(* A row that has not been inserted.                                       *)
Absent == "absent"
=============================================================================
