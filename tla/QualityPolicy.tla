---------------------------- MODULE QualityPolicy ----------------------------
(***************************************************************************)
(* The quality policy (governance/quality.py): what is decided on a claim  *)
(* from its draft, the tier of the note it comes from and the verifier's   *)
(* findings on the candidates of its evidence pack.  No safety signal ever *)
(* reaches it: the runner passes none.                                     *)
(***************************************************************************)
EXTENDS EvidencePackBuilder

SubjectiveTypes == {"OPINION", "PREDICTION"}
UserAssertedTypes == {"USER_EXPERIENCE", "PREFERENCE", "DECISION"}
PublicFactTypes == {"FACT", "DEFINITION", "PROCEDURE", "CODE_BEHAVIOR"}
ClaimType == SubjectiveTypes \cup UserAssertedTypes \cup PublicFactTypes

(* ClaimDraft: what the policy asks of it.                                 *)
Draft ==
  [type : ClaimType, sensitivity : {"PRIVATE", "RESTRICTED", "PUBLIC"},
   highRiskDomain : BOOLEAN, owned : BOOLEAN, versioned : BOOLEAN, dated : BOOLEAN]

(* CandidateVerification: relevance and coverage in hundredths.            *)
Finding ==
  [stance : {"SUPPORTS", "CONTRADICTS", "NEUTRAL"}, relevance : 0..100,
   coverage : 0..100, versionMatch : BOOLEAN, freshnessMatch : BOOLEAN]

Decision ==
  [verdict : {"VERIFIED", "USER_ASSERTED", "OPINION", "INSUFFICIENT", "CONTESTED",
              "REJECTED"},
   review : BOOLEAN, publishable : BOOLEAN]

RelevanceFloor == 80
CoverageFloor == 95

(* classify_risk                                                           *)
Risk(draft) ==
  IF draft.highRiskDomain THEN "HIGH"
  ELSE IF draft.type \in SubjectiveTypes \cup UserAssertedTypes \/ draft.sensitivity = "PUBLIC"
       THEN "LOW"
       ELSE "MEDIUM"

RequiresPublicEvidence(draft) ==
  draft.sensitivity = "PUBLIC" /\ draft.type \in PublicFactTypes

(* Candidates of an authoritative tier that are found to take the stance.  *)
Authoritative(findings, stance) ==
  {m \in DOMAIN findings : /\ TierOf[m.page] \in {"T1", "T2"}
                           /\ findings[m].stance = stance
                           /\ findings[m].relevance >= RelevanceFloor}

Covers(findings, candidates) == \E m \in candidates : findings[m].coverage >= CoverageFloor

(* Version and freshness are matched by any supporting candidate, not by   *)
(* the one that covers the claim.                                          *)
MeetsScope(draft, findings, support) ==
  /\ (draft.type = "CODE_BEHAVIOR" \/ draft.versioned)
       => \E m \in support : findings[m].versionMatch
  /\ draft.dated => \E m \in support : findings[m].freshnessMatch

Insufficient == [verdict |-> "INSUFFICIENT", review |-> TRUE, publishable |-> FALSE]

(* Accepted as it is when the risk is low, put to review otherwise.        *)
Accepted(verdict, risk) ==
  [verdict |-> verdict, review |-> risk # "LOW", publishable |-> risk = "LOW"]

(* What the evidence alone decides.                                        *)
Weigh(draft, findings) ==
  LET support       == Authoritative(findings, "SUPPORTS")
      contradiction == Authoritative(findings, "CONTRADICTS")
  IN  CASE support # {} /\ contradiction # {} ->
             [verdict |-> "CONTESTED", review |-> TRUE, publishable |-> FALSE]
        [] contradiction = {} /\ Covers(findings, support)
             /\ MeetsScope(draft, findings, support) ->
             Accepted("VERIFIED", Risk(draft))
        [] support = {} /\ Covers(findings, contradiction) ->
             [verdict |-> "REJECTED", review |-> Risk(draft) # "LOW", publishable |-> FALSE]
        [] OTHER -> Insufficient

(* evaluate; without a search there are no findings either.                *)
Evaluate(draft, tier, searchAvailable, findings) ==
  CASE draft.type \in SubjectiveTypes -> Accepted("OPINION", Risk(draft))
    [] tier = "T0" /\ draft.type \in UserAssertedTypes /\ draft.owned ->
         Accepted("USER_ASSERTED", Risk(draft))
    [] OTHER -> IF searchAvailable /\ DOMAIN findings # {} THEN Weigh(draft, findings)
                                                           ELSE Insufficient
==============================================================================
