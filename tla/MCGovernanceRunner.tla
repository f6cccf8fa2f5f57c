-------------------------- MODULE MCGovernanceRunner --------------------------
(* Finite instances of GovernanceRunner for TLC.                           *)
EXTENDS GovernanceRunner, TLC

CONSTANTS f1, f2, v1, v2, ch1, ch2, ch3, p1, p2, w1, w2

\* f1 is what its owner asserts of a high-risk matter, f2 a public fact.
PublicFact ==
  [type |-> "FACT", sensitivity |-> "PUBLIC", highRiskDomain |-> FALSE,
   owned |-> FALSE, versioned |-> FALSE, dated |-> FALSE]
OwnedAssertion ==
  [PublicFact EXCEPT !.type = "DECISION", !.highRiskDomain = TRUE, !.owned = TRUE]
MC_DraftOf == f1 :> OwnedAssertion @@ f2 :> PublicFact

\* Two calls of ch2 at once, one of which goes on with the others.
Overlapping_Assigned == w1 :> Changes @@ w2 :> {ch2}
MC_TypeOf == [ch \in Changes |-> IF ch = ch3 THEN "DELETED" ELSE "CREATED"]
MC_TargetOf == [ch \in Changes |-> IF ch = ch2 THEN v2 ELSE v1]
MC_BaseOf == [ch \in Changes |-> IF ch = ch3 THEN v1 ELSE None]
MC_OriginTier == [ch \in Changes |-> "T0"]
MC_Extractions == v1 :> {{f1, f2}} @@ v2 :> {{f2}}

MC_TierOf == [p \in Pages |-> IF p = p1 THEN "T1" ELSE "T4"]
MC_FamilyOf == [p \in Pages |-> p]
MC_RankOf == [m \in Material |-> (IF m.page = p1 THEN 0 ELSE 2) + (IF m.intent = "SUPPORT" THEN 0 ELSE 1)]

Found(stance, coverage) ==
  [stance |-> stance, relevance |-> 100, coverage |-> coverage,
   versionMatch |-> TRUE, freshnessMatch |-> TRUE]
Supporting_Assessments == {Found("SUPPORTS", 100)}
MC_Assessments == {Found("SUPPORTS", 100), Found("CONTRADICTS", 100)}

\* For the review of a high-risk fact: two notes state it.
HighRiskFact == [PublicFact EXCEPT !.highRiskDomain = TRUE]
HighRisk_DraftOf == [f \in Fingerprints |-> HighRiskFact]
Shared_Extractions == [v \in Versions |-> {Fingerprints}]
===============================================================================
