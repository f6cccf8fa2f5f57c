SPECIFICATION Spec
CONSTANTS
  f1 = f1  f2 = f2  v1 = v1  v2 = v2  ch1 = ch1  ch2 = ch2  ch3 = ch3
  p1 = p1  p2 = p2  w1 = w1  w2 = w2  None = None
  Fingerprints = {f1, f2}
  Versions = {v1, v2}
  Changes = {ch1, ch2, ch3}
  Pages = {p1}
  Workers = {w1, w2}
  MaxIncarnations = 2
  MaxSources = 2
  Assigned <- Overlapping_Assigned
  TypeOf <- MC_TypeOf
  TargetOf <- MC_TargetOf
  BaseOf <- MC_BaseOf
  OriginTier <- MC_OriginTier
  DraftOf <- MC_DraftOf
  Extractions <- MC_Extractions
  TierOf <- MC_TierOf
  FamilyOf <- MC_FamilyOf
  RankOf <- MC_RankOf
  Decisions = {"APPROVED", "REJECTED"}
  Assessments <- MC_Assessments
INVARIANTS
  GovernanceInv  RunAndChangeAgree VerifiedIsSupported
CHECK_DEADLOCK FALSE
