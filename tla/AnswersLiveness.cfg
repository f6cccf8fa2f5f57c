SPECIFICATION FairTrustedSpec
CONSTANTS
  o1 = o1  o2 = o2  c1 = c1  c2 = c2  n1 = n1  g1 = g1  w1 = w1  s1 = s1
  a1 = a1  a2 = a2  r1 = r1  k1 = k1  q1 = q1  q2 = q2  t1 = t1  t2 = t2
  None = None
  ManualContent = ManualContent
  Operations = {o1}
  Changes = {c1}
  Notes = {n1}
  Generations = {g1}
  NoteOf <- SameNote_NoteOf
  ChangeOf <- Own_ChangeOf
  GenerationOf <- Same_GenerationOf
  MaxAttempts = 1
  Workers = {w1}
  Assigned <- All_Assigned
  FaultPoints = {}
  EditedNotes = {}
  NoteWorkers = {s1}
  GenerationWorkers = {}
  Reconcilers = {k1}
  LosesRows = TRUE
  Askers = {a1}
  Requests = {r1}
  Questions = {q1}
  Texts = {t1}
  ScopeOf <- MC_ScopeOf
  QualityOf <- MC_QualityOf
  MinEvidence = 1
  DiesWriting = FALSE
PROPERTIES
  RestorationsComplete RequestsEnd DriftIsRepaired
