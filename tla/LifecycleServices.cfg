SPECIFICATION LifecycleSpec
CONSTANTS
  o1 = o1  o2 = o2  c1 = c1  c2 = c2  n1 = n1  g1 = g1  g2 = g2
  w1 = w1  s1 = s1  m1 = m1
  None = None
  ManualContent = ManualContent
  Operations = {o1, o2}
  Changes = {c1, c2}
  Notes = {n1}
  Generations = {g1, g2}
  NoteOf <- SameNote_NoteOf
  ChangeOf <- Two_ChangeOf
  GenerationOf <- Two_GenerationOf
  MaxAttempts = 1
  Workers = {w1}
  Assigned <- Two_Assigned
  FaultPoints = {}
  EditedNotes = {}
  NoteWorkers = {s1}
  GenerationWorkers = {m1}
INVARIANTS
  ErasureInv ServedIsInIndex DeletedIsErasedAndKept RetainedForRollback
PROPERTY
  ImplementsKnowledgeServing
