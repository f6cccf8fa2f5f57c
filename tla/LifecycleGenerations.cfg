SPECIFICATION OperationsSpec
CONSTANTS
  o1 = o1  o2 = o2  o3 = o3  c1 = c1  c2 = c2  n1 = n1  n2 = n2  g1 = g1  g2 = g2
  w1 = w1  w2 = w2  m1 = m1  i1 = i1
  None = None
  ManualContent = ManualContent
  Operations = {o1, o2, o3}
  Changes = {c1, c2}
  Notes = {n1, n2}
  Generations = {g1, g2}
  NoteOf <- TwoNotes_NoteOf
  ChangeOf <- SharedChange_ChangeOf
  GenerationOf <- TwoGenerations_GenerationOf
  MaxAttempts = 1
  Workers = {w1, w2}
  Assigned <- TwoWorkers_Assigned
  FaultPoints = {}
  EditedNotes = {}
  NoteWorkers = {}
  GenerationWorkers = {m1}
  OperationIds = {i1}
INVARIANTS
  OperationsTypeOK ServedJobIsActive LiveNotesOnActiveGeneration OneActiveGeneration
  ChangeActivatedOnce LogIsTrue
