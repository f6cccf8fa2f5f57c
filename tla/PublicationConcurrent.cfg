SPECIFICATION Spec
CONSTANTS
  o1 = o1  o2 = o2  c1 = c1  c2 = c2  n1 = n1  g1 = g1  w1 = w1  w2 = w2
  None = None
  ManualContent = ManualContent
  Operations = {o1, o2}
  Changes = {c1, c2}
  Notes = {n1}
  Generations = {g1}
  NoteOf <- SameNote_NoteOf
  ChangeOf <- OwnChange_ChangeOf
  GenerationOf <- SameGeneration_GenerationOf
  MaxAttempts = 1
  Workers = {w1, w2}
  Assigned <- Overlapping_Assigned
  FaultPoints <- EveryFault
  EditedNotes = {}
INVARIANTS
  PublicationInv ServedIsPublished ActiveVersionIsServed
PROPERTIES
  CompletionIsFinal ImplementsAtomicPublication
