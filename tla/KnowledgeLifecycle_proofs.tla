----------------------- MODULE KnowledgeLifecycle_proofs -----------------------
(***************************************************************************)
(* Proofs about the composition of publication, note lifecycle and         *)
(* generation lifecycle, for any number of workers of each kind.           *)
(***************************************************************************)
EXTENDS KnowledgeLifecycle, PublicationRunner_proofs

(* A step of a publication call is a step of PublicationRunner.            *)
LEMMA PublishStepIsNext ==
  ASSUME NEW w \in Workers, PublishStep(w)
  PROVE  Next /\ UNCHANGED <<trash, lifecycle, migration>>
BY DEF PublishStep, Next, Call

LEMMA TransitionJobTyped ==
  ASSUME TablesTypeOK, NEW v \in Operations, NEW g \in Generations,
         NEW t \in IndexJobStatus, TransitionJob(v, g, t)
  PROVE  job' \in [Operations -> [Generations -> IndexJobStatus \cup {Absent}]]
BY DEF TablesTypeOK, VersionRow, JobRow, TransitionJob

LEMMA ChunkOperationsTyped ==
  ASSUME VectorsTypeOK, NEW v \in Operations, NEW g \in Generations,
         \/ IndexChunks(v, g) \/ IndexChunksPartly(v, g)
         \/ DeleteChunks(v, g) \/ DeleteChunksPartly(v, g)
  PROVE  VectorsTypeOK'
<1>1. \E left \in VectorStates : vectors' = [vectors EXCEPT ![v][g] = left]
  <2>1. vectors[v][g] \in VectorStates
    BY DEF VectorsTypeOK
  <2>2. CASE IndexChunks(v, g) \/ DeleteChunks(v, g)
    BY <2>2 DEF IndexChunks, DeleteChunks, VectorStates
  <2>3. CASE IndexChunksPartly(v, g) \/ DeleteChunksPartly(v, g)
    BY <2>1, <2>3 DEF IndexChunksPartly, DeleteChunksPartly, VectorStates
  <2> QED
    BY <2>2, <2>3
<1> QED
  BY <1>1 DEF VectorsTypeOK

-----------------------------------------------------------------------------
(* Type correctness.                                                       *)

(* What a worker of the note lifecycle holds while it is not idle.         *)
LEMMA HeldTyped ==
  ASSUME LifecycleTypeOK, NEW s \in NoteWorkers, ~AtCall(s, "idle")
  PROVE  /\ lifecycle[s] \in ActiveCall
         /\ lifecycle[s].note \in Notes /\ lifecycle[s].version \in Operations
         /\ lifecycle[s].generation \in Generations /\ lifecycle[s].job \in IndexJobStatus
<1>1. lifecycle[s] \in ActiveCall
  BY DEF LifecycleTypeOK, AtCall, NoCall
<1> QED
  BY <1>1 DEF ActiveCall

LEMMA ProceedTyped ==
  ASSUME LifecycleTypeOK, NEW s \in NoteWorkers, ~AtCall(s, "idle"),
         NEW label \in CallLabels, Proceed(s, label)
  PROVE  LifecycleTypeOK'
<1>1. lifecycle[s] \in ActiveCall
  BY HeldTyped
<1> QED
  BY <1>1 DEF Proceed, LifecycleTypeOK, ActiveCall

LEMMA LoadNoteTyped ==
  ASSUME LifecycleTypeOK, TablesTypeOK, NEW s \in NoteWorkers, NEW n \in Notes, Loadable(n),
         NEW label \in CallLabels, LoadNote(s, n, label)
  PROVE  LifecycleTypeOK'
<1>1. /\ note[n].current \in Operations /\ note[n].generation \in Generations
      /\ CurrentJob(n) \in IndexJobStatus
  BY DEF TablesTypeOK, VersionRow, JobRow, NoteRow, Loadable, IsPublished, CurrentJob
<1> QED
  BY <1>1 DEF LoadNote, LifecycleTypeOK, ActiveCall

LEMMA EndCallTyped ==
  ASSUME LifecycleTypeOK, NEW s \in NoteWorkers, EndCall(s)
  PROVE  LifecycleTypeOK'
BY DEF EndCall, LifecycleTypeOK

(* What a step of a note worker writes is typed.                           *)
LEMMA NoteStepTyped ==
  ASSUME TypeOK, TrashTypeOK, LifecycleTypeOK, NEW s \in NoteWorkers,
         NoteProgress(s) \/ NoteDisturb(s) \/ \E n \in Notes : NoteCall(s, n)
  PROVE  /\ note' \in [Notes -> NoteRow]
         /\ job' \in [Operations -> [Generations -> IndexJobStatus \cup {Absent}]]
         /\ VectorsTypeOK' /\ TrashTypeOK' /\ LifecycleTypeOK'
         /\ final' \in [Notes -> Operations \cup {ManualContent, None}]
<1> DEFINE Tables ==
      /\ note' \in [Notes -> NoteRow]
      /\ job' \in [Operations -> [Generations -> IndexJobStatus \cup {Absent}]]
    Files == TrashTypeOK' /\ final' \in [Notes -> Operations \cup {ManualContent, None}]
<1>a. TablesTypeOK /\ VaultTypeOK /\ VectorsTypeOK
  BY DEF TypeOK
<1>t. UNCHANGED <<note, job>> => Tables
  BY <1>a DEF TablesTypeOK, VersionRow, JobRow
<1>f. UNCHANGED <<final, trash>> => Files
  BY <1>a DEF VaultTypeOK, TrashTypeOK
<1>v. UNCHANGED vectors => VectorsTypeOK'
  BY <1>a DEF VectorsTypeOK
<1>j. ASSUME ~AtCall(s, "idle"), NEW t \in IndexJobStatus, SetJob(s, t)
      PROVE  job' \in [Operations -> [Generations -> IndexJobStatus \cup {Absent}]]
  BY <1>j, <1>a, HeldTyped, TransitionJobTyped DEF SetJob
<1>n. note \in [Notes -> NoteRow]
  BY <1>a DEF TablesTypeOK
<1>1. ASSUME NEW n \in Notes, NoteCall(s, n)
      PROVE  LifecycleTypeOK' /\ UNCHANGED <<note, job, vectors, final, trash>>
  BY <1>1, <1>a, LoadNoteTyped DEF NoteCall, DeleteNote, RestoreCall, CallLabels
<1>2. CASE NoteDisturb(s)
  <2>1. LifecycleTypeOK' /\ UNCHANGED <<note, job, final, trash>>
    BY <1>2, EndCallTyped, ProceedTyped
       DEF NoteDisturb, EraseRaises, IndexRestoredRaises, NoteCrash, AtCall, CallLabels
  <2>2. VectorsTypeOK'
    BY <1>2, <1>a, <1>v, HeldTyped, ChunkOperationsTyped
       DEF NoteDisturb, EraseRaises, IndexRestoredRaises, NoteCrash, AtCall
  <2> QED
    BY <2>1, <2>2, <1>t, <1>f
<1>3. CASE ExcludeNote(s)
  <2>1. ASSUME PrepareNoteDeletion(lifecycle[s].note, lifecycle[s].version, lifecycle[s].generation)
        PROVE  Tables
    BY <2>1, <1>3, <1>a, <1>n, HeldTyped, TransitionJobTyped
       DEF PrepareNoteDeletion, ExcludeNote, AtCall, NoteRow, IndexJobStatus
  <2> QED
    BY <1>3, <2>1, <1>t, <1>f, <1>v, ProceedTyped, EndCallTyped DEF ExcludeNote, AtCall, CallLabels
<1>4. CASE ReloadExcluded(s) \/ ReloadReopened(s) \/ ReloadMarked(s)
  <2>1. LifecycleTypeOK'
    BY <1>4, <1>a, HeldTyped, LoadNoteTyped, EndCallTyped
       DEF ReloadExcluded, ReloadReopened, ReloadMarked, AtCall, CallLabels
  <2> QED
    BY <1>4, <2>1, <1>t, <1>f, <1>v DEF ReloadExcluded, ReloadReopened, ReloadMarked
<1>5. CASE RecycleFile(s) \/ ReturnFile(s)
  <2>1. Files
    BY <1>5, <1>a, <1>f, HeldTyped
       DEF RecycleFile, ReturnFile, AtCall, Recycle, RestoreRecycled, VaultTypeOK, TrashTypeOK
  <2> QED
    BY <1>5, <2>1, <1>t, <1>v, ProceedTyped, EndCallTyped
       DEF RecycleFile, ReturnFile, AtCall, CallLabels
<1>6. CASE EraseVectors(s) \/ ReindexLive(s) \/ IndexRestored(s)
  <2>1. VectorsTypeOK'
    BY <1>6, <1>a, HeldTyped, ChunkOperationsTyped
       DEF EraseVectors, ReindexLive, IndexRestored, AtCall
  <2> QED
    BY <1>6, <2>1, <1>t, <1>f, ProceedTyped, EndCallTyped
       DEF EraseVectors, ReindexLive, IndexRestored, AtCall, CallLabels
<1>7. CASE ConfirmDeletion(s) \/ ReopenIndex(s) \/ FailRestoreIndex(s)
  <2>1. job' \in [Operations -> [Generations -> IndexJobStatus \cup {Absent}]]
    BY <1>7, <1>j, <1>a
       DEF ConfirmDeletion, ReopenIndex, FailRestoreIndex, AtCall, IndexJobStatus, TablesTypeOK, JobRow
  <2> QED
    BY <1>7, <2>1, <1>n, <1>f, <1>v, ProceedTyped, EndCallTyped
       DEF ConfirmDeletion, ReopenIndex, FailRestoreIndex, AtCall, CallLabels
<1>8. CASE MarkRestored(s)
  <2>1. job' \in [Operations -> [Generations -> IndexJobStatus \cup {Absent}]]
    BY <1>8, <1>j, <1>a DEF MarkRestored, CommitJob, AtCall, IndexJobStatus, TablesTypeOK, JobRow
  <2> QED
    BY <1>8, <2>1, <1>n, <1>f, <1>v, ProceedTyped, EndCallTyped
       DEF MarkRestored, CommitJob, AtCall, CallLabels
<1>9. CASE VerifyLiveFile(s)
  BY <1>9, <1>t, <1>f, <1>v, ProceedTyped, EndCallTyped DEF VerifyLiveFile, AtCall, CallLabels
<1>10. CASE AdmitNote(s)
  <2>1. ASSUME RestoreNote(lifecycle[s].note, lifecycle[s].version, lifecycle[s].generation)
        PROVE  Tables
    BY <2>1, <1>10, <1>a, <1>n, HeldTyped, TransitionJobTyped
       DEF RestoreNote, AdmitNote, AtCall, NoteRow, IndexJobStatus
  <2> QED
    BY <1>10, <2>1, <1>t, <1>f, <1>v, EndCallTyped DEF AdmitNote
<1> QED
  BY <1>1, <1>2, <1>3, <1>4, <1>5, <1>6, <1>7, <1>8, <1>9, <1>10, <1>t, <1>f, <1>v DEF NoteProgress

(* What a worker of the generation lifecycle holds while it is not idle.   *)
LEMMA MigrationHeldTyped ==
  ASSUME MigrationTypeOK, NEW m \in GenerationWorkers
  PROVE  /\ migration[m].todo \in SUBSET Operations
         /\ ~MigratingAt(m, "idle") => migration[m].target \in Generations
         /\ migration[m].at \in VersionLabels => migration[m].version \in Operations
         /\ migration[m].at \in ListLabels => migration[m].version = None
         /\ migration[m] \in MigrationCall
<1>1. migration[m] \in MigrationCall
  BY DEF MigrationTypeOK
<1> QED
  BY <1>1 DEF MigrationCall, NoMigration, MigratingAt, VersionLabels, ListLabels

LEMMA MigrationMoveTyped ==
  ASSUME MigrationTypeOK, NEW m \in GenerationWorkers,
         \/ EndMigration(m)
         \/ migration[m].at \in VersionLabels /\ \E label \in VersionLabels : Continue(m, label)
         \/ /\ ~MigratingAt(m, "idle")
            /\ \E v \in Operations, label \in ListLabels : Strike(m, v, label)
  PROVE  MigrationTypeOK'
<1>1. CASE EndMigration(m)
  BY <1>1 DEF EndMigration, MigrationTypeOK, MigrationCall
<1>2. ASSUME migration[m].at \in VersionLabels, NEW label \in VersionLabels, Continue(m, label)
      PROVE  MigrationTypeOK'
  <2>1. migration[m] \in [at : VersionLabels, target : Generations, version : Operations,
                          todo : SUBSET Operations]
    BY <1>2 DEF MigrationTypeOK, MigrationCall, NoMigration, ListLabels, VersionLabels
  <2> QED
    BY <1>2, <2>1 DEF Continue, MigrationTypeOK, MigrationCall
<1>3. ASSUME ~MigratingAt(m, "idle"), NEW v \in Operations, NEW label \in ListLabels,
             Strike(m, v, label)
      PROVE  MigrationTypeOK'
  <2>1. migration[m].target \in Generations /\ migration[m].todo \ {v} \in SUBSET Operations
    BY <1>3, MigrationHeldTyped
  <2>2. [at |-> label, target |-> migration[m].target, version |-> None,
         todo |-> migration[m].todo \ {v}] \in MigrationCall
    BY <2>1 DEF MigrationCall
  <2> QED
    BY <1>3, <2>2 DEF Strike, MigrationTypeOK
<1> QED
  BY <1>1, <1>2, <1>3

(* What a step of a generation worker writes is typed.                     *)
LEMMA GenerationStepTyped ==
  ASSUME TypeOK, MigrationTypeOK, NEW m \in GenerationWorkers,
         \/ GenerationProgress(m) \/ GenerationDisturb(m)
         \/ \E g \in Generations : GenerationCall(m, g),
         UNCHANGED <<change, version, run>>
  PROVE  TablesTypeOK' /\ VectorsTypeOK' /\ MigrationTypeOK'
<1>a. TablesTypeOK /\ VectorsTypeOK
  BY DEF TypeOK
<1>t. UNCHANGED <<generation, note, job>> => TablesTypeOK'
  BY <1>a DEF TablesTypeOK
<1>v. UNCHANGED vectors => VectorsTypeOK'
  BY <1>a DEF VectorsTypeOK
<1>j. ASSUME NEW v \in Operations, NEW g \in Generations, NEW t \in IndexJobStatus,
             TransitionJob(v, g, t), UNCHANGED <<generation, note>>
      PROVE  TablesTypeOK'
  BY <1>j, <1>a, TransitionJobTyped DEF TablesTypeOK, VersionRow, JobRow
<1>1. ASSUME NEW g \in Generations, GenerationCall(m, g)
      PROVE  TablesTypeOK' /\ VectorsTypeOK' /\ MigrationTypeOK'
  <2>1. CASE StartRebuild(m, g) \/ StartPromotion(m, g) \/ StartRollback(m, g)
    <3>1. \A source \in Generations : VersionsServedFrom(source) \in SUBSET Operations
      BY <1>a DEF VersionsServedFrom, NotesServedFrom, LiveNotesOn, TablesTypeOK, NoteRow
    <3>2. \E source \in Generations, label \in ListLabels : Begin(m, source, g, label)
      BY <2>1 DEF StartRebuild, StartPromotion, StartRollback, StartMigration, ListLabels,
         ActiveGenerations
    <3>3. MigrationTypeOK'
      BY <3>1, <3>2 DEF Begin, MigrationTypeOK, MigrationCall
    <3> QED
      BY <2>1, <3>3, <1>t, <1>v DEF StartRebuild, StartPromotion, StartRollback, StartMigration
  <2>2. CASE Abort(m, g)
    BY <2>2, <1>a, <1>v DEF Abort, TablesTypeOK, IndexGenerationStatus, MigrationTypeOK
  <2> QED
    BY <1>1, <2>1, <2>2 DEF GenerationCall
<1>2. CASE GenerationDisturb(m)
  <2>1. UNCHANGED <<generation, note, job>>
    BY <1>2 DEF GenerationDisturb, IndexRebuiltRaises, GenerationCrash
  <2>2. MigrationTypeOK'
    BY <1>2, MigrationMoveTyped
       DEF GenerationDisturb, IndexRebuiltRaises, GenerationCrash, MigratingAt, VersionLabels
  <2>3. VectorsTypeOK'
    BY <1>2, <1>a, <1>v, MigrationHeldTyped, ChunkOperationsTyped
       DEF GenerationDisturb, IndexRebuiltRaises, GenerationCrash, MigratingAt, VersionLabels
  <2> QED
    BY <2>1, <2>2, <2>3, <1>t
<1>3. ASSUME NEW v \in Operations, OpenRebuildJob(m, v)
      PROVE  TablesTypeOK' /\ VectorsTypeOK' /\ MigrationTypeOK'
  <2>1. migration[m].target \in Generations /\ migration[m].todo \in SUBSET Operations
    BY <1>3, MigrationHeldTyped DEF OpenRebuildJob, MigratingAt
  <2>2. migration[m] \in [at : ListLabels, target : Generations, version : {None},
                          todo : SUBSET Operations]
    BY <1>3 DEF OpenRebuildJob, MigratingAt, MigrationTypeOK, MigrationCall, NoMigration,
       ListLabels, VersionLabels
  <2>3. ASSUME NEW label \in VersionLabels,
               migration' = [migration EXCEPT ![m].at = label, ![m].version = v]
        PROVE  MigrationTypeOK'
    BY <2>2, <2>3 DEF MigrationTypeOK, MigrationCall
  <2>4. MigrationTypeOK'
    BY <1>3, <2>3, MigrationMoveTyped DEF OpenRebuildJob, VersionLabels
  <2>5. TablesTypeOK'
    BY <1>3, <2>1, <1>j, <1>t DEF OpenRebuildJob, IndexJobStatus
  <2> QED
    BY <1>3, <2>4, <2>5, <1>v DEF OpenRebuildJob
<1>4. ASSUME NEW v \in Operations, CheckPromoted(m, v) \/ CheckRetained(m, v)
      PROVE  TablesTypeOK' /\ VectorsTypeOK' /\ MigrationTypeOK'
  BY <1>4, <1>t, <1>v, MigrationMoveTyped DEF CheckPromoted, CheckRetained, MigratingAt, ListLabels
<1>5. CASE IndexRebuilt(m) \/ VerifyRebuilt(m) \/ FinishRebuild(m)
  <2>1. migration[m].at = "rebuild" \/ migration[m].at \in VersionLabels
    BY <1>5 DEF IndexRebuilt, VerifyRebuilt, FinishRebuild, MigratingAt, VersionLabels
  <2>2. MigrationTypeOK'
    BY <1>5, <2>1, MigrationHeldTyped, MigrationMoveTyped
       DEF IndexRebuilt, VerifyRebuilt, FinishRebuild, MigratingAt, VersionLabels, ListLabels
  <2>3. VectorsTypeOK'
    BY <1>5, <1>a, <1>v, MigrationHeldTyped, ChunkOperationsTyped
       DEF IndexRebuilt, VerifyRebuilt, FinishRebuild, MigratingAt, VersionLabels
  <2> QED
    BY <1>5, <2>2, <2>3, <1>t DEF IndexRebuilt, VerifyRebuilt, FinishRebuild
<1>6. CASE FailRebuildIndex(m) \/ MarkRebuilt(m)
  <2>1. migration[m].target \in Generations /\ migration[m].version \in Operations
    BY <1>6, MigrationHeldTyped DEF FailRebuildIndex, MarkRebuilt, MigratingAt, VersionLabels
  <2>2. TablesTypeOK'
    BY <1>6, <2>1, <1>j, <1>t DEF FailRebuildIndex, MarkRebuilt, SetTargetJob, IndexJobStatus
  <2>3. MigrationTypeOK'
    BY <1>6, MigrationMoveTyped DEF FailRebuildIndex, MarkRebuilt, MigratingAt, VersionLabels
  <2> QED
    BY <1>6, <2>2, <2>3, <1>v DEF FailRebuildIndex, MarkRebuilt
<1>7. CASE Promote(m) \/ Rollback(m)
  <2>1. PICK label \in ListLabels, expected \in IndexJobStatus : CommitSwitch(m, label, expected)
    BY <1>7 DEF Promote, Rollback, ListLabels, IndexJobStatus
  <2>2. migration[m].target \in Generations
    BY <2>1, MigrationHeldTyped DEF CommitSwitch, MigratingAt, ListLabels
  <2>3. ASSUME NEW source \in Generations, SwitchGeneration(source, migration[m].target)
        PROVE  TablesTypeOK'
    <3>1. generation' \in [Generations -> IndexGenerationStatus]
      BY <2>3, <1>a DEF SwitchGeneration, TablesTypeOK, IndexGenerationStatus
    <3>2. note' \in [Notes -> NoteRow]
      BY <2>2, <2>3, <1>a DEF SwitchGeneration, TablesTypeOK, NoteRow
    <3>3. job' \in [Operations -> [Generations -> IndexJobStatus \cup {Absent}]]
      BY <2>2, <2>3, <1>a DEF SwitchGeneration, TablesTypeOK, JobRow, IndexJobStatus
    <3> QED
      BY <3>1, <3>2, <3>3, <1>a DEF TablesTypeOK, VersionRow, JobRow
  <2>4. TablesTypeOK'
    BY <2>1, <2>3, <1>t DEF CommitSwitch
  <2> QED
    BY <2>1, <2>4, <1>v, MigrationMoveTyped DEF CommitSwitch
<1> QED
  BY <1>1, <1>2, <1>3, <1>4, <1>5, <1>6, <1>7 DEF GenerationProgress

LEMMA LifecycleTypesInitially == LifecycleInitially => LifecycleTypesOK
BY TypeInitially DEF LifecycleInitially, LifecycleTypesOK, TrashTypeOK, LifecycleTypeOK,
   LifecycleInit, MigrationTypeOK, MigrationInit, MigrationCall

LEMMA LifecycleTypesInductive ==
  LifecycleTypesOK /\ [LifecycleNext]_allVars => LifecycleTypesOK'
<1> SUFFICES ASSUME LifecycleTypesOK, [LifecycleNext]_allVars PROVE LifecycleTypesOK'
  OBVIOUS
<1>a. TypeOK /\ TrashTypeOK /\ LifecycleTypeOK /\ MigrationTypeOK
  BY DEF LifecycleTypesOK
<1>1. ASSUME [Next]_vars, UNCHANGED <<trash, lifecycle, migration>> PROVE LifecycleTypesOK'
  BY <1>1, <1>a, TypeInductive DEF LifecycleTypesOK, TrashTypeOK, LifecycleTypeOK, MigrationTypeOK
<1>2. ASSUME NEW s \in NoteWorkers,
             NoteProgress(s) \/ NoteDisturb(s) \/ \E n \in Notes : NoteCall(s, n),
             UNCHANGED OutsideNotes
      PROVE  LifecycleTypesOK'
  BY <1>2, <1>a, NoteStepTyped
     DEF LifecycleTypesOK, OutsideNotes, workers, TypeOK, TablesTypeOK, VersionRow, JobRow, VaultTypeOK,
         WorkersTypeOK, MigrationTypeOK
<1>3. ASSUME NEW m \in GenerationWorkers,
             \/ GenerationProgress(m) \/ GenerationDisturb(m)
             \/ \E g \in Generations : GenerationCall(m, g),
             UNCHANGED OutsideGenerations
      PROVE  LifecycleTypesOK'
  BY <1>3, <1>a, GenerationStepTyped
     DEF LifecycleTypesOK, OutsideGenerations, workers, vault, TypeOK, VaultTypeOK,
         WorkersTypeOK, TrashTypeOK, LifecycleTypeOK
<1>4. CASE UNCHANGED allVars
  BY <1>4, <1>1 DEF allVars
<1> QED
  BY <1>1, <1>2, <1>3, <1>4, PublishStepIsNext
     DEF LifecycleNext, NoteProgressStep, NoteCallStep, NoteDisturbStep,
         GenerationProgressStep, GenerationCallStep, GenerationDisturbStep, Next

(* Every variable of the composition keeps its type.                       *)
THEOREM LifecycleTypesCorrect == LifecycleSpec => []LifecycleTypesOK
  BY LifecycleTypesInitially, LifecycleTypesInductive, PTL DEF LifecycleSpec

-----------------------------------------------------------------------------
(* The control tables.  A quiet step creates notes at most, writes no      *)
(* completed run or its version, and takes no job out of ACTIVE_INDEXED.   *)
(* Five kinds of step are not quiet: activation, exclusion, admission,     *)
(* abort and switch.                                                       *)

QuietControl ==
  /\ UNCHANGED <<change, generation>>
  /\ \A n \in Notes :
       note'[n] = note[n] \/ (note[n].state = Absent /\ note'[n] = NewNote)
  /\ \A o \in Operations :
       /\ run'[o].status = "COMPLETED" <=> run[o].status = "COMPLETED"
       /\ run[o].status = "COMPLETED" =>
            /\ version'[o] = version[o]
            /\ \A g \in Generations : job[o][g] = "ACTIVE_INDEXED" => job'[o][g] = "ACTIVE_INDEXED"

(* No declared transition but to DELETE_PENDING leaves ACTIVE_INDEXED.     *)
LEMMA ActiveIndexedIsLeftByDeletion ==
  ASSUME NEW target, CanTransition(IndexJobTransitions, "ACTIVE_INDEXED", target)
  PROVE  target = "DELETE_PENDING"
BY DEF CanTransition, IndexJobTransitions

LEMMA JobStepQuietControl ==
  ASSUME TablesTypeOK, UNCHANGED <<change, generation, note, version, run>>,
         NEW v \in Operations, NEW h \in Generations, NEW t,
         TransitionJob(v, h, t), job[v][h] # "ACTIVE_INDEXED"
  PROVE  QuietControl
<1>1. \A o \in Operations, g \in Generations :
        job[o][g] = "ACTIVE_INDEXED" => job'[o][g] = "ACTIVE_INDEXED"
  BY DEF TransitionJob, TablesTypeOK
<1> QED
  BY <1>1 DEF QuietControl

LEMMA UnchangedTablesQuietControl ==
  ASSUME UNCHANGED <<change, generation, note, version, run, job>> PROVE QuietControl
BY DEF QuietControl

LEMMA QuietControlKeepsInv ==
  ASSUME TypeOK, LifecycleInv, QuietControl
  PROVE  LifecycleInv'
<1>a. TablesTypeOK
  BY DEF TypeOK
<1>p. \A n \in Notes :
        /\ note'[n].current = note[n].current /\ note'[n].generation = note[n].generation
        /\ note'[n].state = Absent => note[n].state = Absent
        /\ note[n].current # None => note'[n] = note[n]
        /\ note[n].current \in Operations \cup {None}
        /\ note[n].generation \in Generations \cup {None}
  <2> TAKE n \in Notes
  <2>1. note[n] \in NoteRow
    BY <1>a DEF TablesTypeOK
  <2>2. CASE note'[n] = note[n]
    BY <2>1, <2>2 DEF NoteRow
  <2>3. CASE note[n].state = Absent /\ note'[n] = NewNote
    <3>1. note[n].current = None /\ note[n].generation = None
      BY <2>3 DEF LifecycleInv, PointersAreActivated, NoNote
    <3> QED
      BY <2>1, <2>3, <3>1 DEF NewNote, NoteRow
  <2> QED
    BY <2>2, <2>3 DEF QuietControl
<1>1. PointersAreActivated'
  <2> SUFFICES ASSUME NEW n \in Notes
               PROVE  /\ note'[n].state = Absent => note'[n] = NoNote
                      /\ note'[n].current # None =>
                           /\ NoteOf[note'[n].current] = n
                           /\ version'[note'[n].current] = "ACTIVE"
                           /\ run'[note'[n].current].status = "COMPLETED"
    BY DEF PointersAreActivated
  <2>1. CASE note'[n] = note[n]
    BY <1>p, <2>1 DEF PointersAreActivated, LifecycleInv, QuietControl
  <2>2. CASE note'[n] = NewNote
    BY <2>2 DEF NewNote, Absent
  <2> QED
    BY <2>1, <2>2 DEF QuietControl
<1>2. CompletedChangeIsActive'
  BY DEF CompletedChangeIsActive, LifecycleInv, QuietControl
<1>3. ServedJobIsActive'
  <2> SUFFICES ASSUME NEW n \in Notes, Served(n)'
               PROVE  (/\ NoteOf[note[n].current] = n /\ version[note[n].current] = "ACTIVE"
                       /\ CurrentJob(n) = "ACTIVE_INDEXED")'
    BY DEF ServedJobIsActive
  <2>1. /\ note'[n] = note[n] /\ note[n].current \in Operations
        /\ note[n].generation \in Generations /\ Served(n)
    BY <1>p DEF Served, IsPublished, IsLive
  <2>2. run[note[n].current].status = "COMPLETED"
    BY <2>1 DEF LifecycleInv, PointersAreActivated, Served, IsPublished
  <2> QED
    BY <2>1, <2>2 DEF LifecycleInv, ServedJobIsActive, CurrentJob, QuietControl
<1>4. OneActiveGeneration'
  BY DEF OneActiveGeneration, LifecycleInv, QuietControl
<1> QED
  BY <1>1, <1>2, <1>3, <1>4 DEF LifecycleInv

(* Every step of a publication is quiet or is its activation.              *)
LEMMA PublicationQuietControl ==
  ASSUME TypeOK, NEW w \in Workers, Progress(w), ~Activates(w)
  PROVE  QuietControl
<1>a. TablesTypeOK
  BY DEF TypeOK
<1>o. pc[w] # "idle" /\ operation[w] \in Operations
  BY DEF TypeOK, WorkersTypeOK, Progress, At, Ready, BeginPublication, Load, StartCurating,
     StageVault, CommitStaged, StartIndexing, Index, FinishIndexing, CheckVault, ReplaceFinal,
     CommitVaultPublished, StartActivating, VerifyActivation, ReadActivationRows, Activate,
     ResumeFailed, CommitResumed, Fail
<1>g. GenerationOf[operation[w]] \in Generations /\ NoteOf[operation[w]] \in Notes
  BY <1>o, RequestAssumption
<1>c. ASSUME NEW target, target # "COMPLETED", CommitRun(w, target) PROVE QuietControl
  BY <1>o, <1>c, TransitionRunQuiet, CompletedIsTerminal DEF CommitRun, QuietControl
<1>1. CASE BeginPublication(w)
  <2>1. CASE UNCHANGED tables
    BY <2>1, UnchangedTablesQuietControl DEF tables
  <2>2. CASE run[operation[w]].status = Absent /\ AddPublication(operation[w])
             /\ UNCHANGED <<change, generation>>
    BY <2>2, <1>o, <1>g, <1>a
       DEF AddPublication, QuietControl, TablesTypeOK, NoteRow, NewNote, Absent
  <2> QED
    BY <1>1, <2>1, <2>2 DEF BeginPublication
<1>2. CASE StartCurating(w) \/ CommitVaultPublished(w) \/ StartActivating(w)
  BY <1>2, <1>c DEF StartCurating, CommitVaultPublished, StartActivating
<1>3. CASE CommitResumed(w)
  <2>1. seen[w].target # "COMPLETED"
    BY <1>3 DEF CommitResumed, At, TypeOK, WorkersTypeOK, ResumeView
  <2> QED
    BY <1>3, <2>1, <1>c DEF CommitResumed
<1>4. CASE \/ Load(w) \/ StageVault(w) \/ CheckVault(w) \/ ReplaceFinal(w) \/ Index(w)
           \/ VerifyActivation(w) \/ ReadActivationRows(w) \/ ResumeFailed(w)
  BY <1>4, UnchangedTablesQuietControl
     DEF Load, StageVault, CheckVault, ReplaceFinal, Index, VerifyActivation,
         ReadActivationRows, ResumeFailed, tables
<1>5. CASE CommitStaged(w)
  <2>1. \A p \in Operations \ {operation[w]} : version'[p] = version[p]
    BY <1>5 DEF CommitStaged, TransitionVersion, TypeOK, TablesTypeOK
  <2>2. \/ UNCHANGED <<version, run>>
        \/ /\ run[operation[w]].status # "COMPLETED"
           /\ TransitionRun(operation[w], "VAULT_STAGED")
    BY <1>5, CompletedIsTerminal DEF CommitStaged
  <2> QED
    BY <1>5, <2>1, <2>2, <1>o, TransitionRunQuiet DEF CommitStaged, QuietControl
<1>6. CASE StartIndexing(w) \/ FinishIndexing(w) \/ Fail(w)
  <2>1. /\ job' = job \/ \E t \in {"INDEXING", "INDEXED", "FAILED"} :
                           TransitionJob(operation[w], GenerationOf[operation[w]], t)
        /\ job' # job => OwnJob(operation[w]) \in {"PENDING", "INDEXING", "FAILED"}
    BY <1>6 DEF StartIndexing, FinishIndexing, Fail
  <2>2. \A p \in Operations, g \in Generations :
          job[p][g] = "ACTIVE_INDEXED" => job'[p][g] = "ACTIVE_INDEXED"
    BY <2>1, <1>o, <1>g, <1>a DEF TransitionJob, TablesTypeOK, VersionRow, JobRow, OwnJob
  <2>3. \/ UNCHANGED run
        \/ /\ run[operation[w]].status # "COMPLETED"
           /\ \E t \in {"INDEXING", "INDEX_VERIFIED", "FAILED"} : TransitionRun(operation[w], t)
    BY <1>6, CompletedIsTerminal DEF StartIndexing, FinishIndexing, Fail
  <2>4. \A p \in Operations : run'[p].status = "COMPLETED" <=> run[p].status = "COMPLETED"
    BY <2>3, <1>o, TransitionRunQuiet
  <2> QED
    BY <1>6, <2>2, <2>4 DEF StartIndexing, FinishIndexing, Fail, QuietControl
<1>7. CASE Activate(w)
  <2>1. UNCHANGED tables
    BY <1>7 DEF Activate, Activates
  <2> QED
    BY <2>1, UnchangedTablesQuietControl DEF tables
<1> QED
  BY <1>1, <1>2, <1>3, <1>4, <1>5, <1>6, <1>7 DEF Progress

(* The activation keeps the invariant.                                     *)
LEMMA ActivationKeepsLifecycleInv ==
  ASSUME TypeOK, LifecycleInv, NEW w \in Workers, Activates(w)
  PROVE  LifecycleInv'
<1>o. PICK o \in Operations : Activation(o) /\ ActivatePublication(o, seen[w])
  BY ActivationWrites
<1>a. TablesTypeOK
  BY DEF TypeOK
<1>g. NoteOf[o] \in Notes /\ GenerationOf[o] \in Generations /\ ChangeOf[o] \in Changes
  BY RequestAssumption
<1>n. /\ note'[NoteOf[o]] = [state |-> "live", current |-> o, generation |-> GenerationOf[o]]
      /\ \A n \in Notes \ {NoteOf[o]} : note'[n] = note[n]
  BY <1>o, <1>a, <1>g DEF Activation, TablesTypeOK
<1>r. run[o].status # "COMPLETED" /\ run'[o].status = "COMPLETED" /\ version'[o] = "ACTIVE"
      /\ \A p \in Operations \ {o} : run'[p] = run[p]
  BY <1>o, <1>a DEF Activation, TablesTypeOK, RunRow
<1>j. job'[o][GenerationOf[o]] = "ACTIVE_INDEXED" /\ \A p \in Operations \ {o} : job'[p] = job[p]
  BY <1>o, <1>a, <1>g DEF Activation, TablesTypeOK
<1>p. \A n \in Notes \ {NoteOf[o]} : note[n].current # None =>
        /\ note[n].current \in Operations \ {o}
        /\ version'[note[n].current] = version[note[n].current]
  <2> SUFFICES ASSUME NEW n \in Notes \ {NoteOf[o]}, note[n].current # None
               PROVE  /\ note[n].current \in Operations \ {o}
                      /\ version'[note[n].current] = version[note[n].current]
    OBVIOUS
  <2>1. note[n].current \in Operations
    BY <1>a DEF TablesTypeOK, NoteRow
  <2>2. NoteOf[note[n].current] = n
    BY DEF LifecycleInv, PointersAreActivated
  <2>3. note[NoteOf[o]].current # note[n].current
    BY <2>2, <1>g DEF LifecycleInv, PointersAreActivated
  <2> QED
    BY <2>1, <2>2, <2>3, <1>o DEF Activation
<1>1. PointersAreActivated'
  <2> SUFFICES ASSUME NEW n \in Notes
               PROVE  /\ note'[n].state = Absent => note'[n] = NoNote
                      /\ note'[n].current # None =>
                           /\ NoteOf[note'[n].current] = n
                           /\ version'[note'[n].current] = "ACTIVE"
                           /\ run'[note'[n].current].status = "COMPLETED"
    BY DEF PointersAreActivated
  <2>1. CASE n = NoteOf[o]
    BY <2>1, <1>n, <1>r DEF Absent
  <2>2. CASE n # NoteOf[o]
    BY <2>2, <1>n, <1>r, <1>p DEF LifecycleInv, PointersAreActivated
  <2> QED
    BY <2>1, <2>2
<1>2. CompletedChangeIsActive'
  <2>1. \A c \in Changes : change[c] = "ACTIVE" => change'[c] = "ACTIVE"
    BY <1>o, <1>a, <1>g DEF Activation, TablesTypeOK
  <2>2. change'[ChangeOf[o]] = "ACTIVE"
    BY <1>o, <1>a, <1>g DEF Activation, TablesTypeOK
  <2> QED
    BY <2>1, <2>2, <1>r, RequestAssumption DEF LifecycleInv, CompletedChangeIsActive
<1>3. ServedJobIsActive'
  <2> SUFFICES ASSUME NEW n \in Notes, Served(n)'
               PROVE  /\ NoteOf[note'[n].current] = n /\ version'[note'[n].current] = "ACTIVE"
                      /\ job'[note'[n].current][note'[n].generation] = "ACTIVE_INDEXED"
    BY DEF ServedJobIsActive, CurrentJob
  <2>1. CASE n = NoteOf[o]
    BY <2>1, <1>n, <1>r, <1>j
  <2>2. CASE n # NoteOf[o]
    <3>1. note'[n] = note[n] /\ Served(n)
      BY <2>2, <1>n DEF Served, IsLive, IsPublished
    <3> QED
      BY <2>2, <3>1, <1>p, <1>j
         DEF LifecycleInv, ServedJobIsActive, CurrentJob, Served, IsPublished
  <2> QED
    BY <2>1, <2>2
<1>4. OneActiveGeneration'
  BY <1>o, <1>g, <1>a
     DEF ActivatePublication, ReplacedGenerations, OtherActiveGenerations, OneActiveGeneration,
         LifecycleInv, TablesTypeOK, Activates, CanActivate, RowsUnchanged, ActivationRows
<1> QED
  BY <1>1, <1>2, <1>3, <1>4 DEF LifecycleInv

-----------------------------------------------------------------------------
(* The steps of the other two services that are not quiet.                 *)

Excludes(n, v, g) ==
  /\ CanPrepareDeletion(n, v, g) /\ PrepareNoteDeletion(n, v, g)
  /\ UNCHANGED <<change, generation, version, run>>

Admits(n, v, g) ==
  /\ CanRestoreNote(n, v, g) /\ RestoreNote(n, v, g)
  /\ UNCHANGED <<change, generation, version, run>>

Switches(source, target, expected) ==
  /\ CanSwitchGeneration(source, target, expected) /\ SwitchGeneration(source, target)
  /\ UNCHANGED <<change, version, run>>

Aborts(g) ==
  /\ generation[g] = "STAGING"
  /\ generation' = [generation EXCEPT ![g] = "FAILED"]
  /\ UNCHANGED <<change, note, version, job, run>>

(* A deletion or a restoration is quiet but for its one step that takes    *)
(* the note out of service or puts it back.                                *)
LEMMA NoteStepControl ==
  ASSUME TypeOK, LifecycleTypeOK, NEW s \in NoteWorkers,
         NoteProgress(s) \/ NoteDisturb(s) \/ \E n \in Notes : NoteCall(s, n),
         UNCHANGED <<change, generation, version, run>>
  PROVE  \/ QuietControl
         \/ \E n \in Notes, v \in Operations, g \in Generations :
              Excludes(n, v, g) \/ Admits(n, v, g)
<1>a. TablesTypeOK
  BY DEF TypeOK
<1>u. UNCHANGED <<note, job>> => QuietControl
  BY UnchangedTablesQuietControl
<1>j. ASSUME ~AtCall(s, "idle"), UNCHANGED note, NEW t, SetJob(s, t),
             StoredJob(s) # "ACTIVE_INDEXED"
      PROVE  QuietControl
  BY <1>j, <1>a, HeldTyped, JobStepQuietControl DEF SetJob, StoredJob
<1>1. CASE NoteDisturb(s) \/ \E n \in Notes : NoteCall(s, n)
  BY <1>1, <1>u DEF NoteDisturb, EraseRaises, IndexRestoredRaises, NoteCrash, NoteCall,
     DeleteNote, RestoreCall
<1>2. CASE ExcludeNote(s)
  BY <1>2, <1>u, HeldTyped DEF ExcludeNote, Excludes, AtCall
<1>3. CASE AdmitNote(s)
  BY <1>3, <1>u, HeldTyped DEF AdmitNote, Admits, AtCall
<1>4. CASE \/ ReloadExcluded(s) \/ RecycleFile(s) \/ EraseVectors(s) \/ VerifyLiveFile(s)
           \/ ReindexLive(s) \/ ReloadReopened(s) \/ IndexRestored(s) \/ ReloadMarked(s)
           \/ ReturnFile(s)
  BY <1>4, <1>u DEF ReloadExcluded, RecycleFile, EraseVectors, VerifyLiveFile, ReindexLive,
     ReloadReopened, IndexRestored, ReloadMarked, ReturnFile
<1>5. CASE ConfirmDeletion(s) \/ ReopenIndex(s) \/ FailRestoreIndex(s) \/ MarkRestored(s)
  <2>1. ~AtCall(s, "idle") /\ UNCHANGED note
    BY <1>5 DEF ConfirmDeletion, ReopenIndex, FailRestoreIndex, MarkRestored, CommitJob, AtCall
  <2>2. UNCHANGED job \/ \E t \in {"DELETED", "INDEXING", "FAILED", "INDEXED"} :
                            SetJob(s, t) /\ StoredJob(s) # "ACTIVE_INDEXED"
    BY <1>5, ActiveIndexedIsLeftByDeletion
       DEF ConfirmDeletion, ReopenIndex, FailRestoreIndex, MarkRestored, CommitJob
  <2> QED
    BY <2>1, <2>2, <1>j, <1>u
<1> QED
  BY <1>1, <1>2, <1>3, <1>4, <1>5 DEF NoteProgress

(* A rebuild is quiet, a promotion or rollback is one switch.              *)
LEMMA GenerationStepControl ==
  ASSUME TypeOK, MigrationTypeOK, NEW m \in GenerationWorkers,
         \/ GenerationProgress(m) \/ GenerationDisturb(m)
         \/ \E g \in Generations : GenerationCall(m, g),
         UNCHANGED <<change, version, run>>
  PROVE  \/ QuietControl
         \/ \E g \in Generations : Aborts(g)
         \/ \E source, target \in Generations, expected \in {"INDEXED", "DELETE_PENDING"} :
              Switches(source, target, expected)
<1>a. TablesTypeOK
  BY DEF TypeOK
<1>u. UNCHANGED <<generation, note, job>> => QuietControl
  BY UnchangedTablesQuietControl
<1>1. ASSUME NEW g \in Generations, GenerationCall(m, g) PROVE QuietControl \/ Aborts(g)
  BY <1>1, <1>u DEF GenerationCall, StartRebuild, StartPromotion, StartMigration, StartRollback,
     Abort, Aborts
<1>2. CASE GenerationDisturb(m) \/ IndexRebuilt(m) \/ VerifyRebuilt(m) \/ FinishRebuild(m)
  BY <1>2, <1>u DEF GenerationDisturb, IndexRebuiltRaises, GenerationCrash, IndexRebuilt,
     VerifyRebuilt, FinishRebuild
<1>3. ASSUME NEW v \in Operations, CheckPromoted(m, v) \/ CheckRetained(m, v) PROVE QuietControl
  BY <1>3, <1>u DEF CheckPromoted, CheckRetained
<1>4. ASSUME NEW v \in Operations, OpenRebuildJob(m, v) PROVE QuietControl
  <2>1. migration[m].target \in Generations
    BY <1>4, MigrationHeldTyped DEF OpenRebuildJob, MigratingAt
  <2>2. \/ UNCHANGED job
        \/ /\ job[v][migration[m].target] # "ACTIVE_INDEXED"
           /\ TransitionJob(v, migration[m].target, "INDEXING")
    BY <1>4 DEF OpenRebuildJob, Absent
  <2> QED
    BY <1>4, <2>1, <2>2, <1>a, <1>u, JobStepQuietControl DEF OpenRebuildJob
<1>5. CASE FailRebuildIndex(m) \/ MarkRebuilt(m)
  <2>1. migration[m].target \in Generations /\ migration[m].version \in Operations
    BY <1>5, MigrationHeldTyped DEF FailRebuildIndex, MarkRebuilt, MigratingAt, VersionLabels
  <2>2. UNCHANGED job \/ \E t \in {"FAILED", "INDEXED"} :
                            SetTargetJob(m, t) /\ TargetJob(m) # "ACTIVE_INDEXED"
    BY <1>5, ActiveIndexedIsLeftByDeletion DEF FailRebuildIndex, MarkRebuilt
  <2>3. UNCHANGED <<generation, note>>
    BY <1>5 DEF FailRebuildIndex, MarkRebuilt
  <2> QED
    BY <2>1, <2>2, <2>3, <1>a, <1>u, JobStepQuietControl DEF SetTargetJob, TargetJob
<1>6. ASSUME NEW label, NEW expected \in {"INDEXED", "DELETE_PENDING"},
             label # "idle", CommitSwitch(m, label, expected)
      PROVE  QuietControl \/ \E source, target \in Generations : Switches(source, target, expected)
  <2>1. migration[m].target \in Generations
    BY <1>6, MigrationHeldTyped DEF CommitSwitch, MigratingAt
  <2> QED
    BY <1>6, <2>1, <1>u DEF CommitSwitch, Switches
<1> QED
  BY <1>1, <1>2, <1>3, <1>4, <1>5, <1>6 DEF GenerationProgress, Promote, Rollback

(* What a step of the composition can do to the control tables.            *)
ControlStep ==
  \/ QuietControl
  \/ \E w \in Workers : Activates(w)
  \/ \E n \in Notes, v \in Operations, g \in Generations : Excludes(n, v, g) \/ Admits(n, v, g)
  \/ \E g \in Generations : Aborts(g)
  \/ \E source, target \in Generations, expected \in {"INDEXED", "DELETE_PENDING"} :
       Switches(source, target, expected)

LEMMA EveryStepIsControlStep ==
  ASSUME LifecycleTypesOK, [LifecycleNext]_allVars PROVE ControlStep
<1>a. TypeOK /\ LifecycleTypeOK /\ MigrationTypeOK
  BY DEF LifecycleTypesOK
<1>1. CASE UNCHANGED allVars
  BY <1>1, UnchangedTablesQuietControl DEF allVars, vars, tables, ControlStep
<1>2. ASSUME NEW w \in Workers, PublishStep(w) PROVE ControlStep
  <2>1. CASE Progress(w)
    BY <2>1, <1>a, PublicationQuietControl DEF ControlStep
  <2>2. CASE ~Progress(w)
    BY <1>2, <2>2, UnchangedTablesQuietControl
       DEF PublishStep, PlanPublication, ResumePublication, tables, ControlStep
  <2> QED
    BY <2>1, <2>2
<1>3. ASSUME NEW s \in NoteWorkers,
             NoteProgress(s) \/ NoteDisturb(s) \/ \E n \in Notes : NoteCall(s, n),
             UNCHANGED OutsideNotes
      PROVE  ControlStep
  BY <1>3, <1>a, NoteStepControl DEF OutsideNotes, ControlStep
<1>4. ASSUME NEW m \in GenerationWorkers,
             \/ GenerationProgress(m) \/ GenerationDisturb(m)
             \/ \E g \in Generations : GenerationCall(m, g),
             UNCHANGED OutsideGenerations
      PROVE  ControlStep
  BY <1>4, <1>a, GenerationStepControl DEF OutsideGenerations, ControlStep
<1> QED
  BY <1>1, <1>2, <1>3, <1>4
     DEF LifecycleNext, NoteProgressStep, NoteCallStep, NoteDisturbStep,
         GenerationProgressStep, GenerationCallStep, GenerationDisturbStep

-----------------------------------------------------------------------------
(* Each of them keeps the invariant.                                       *)

(* Two notes never point to the same version.                              *)
LEMMA PointersAreDisjoint ==
  ASSUME PointersAreActivated, NEW n \in Notes, NEW m \in Notes, n # m,
         note[n].current # None
  PROVE  note[m].current # note[n].current
BY DEF PointersAreActivated

LEMMA ExclusionKeepsInv ==
  ASSUME TypeOK, LifecycleInv, NEW n \in Notes, NEW v \in Operations, NEW g \in Generations,
         Excludes(n, v, g)
  PROVE  LifecycleInv'
<1>i. PointersAreActivated /\ CompletedChangeIsActive /\ ServedJobIsActive /\ OneActiveGeneration
  BY DEF LifecycleInv
<1>n. note[n].current = v /\ v # None
  BY RequestAssumption DEF Excludes, CanPrepareDeletion, PointsTo
<1>w. /\ note'[n].state = "deleted" /\ note'[n].current = note[n].current
      /\ \A m \in Notes \ {n} : note'[m] = note[m]
      /\ \A o \in Operations \ {v} : job'[o] = job[o]
      /\ UNCHANGED <<change, generation, version, run>>
  BY DEF Excludes, PrepareNoteDeletion, TransitionJob, TypeOK, TablesTypeOK, NoteRow
<1>1. PointersAreActivated'
  BY <1>i, <1>w DEF PointersAreActivated, Absent
<1>2. CompletedChangeIsActive' /\ OneActiveGeneration'
  BY <1>i, <1>w DEF CompletedChangeIsActive, OneActiveGeneration
<1>3. ASSUME NEW m \in Notes, Served(m)'
      PROVE  /\ NoteOf[note'[m].current] = m /\ version'[note'[m].current] = "ACTIVE"
             /\ job'[note'[m].current][note'[m].generation] = "ACTIVE_INDEXED"
  <2>1. m # n /\ note'[m] = note[m] /\ Served(m)
    BY <1>3, <1>w DEF Served, IsLive, IsPublished
  <2>2. note[m].current \in Operations \ {v}
    BY <2>1, <1>i, <1>n, PointersAreDisjoint
       DEF Served, IsPublished, TypeOK, TablesTypeOK, NoteRow
  <2> QED
    BY <2>1, <2>2, <1>i, <1>w DEF ServedJobIsActive, CurrentJob
<1> QED
  BY <1>1, <1>2, <1>3 DEF LifecycleInv, ServedJobIsActive, CurrentJob

LEMMA AdmissionKeepsInv ==
  ASSUME TypeOK, LifecycleInv, NEW n \in Notes, NEW v \in Operations, NEW g \in Generations,
         Admits(n, v, g)
  PROVE  LifecycleInv'
<1>i. PointersAreActivated /\ CompletedChangeIsActive /\ ServedJobIsActive /\ OneActiveGeneration
  BY DEF LifecycleInv
<1>n. note[n].current = v /\ note[n].generation = g /\ v # None
  BY RequestAssumption DEF Admits, CanRestoreNote, PointsTo
<1>w. /\ note'[n].state = "live" /\ note'[n].current = v /\ note'[n].generation = g
      /\ \A m \in Notes \ {n} : note'[m] = note[m]
      /\ \A o \in Operations \ {v} : job'[o] = job[o]
      /\ job'[v][g] = "ACTIVE_INDEXED"
      /\ UNCHANGED <<change, generation, version, run>>
  BY <1>n DEF Admits, RestoreNote, TransitionJob, TypeOK, TablesTypeOK, NoteRow
<1>1. PointersAreActivated'
  BY <1>i, <1>w, <1>n DEF PointersAreActivated, Absent
<1>2. CompletedChangeIsActive' /\ OneActiveGeneration'
  BY <1>i, <1>w DEF CompletedChangeIsActive, OneActiveGeneration
<1>3. ASSUME NEW m \in Notes, Served(m)'
      PROVE  /\ NoteOf[note'[m].current] = m /\ version'[note'[m].current] = "ACTIVE"
             /\ job'[note'[m].current][note'[m].generation] = "ACTIVE_INDEXED"
  <2>1. CASE m = n
    BY <2>1, <1>i, <1>w, <1>n DEF PointersAreActivated
  <2>2. CASE m # n
    <3>1. note'[m] = note[m] /\ Served(m)
      BY <1>3, <2>2, <1>w DEF Served, IsLive, IsPublished
    <3>2. note[m].current \in Operations \ {v}
      BY <3>1, <2>2, <1>i, <1>n, PointersAreDisjoint
         DEF Served, IsPublished, TypeOK, TablesTypeOK, NoteRow
    <3> QED
      BY <3>1, <3>2, <1>i, <1>w DEF ServedJobIsActive, CurrentJob
  <2> QED
    BY <2>1, <2>2
<1> QED
  BY <1>1, <1>2, <1>3 DEF LifecycleInv, ServedJobIsActive, CurrentJob

(* The switch moves every served note: none of them is stray.              *)
LEMMA SwitchKeepsInv ==
  ASSUME TypeOK, LifecycleInv, NEW source \in Generations, NEW target \in Generations,
         NEW expected, Switches(source, target, expected)
  PROVE  LifecycleInv'
<1>i. PointersAreActivated /\ CompletedChangeIsActive /\ ServedJobIsActive /\ OneActiveGeneration
  BY DEF LifecycleInv
<1>t. TablesTypeOK
  BY DEF TypeOK
<1> DEFINE moved == NotesServedFrom(source)
<1>s. /\ CanSwitchGeneration(source, target, expected) /\ SwitchGeneration(source, target)
      /\ UNCHANGED <<change, version, run>>
  BY DEF Switches
<1>w. /\ \A n \in Notes :
           /\ note'[n].state = note[n].state /\ note'[n].current = note[n].current
           /\ n \in moved => note'[n].generation = target
           /\ n \notin moved => note'[n] = note[n]
      /\ \A n \in moved : note[n].current \in Operations =>
           job'[note[n].current][target] = "ACTIVE_INDEXED"
  BY <1>s, <1>t DEF SwitchGeneration, TablesTypeOK, NoteRow
<1>m. \A n \in Notes : Served(n) => n \in moved
  BY <1>s DEF CanSwitchGeneration, StrayNotes, NotesServedFrom, LiveNotesOn, Served, IsPublished
<1>1. PointersAreActivated'
  <2>1. \A n \in Notes : note[n].state = Absent => note'[n] = note[n]
    BY <1>w DEF NotesServedFrom, LiveNotesOn, IsLive, Absent
  <2> QED
    BY <2>1, <1>i, <1>s, <1>w DEF PointersAreActivated
<1>2. CompletedChangeIsActive'
  BY <1>i, <1>s DEF CompletedChangeIsActive
<1>3. ASSUME NEW n \in Notes, Served(n)'
      PROVE  /\ NoteOf[note'[n].current] = n /\ version'[note'[n].current] = "ACTIVE"
             /\ job'[note'[n].current][note'[n].generation] = "ACTIVE_INDEXED"
  <2>1. note[n].current # None /\ note[n].current \in Operations
    BY <1>3, <1>w, <1>t DEF Served, IsPublished, TablesTypeOK, NoteRow
  <2>2. n \in moved
    BY <1>3, <1>w, <1>m DEF Served, IsPublished, IsLive
  <2> QED
    BY <2>1, <2>2, <1>i, <1>s, <1>w DEF PointersAreActivated
<1>4. OneActiveGeneration'
  <2>1. \A h \in Generations : generation'[h] = "ACTIVE" => h = target
    BY <1>i, <1>s, <1>t
       DEF OneActiveGeneration, SwitchGeneration, CanSwitchGeneration, TablesTypeOK
  <2> QED
    BY <2>1 DEF OneActiveGeneration
<1> QED
  BY <1>1, <1>2, <1>3, <1>4 DEF LifecycleInv, ServedJobIsActive, CurrentJob

LEMMA AbortKeepsInv ==
  ASSUME TypeOK, LifecycleInv, NEW g \in Generations, Aborts(g)
  PROVE  LifecycleInv'
BY DEF Aborts, LifecycleInv, PointersAreActivated, CompletedChangeIsActive, ServedJobIsActive,
   Served, IsLive, IsPublished, CurrentJob, OneActiveGeneration, TypeOK, TablesTypeOK

LEMMA LifecycleInvInitially == LifecycleInitially => LifecycleInv
BY RequestAssumption
   DEF LifecycleInitially, Init, TablesInit, LifecycleInv, PointersAreActivated, NoNote, Absent,
       CompletedChangeIsActive, ServedJobIsActive, Served, IsLive, IsPublished,
       OneActiveGeneration

LEMMA ControlStepKeepsInv ==
  ASSUME TypeOK, LifecycleInv, ControlStep
  PROVE  LifecycleInv'
BY QuietControlKeepsInv, ActivationKeepsLifecycleInv, ExclusionKeepsInv, AdmissionKeepsInv,
   SwitchKeepsInv, AbortKeepsInv DEF ControlStep

LEMMA LifecycleInvInductive ==
  LifecycleTypesOK /\ LifecycleInv /\ [LifecycleNext]_allVars => LifecycleInv'
BY EveryStepIsControlStep, ControlStepKeepsInv DEF LifecycleTypesOK

(* The control tables of all three services together.                      *)
THEOREM LifecycleCorrect == LifecycleSpec => []LifecycleInv
  BY LifecycleTypesInitially, LifecycleTypesInductive, LifecycleInvInitially,
     LifecycleInvInductive, PTL DEF LifecycleSpec

(* No service moves a served note's pointer or its index job alone.        *)
THEOREM ServedJobsAreActive == LifecycleSpec => []ServedJobIsActive
<1>1. LifecycleInv => ServedJobIsActive
  BY DEF LifecycleInv
<1> QED
  BY <1>1, LifecycleCorrect, PTL

(* Promotion, rollback, abort and publication leave one ACTIVE generation. *)
THEOREM LifecycleGenerationIsUnique == LifecycleSpec => []OneActiveGeneration
<1>1. LifecycleInv => OneActiveGeneration
  BY DEF LifecycleInv
<1> QED
  BY <1>1, LifecycleCorrect, PTL

-----------------------------------------------------------------------------
(* Each change is activated once, whatever services run beside.            *)

LEMMA ControlStepKeepsOneRun ==
  ASSUME TypeOK, LifecycleInv, ActiveChangeHasOneRun, ControlStep
  PROVE  ActiveChangeHasOneRun'
<1>a. TablesTypeOK
  BY DEF TypeOK
<1>1. ASSUME UNCHANGED change,
             \A o \in Operations : run'[o].status = "COMPLETED" <=> run[o].status = "COMPLETED"
      PROVE  ActiveChangeHasOneRun'
  BY <1>1 DEF ActiveChangeHasOneRun
<1>2. ASSUME NEW w \in Workers, Activates(w) PROVE ActiveChangeHasOneRun'
  <2>1. PICK o \in Operations : Activation(o)
    BY <1>2, ActivationWrites
  <2>2. /\ change[ChangeOf[o]] # "ACTIVE" /\ run'[o].status = "COMPLETED"
        /\ \A p \in Operations \ {o} : run'[p] = run[p]
        /\ \A c \in Changes \ {ChangeOf[o]} : change'[c] = change[c]
    BY <2>1, <1>a DEF Activation, TablesTypeOK, RunRow
  <2>3. \A p \in Operations : ChangeOf[p] = ChangeOf[o] => run[p].status # "COMPLETED"
    BY <2>2 DEF LifecycleInv, CompletedChangeIsActive
  <2> QED
    BY <2>2, <2>3 DEF ActiveChangeHasOneRun
<1> QED
  BY <1>1, <1>2 DEF ControlStep, QuietControl, Excludes, Admits, Aborts, Switches

(* Operations on two generations may race for one change beside deletions, *)
(* promotions and rollbacks; one of them completes.                        *)
THEOREM LifecycleChangesAreActivatedOnce == LifecycleSpec => []ChangeActivatedOnce
<1>1. LifecycleInitially => ActiveChangeHasOneRun
  BY RequestAssumption DEF LifecycleInitially, Init, TablesInit, ActiveChangeHasOneRun, Absent
<1>2. LifecycleTypesOK /\ LifecycleInv /\ ActiveChangeHasOneRun /\ [LifecycleNext]_allVars
        => ActiveChangeHasOneRun'
  BY EveryStepIsControlStep, ControlStepKeepsOneRun DEF LifecycleTypesOK
<1>3. LifecycleInv /\ ActiveChangeHasOneRun => ChangeActivatedOnce
  BY OneRunIsCounted DEF LifecycleInv, CompletedChangeIsActive
<1> QED
  BY <1>1, <1>2, <1>3, LifecycleTypesCorrect, LifecycleCorrect, PTL DEF LifecycleSpec

-----------------------------------------------------------------------------
(* Where the served notes are.  Only a restoration can put a note on a     *)
(* generation that is not ACTIVE: restore_note does not look at it.        *)

LEMMA ActivationKeepsNotesOnActive ==
  ASSUME TypeOK, LiveNotesOnActiveGeneration, NEW w \in Workers, Activates(w)
  PROVE  LiveNotesOnActiveGeneration'
<1>a. TablesTypeOK
  BY DEF TypeOK
<1>1. PICK o : o = operation[w]
  OBVIOUS
<1>2. PICK n, g : n = NoteOf[o] /\ g = GenerationOf[o]
  OBVIOUS
<1>3. o \in Operations /\ n \in Notes /\ g \in Generations
  BY <1>1, <1>2, RequestAssumption DEF Activates, At, TypeOK, WorkersTypeOK
<1>4. /\ seen[w].generation = generation[g]
      /\ GenerationReady(g, seen[w])
      /\ note'[n] = [state |-> "live", current |-> o, generation |-> g]
      /\ \A m \in Notes \ {n} : note'[m] = note[m]
      /\ generation' = [h \in Generations |->
           IF h = g /\ seen[w].generation = "STAGING" THEN "ACTIVE"
           ELSE IF h \in ReplacedGenerations(g, seen[w]) THEN "SUPERSEDED" ELSE generation[h]]
  BY <1>1, <1>2, <1>3, <1>a DEF Activates, CanActivate, RowsUnchanged, ActivationRows,
     ActivatePublication, TablesTypeOK
<1>5. ASSUME NEW m \in Notes \ {n}, Served(m)'
      PROVE  note[m].generation \in Generations /\ generation[note[m].generation] = "ACTIVE"
             /\ IsLive(m)
  BY <1>4, <1>5, <1>a DEF Served, IsLive, IsPublished, LiveNotesOnActiveGeneration, TablesTypeOK, NoteRow
<1>6. CASE generation[g] = "ACTIVE"
  <2>1. \A h \in Generations : generation'[h] = generation[h]
    BY <1>4, <1>6 DEF ReplacedGenerations
  <2> QED
    BY <1>3, <1>4, <1>5, <1>6, <2>1 DEF LiveNotesOnActiveGeneration
<1>7. CASE generation[g] = "STAGING"
  <2>1. \A h \in Generations \ {g} : generation[h] = "ACTIVE" => LiveNotesOn(h) = {}
    BY <1>4, <1>7 DEF GenerationReady, OtherActiveGenerations
  <2>2. \A m \in Notes \ {n} : ~Served(m)'
    BY <1>5, <1>7, <2>1 DEF LiveNotesOn
  <2>3. generation'[g] = "ACTIVE"
    BY <1>3, <1>4, <1>7
  <2> QED
    BY <1>3, <1>4, <2>2, <2>3 DEF LiveNotesOnActiveGeneration
<1> QED
  BY <1>4, <1>6, <1>7 DEF GenerationReady

LEMMA SwitchPutsNotesOnActive ==
  ASSUME TypeOK, NEW source \in Generations, NEW target \in Generations, NEW expected,
         Switches(source, target, expected)
  PROVE  LiveNotesOnActiveGeneration'
<1>1. /\ generation'[target] = "ACTIVE"
      /\ \A n \in Notes :
           /\ n \in NotesServedFrom(source) => note'[n].generation = target
           /\ n \notin NotesServedFrom(source) => note'[n] = note[n]
      /\ StrayNotes(source) = {}
  BY DEF Switches, SwitchGeneration, CanSwitchGeneration, TypeOK, TablesTypeOK, NoteRow
<1> QED
  BY <1>1 DEF LiveNotesOnActiveGeneration, Served, IsLive, IsPublished, StrayNotes, NotesServedFrom,
     LiveNotesOn

Readmits(n) == note[n].state = "deleted" /\ note'[n].state = "live"

LEMMA OnlyAdmissionStrands ==
  ASSUME TypeOK, LifecycleInv, LiveNotesOnActiveGeneration, ControlStep
  PROVE  LiveNotesOnActiveGeneration' \/ \E n \in Notes : Readmits(n)
<1>a. TablesTypeOK
  BY DEF TypeOK
<1>1. CASE QuietControl
  <2>1. \A n \in Notes : Served(n)' => note'[n] = note[n] /\ Served(n)
    BY <1>1 DEF QuietControl, NewNote, Served, IsLive, IsPublished
  <2> QED
    BY <1>1, <2>1 DEF QuietControl, LiveNotesOnActiveGeneration
<1>2. ASSUME NEW n \in Notes, NEW v \in Operations, NEW g \in Generations, Excludes(n, v, g)
      PROVE  LiveNotesOnActiveGeneration'
  <2>1. \A m \in Notes : Served(m)' => note'[m] = note[m] /\ Served(m)
    BY <1>2, <1>a DEF Excludes, PrepareNoteDeletion, Served, IsLive, IsPublished, TablesTypeOK, NoteRow
  <2> QED
    BY <1>2, <2>1 DEF Excludes, LiveNotesOnActiveGeneration
<1>3. ASSUME NEW n \in Notes, NEW v \in Operations, NEW g \in Generations, Admits(n, v, g)
      PROVE  Readmits(n)
  BY <1>3, <1>a DEF Admits, CanRestoreNote, RestoreNote, Readmits, TablesTypeOK, NoteRow
<1>4. ASSUME NEW g \in Generations, Aborts(g) PROVE LiveNotesOnActiveGeneration'
  <2>1. /\ note' = note /\ generation[g] = "STAGING"
        /\ \A h \in Generations \ {g} : generation'[h] = generation[h]
    BY <1>4, <1>a DEF Aborts, TablesTypeOK
  <2>2. \A n \in Notes : Served(n)' => Served(n) /\ note[n].generation \in Generations \ {g}
    BY <2>1, <1>a DEF Served, IsLive, IsPublished, LiveNotesOnActiveGeneration, TablesTypeOK, NoteRow
  <2> QED
    BY <2>1, <2>2 DEF LiveNotesOnActiveGeneration
<1> QED
  BY <1>1, <1>2, <1>3, <1>4, ActivationKeepsNotesOnActive, SwitchPutsNotesOnActive DEF ControlStep

(* While every served note is on the ACTIVE generation, no publication,    *)
(* promotion, rollback, abort or deletion changes that.                    *)
THEOREM OnlyRestorationsStrandNotes ==
  LifecycleSpec =>
    [][LiveNotesOnActiveGeneration =>
         LiveNotesOnActiveGeneration' \/ \E n \in Notes : Readmits(n)]_allVars
<1>1. LifecycleTypesOK /\ LifecycleInv /\ [LifecycleNext]_allVars =>
        [LiveNotesOnActiveGeneration =>
           LiveNotesOnActiveGeneration' \/ \E n \in Notes : Readmits(n)]_allVars
  BY EveryStepIsControlStep, OnlyAdmissionStrands DEF LifecycleTypesOK
<1> QED
  BY <1>1, LifecycleTypesCorrect, LifecycleCorrect, PTL DEF LifecycleSpec

NothingDeleted == \A n \in Notes : note[n].state # "deleted"

(* Where no note is deleted, all served notes are on the ACTIVE generation *)
(* through every promotion, rollback and first publication.                *)
THEOREM ServedNotesAreOnActive ==
  NoteWorkers = {} => (LifecycleSpec => []LiveNotesOnActiveGeneration)
<1> SUFFICES ASSUME NoteWorkers = {} PROVE LifecycleSpec => []LiveNotesOnActiveGeneration
  OBVIOUS
<1>1. LifecycleInitially => NothingDeleted /\ LiveNotesOnActiveGeneration
  BY DEF LifecycleInitially, Init, TablesInit, NoNote, NothingDeleted, Absent,
     LiveNotesOnActiveGeneration, Served, IsLive
<1>2. ASSUME LifecycleTypesOK, LifecycleInv, NothingDeleted, LiveNotesOnActiveGeneration,
             [LifecycleNext]_allVars
      PROVE  NothingDeleted' /\ LiveNotesOnActiveGeneration'
  <2>a. TypeOK /\ TablesTypeOK /\ MigrationTypeOK
    BY <1>2 DEF LifecycleTypesOK, TypeOK
  <2>1. \/ QuietControl
        \/ \E w \in Workers : Activates(w)
        \/ \E g \in Generations : Aborts(g)
        \/ \E source, target \in Generations, expected \in {"INDEXED", "DELETE_PENDING"} :
             Switches(source, target, expected)
    <3>1. CASE UNCHANGED allVars
      BY <3>1, UnchangedTablesQuietControl DEF allVars, vars, tables
    <3>2. ASSUME NEW w \in Workers, PublishStep(w) PROVE QuietControl \/ Activates(w)
      <4>1. CASE Progress(w)
        BY <4>1, <2>a, PublicationQuietControl
      <4>2. CASE ~Progress(w)
        BY <3>2, <4>2, UnchangedTablesQuietControl
           DEF PublishStep, PlanPublication, ResumePublication, tables
      <4> QED
        BY <4>1, <4>2
    <3> QED
      BY <1>2, <2>a, <3>1, <3>2, GenerationStepControl
         DEF LifecycleNext, GenerationProgressStep, GenerationCallStep, GenerationDisturbStep,
             OutsideGenerations
  <2>2. NothingDeleted'
    <3>1. ASSUME NEW w \in Workers, Activates(w) PROVE NothingDeleted'
      <4>1. PICK o \in Operations : Activation(o)
        BY <3>1, <2>a, ActivationWrites
      <4> QED
        BY <4>1, <1>2, <2>a DEF Activation, NothingDeleted, TablesTypeOK
    <3>2. ASSUME NEW source, NEW target, NEW expected, Switches(source, target, expected)
          PROVE  NothingDeleted'
      BY <3>2, <1>2, <2>a DEF Switches, SwitchGeneration, NothingDeleted, TablesTypeOK, NoteRow
    <3>3. CASE QuietControl
      BY <3>3, <1>2 DEF QuietControl, NothingDeleted, NewNote
    <3>4. ASSUME NEW g \in Generations, Aborts(g) PROVE NothingDeleted'
      BY <3>4, <1>2 DEF Aborts, NothingDeleted
    <3> QED
      BY <2>1, <3>1, <3>2, <3>3, <3>4
  <2>3. ControlStep
    BY <2>1 DEF ControlStep
  <2>4. \A n \in Notes : ~Readmits(n)
    BY <1>2 DEF Readmits, NothingDeleted
  <2> QED
    BY <1>2, <2>a, <2>2, <2>3, <2>4, OnlyAdmissionStrands
<1> QED
  BY <1>1, <1>2, LifecycleTypesCorrect, LifecycleCorrect, PTL DEF LifecycleSpec

-----------------------------------------------------------------------------
(* What a reader sees of each control step.                                *)

ReaderView ==
  <<[n \in Notes |-> note[n].current], {n \in Notes : note[n].state = "deleted"},
    {o \in Operations : run[o].status = "COMPLETED"}>>

LEMMA ActivationSwitches ==
  ASSUME TypeOK, LifecycleInv, NEW w \in Workers, Activates(w) PROVE Serving!Next
<1>1. PICK o \in Operations : Activation(o)
  BY ActivationWrites
<1>2. /\ run[o].status = "ACTIVATING" /\ change[ChangeOf[o]] = "PUBLISH_INTENT"
      /\ note[NoteOf[o]].state = "live"
      /\ run' = [run EXCEPT ![o].status = "COMPLETED"]
      /\ note' = [note EXCEPT ![NoteOf[o]] =
                    [state |-> "live", current |-> o, generation |-> GenerationOf[o]]]
  BY <1>1 DEF Activation, IsLive
<1>3. NoteOf[o] \in Notes
  BY RequestAssumption
<1>4. [n \in Notes |-> note[n].current]'
        = [[n \in Notes |-> note[n].current] EXCEPT ![NoteOf[o]] = o]
  BY <1>2, <1>3 DEF TypeOK, TablesTypeOK
<1>5. {p \in Operations : run[p].status = "COMPLETED"}'
        = {p \in Operations : run[p].status = "COMPLETED"} \cup {o}
  BY <1>2 DEF TypeOK, TablesTypeOK, RunRow
<1>6. {n \in Notes : note[n].state = "deleted"}' = {n \in Notes : note[n].state = "deleted"}
  BY <1>2, <1>3 DEF TypeOK, TablesTypeOK
<1>7. /\ NoteOf[o] \notin {n \in Notes : note[n].state = "deleted"}
      /\ \A p \in {q \in Operations : run[q].status = "COMPLETED"} : ChangeOf[p] # ChangeOf[o]
  BY <1>2 DEF LifecycleInv, CompletedChangeIsActive
<1> QED
  BY <1>4, <1>5, <1>6, <1>7 DEF Serving!Next, Serving!Switch

LEMMA ExclusionWithdraws ==
  ASSUME TypeOK, NEW n \in Notes, NEW v \in Operations, NEW g \in Generations,
         Excludes(n, v, g)
  PROVE  Serving!Next
<1>1. /\ note[n].state = "live" /\ note[n].current # None
      /\ note'[n].state = "deleted" /\ note'[n].current = note[n].current
      /\ \A m \in Notes \ {n} : note'[m] = note[m]
      /\ UNCHANGED run
  BY RequestAssumption
     DEF Excludes, CanPrepareDeletion, PrepareNoteDeletion, IsLive, PointsTo, TypeOK,
         TablesTypeOK, NoteRow
<1>2. [m \in Notes |-> note[m].current]' = [m \in Notes |-> note[m].current]
  BY <1>1
<1>3. {m \in Notes : note[m].state = "deleted"}'
        = {m \in Notes : note[m].state = "deleted"} \cup {n}
  BY <1>1
<1> QED
  BY <1>1, <1>2, <1>3 DEF Serving!Next, Serving!Withdraw

LEMMA AdmissionPutsBack ==
  ASSUME TypeOK, NEW n \in Notes, NEW v \in Operations, NEW g \in Generations,
         Admits(n, v, g)
  PROVE  Serving!Next
<1>1. /\ note[n].state = "deleted"
      /\ note'[n].state = "live" /\ note'[n].current = note[n].current
      /\ \A m \in Notes \ {n} : note'[m] = note[m]
      /\ UNCHANGED run
  BY DEF Admits, CanRestoreNote, RestoreNote, TypeOK, TablesTypeOK, NoteRow
<1>2. [m \in Notes |-> note[m].current]' = [m \in Notes |-> note[m].current]
  BY <1>1
<1>3. {m \in Notes : note[m].state = "deleted"}'
        = {m \in Notes : note[m].state = "deleted"} \ {n}
  BY <1>1
<1> QED
  BY <1>1, <1>2, <1>3 DEF Serving!Next, Serving!PutBack

LEMMA OtherStepsStutter ==
  ASSUME TypeOK, LifecycleInv,
         \/ QuietControl
         \/ \E g \in Generations : Aborts(g)
         \/ \E source, target \in Generations, expected \in {"INDEXED", "DELETE_PENDING"} :
              Switches(source, target, expected)
  PROVE  UNCHANGED ReaderView
<1>1. \A n \in Notes : /\ note'[n].current = note[n].current
                       /\ note'[n].state = "deleted" <=> note[n].state = "deleted"
  <2>1. CASE QuietControl
    BY <2>1 DEF QuietControl, LifecycleInv, PointersAreActivated, NoNote, NewNote, Absent
  <2>2. CASE \E g \in Generations : Aborts(g)
    BY <2>2 DEF Aborts
  <2>3. ASSUME NEW source \in Generations, NEW target \in Generations,
               SwitchGeneration(source, target)
        PROVE  \A n \in Notes : note'[n].current = note[n].current /\ note'[n].state = note[n].state
    BY <2>3 DEF SwitchGeneration, TypeOK, TablesTypeOK, NoteRow
  <2> QED
    BY <2>1, <2>2, <2>3 DEF Switches
<1>2. \A o \in Operations : run'[o].status = "COMPLETED" <=> run[o].status = "COMPLETED"
  BY DEF QuietControl, Aborts, Switches
<1> QED
  BY <1>1, <1>2 DEF ReaderView

(* Of everything the three services do, a reader sees one switch, one      *)
(* withdrawal or one return at a time.                                     *)
THEOREM LifecycleServesAtomically == LifecycleSpec => ImplementsKnowledgeServing
<1>1. LifecycleInitially => Serving!Init
  BY DEF LifecycleInitially, Init, TablesInit, Serving!Init, NoNote, Absent
<1>2. LifecycleTypesOK /\ LifecycleInv /\ [LifecycleNext]_allVars => [Serving!Next]_ReaderView
  <2> SUFFICES ASSUME LifecycleTypesOK, LifecycleInv, [LifecycleNext]_allVars
               PROVE  Serving!Next \/ UNCHANGED ReaderView
    OBVIOUS
  <2>1. TypeOK /\ ControlStep
    BY EveryStepIsControlStep DEF LifecycleTypesOK
  <2> QED
    BY <2>1, ActivationSwitches, ExclusionWithdraws, AdmissionPutsBack, OtherStepsStutter
       DEF ControlStep
<1> QED
  BY <1>1, <1>2, LifecycleTypesCorrect, LifecycleCorrect, PTL
     DEF LifecycleSpec, ImplementsKnowledgeServing, Serving!Spec, ReaderView

-----------------------------------------------------------------------------
(* The index and the trash, when each kind of call is made one at a time.  *)
(* A step beside the rows that notes point to: no pointer moves, no        *)
(* complete chunk set is touched, and a job becomes INDEXED only over one. *)

PointersStay ==
  /\ \A n \in Notes :
       /\ note'[n].current = note[n].current /\ note'[n].generation = note[n].generation
       /\ note'[n].state = "deleted" <=> note[n].state = "deleted"
  /\ \A o \in Operations : Completed(o)' <=> Completed(o)

JobStaysBeside(v, g) ==
  job'[v][g] # job[v][g] =>
    /\ job'[v][g] \in {"PENDING", "INDEXING", "INDEXED", "FAILED"}
    /\ job'[v][g] = "INDEXED" => Probed(v, g)'
    /\ PointedTo(v, g) => job[v][g] \notin {"DELETE_PENDING", "DELETED"}

ChunksStayBeside(v, g) ==
  /\ Probed(v, g) => Probed(v, g)'
  /\ PointedTo(v, g) => vectors'[v][g] = vectors[v][g]

StaysBeside ==
  /\ PointersStay /\ trash' = trash
  /\ \A v \in Operations, g \in Generations : JobStaysBeside(v, g) /\ ChunksStayBeside(v, g)

(* What the notes point to is completed and their own.                     *)
LEMMA PointedToIsCompleted ==
  ASSUME LifecycleTypesOK, LifecycleInv, NEW n \in Notes, note[n].current # None
  PROVE  /\ note[n].current \in Operations /\ NoteOf[note[n].current] = n
         /\ Completed(note[n].current)
         /\ note[n].generation # None =>
              note[n].generation \in Generations /\ PointedTo(note[n].current, note[n].generation)
BY DEF LifecycleTypesOK, TypeOK, TablesTypeOK, NoteRow, LifecycleInv, PointersAreActivated, Completed,
   PointedTo, PointsTo

LEMMA PointersArePublished ==
  ASSUME LifecycleTypesOK, LifecycleInv, NEW v \in Operations, NEW g \in Generations, PointedTo(v, g)
  PROVE  /\ NoteOf[v] \in Notes /\ note[NoteOf[v]].current = v /\ note[NoteOf[v]].generation = g
         /\ IsPublished(NoteOf[v]) /\ Completed(v)
<1>1. NoteOf[v] \in Notes /\ v # None /\ g # None
  BY RequestAssumption
<1> QED
  BY <1>1 DEF PointedTo, PointsTo, IsPublished, LifecycleInv, PointersAreActivated, Completed

LEMMA BesideKeepsIndex ==
  ASSUME LifecycleTypesOK, LifecycleInv, DeletedIsErasedAndKept, StaysBeside,
         \A v \in Operations, g \in Generations : IndexKept(v, g)
  PROVE  /\ DeletedIsErasedAndKept'
         /\ \A v \in Operations, g \in Generations : IndexKept(v, g)'
<1>0. \A v \in Operations, g \in Generations : PointedTo(v, g)' <=> PointedTo(v, g)
  BY RequestAssumption DEF StaysBeside, PointersStay, PointedTo, PointsTo
<1>1. ASSUME NEW v \in Operations, NEW g \in Generations PROVE IndexKept(v, g)'
  BY <1>0, <1>1 DEF StaysBeside, JobStaysBeside, ChunksStayBeside, IndexKept, Built
<1>2. ASSUME NEW n \in Notes, IsPublished(n)', CurrentJob(n)' = "DELETED"
      PROVE  vectors'[note'[n].current][note'[n].generation] = "none" /\ note'[n].current \in trash'
  <2>1. PICK v, g : v = note[n].current /\ g = note[n].generation
    OBVIOUS
  <2>2. /\ note'[n].current = v /\ note'[n].generation = g /\ IsPublished(n)
        /\ job'[v][g] = "DELETED"
    BY <1>2, <2>1 DEF StaysBeside, PointersStay, IsPublished, CurrentJob
  <2>3. v \in Operations /\ g \in Generations /\ PointedTo(v, g)
    BY <2>1, <2>2, PointedToIsCompleted DEF IsPublished
  <2>4. job[v][g] = "DELETED" /\ vectors'[v][g] = vectors[v][g]
    BY <2>2, <2>3 DEF StaysBeside, JobStaysBeside, ChunksStayBeside
  <2> QED
    BY <2>1, <2>2, <2>4 DEF DeletedIsErasedAndKept, CurrentJob, StaysBeside
<1> QED
  BY <1>1, <1>2 DEF DeletedIsErasedAndKept

LEMMA BesideKeepsNoteCall ==
  ASSUME LifecycleTypesOK, LifecycleInv, StaysBeside, lifecycle' = lifecycle,
         NEW s \in NoteWorkers, NoteCallHolds(s)
  PROVE  NoteCallHolds(s)'
<1>1. CASE AtCall(s, "idle")
  BY <1>1 DEF AtCall, NoteCallHolds
<1>2. CASE ~AtCall(s, "idle")
  <2>1. PICK n, v, g, at : /\ n = lifecycle[s].note /\ v = lifecycle[s].version
                           /\ g = lifecycle[s].generation /\ at = lifecycle[s].at
    OBVIOUS
  <2>2. n \in Notes /\ v \in Operations /\ g \in Generations
    BY <1>2, <2>1, HeldTyped DEF LifecycleTypesOK
  <2>3. JobStaysBeside(v, g) /\ ChunksStayBeside(v, g)
    BY <2>2 DEF StaysBeside
  <2>4. PointsTo(n, v, g) => PointedTo(v, g)
    BY <2>2, PointedToIsCompleted, RequestAssumption DEF PointsTo
  <2>5. /\ PointsTo(n, v, g)' <=> PointsTo(n, v, g)
        /\ note'[n].state = "deleted" <=> note[n].state = "deleted"
        /\ trash' = trash
    BY <2>2 DEF StaysBeside, PointersStay, PointsTo
  <2>6. at \notin {"idle", "exclude", "verify", "reindex"} =>
          PointedTo(v, g) /\ note'[n].state = "deleted" /\ PointsTo(n, v, g)'
    BY <2>1, <2>4, <2>5 DEF NoteCallHolds
  <2>7. at \in {"recycle", "erase", "confirm"} => job'[v][g] \in {"DELETE_PENDING", "DELETED"}
    BY <2>1, <2>3, <2>6 DEF NoteCallHolds, JobStaysBeside
  <2>8. at = "confirm" => vectors'[v][g] = "none"
    BY <2>1, <2>3, <2>6 DEF NoteCallHolds, ChunksStayBeside
  <2>9. at \notin {"idle", "exclude", "excluded", "recycle", "erase", "confirm", "reopen"} =>
          job'[v][g] # "DELETED"
    BY <2>1, <2>3 DEF NoteCallHolds, JobStaysBeside
  <2>10. at = "mark" => Probed(v, g)'
    BY <2>1, <2>3 DEF NoteCallHolds, ChunksStayBeside
  <2>11. at \in {"erase", "confirm"} => v \in trash'
    BY <2>1, <2>5 DEF NoteCallHolds
  <2> QED
    BY <2>1, <2>6, <2>7, <2>8, <2>9, <2>10, <2>11 DEF NoteCallHolds
<1> QED
  BY <1>1, <1>2

(* What a call of the other two kinds relies on lasts through every step   *)
(* it does not make itself.                                                *)
LEMMA GenerationCallLasts ==
  ASSUME LifecycleTypesOK, NEW m \in GenerationWorkers, GenerationCallHolds(m),
         migration'[m] = migration[m],
         \A v \in Operations : Completed(v) => Completed(v)',
         \A v \in Operations, g \in Generations : Completed(v) /\ ~PointedTo(v, g) =>
           ~PointedTo(v, g)' /\ (Probed(v, g) => Probed(v, g)')
  PROVE  GenerationCallHolds(m)'
<1>1. PICK at, v, target, todo : /\ at = migration[m].at /\ v = migration[m].version
                                 /\ target = migration[m].target /\ todo = migration[m].todo
  OBVIOUS
<1>2. /\ todo \in SUBSET Operations
      /\ at = "rebuild" => target \in Generations
      /\ at \in VersionLabels => v \in Operations /\ target \in Generations
  BY <1>1, MigrationHeldTyped DEF LifecycleTypesOK, MigratingAt, VersionLabels
<1>3. \A u \in todo : Completed(u)' /\ (at = "rebuild" => ~PointedTo(u, target)')
  BY <1>1, <1>2 DEF GenerationCallHolds
<1>4. at \in VersionLabels =>
        Completed(v)' /\ \A u \in todo \cup {v} : ~PointedTo(u, target)'
  BY <1>1, <1>2 DEF GenerationCallHolds
<1>5. at = "mark" => Probed(v, target)'
  BY <1>1, <1>2 DEF GenerationCallHolds, VersionLabels
<1> QED
  BY <1>1, <1>3, <1>4, <1>5 DEF GenerationCallHolds

LEMMA PublishCallLasts ==
  ASSUME LifecycleTypesOK, NEW w \in Workers, PublishCallHolds(w),
         pc'[w] = pc[w], operation'[w] = operation[w], seen'[w] = seen[w],
         pc[w] # "idle" => run'[operation[w]] = run[operation[w]],
         \A v \in Operations, g \in Generations :
           ~Completed(v) /\ Probed(v, g) => Probed(v, g)'
  PROVE  PublishCallHolds(w)'
<1>1. pc[w] # "idle" => operation[w] \in Operations /\ GenerationOf[operation[w]] \in Generations
  BY RequestAssumption DEF LifecycleTypesOK, TypeOK, WorkersTypeOK
<1> QED
  BY <1>1 DEF PublishCallHolds, At, Completed

-----------------------------------------------------------------------------
(* Steps of a publish call.                                                *)

(* Where a step leaves its own call.                                       *)
LEMMA PublishCallGoesOn ==
  ASSUME TypeOK, NEW w \in Workers, Progress(w), PublishCallHolds(w)
  PROVE  /\ PublishCallHolds(w)'
         /\ pc[w] # "idle" /\ operation[w] \in Operations
         /\ \A x \in Workers \ {w} :
              pc'[x] = pc[x] /\ operation'[x] = operation[x] /\ seen'[x] = seen[x]
<1>1. PICK o : o = operation[w]
  OBVIOUS
<1>2. pc[w] # "idle" /\ o \in Operations
  BY <1>1 DEF TypeOK, WorkersTypeOK, Progress, At, Ready, BeginPublication, Load, StartCurating,
     StageVault, CommitStaged, StartIndexing, Index, FinishIndexing, CheckVault, ReplaceFinal,
     CommitVaultPublished, StartActivating, VerifyActivation, ReadActivationRows, Activate,
     ResumeFailed, CommitResumed, Fail
<1> DEFINE MovesTo(label) == Goto(w, label) \/ Return(w) \/ \E view : GotoWith(w, label, view)
<1>o. ASSUME NEW label, MovesTo(label)
      PROVE  \A x \in Workers \ {w} :
               pc'[x] = pc[x] /\ operation'[x] = operation[x] /\ seen'[x] = seen[x]
  BY <1>o DEF Goto, GotoWith, Return, TypeOK, WorkersTypeOK
<1>l. ASSUME NEW label, label \notin {"ready", "indexed"}, MovesTo(label)
      PROVE  PublishCallHolds(w)'
  BY <1>1, <1>2, <1>l DEF Goto, GotoWith, Return, PublishCallHolds, At, TypeOK, WorkersTypeOK
<1>3. CASE Load(w)
  <2>1. CASE GotoWith(w, "ready", Context(o)) /\ UNCHANGED tables
    <3>1. pc'[w] = "ready" /\ operation'[w] = o /\ seen'[w].run = run'[o].status
      BY <2>1, <1>1, <1>2 DEF GotoWith, Context, TypeOK, WorkersTypeOK, tables
    <3> QED
      BY <3>1, <2>1, <1>1, <1>2, <1>o DEF PublishCallHolds, At
  <2>2. CASE Goto(w, "failing") \/ Return(w)
    BY <2>2, <1>1, <1>2, <1>o, <1>l
  <2> QED
    BY <1>3, <2>1, <2>2, <1>1 DEF Load
<1>4. CASE Index(w)
  <2>1. /\ At(w, "ready") /\ seen[w].run = "INDEXING" /\ Goto(w, "indexed") /\ run' = run
        /\ IndexChunks(o, GenerationOf[o])
    BY <1>1, <1>4 DEF Index, Ready, tables
  <2>2. Probed(o, GenerationOf[o])'
    BY <2>1, <1>2, RequestAssumption DEF IndexChunks, Probed, TypeOK, VectorsTypeOK
  <2>3. ~Completed(o)' /\ pc'[w] = "indexed" /\ operation'[w] = o
    BY <2>1, <1>1, <1>2 DEF PublishCallHolds, Completed, Goto, TypeOK, WorkersTypeOK
  <2> QED
    BY <2>1, <2>2, <2>3, <1>1, <1>2, <1>o DEF PublishCallHolds, At
<1>5. CASE ~Load(w) /\ ~Index(w)
  <2>1. \E label : label \notin {"ready", "indexed"} /\ MovesTo(label)
    <3>1. CASE BeginPublication(w) \/ StageVault(w) \/ Fail(w)
      BY <3>1 DEF BeginPublication, StageVault, Fail
    <3>2. ASSUME NEW target, CommitRun(w, target)
          PROVE  \E label : label \notin {"ready", "indexed"} /\ MovesTo(label)
      BY <3>2 DEF CommitRun
    <3>3. CASE StartCurating(w) \/ CommitVaultPublished(w) \/ StartActivating(w) \/ CommitResumed(w)
      BY <3>2, <3>3 DEF StartCurating, CommitVaultPublished, StartActivating, CommitResumed
    <3>4. CASE CommitStaged(w) \/ StartIndexing(w) \/ FinishIndexing(w)
      BY <3>4 DEF CommitStaged, StartIndexing, FinishIndexing
    <3>5. CASE CheckVault(w) \/ ReplaceFinal(w)
      BY <3>5 DEF CheckVault, ReplaceFinal
    <3>6. CASE VerifyActivation(w) \/ ReadActivationRows(w) \/ ResumeFailed(w) \/ Activate(w)
      BY <3>6 DEF VerifyActivation, ReadActivationRows, ResumeFailed, Activate
    <3> QED
      BY <1>5, <3>1, <3>3, <3>4, <3>5, <3>6 DEF Progress
  <2> QED
    BY <2>1, <1>1, <1>2, <1>o, <1>l
<1> QED
  BY <1>1, <1>2, <1>3, <1>4, <1>5

(* Which rows it writes.                                                   *)
LEMMA PublishRowsAlone ==
  ASSUME TypeOK, NEW w \in Workers, Progress(w), operation[w] \in Operations
  PROVE  \A p \in Operations \ {operation[w]} : run'[p] = run[p]
<1>1. PICK o \in Operations : o = operation[w]
  OBVIOUS
<1>t. ASSUME NEW target, TransitionRun(o, target) PROVE \A p \in Operations \ {o} : run'[p] = run[p]
  BY <1>t DEF TransitionRun, TypeOK, TablesTypeOK
<1>c. ASSUME NEW target, CommitRun(w, target) PROVE \A p \in Operations \ {o} : run'[p] = run[p]
  BY <1>1, <1>c, <1>t DEF CommitRun
<1>2. CASE \/ Load(w) \/ StageVault(w) \/ Index(w) \/ CheckVault(w) \/ ReplaceFinal(w)
           \/ VerifyActivation(w) \/ ReadActivationRows(w) \/ ResumeFailed(w)
  BY <1>1, <1>2 DEF Load, StageVault, Index, CheckVault, ReplaceFinal, VerifyActivation,
     ReadActivationRows, ResumeFailed, tables
<1>3. CASE StartCurating(w) \/ CommitVaultPublished(w) \/ StartActivating(w) \/ CommitResumed(w)
  BY <1>1, <1>3, <1>c DEF StartCurating, CommitVaultPublished, StartActivating, CommitResumed
<1>4. CASE CommitStaged(w) \/ StartIndexing(w) \/ FinishIndexing(w) \/ Fail(w)
  BY <1>1, <1>4, <1>t DEF CommitStaged, StartIndexing, FinishIndexing, Fail
<1>5. CASE BeginPublication(w) \/ Activate(w)
  BY <1>1, <1>5 DEF BeginPublication, AddPublication, Activate, ActivatePublication, TypeOK,
     TablesTypeOK, tables
<1> QED
  BY <1>1, <1>2, <1>3, <1>4, <1>5 DEF Progress

(* An operation that is not completed is not pointed to.                   *)
LEMMA OwnRowIsBeside ==
  ASSUME LifecycleTypesOK, LifecycleInv, NEW o \in Operations, ~Completed(o)
  PROVE  \A g \in Generations : ~PointedTo(o, g)
BY PointersArePublished

LEMMA JobAlone ==
  ASSUME TablesTypeOK, NEW v \in Operations, NEW g \in Generations, NEW t, TransitionJob(v, g, t)
  PROVE  /\ job'[v][g] = t
         /\ \A u \in Operations, h \in Generations : u # v \/ h # g => job'[u][h] = job[u][h]
BY DEF TablesTypeOK, TransitionJob

LEMMA QuietPointersStay ==
  ASSUME LifecycleTypesOK, LifecycleInv, QuietControl PROVE PointersStay
<1>1. \A n \in Notes :
        /\ note'[n].current = note[n].current /\ note'[n].generation = note[n].generation
        /\ note'[n].state = "deleted" <=> note[n].state = "deleted"
  BY DEF QuietControl, LifecycleInv, PointersAreActivated, NoNote, NewNote, Absent
<1> QED
  BY <1>1 DEF PointersStay, QuietControl, Completed

(* All but the activation are beside what is pointed to.                   *)
LEMMA PublishIsBeside ==
  ASSUME LifecycleTypesOK, LifecycleInv, NEW w \in Workers, PublishCallHolds(w),
         Progress(w), ~Activates(w), trash' = trash
  PROVE  StaysBeside
<1>a. TypeOK /\ TablesTypeOK
  BY DEF LifecycleTypesOK, TypeOK
<1>1. PICK o : o = operation[w]
  OBVIOUS
<1>2. o \in Operations /\ GenerationOf[o] \in Generations
  BY <1>1, <1>a, PublishCallGoesOn, RequestAssumption
<1>3. PointersStay
  BY <1>a, PublicationQuietControl, QuietPointersStay
<1>j. UNCHANGED job => \A v \in Operations, g \in Generations : JobStaysBeside(v, g)
  BY DEF JobStaysBeside
<1>v. UNCHANGED vectors => \A v \in Operations, g \in Generations : ChunksStayBeside(v, g)
  BY DEF ChunksStayBeside, Probed
<1>t. ASSUME NEW t \in {"INDEXING", "INDEXED", "FAILED"}, TransitionJob(o, GenerationOf[o], t),
             OwnJob(o) \in {"PENDING", "INDEXING", "FAILED"},
             t = "INDEXED" => Probed(o, GenerationOf[o])'
      PROVE  \A v \in Operations, g \in Generations : JobStaysBeside(v, g)
  BY <1>t, <1>a, <1>2, JobAlone DEF JobStaysBeside, OwnJob
<1>4. CASE UNCHANGED <<job, vectors>>
  BY <1>4, <1>3, <1>j, <1>v DEF StaysBeside
<1>5. CASE Index(w)
  <2>1. ~Completed(o) /\ job' = job /\ IndexChunks(o, GenerationOf[o])
    BY <1>1, <1>5 DEF Index, Ready, PublishCallHolds, Completed, tables
  <2>2. \A v \in Operations, g \in Generations : ChunksStayBeside(v, g)
    BY <2>1, <1>2, <1>a, OwnRowIsBeside
       DEF IndexChunks, ChunksStayBeside, Probed, TypeOK, VectorsTypeOK
  <2> QED
    BY <2>1, <2>2, <1>3, <1>j DEF StaysBeside
<1>6. CASE BeginPublication(w) /\ ~UNCHANGED tables
  <2>1. run[o].status = Absent /\ AddPublication(o) /\ vectors' = vectors
    BY <1>1, <1>6 DEF BeginPublication
  <2>2. ~Completed(o)
    BY <2>1 DEF Completed, Absent
  <2>3. /\ job'[o][GenerationOf[o]] = "PENDING"
        /\ \A u \in Operations, h \in Generations :
             u # o \/ h # GenerationOf[o] => job'[u][h] = job[u][h]
    BY <2>1, <1>2, <1>a DEF AddPublication, TablesTypeOK
  <2>4. \A v \in Operations, g \in Generations : JobStaysBeside(v, g)
    BY <2>2, <2>3, <1>2, OwnRowIsBeside DEF JobStaysBeside
  <2> QED
    BY <2>1, <2>4, <1>3, <1>v DEF StaysBeside
<1>7. CASE StartIndexing(w) \/ FinishIndexing(w) \/ Fail(w)
  <2>1. vectors' = vectors
    BY <1>7 DEF StartIndexing, FinishIndexing, Fail
  <2>2. \/ job' = job
        \/ \E t \in {"INDEXING", "INDEXED", "FAILED"} :
             /\ TransitionJob(o, GenerationOf[o], t)
             /\ OwnJob(o) \in {"PENDING", "INDEXING", "FAILED"}
             /\ t = "INDEXED" => At(w, "indexed")
    BY <1>1, <1>7 DEF StartIndexing, FinishIndexing, Fail
  <2>3. At(w, "indexed") => Probed(o, GenerationOf[o])'
    BY <1>1, <2>1 DEF PublishCallHolds, Probed
  <2> QED
    BY <2>1, <2>2, <2>3, <1>3, <1>j, <1>t, <1>v DEF StaysBeside
<1>8. CASE \/ Load(w) \/ StartCurating(w) \/ StageVault(w) \/ CommitStaged(w) \/ CheckVault(w)
           \/ ReplaceFinal(w) \/ CommitVaultPublished(w) \/ StartActivating(w) \/ VerifyActivation(w)
           \/ ReadActivationRows(w) \/ ResumeFailed(w) \/ CommitResumed(w)
  <2>1. UNCHANGED <<job, vectors>>
    BY <1>8 DEF Load, StartCurating, StageVault, CommitStaged, CheckVault, ReplaceFinal, CommitRun,
       CommitVaultPublished, StartActivating, VerifyActivation, ReadActivationRows, ResumeFailed,
       CommitResumed, tables
  <2> QED
    BY <2>1, <1>4
<1>9. CASE Activate(w)
  BY <1>4, <1>9 DEF Activate, Activates, tables
<1>10. CASE BeginPublication(w) /\ UNCHANGED tables
  BY <1>4, <1>10 DEF BeginPublication, tables
<1> QED
  BY <1>5, <1>6, <1>7, <1>8, <1>9, <1>10 DEF Progress

-----------------------------------------------------------------------------
(* Activation and switch move pointers.  What they take a pointer from and *)
(* what they point it to are both complete in the index, and a deleted     *)
(* note is not touched.                                                    *)

JobMoves(v, g) ==
  job'[v][g] # job[v][g] =>
    /\ job'[v][g] \in {"ACTIVE_INDEXED", "DELETE_PENDING"} /\ Probed(v, g)
    /\ ~(PointedTo(v, g) /\ note[NoteOf[v]].state = "deleted")

PointersMove ==
  /\ UNCHANGED <<vectors, trash, lifecycle>>
  /\ \A v \in Operations : Completed(v) => Completed(v)'
  /\ \A n \in Notes :
       /\ note[n].state = "deleted" => note'[n] = note[n]
       /\ \/ note'[n].current = note[n].current /\ note'[n].generation = note[n].generation
          \/ /\ IsPublished(n)' => CurrentJob(n)' = "ACTIVE_INDEXED"
             /\ IsPublished(n) => Probed(note[n].current, note[n].generation)
  /\ \A v \in Operations, g \in Generations : JobMoves(v, g)

LEMMA MovesKeepIndex ==
  ASSUME LifecycleTypesOK, LifecycleInv, DeletedIsErasedAndKept, PointersMove,
         \A v \in Operations, g \in Generations : IndexKept(v, g)
  PROVE  /\ DeletedIsErasedAndKept'
         /\ \A v \in Operations, g \in Generations : IndexKept(v, g)'
<1>1. ASSUME NEW v \in Operations, NEW g \in Generations PROVE IndexKept(v, g)'
  <2>1. Probed(v, g)' <=> Probed(v, g)
    BY DEF PointersMove, Probed
  <2>2. JobMoves(v, g) /\ IndexKept(v, g)
    BY DEF PointersMove
  <2>3. ASSUME PointedTo(v, g), ~PointedTo(v, g)' PROVE Probed(v, g)
    BY <2>3, PointersArePublished DEF PointersMove, PointedTo, PointsTo
  <2> QED
    BY <2>1, <2>2, <2>3 DEF IndexKept, JobMoves, Built
<1>2. ASSUME NEW n \in Notes, IsPublished(n)', CurrentJob(n)' = "DELETED"
      PROVE  vectors'[note'[n].current][note'[n].generation] = "none" /\ note'[n].current \in trash'
  <2>1. PICK v, g : v = note[n].current /\ g = note[n].generation
    OBVIOUS
  <2>2. note'[n].current = v /\ note'[n].generation = g
    BY <1>2, <2>1 DEF PointersMove
  <2>3. job'[v][g] = "DELETED" /\ v # None /\ g # None
    BY <1>2, <2>2 DEF IsPublished, CurrentJob
  <2>4. v \in Operations /\ g \in Generations
    BY <2>1, <2>3, PointedToIsCompleted
  <2>5. job[v][g] = "DELETED"
    BY <2>3, <2>4 DEF PointersMove, JobMoves
  <2> QED
    BY <2>1, <2>2, <2>3, <2>5 DEF DeletedIsErasedAndKept, CurrentJob, IsPublished, PointersMove
<1> QED
  BY <1>1, <1>2 DEF DeletedIsErasedAndKept

LEMMA MovesKeepNoteCall ==
  ASSUME LifecycleTypesOK, LifecycleInv, PointersMove, NEW s \in NoteWorkers, NoteCallHolds(s)
  PROVE  NoteCallHolds(s)'
<1>1. CASE AtCall(s, "idle")
  BY <1>1 DEF AtCall, NoteCallHolds, PointersMove
<1>2. CASE ~AtCall(s, "idle")
  <2>1. PICK n, v, g, at : /\ n = lifecycle[s].note /\ v = lifecycle[s].version
                           /\ g = lifecycle[s].generation /\ at = lifecycle[s].at
    OBVIOUS
  <2>2. n \in Notes /\ v \in Operations /\ g \in Generations
    BY <1>2, <2>1, HeldTyped DEF LifecycleTypesOK
  <2>3. JobMoves(v, g) /\ UNCHANGED <<vectors, trash, lifecycle>>
    BY <2>2 DEF PointersMove
  <2>4. PointsTo(n, v, g) => PointedTo(v, g) /\ NoteOf[v] = n
    BY <2>2, PointedToIsCompleted, RequestAssumption DEF PointsTo
  <2>5. note[n].state = "deleted" => note'[n] = note[n]
    BY <2>2 DEF PointersMove
  <2>6. at \notin {"idle", "exclude", "verify", "reindex"} =>
          /\ note'[n].state = "deleted" /\ PointsTo(n, v, g)'
          /\ PointedTo(v, g) /\ note[NoteOf[v]].state = "deleted"
    BY <2>1, <2>4, <2>5 DEF NoteCallHolds, PointsTo
  <2>7. at \in {"recycle", "erase", "confirm"} => job'[v][g] \in {"DELETE_PENDING", "DELETED"}
    BY <2>1, <2>3, <2>6 DEF NoteCallHolds, JobMoves
  <2>8. at \notin {"idle", "exclude", "excluded", "recycle", "erase", "confirm", "reopen"} =>
          job'[v][g] # "DELETED"
    BY <2>1, <2>3 DEF NoteCallHolds, JobMoves
  <2>9. at \in {"erase", "confirm"} => v \in trash'
    BY <2>1, <2>3 DEF NoteCallHolds
  <2>10. (at = "confirm" => vectors'[v][g] = "none") /\ (at = "mark" => Probed(v, g)')
    BY <2>1, <2>3 DEF NoteCallHolds, Probed
  <2> QED
    BY <2>1, <2>3, <2>6, <2>7, <2>8, <2>9, <2>10 DEF NoteCallHolds
<1> QED
  BY <1>1, <1>2

LEMMA ServedRowIsProbed ==
  ASSUME LifecycleTypesOK, LifecycleInv, NEW n \in Notes, Served(n),
         \A v \in Operations, g \in Generations : IndexKept(v, g)
  PROVE  /\ note[n].current \in Operations /\ note[n].generation \in Generations
         /\ CurrentJob(n) = "ACTIVE_INDEXED" /\ Probed(note[n].current, note[n].generation)
<1>1. note[n].current \in Operations /\ note[n].generation \in Generations
  BY PointedToIsCompleted DEF Served, IsPublished
<1>2. CurrentJob(n) = "ACTIVE_INDEXED"
  BY DEF LifecycleInv, ServedJobIsActive
<1> QED
  BY <1>1, <1>2 DEF IndexKept, CurrentJob, Built

LEMMA ActivationMoves ==
  ASSUME LifecycleTypesOK, LifecycleInv, NEW w \in Workers, Activates(w),
         UNCHANGED <<trash, lifecycle>>,
         \A v \in Operations, g \in Generations : IndexKept(v, g)
  PROVE  /\ PointersMove
         /\ \A v \in Operations, g \in Generations :
              Completed(v) /\ ~PointedTo(v, g) => ~PointedTo(v, g)'
<1>a. TypeOK /\ TablesTypeOK
  BY DEF LifecycleTypesOK, TypeOK
<1>o. PICK o \in Operations : Activation(o)
  BY <1>a, ActivationWrites
<1>1. PICK n, h : n = NoteOf[o] /\ h = GenerationOf[o]
  OBVIOUS
<1>2. n \in Notes /\ h \in Generations /\ o # None /\ h # None
  BY <1>1, RequestAssumption
<1>3. /\ note'[n] = [state |-> "live", current |-> o, generation |-> h]
      /\ \A m \in Notes \ {n} : note'[m] = note[m]
      /\ note[n].state = "live" /\ ~Completed(o) /\ job[o][h] = "INDEXED" /\ vectors' = vectors
      /\ job'[o][h] = "ACTIVE_INDEXED"
      /\ \A u \in Operations, k \in Generations : u # o \/ k # h => job'[u][k] = job[u][k]
      /\ \A v \in Operations : Completed(v) => Completed(v)'
  BY <1>o, <1>1, <1>2, <1>a DEF Activation, IsLive, OwnJob, Completed, TablesTypeOK, RunRow
<1>4. \A v \in Operations, g \in Generations : JobMoves(v, g)
  BY <1>2, <1>3, OwnRowIsBeside DEF JobMoves, IndexKept, Built
<1>5. IsPublished(n) => Probed(note[n].current, note[n].generation)
  BY <1>2, <1>3, ServedRowIsProbed DEF Served, IsLive
<1>6. IsPublished(n)' => CurrentJob(n)' = "ACTIVE_INDEXED"
  BY <1>3 DEF CurrentJob
<1>7. PointersMove
  <2>1. \A m \in Notes : note[m].state = "deleted" => note'[m] = note[m]
    BY <1>3
  <2>2. \A m \in Notes :
          \/ note'[m].current = note[m].current /\ note'[m].generation = note[m].generation
          \/ /\ IsPublished(m)' => CurrentJob(m)' = "ACTIVE_INDEXED"
             /\ IsPublished(m) => Probed(note[m].current, note[m].generation)
    BY <1>3, <1>5, <1>6
  <2> QED
    BY <1>3, <1>4, <2>1, <2>2 DEF PointersMove
<1>8. ASSUME NEW v \in Operations, NEW g \in Generations, Completed(v), ~PointedTo(v, g)
      PROVE  ~PointedTo(v, g)'
  <2>1. v # o /\ NoteOf[v] \in Notes
    BY <1>3, <1>8, RequestAssumption
  <2> QED
    BY <1>3, <1>8, <2>1 DEF PointedTo, PointsTo
<1> QED
  BY <1>7, <1>8

LEMMA SwitchMoves ==
  ASSUME LifecycleTypesOK, LifecycleInv, NEW source \in Generations, NEW target \in Generations,
         NEW expected \in {"INDEXED", "DELETE_PENDING"}, Switches(source, target, expected),
         UNCHANGED <<vectors, trash, lifecycle>>,
         \A v \in Operations, g \in Generations : IndexKept(v, g)
  PROVE  PointersMove
<1>a. TablesTypeOK
  BY DEF LifecycleTypesOK, TypeOK
<1>1. PICK moved : moved = NotesServedFrom(source)
  OBVIOUS
<1>2. /\ \A n \in Notes :
           /\ n \in moved => /\ note'[n].current = note[n].current
                             /\ note'[n].generation = target
           /\ n \notin moved => note'[n] = note[n]
      /\ \A v \in Operations :
           /\ (\E n \in moved : note[n].current = v) =>
                /\ job'[v][target] = "ACTIVE_INDEXED"
                /\ job'[v][source] = "DELETE_PENDING"
                /\ \A g \in Generations \ {source, target} : job'[v][g] = job[v][g]
           /\ ~(\E n \in moved : note[n].current = v) => job'[v] = job[v]
      /\ source # target
      /\ \A n \in moved : CurrentJob(n) = "ACTIVE_INDEXED" /\ job[note[n].current][target] = expected
      /\ UNCHANGED run
  BY <1>1, <1>a DEF Switches, SwitchGeneration, CanSwitchGeneration, TablesTypeOK, NoteRow
<1>3. ASSUME NEW n \in moved
      PROVE  /\ n \in Notes /\ note[n].state = "live" /\ note[n].generation = source
             /\ note[n].current \in Operations /\ NoteOf[note[n].current] = n
             /\ Probed(note[n].current, source) /\ Probed(note[n].current, target)
             /\ Served(n)
  <2>1. n \in Notes /\ note[n].state = "live" /\ note[n].generation = source /\ Served(n)
    BY <1>1, RequestAssumption
       DEF NotesServedFrom, LiveNotesOn, IsLive, Served, IsPublished
  <2>2. note[n].current \in Operations /\ NoteOf[note[n].current] = n /\ Probed(note[n].current, source)
    BY <2>1, ServedRowIsProbed, PointedToIsCompleted DEF Served, IsPublished
  <2>3. ~PointedTo(note[n].current, target)
    BY <1>2, <2>1, <2>2 DEF PointedTo, PointsTo
  <2>4. job[note[n].current][target] = expected
    BY <1>2
  <2>5. Probed(note[n].current, target)
    BY <2>2, <2>3, <2>4 DEF IndexKept, Built
  <2> QED
    BY <2>1, <2>2, <2>5
<1>4. ASSUME NEW v \in Operations, NEW g \in Generations PROVE JobMoves(v, g)
  <2>1. CASE \E n \in moved : note[n].current = v
    BY <1>2, <1>3, <2>1 DEF JobMoves
  <2>2. CASE ~\E n \in moved : note[n].current = v
    BY <1>2, <2>2 DEF JobMoves
  <2> QED
    BY <2>1, <2>2
<1>5. ASSUME NEW n \in Notes
      PROVE  /\ note[n].state = "deleted" => note'[n] = note[n]
             /\ \/ note'[n].current = note[n].current /\ note'[n].generation = note[n].generation
                \/ /\ IsPublished(n)' => CurrentJob(n)' = "ACTIVE_INDEXED"
                   /\ IsPublished(n) => Probed(note[n].current, note[n].generation)
  <2>1. CASE n \in moved
    BY <1>2, <1>3, <2>1 DEF CurrentJob
  <2>2. CASE n \notin moved
    BY <1>2, <2>2
  <2> QED
    BY <2>1, <2>2
<1> QED
  BY <1>2, <1>4, <1>5 DEF PointersMove, Completed

-----------------------------------------------------------------------------
(* Steps of a generation call.                                             *)

(* A call that has ended, or is promoting or rolling back, relies on less. *)
LEMMA EndedGenerationCallHolds ==
  ASSUME MigrationTypeOK, NEW m \in GenerationWorkers, EndMigration(m)
  PROVE  GenerationCallHolds(m)'
BY DEF EndMigration, NoMigration, MigrationTypeOK, GenerationCallHolds, VersionLabels

LEMMA GenerationIsBeside ==
  ASSUME LifecycleTypesOK, LifecycleInv, NEW m \in GenerationWorkers, GenerationCallHolds(m),
         \/ GenerationProgress(m) \/ GenerationDisturb(m)
         \/ \E g \in Generations : GenerationCall(m, g),
         UNCHANGED OutsideGenerations
  PROVE  /\ GenerationCallHolds(m)'
         /\ \/ StaysBeside
            \/ /\ UNCHANGED vectors
               /\ \E source, target \in Generations, expected \in {"INDEXED", "DELETE_PENDING"} :
                    Switches(source, target, expected)
<1>a. /\ TypeOK /\ TablesTypeOK /\ VectorsTypeOK /\ MigrationTypeOK
      /\ UNCHANGED <<change, version, run, trash>>
  BY DEF LifecycleTypesOK, TypeOK, OutsideGenerations
<1>1. PICK at, v, target, todo : /\ at = migration[m].at /\ v = migration[m].version
                                 /\ target = migration[m].target /\ todo = migration[m].todo
  OBVIOUS
<1>2. /\ todo \in SUBSET Operations
      /\ at # "idle" => target \in Generations
      /\ at \in VersionLabels => v \in Operations
  BY <1>1, <1>a, MigrationHeldTyped DEF MigratingAt
<1>p. UNCHANGED note =>
        /\ PointersStay
        /\ \A u \in Operations, g \in Generations :
             /\ Completed(u)' <=> Completed(u)
             /\ PointedTo(u, g)' <=> PointedTo(u, g)
  BY <1>a DEF PointersStay, Completed, PointedTo, PointsTo
<1>j. UNCHANGED job => \A u \in Operations, g \in Generations : JobStaysBeside(u, g)
  BY DEF JobStaysBeside
<1>v. UNCHANGED vectors => \A u \in Operations, g \in Generations : ChunksStayBeside(u, g)
  BY DEF ChunksStayBeside, Probed
<1>q. UNCHANGED <<note, job, vectors>> => StaysBeside
  BY <1>a, <1>p, <1>j, <1>v DEF StaysBeside
<1>e. EndMigration(m) => GenerationCallHolds(m)'
  BY <1>a, EndedGenerationCallHolds
<1>c. ASSUME at \in VersionLabels, NEW label \in VersionLabels, Continue(m, label), UNCHANGED note,
             label = "mark" => Probed(v, target)'
      PROVE  GenerationCallHolds(m)'
  <2>1. /\ migration'[m].at = label /\ migration'[m].version = v
        /\ migration'[m].target = target /\ migration'[m].todo = todo
    BY <1>c, <1>a, <1>1 DEF Continue, MigrationTypeOK, VersionLabels, MigrationCall, NoMigration, ListLabels
  <2>2. /\ \A u \in todo \cup {v} : Completed(u)'
        /\ \A u \in todo \cup {v} : ~PointedTo(u, target)'
    BY <1>c, <1>1, <1>2, <1>p DEF GenerationCallHolds, VersionLabels
  <2> QED
    BY <2>1, <2>2, <1>c DEF GenerationCallHolds, VersionLabels
<1>s. ASSUME NEW u \in Operations, NEW label \in ListLabels, Strike(m, u, label), UNCHANGED note,
             at = label \/ at \in VersionLabels
      PROVE  GenerationCallHolds(m)'
  <2>1. /\ migration'[m].at = label /\ migration'[m].target = target
        /\ migration'[m].todo = todo \ {u}
    BY <1>s, <1>a, <1>1 DEF Strike, MigrationTypeOK
  <2>2. \A x \in todo : Completed(x)' /\ (label = "rebuild" => ~PointedTo(x, target)')
    BY <1>s, <1>1, <1>2, <1>p DEF GenerationCallHolds, VersionLabels, ListLabels
  <2> QED
    BY <2>1, <2>2, <1>s DEF GenerationCallHolds, VersionLabels, ListLabels
<1>3. ASSUME NEW g \in Generations, GenerationCall(m, g)
      PROVE  GenerationCallHolds(m)' /\ StaysBeside
  <2>1. CASE Abort(m, g)
    <3>1. UNCHANGED <<note, job, vectors, migration>>
      BY <2>1 DEF Abort
    <3> QED
      BY <3>1, <1>a, <1>p, <1>q, GenerationCallLasts DEF Probed
  <2>2. CASE StartRebuild(m, g) \/ StartPromotion(m, g) \/ StartRollback(m, g)
    <3>1. PICK source \in Generations, label \in ListLabels :
            Begin(m, source, g, label) /\ (label = "rebuild" => source # g)
      BY <2>2 DEF StartRebuild, StartPromotion, StartRollback, StartMigration, ListLabels,
         ActiveGenerations
    <3>2. UNCHANGED <<note, job, vectors>>
      BY <2>2 DEF StartRebuild, StartPromotion, StartRollback, StartMigration
    <3>3. ASSUME NEW u \in VersionsServedFrom(source)
          PROVE  Completed(u)' /\ (label = "rebuild" => ~PointedTo(u, g)')
      <4>1. PICK n \in Notes : u = note[n].current /\ u # None /\ note[n].generation = source
        BY <3>3 DEF VersionsServedFrom, NotesServedFrom, LiveNotesOn
      <4>2. u \in Operations /\ NoteOf[u] = n /\ Completed(u)
        BY <4>1, PointedToIsCompleted
      <4> QED
        BY <4>1, <4>2, <3>1, <3>2, <1>p DEF PointedTo, PointsTo
    <3>4. /\ migration'[m].at = label /\ migration'[m].target = g
          /\ migration'[m].todo = VersionsServedFrom(source)
      BY <3>1, <1>a DEF Begin, MigrationTypeOK
    <3>5. GenerationCallHolds(m)'
      BY <3>3, <3>4 DEF GenerationCallHolds, ListLabels, VersionLabels
    <3> QED
      BY <3>2, <3>5, <1>q
  <2> QED
    BY <1>3, <2>1, <2>2 DEF GenerationCall
<1>4. CASE GenerationCrash(m) \/ FinishRebuild(m)
  BY <1>4, <1>e, <1>q DEF GenerationCrash, FinishRebuild
<1>5. ASSUME NEW u \in Operations, OpenRebuildJob(m, u)
      PROVE  GenerationCallHolds(m)' /\ StaysBeside
  <2>1. /\ at = "rebuild" /\ u \in todo /\ target \in Generations
        /\ UNCHANGED <<note, vectors>>
    BY <1>1, <1>2, <1>5 DEF OpenRebuildJob, MigratingAt
  <2>2. \A x \in todo : Completed(x) /\ ~PointedTo(x, target)
    BY <1>1, <2>1 DEF GenerationCallHolds
  <2>3. CASE EndMigration(m) /\ UNCHANGED job
    BY <2>1, <2>3, <1>e, <1>q
  <2>4. ASSUME NEW label \in {"index", "verify"},
               migration' = [migration EXCEPT ![m].at = label, ![m].version = u]
        PROVE  GenerationCallHolds(m)'
    <3>1. /\ migration'[m].at \in {"index", "verify"} /\ migration'[m].version = u
          /\ migration'[m].target = target /\ migration'[m].todo = todo
      BY <2>1, <2>4, <1>1, <1>a DEF MigrationTypeOK, MigrationCall, NoMigration, ListLabels, VersionLabels
    <3>2. \A x \in todo \cup {u} : Completed(x)' /\ ~PointedTo(x, target)'
      BY <2>1, <2>2, <1>2, <1>p
    <3> QED
      BY <3>1, <3>2 DEF GenerationCallHolds, VersionLabels
  <2>5. \A x \in Operations, g \in Generations : JobStaysBeside(x, g)
    <3>1. CASE UNCHANGED job
      BY <3>1, <1>j
    <3>2. CASE TransitionJob(u, target, "INDEXING") /\ job[u][target] \in {Absent, "PENDING", "FAILED"}
      BY <3>2, <2>1, <1>a, JobAlone DEF JobStaysBeside, Absent
    <3> QED
      BY <3>1, <3>2, <1>1, <1>5 DEF OpenRebuildJob
  <2>6. StaysBeside
    BY <2>1, <2>5, <1>a, <1>p, <1>v DEF StaysBeside
  <2> QED
    BY <1>5, <2>3, <2>4, <2>6 DEF OpenRebuildJob
<1>6. CASE IndexRebuilt(m) \/ IndexRebuiltRaises(m)
  <2>1. /\ at = "index" /\ at \in VersionLabels /\ UNCHANGED <<note, job>>
        /\ \/ IndexChunks(v, target) /\ Continue(m, "mark")
           \/ IndexChunksPartly(v, target) /\ Continue(m, "unindexed")
    BY <1>1, <1>6 DEF IndexRebuilt, IndexRebuiltRaises, MigratingAt, VersionLabels
  <2>2. v \in Operations /\ target \in Generations /\ ~PointedTo(v, target)
    BY <2>1, <1>1, <1>2 DEF GenerationCallHolds
  <2>3. IndexChunks(v, target) => Probed(v, target)'
    BY <2>2, <1>a DEF IndexChunks, Probed, VectorsTypeOK
  <2>4. ASSUME NEW x \in Operations, NEW g \in Generations PROVE ChunksStayBeside(x, g)
    BY <2>1, <2>2, <1>a DEF IndexChunks, IndexChunksPartly, ChunksStayBeside, Probed, VectorsTypeOK
  <2>5. GenerationCallHolds(m)'
    BY <2>1, <2>3, <1>c DEF VersionLabels
  <2> QED
    BY <2>1, <2>4, <2>5, <1>a, <1>p, <1>j DEF StaysBeside
<1>7. CASE FailRebuildIndex(m) \/ MarkRebuilt(m)
  <2>1. /\ at \in {"unindexed", "mark"} /\ at \in VersionLabels /\ UNCHANGED <<note, vectors>>
        /\ \/ EndMigration(m) /\ UNCHANGED job
           \/ EndMigration(m) /\ TransitionJob(v, target, "FAILED") /\ job[v][target] = "INDEXING"
           \/ /\ Continue(m, "verify") /\ TransitionJob(v, target, "INDEXED") /\ at = "mark"
              /\ CanTransition(IndexJobTransitions, job[v][target], "INDEXED")
    BY <1>1, <1>7 DEF FailRebuildIndex, MarkRebuilt, MigratingAt, VersionLabels, TargetJob, SetTargetJob
  <2>2. v \in Operations /\ target \in Generations /\ ~PointedTo(v, target)
    BY <2>1, <1>1, <1>2 DEF GenerationCallHolds, VersionLabels
  <2>3. at = "mark" => Probed(v, target)'
    BY <2>1, <1>1 DEF GenerationCallHolds, Probed
  <2>4. GenerationCallHolds(m)'
    BY <2>1, <1>c, <1>e DEF VersionLabels
  <2>5. \A x \in Operations, g \in Generations : JobStaysBeside(x, g)
    BY <2>1, <2>2, <2>3, <1>a, <1>j, JobAlone DEF JobStaysBeside
  <2> QED
    BY <2>1, <2>4, <2>5, <1>a, <1>p, <1>v DEF StaysBeside
<1>8. CASE VerifyRebuilt(m)
  <2>1. at = "verify" /\ at \in VersionLabels /\ v \in Operations /\ UNCHANGED <<note, job, vectors>>
    BY <1>1, <1>2, <1>8 DEF VerifyRebuilt, MigratingAt, VersionLabels
  <2> QED
    BY <2>1, <1>1, <1>8, <1>e, <1>q, <1>s DEF VerifyRebuilt, ListLabels
<1>9. ASSUME NEW u \in Operations, CheckPromoted(m, u) \/ CheckRetained(m, u)
      PROVE  GenerationCallHolds(m)' /\ StaysBeside
  BY <1>1, <1>9, <1>e, <1>q, <1>s DEF CheckPromoted, CheckRetained, MigratingAt, ListLabels
<1>10. ASSUME NEW label \in ListLabels, NEW expected \in {"INDEXED", "DELETE_PENDING"},
              CommitSwitch(m, label, expected)
       PROVE  /\ GenerationCallHolds(m)'
              /\ \/ StaysBeside
                 \/ /\ UNCHANGED vectors
                    /\ \E source, t \in Generations, e \in {"INDEXED", "DELETE_PENDING"} :
                         Switches(source, t, e)
  <2>1. target \in Generations
    BY <1>1, <1>2, <1>10 DEF CommitSwitch, MigratingAt, ListLabels
  <2> QED
    BY <2>1, <1>1, <1>10, <1>a, <1>e, <1>q DEF CommitSwitch, Switches
<1>11. CASE Promote(m) \/ Rollback(m)
  BY <1>10, <1>11 DEF Promote, Rollback, ListLabels
<1> QED
  BY <1>3, <1>4, <1>5, <1>6, <1>7, <1>8, <1>9, <1>11 DEF GenerationProgress, GenerationDisturb

-----------------------------------------------------------------------------
(* Steps of a deletion or a restoration: they write at most the row of     *)
(* their version, which the note points to unless the call only reindexes. *)

KeepsIndex ==
  /\ DeletedIsErasedAndKept'
  /\ \A v \in Operations, g \in Generations :
       /\ IndexKept(v, g)'
       /\ Completed(v) /\ ~PointedTo(v, g) => ~PointedTo(v, g)' /\ (Probed(v, g) => Probed(v, g)')
       /\ ~Completed(v) /\ Probed(v, g) => Probed(v, g)'

OneRow(v, g) ==
  /\ \A n \in Notes :
       note'[n].current = note[n].current /\ note'[n].generation = note[n].generation
  /\ \A u \in Operations, h \in Generations :
       u # v \/ h # g => job'[u][h] = job[u][h] /\ vectors'[u][h] = vectors[u][h]
  /\ \A u \in trash : u # v \/ ~PointedTo(v, g) => u \in trash'
  /\ UNCHANGED run

LEMMA OneRowKeepsIndex ==
  ASSUME LifecycleTypesOK, LifecycleInv, DeletedIsErasedAndKept,
         NEW v \in Operations, NEW g \in Generations, OneRow(v, g),
         \A u \in Operations, h \in Generations : IndexKept(u, h),
         IndexKept(v, g)',
         PointedTo(v, g) \/ (Probed(v, g) => Probed(v, g)'),
         PointedTo(v, g) /\ job'[v][g] = "DELETED" => vectors'[v][g] = "none" /\ v \in trash'
  PROVE  KeepsIndex
<1>1. \A u \in Operations, h \in Generations :
        /\ PointedTo(u, h)' <=> PointedTo(u, h)
        /\ u # v \/ h # g => (Probed(u, h)' <=> Probed(u, h))
  BY RequestAssumption DEF OneRow, PointedTo, PointsTo, Probed
<1>2. \A u \in Operations, h \in Generations : IndexKept(u, h)'
  BY <1>1 DEF OneRow, IndexKept
<1>3. ASSUME NEW n \in Notes, IsPublished(n)', CurrentJob(n)' = "DELETED"
      PROVE  vectors'[note'[n].current][note'[n].generation] = "none" /\ note'[n].current \in trash'
  <2>1. PICK u, h : u = note[n].current /\ h = note[n].generation
    OBVIOUS
  <2>2. /\ note'[n].current = u /\ note'[n].generation = h /\ IsPublished(n)
        /\ job'[u][h] = "DELETED"
    BY <1>3, <2>1 DEF OneRow, IsPublished, CurrentJob
  <2>3. u \in Operations /\ h \in Generations /\ PointedTo(u, h) /\ NoteOf[u] = n
    BY <2>1, <2>2, PointedToIsCompleted DEF IsPublished
  <2>4. CASE u = v /\ h = g
    BY <2>2, <2>3, <2>4
  <2>5. CASE u # v \/ h # g
    <3>1. job[u][h] = "DELETED" /\ vectors'[u][h] = vectors[u][h]
      BY <2>2, <2>3, <2>5 DEF OneRow
    <3>2. vectors[u][h] = "none" /\ u \in trash
      BY <2>1, <2>2, <3>1 DEF DeletedIsErasedAndKept, CurrentJob
    <3>3. u # v \/ ~PointedTo(v, g)
      BY <2>3, <2>5 DEF PointedTo, PointsTo
    <3> QED
      BY <2>2, <3>1, <3>2, <3>3 DEF OneRow
  <2> QED
    BY <2>4, <2>5
<1>4. \A u \in Operations, h \in Generations :
        /\ Completed(u) /\ ~PointedTo(u, h) => ~PointedTo(u, h)' /\ (Probed(u, h) => Probed(u, h)')
        /\ ~Completed(u) /\ Probed(u, h) => Probed(u, h)'
  BY <1>1, PointersArePublished
<1> QED
  BY <1>2, <1>3, <1>4 DEF KeepsIndex, DeletedIsErasedAndKept

LEMMA NoRowKeepsIndex ==
  ASSUME LifecycleTypesOK, LifecycleInv, DeletedIsErasedAndKept,
         \A v \in Operations, g \in Generations : IndexKept(v, g),
         UNCHANGED <<note, job, run, vectors, trash>>
  PROVE  KeepsIndex
<1>1. StaysBeside
  BY DEF StaysBeside, PointersStay, Completed, JobStaysBeside, ChunksStayBeside, Probed
<1>2. \A v \in Operations, g \in Generations :
        (PointedTo(v, g)' <=> PointedTo(v, g)) /\ (Probed(v, g)' <=> Probed(v, g))
  BY DEF PointedTo, PointsTo, Probed
<1> QED
  BY <1>1, <1>2, BesideKeepsIndex DEF KeepsIndex

(* What NoteCallHolds says of a call with these fields.                    *)
HoldsAt(at, n, v, g) ==
  /\ at \notin {"idle", "exclude", "verify", "reindex"} =>
       note[n].state = "deleted" /\ PointsTo(n, v, g)
  /\ at \in {"recycle", "erase", "confirm"} => job[v][g] \in {"DELETE_PENDING", "DELETED"}
  /\ at \in {"erase", "confirm"} => v \in trash
  /\ at = "confirm" => vectors[v][g] = "none"
  /\ at \notin {"idle", "exclude", "excluded", "recycle", "erase", "confirm", "reopen"} =>
       job[v][g] # "DELETED"
  /\ at = "mark" => Probed(v, g)

LEMMA CallHolds ==
  ASSUME NEW s \in NoteWorkers, NEW at, NEW n, NEW v, NEW g,
         at = lifecycle[s].at, n = lifecycle[s].note, v = lifecycle[s].version,
         g = lifecycle[s].generation, NoteCallHolds(s)
  PROVE  HoldsAt(at, n, v, g)
BY DEF NoteCallHolds, HoldsAt

LEMMA CallLands ==
  ASSUME NEW s \in NoteWorkers, NEW at, NEW n, NEW v, NEW g,
         at = lifecycle'[s].at, n = lifecycle'[s].note, v = lifecycle'[s].version,
         g = lifecycle'[s].generation, HoldsAt(at, n, v, g)'
  PROVE  NoteCallHolds(s)'
BY DEF NoteCallHolds, HoldsAt

LEMMA EndedCallHolds ==
  ASSUME LifecycleTypesOK, NEW s \in NoteWorkers, EndCall(s)
  PROVE  NoteCallHolds(s)'
BY DEF EndCall, NoCall, LifecycleTypesOK, LifecycleTypeOK, NoteCallHolds

LEMMA ProceedingCallHolds ==
  ASSUME LifecycleTypesOK, NEW s \in NoteWorkers, ~AtCall(s, "idle"), NEW label, Proceed(s, label),
         NEW n, NEW v, NEW g, n = lifecycle[s].note, v = lifecycle[s].version,
         g = lifecycle[s].generation, HoldsAt(label, n, v, g)'
  PROVE  NoteCallHolds(s)'
<1>1. lifecycle[s] \in ActiveCall
  BY HeldTyped DEF LifecycleTypesOK
<1>2. /\ lifecycle'[s].at = label /\ lifecycle'[s].note = n /\ lifecycle'[s].version = v
      /\ lifecycle'[s].generation = g
  BY <1>1 DEF Proceed, LifecycleTypesOK, LifecycleTypeOK, ActiveCall
<1> QED
  BY <1>2, CallLands

(* A load reads the row afresh.                                            *)
LEMMA LoadingCallHolds ==
  ASSUME LifecycleTypesOK, NEW s \in NoteWorkers, NEW n \in Notes, NEW label, LoadNote(s, n, label),
         UNCHANGED <<note, job, vectors, trash>>, Loadable(n),
         label \notin {"exclude", "verify"} => note[n].state = "deleted",
         label = "recycle" => CurrentJob(n) \in {"DELETE_PENDING", "DELETED"},
         label \notin {"exclude", "recycle", "reopen"} => CurrentJob(n) # "DELETED",
         label \notin {"idle", "reindex", "erase", "confirm", "mark", "excluded"}
  PROVE  NoteCallHolds(s)'
<1>1. PICK v, g : v = note[n].current /\ g = note[n].generation
  OBVIOUS
<1>2. /\ lifecycle'[s].at = label /\ lifecycle'[s].note = n /\ lifecycle'[s].version = v
      /\ lifecycle'[s].generation = g
  BY <1>1 DEF LoadNote, LifecycleTypesOK, LifecycleTypeOK
<1>3. HoldsAt(label, n, v, g)'
  BY <1>1 DEF HoldsAt, PointsTo, CurrentJob
<1> QED
  BY <1>2, <1>3, CallLands

LEMMA NoteStepKeeps ==
  ASSUME LifecycleTypesOK, LifecycleInv, DeletedIsErasedAndKept,
         \A v \in Operations, g \in Generations : IndexKept(v, g),
         NEW s \in NoteWorkers, NoteCallHolds(s),
         NoteProgress(s) \/ NoteDisturb(s) \/ \E n \in Notes : NoteCall(s, n),
         UNCHANGED OutsideNotes
  PROVE  NoteCallHolds(s)' /\ KeepsIndex
<1>a. TablesTypeOK /\ VectorsTypeOK /\ LifecycleTypeOK /\ run' = run
  BY DEF LifecycleTypesOK, TypeOK, OutsideNotes
<1>k. UNCHANGED <<note, job, vectors, trash>> => KeepsIndex
  BY <1>a, NoRowKeepsIndex
<1>e. EndCall(s) => NoteCallHolds(s)'
  BY EndedCallHolds
<1>d. \A n \in Notes : Loadable(n) /\ ~IsLive(n) => note[n].state = "deleted"
  BY <1>a DEF Loadable, IsPublished, IsLive, TablesTypeOK, NoteRow, LifecycleInv,
     PointersAreActivated, NoNote
<1>1. ASSUME NEW n \in Notes, NoteCall(s, n) PROVE NoteCallHolds(s)' /\ KeepsIndex
  <2>1. UNCHANGED <<note, job, vectors, trash>> /\ Loadable(n)
    BY <1>1 DEF NoteCall, DeleteNote, RestoreCall
  <2>2. \/ IsLive(n) /\ CurrentJob(n) = "ACTIVE_INDEXED"
           /\ (LoadNote(s, n, "exclude") \/ LoadNote(s, n, "verify"))
        \/ ~IsLive(n) /\ CurrentJob(n) \in {"DELETE_PENDING", "DELETED"} /\ LoadNote(s, n, "recycle")
        \/ ~IsLive(n) /\ LoadNote(s, n, "reopen")
        \/ ~IsLive(n) /\ CurrentJob(n) = "INDEXING" /\ LoadNote(s, n, "index")
        \/ ~IsLive(n) /\ CurrentJob(n) = "INDEXED" /\ LoadNote(s, n, "return")
    BY <1>1 DEF NoteCall, DeleteNote, RestoreCall
  <2> QED
    BY <2>1, <2>2, <1>d, <1>k, LoadingCallHolds
<1>2. ASSUME ~AtCall(s, "idle"), NEW n, NEW v, NEW g, NEW at,
             n = lifecycle[s].note, v = lifecycle[s].version, g = lifecycle[s].generation,
             at = lifecycle[s].at, NoteProgress(s) \/ NoteDisturb(s)
      PROVE  NoteCallHolds(s)' /\ KeepsIndex
  <2>1. n \in Notes /\ v \in Operations /\ g \in Generations /\ HoldsAt(at, n, v, g)
    BY <1>2, HeldTyped, CallHolds DEF LifecycleTypesOK
  <2>2. PointsTo(n, v, g) => PointedTo(v, g)
    BY <2>1, PointedToIsCompleted, RequestAssumption DEF PointsTo
  <2>p. ASSUME NEW label, Proceed(s, label), HoldsAt(label, n, v, g)' PROVE NoteCallHolds(s)'
    BY <1>2, <2>p, ProceedingCallHolds
  <2>l. ASSUME NEW label, LoadNote(s, n, label), Loadable(n), UNCHANGED <<note, job, vectors, trash>>,
               note[n].state = "deleted",
               \/ label = "recycle" /\ CurrentJob(n) \in {"DELETE_PENDING", "DELETED"}
               \/ label \in {"index", "return"} /\ CurrentJob(n) # "DELETED"
        PROVE  NoteCallHolds(s)' /\ KeepsIndex
    BY <2>1, <2>l, <1>k, LoadingCallHolds
  <2>j. ASSUME NEW t, TransitionJob(v, g, t)
        PROVE  job'[v][g] = t /\ \A u \in Operations, h \in Generations :
                                    u # v \/ h # g => job'[u][h] = job[u][h]
    BY <2>1, <2>j, <1>a, JobAlone
  <2>o. ASSUME UNCHANGED <<vectors, trash>>, NEW t, TransitionJob(v, g, t),
               \A m \in Notes :
                 note'[m].current = note[m].current /\ note'[m].generation = note[m].generation,
               t \in {"DELETE_PENDING", "DELETED"} => PointedTo(v, g),
               t = "DELETED" => vectors[v][g] = "none" /\ v \in trash,
               t \in Built => Probed(v, g)
        PROVE  KeepsIndex
    <3>1. OneRow(v, g)
      BY <2>j, <2>o, <1>a DEF OneRow
    <3>2. IndexKept(v, g)'
      BY <2>1, <2>j, <2>o, RequestAssumption DEF IndexKept, PointedTo, PointsTo, Probed, Built
    <3>3. /\ Probed(v, g)' <=> Probed(v, g)
          /\ job'[v][g] = "DELETED" => vectors'[v][g] = "none" /\ v \in trash'
      BY <2>j, <2>o DEF Probed
    <3> QED
      BY <2>1, <3>1, <3>2, <3>3, OneRowKeepsIndex
  <2>v. ASSUME NEW left, vectors' = [vectors EXCEPT ![v][g] = left], UNCHANGED <<note, job, trash>>,
               \/ /\ PointedTo(v, g) /\ job[v][g] \in {"DELETE_PENDING", "DELETED"}
                  /\ vectors[v][g] = "none" => left = "none"
               \/ /\ job[v][g] # "DELETED"
                  /\ Probed(v, g) => left = "complete"
        PROVE  KeepsIndex
    <3>1. OneRow(v, g) /\ vectors'[v][g] = left
      BY <2>1, <2>v, <1>a DEF OneRow, VectorsTypeOK
    <3>2. IndexKept(v, g)'
      BY <2>1, <2>v, <3>1 DEF IndexKept, PointedTo, PointsTo, Probed, Built
    <3>3. PointedTo(v, g) \/ (Probed(v, g) => Probed(v, g)')
      BY <2>v, <3>1 DEF Probed
    <3>4. ASSUME PointedTo(v, g), job'[v][g] = "DELETED" PROVE vectors'[v][g] = "none" /\ v \in trash'
      <4>1. vectors[v][g] = "none" /\ v \in trash
        BY <2>1, <2>v, <3>4, PointersArePublished DEF DeletedIsErasedAndKept, CurrentJob
      <4> QED
        BY <2>v, <3>1, <3>4, <4>1
    <3> QED
      BY <2>1, <3>1, <3>2, <3>3, <3>4, OneRowKeepsIndex
  <2>3. CASE ExcludeNote(s)
    <3>1. CASE EndCall(s) /\ UNCHANGED <<note, job>>
      BY <2>3, <3>1, <1>e, <1>k DEF ExcludeNote
    <3>2. CASE CanPrepareDeletion(n, v, g) /\ PrepareNoteDeletion(n, v, g) /\ Proceed(s, "excluded")
      <4>1. /\ note'[n].state = "deleted" /\ PointsTo(n, v, g) /\ TransitionJob(v, g, "DELETE_PENDING")
            /\ \A m \in Notes :
                 note'[m].current = note[m].current /\ note'[m].generation = note[m].generation
        BY <2>1, <3>2, <1>a DEF CanPrepareDeletion, PrepareNoteDeletion, TablesTypeOK, NoteRow
      <4>2. HoldsAt("excluded", n, v, g)'
        BY <2>1, <4>1 DEF HoldsAt, PointsTo
      <4>3. KeepsIndex
        BY <2>3, <2>2, <2>o, <4>1 DEF ExcludeNote, Built
      <4> QED
        BY <3>2, <4>2, <4>3, <2>p
    <3> QED
      BY <1>2, <2>3, <3>1, <3>2 DEF ExcludeNote
  <2>4. CASE ReloadExcluded(s) \/ ReloadReopened(s) \/ ReloadMarked(s)
    <3>1. UNCHANGED <<note, job, vectors, trash>> /\ at \in {"excluded", "reopened", "marked"}
      BY <1>2, <2>4 DEF ReloadExcluded, ReloadReopened, ReloadMarked, AtCall
    <3>2. /\ note[n].state = "deleted" /\ CurrentJob(n) = job[v][g]
          /\ at = "marked" => job[v][g] # "DELETED"
      BY <2>1, <3>1 DEF HoldsAt, PointsTo, CurrentJob
    <3>3. \/ EndCall(s)
          \/ /\ Loadable(n)
             /\ \/ CurrentJob(n) \in {"DELETE_PENDING", "DELETED"} /\ LoadNote(s, n, "recycle")
                \/ CurrentJob(n) = "INDEXING" /\ LoadNote(s, n, "index")
                \/ CurrentJob(n) = "INDEXED" /\ LoadNote(s, n, "return")
                \/ at = "marked" /\ LoadNote(s, n, "return")
      BY <1>2, <2>4 DEF ReloadExcluded, ReloadReopened, ReloadMarked, AtCall
    <3> QED
      BY <3>1, <3>2, <3>3, <1>e, <1>k, <2>l
  <2>5. CASE RecycleFile(s) \/ ReturnFile(s)
    <3>1. UNCHANGED <<note, job, vectors>> /\ at \in {"recycle", "return"}
      BY <1>2, <2>5 DEF RecycleFile, ReturnFile, AtCall
    <3>2. note[n].state = "deleted" /\ PointsTo(n, v, g) /\ PointedTo(v, g)
      BY <2>1, <2>2, <3>1 DEF HoldsAt
    <3>3. CASE EndCall(s) /\ UNCHANGED trash
      BY <3>1, <3>3, <1>e, <1>k
    <3>4. CASE at = "recycle" /\ trash' = trash \cup {v} /\ Proceed(s, "erase")
      <4>1. HoldsAt("erase", n, v, g)'
        BY <2>1, <3>1, <3>2, <3>4 DEF HoldsAt, PointsTo
      <4>2. KeepsIndex
        <5>1. OneRow(v, g) /\ IndexKept(v, g)'
          BY <2>1, <3>1, <3>4, <1>a DEF OneRow, IndexKept, PointedTo, PointsTo, Probed
        <5>2. job'[v][g] = "DELETED" => vectors'[v][g] = "none" /\ v \in trash'
          BY <2>1, <3>1, <3>2, <3>4, PointersArePublished DEF DeletedIsErasedAndKept, CurrentJob
        <5> QED
          BY <2>1, <3>2, <5>1, <5>2, OneRowKeepsIndex
      <4> QED
        BY <3>4, <4>1, <4>2, <2>p
    <3>5. CASE at = "return" /\ trash' = trash \ {v} /\ Proceed(s, "admit")
      <4>1. job[v][g] # "DELETED"
        BY <2>1, <3>5 DEF HoldsAt
      <4>2. HoldsAt("admit", n, v, g)'
        BY <3>1, <3>2, <3>5, <4>1 DEF HoldsAt, PointsTo
      <4>3. KeepsIndex
        <5>1. OneRow(v, g)
          BY <3>1, <3>2, <3>5, <1>a DEF OneRow
        <5>2. IndexKept(v, g)'
          BY <2>1, <3>1, <3>5, <1>a DEF IndexKept, PointedTo, PointsTo, Probed
        <5> QED
          BY <2>1, <3>1, <3>2, <4>1, <5>1, <5>2, OneRowKeepsIndex
      <4> QED
        BY <3>5, <4>2, <4>3, <2>p
    <3> QED
      BY <1>2, <2>5, <3>3, <3>4, <3>5 DEF RecycleFile, ReturnFile, Recycle, RestoreRecycled, AtCall
  <2>6. CASE EraseVectors(s) \/ EraseRaises(s)
    <3>1. at = "erase" /\ UNCHANGED <<note, job, trash>>
      BY <1>2, <2>6 DEF EraseVectors, EraseRaises, AtCall
    <3>2. /\ note[n].state = "deleted" /\ PointsTo(n, v, g) /\ PointedTo(v, g) /\ v \in trash
          /\ job[v][g] \in {"DELETE_PENDING", "DELETED"}
      BY <2>1, <2>2, <3>1 DEF HoldsAt
    <3>3. \E left : /\ vectors' = [vectors EXCEPT ![v][g] = left]
                    /\ vectors[v][g] = "none" => left = "none"
                    /\ EraseVectors(s) => left = "none"
      BY <1>2, <2>6 DEF EraseVectors, EraseRaises, DeleteChunks, DeleteChunksPartly
    <3>4. KeepsIndex
      BY <3>1, <3>2, <3>3, <2>v
    <3>5. CASE EndCall(s)
      BY <3>4, <3>5, <1>e
    <3>6. CASE EraseVectors(s) /\ Proceed(s, "confirm")
      <4>1. vectors'[v][g] = "none"
        BY <2>1, <3>3, <3>6, <1>a DEF VectorsTypeOK
      <4>2. HoldsAt("confirm", n, v, g)'
        BY <3>1, <3>2, <4>1 DEF HoldsAt, PointsTo
      <4> QED
        BY <3>4, <3>6, <4>2, <2>p
    <3> QED
      BY <2>6, <3>5, <3>6 DEF EraseVectors, EraseRaises
  <2>7. CASE ConfirmDeletion(s)
    <3>1. at = "confirm" /\ EndCall(s) /\ UNCHANGED <<note, vectors, trash>>
      BY <1>2, <2>7 DEF ConfirmDeletion, AtCall
    <3>2. PointedTo(v, g) /\ v \in trash /\ vectors[v][g] = "none"
      BY <2>1, <2>2, <3>1 DEF HoldsAt
    <3>3. CASE UNCHANGED job
      BY <3>1, <3>3, <1>e, <1>k
    <3>4. CASE TransitionJob(v, g, "DELETED")
      BY <3>1, <3>2, <3>4, <1>e, <2>o DEF Built
    <3> QED
      BY <1>2, <2>7, <3>3, <3>4 DEF ConfirmDeletion, SetJob
  <2>8. CASE NoteCrash(s) \/ VerifyLiveFile(s)
    <3>1. UNCHANGED <<note, job, vectors, trash>>
      BY <2>8 DEF NoteCrash, VerifyLiveFile
    <3>2. CASE EndCall(s)
      BY <3>1, <3>2, <1>e, <1>k
    <3>3. CASE at = "verify" /\ Proceed(s, "reindex")
      <4>1. HoldsAt("reindex", n, v, g)'
        BY <2>1, <3>1, <3>3 DEF HoldsAt
      <4> QED
        BY <3>1, <3>3, <4>1, <1>k, <2>p
    <3> QED
      BY <1>2, <2>8, <3>2, <3>3 DEF NoteCrash, VerifyLiveFile, AtCall
  <2>9. CASE ReindexLive(s) \/ IndexRestored(s) \/ IndexRestoredRaises(s)
    <3>1. at \in {"reindex", "index"} /\ UNCHANGED <<note, job, trash>> /\ job[v][g] # "DELETED"
      BY <1>2, <2>1, <2>9 DEF ReindexLive, IndexRestored, IndexRestoredRaises, AtCall, HoldsAt
    <3>2. \E left : /\ vectors' = [vectors EXCEPT ![v][g] = left]
                    /\ Probed(v, g) => left = "complete"
                    /\ IndexRestored(s) => left = "complete"
      BY <1>2, <2>9 DEF ReindexLive, IndexRestored, IndexRestoredRaises, IndexChunks, IndexChunksPartly
    <3>3. KeepsIndex
      BY <3>1, <3>2, <2>v
    <3>4. CASE ReindexLive(s)
      BY <3>3, <3>4, <1>e DEF ReindexLive
    <3>5. CASE IndexRestored(s) \/ IndexRestoredRaises(s)
      <4>1. at = "index" /\ note[n].state = "deleted" /\ PointsTo(n, v, g)
        BY <1>2, <2>1, <3>5 DEF IndexRestored, IndexRestoredRaises, AtCall, HoldsAt
      <4>2. IndexRestored(s) => Probed(v, g)'
        BY <2>1, <3>2, <1>a DEF Probed, VectorsTypeOK
      <4>3. HoldsAt("unindexed", n, v, g)' /\ (Probed(v, g)' => HoldsAt("mark", n, v, g)')
        BY <3>1, <4>1 DEF HoldsAt, PointsTo
      <4> QED
        BY <3>3, <3>5, <4>2, <4>3, <2>p DEF IndexRestored, IndexRestoredRaises
    <3> QED
      BY <2>9, <3>4, <3>5
  <2>10. CASE ReopenIndex(s) \/ FailRestoreIndex(s) \/ MarkRestored(s)
    <3>1. /\ UNCHANGED <<note, vectors, trash>> /\ at \in {"reopen", "unindexed", "mark"}
          /\ \/ EndCall(s) /\ UNCHANGED job
             \/ EndCall(s) /\ TransitionJob(v, g, "FAILED")
             \/ Proceed(s, "reopened") /\ TransitionJob(v, g, "INDEXING")
             \/ at = "mark" /\ Proceed(s, "marked") /\ TransitionJob(v, g, "INDEXED")
      BY <1>2, <2>10 DEF ReopenIndex, FailRestoreIndex, MarkRestored, CommitJob, SetJob, AtCall
    <3>2. note[n].state = "deleted" /\ PointsTo(n, v, g) /\ (at = "mark" => Probed(v, g))
      BY <2>1, <3>1 DEF HoldsAt
    <3>3. ASSUME NEW t \in {"FAILED", "INDEXING", "INDEXED"}, TransitionJob(v, g, t),
                 t = "INDEXED" => at = "mark"
          PROVE  KeepsIndex /\ HoldsAt("reopened", n, v, g)' /\ HoldsAt("marked", n, v, g)'
      <4>1. KeepsIndex
        BY <3>1, <3>2, <3>3, <2>o DEF Built
      <4>2. job'[v][g] = t
        BY <2>j, <3>3
      <4> QED
        BY <3>1, <3>2, <3>3, <4>1, <4>2 DEF HoldsAt, PointsTo
    <3> QED
      BY <3>1, <3>3, <1>e, <1>k, <2>p
  <2>11. CASE AdmitNote(s)
    <3>1. EndCall(s) /\ UNCHANGED <<vectors, trash>>
      BY <2>11 DEF AdmitNote
    <3>2. CASE UNCHANGED <<note, job>>
      BY <3>1, <3>2, <1>e, <1>k
    <3>3. CASE CanRestoreNote(n, v, g) /\ RestoreNote(n, v, g)
      <4>1. /\ job[v][g] = "INDEXED" /\ TransitionJob(v, g, "ACTIVE_INDEXED")
            /\ \A m \in Notes :
                 note'[m].current = note[m].current /\ note'[m].generation = note[m].generation
        BY <2>1, <3>3, <1>a DEF CanRestoreNote, RestoreNote, TablesTypeOK, NoteRow
      <4>2. Probed(v, g)
        BY <2>1, <4>1 DEF IndexKept, Built
      <4> QED
        BY <3>1, <4>1, <4>2, <1>e, <2>o
    <3> QED
      BY <1>2, <2>11, <3>2, <3>3 DEF AdmitNote
  <2> QED
    BY <1>2, <2>3, <2>4, <2>5, <2>6, <2>7, <2>8, <2>9, <2>10, <2>11 DEF NoteProgress, NoteDisturb
<1>3. NoteProgress(s) \/ NoteDisturb(s) => ~AtCall(s, "idle")
  BY DEF NoteProgress, NoteDisturb, ExcludeNote, ReloadExcluded, RecycleFile, EraseVectors,
     ConfirmDeletion, VerifyLiveFile, ReindexLive, ReopenIndex, ReloadReopened, IndexRestored,
     FailRestoreIndex, MarkRestored, ReloadMarked, ReturnFile, AdmitNote, EraseRaises,
     IndexRestoredRaises, NoteCrash, AtCall
<1> QED
  BY <1>1, <1>2, <1>3

-----------------------------------------------------------------------------
(* Together.  The control part of the invariant is inductive without any   *)
(* of the rest.                                                            *)

IndexInv ==
  /\ DeletedIsErasedAndKept
  /\ \A v \in Operations, g \in Generations : IndexKept(v, g)

CallsHold ==
  /\ \A w \in Workers : PublishCallHolds(w)
  /\ \A s \in NoteWorkers : NoteCallHolds(s)
  /\ \A m \in GenerationWorkers : GenerationCallHolds(m)

LEMMA ErasureByParts == ErasureInv <=> LifecycleInv /\ IndexInv /\ CallsHold
BY DEF ErasureInv, IndexInv, CallsHold

LEMMA ErasureInitially == LifecycleInitially => ErasureInv
<1> SUFFICES ASSUME LifecycleInitially PROVE ErasureInv
  OBVIOUS
<1>1. LifecycleInv
  BY LifecycleInvInitially
<1>2. IndexInv
  BY RequestAssumption
     DEF LifecycleInitially, Init, TablesInit, VectorsInit, NoNote, IndexInv, DeletedIsErasedAndKept,
         IsPublished, IndexKept, Built, Absent
<1>3. CallsHold
  BY DEF LifecycleInitially, Init, LifecycleInit, MigrationInit, NoCall, NoMigration, CallsHold,
         PublishCallHolds, At, NoteCallHolds, GenerationCallHolds, VersionLabels
<1> QED
  BY <1>1, <1>2, <1>3, ErasureByParts

(* The other publish calls are about other operations.                     *)
LEMMA OtherPublishCallsHold ==
  ASSUME OneCallPerOperation, LifecycleTypesOK, NEW w \in Workers, Progress(w),
         \A x \in Workers : PublishCallHolds(x),
         \A v \in Operations, g \in Generations :
           ~Completed(v) /\ Probed(v, g) => Probed(v, g)'
  PROVE  \A x \in Workers : PublishCallHolds(x)'
<1>1. /\ TypeOK /\ PublishCallHolds(w)' /\ pc[w] # "idle" /\ operation[w] \in Operations
      /\ \A x \in Workers \ {w} :
           pc'[x] = pc[x] /\ operation'[x] = operation[x] /\ seen'[x] = seen[x]
  BY PublishCallGoesOn DEF LifecycleTypesOK
<1>2. ASSUME NEW x \in Workers \ {w} PROVE PublishCallHolds(x)'
  <2>1. pc[x] # "idle" => operation[x] \in Operations /\ operation[x] # operation[w]
    <3>1. pc[x] # "idle" => operation[x] \in Assigned[x]
      BY DEF PublishCallHolds, At
    <3>2. operation[w] \in Assigned[w]
      BY <1>1 DEF PublishCallHolds, At
    <3>3. Assigned[x] \cap Assigned[w] = {}
      BY DEF OneCallPerOperation
    <3>4. Assigned[x] \subseteq Operations
      BY WorkerAssumption
    <3> QED
      BY <3>1, <3>2, <3>3, <3>4
  <2>2. pc[x] # "idle" => run'[operation[x]] = run[operation[x]]
    BY <1>1, <2>1, PublishRowsAlone
  <2> QED
    BY <1>1, <2>2, PublishCallLasts
<1> QED
  BY <1>1, <1>2

LEMMA PublishStepKeepsErasure ==
  ASSUME OneCallPerOperation, LifecycleTypesOK, LifecycleInv, IndexInv, CallsHold,
         NEW w \in Workers, PublishStep(w)
  PROVE  IndexInv' /\ CallsHold'
<1>a. UNCHANGED <<trash, lifecycle, migration>>
  BY DEF PublishStep
<1>b. /\ \A x \in Workers : PublishCallHolds(x)
      /\ \A s \in NoteWorkers : NoteCallHolds(s)
      /\ \A m \in GenerationWorkers : GenerationCallHolds(m)
      /\ DeletedIsErasedAndKept /\ \A v \in Operations, g \in Generations : IndexKept(v, g)
  BY DEF CallsHold, IndexInv
<1>1. CASE Progress(w)
  <2>1. ASSUME ~Activates(w)
        PROVE  /\ IndexInv' /\ \A s \in NoteWorkers : NoteCallHolds(s)'
               /\ \A v \in Operations : Completed(v) => Completed(v)'
               /\ \A v \in Operations, g \in Generations :
                    /\ Probed(v, g) => Probed(v, g)'
                    /\ ~PointedTo(v, g) => ~PointedTo(v, g)'
    <3>1. StaysBeside
      BY <1>1, <1>a, <1>b, <2>1, PublishIsBeside
    <3>2. /\ \A v \in Operations : Completed(v) => Completed(v)'
          /\ \A v \in Operations, g \in Generations :
               /\ Probed(v, g) => Probed(v, g)'
               /\ ~PointedTo(v, g) => ~PointedTo(v, g)'
      BY <3>1, RequestAssumption DEF StaysBeside, PointersStay, ChunksStayBeside, PointedTo, PointsTo
    <3> QED
      BY <1>a, <1>b, <3>1, <3>2, BesideKeepsIndex, BesideKeepsNoteCall DEF IndexInv
  <2>2. ASSUME Activates(w)
        PROVE  /\ IndexInv' /\ \A s \in NoteWorkers : NoteCallHolds(s)'
               /\ \A v \in Operations : Completed(v) => Completed(v)'
               /\ \A v \in Operations, g \in Generations :
                    /\ Probed(v, g) => Probed(v, g)'
                    /\ Completed(v) /\ ~PointedTo(v, g) => ~PointedTo(v, g)'
    <3>1. /\ PointersMove
          /\ \A v \in Operations, g \in Generations :
               Completed(v) /\ ~PointedTo(v, g) => ~PointedTo(v, g)'
      BY <1>a, <1>b, <2>2, ActivationMoves
    <3> QED
      BY <1>b, <3>1, MovesKeepIndex, MovesKeepNoteCall DEF IndexInv, PointersMove, Probed
  <2>3. \A x \in Workers : PublishCallHolds(x)'
    BY <1>1, <1>b, <2>1, <2>2, OtherPublishCallsHold
  <2>4. \A m \in GenerationWorkers : GenerationCallHolds(m)'
    BY <1>a, <1>b, <2>1, <2>2, GenerationCallLasts
  <2> QED
    BY <2>1, <2>2, <2>3, <2>4 DEF CallsHold
<1>2. CASE ~Progress(w)
  <2>1. PICK o \in Operations : PlanPublication(w, o) \/ ResumePublication(w, o)
    BY <1>2 DEF PublishStep
  <2>2. UNCHANGED <<tables, vectors>>
    BY <2>1 DEF PlanPublication, ResumePublication
  <2>3. KeepsIndex /\ StaysBeside
    <3>1. UNCHANGED <<note, job, run, vectors, trash>>
      BY <1>a, <2>2 DEF tables
    <3>2. StaysBeside
      BY <3>1 DEF StaysBeside, PointersStay, Completed, JobStaysBeside, ChunksStayBeside, Probed
    <3> QED
      BY <1>b, <3>1, <3>2, NoRowKeepsIndex
  <2>4. \A x \in Workers : PublishCallHolds(x)'
    <3>1. /\ pc'[w] \in {"planning", "load"} /\ operation'[w] \in Assigned[w]
          /\ \A x \in Workers \ {w} :
               /\ pc'[x] = pc[x] /\ operation'[x] = operation[x]
               /\ pc[x] # "idle" => seen'[x] = seen[x]
      BY <2>1 DEF PlanPublication, ResumePublication, LifecycleTypesOK, TypeOK, WorkersTypeOK
    <3>2. PublishCallHolds(w)'
      BY <3>1 DEF PublishCallHolds, At
    <3>3. ASSUME NEW x \in Workers \ {w} PROVE PublishCallHolds(x)'
      BY <1>b, <2>2, <3>1 DEF PublishCallHolds, At, Completed, Probed, tables
    <3> QED
      BY <3>2, <3>3
  <2>5. \A m \in GenerationWorkers : GenerationCallHolds(m)'
    BY <1>a, <1>b, <2>2, <2>3, GenerationCallLasts DEF KeepsIndex, Completed, tables
  <2> QED
    BY <1>a, <1>b, <2>3, <2>4, <2>5, BesideKeepsNoteCall DEF CallsHold, IndexInv, KeepsIndex
<1> QED
  BY <1>1, <1>2

LEMMA NoteStepKeepsErasure ==
  ASSUME \A s, t \in NoteWorkers : s = t,
         LifecycleTypesOK, LifecycleInv, IndexInv, CallsHold, NEW s \in NoteWorkers,
         NoteProgress(s) \/ NoteDisturb(s) \/ \E n \in Notes : NoteCall(s, n),
         UNCHANGED OutsideNotes
  PROVE  IndexInv' /\ CallsHold'
<1>1. NoteCallHolds(s)' /\ KeepsIndex
  BY NoteStepKeeps DEF CallsHold, IndexInv
<1>2. UNCHANGED <<run, pc, operation, seen, migration>>
  BY DEF OutsideNotes, workers
<1>3. \A w \in Workers : PublishCallHolds(w)'
  BY <1>1, <1>2, PublishCallLasts DEF CallsHold, KeepsIndex
<1>4. \A m \in GenerationWorkers : GenerationCallHolds(m)'
  BY <1>1, <1>2, GenerationCallLasts DEF CallsHold, KeepsIndex, Completed
<1> QED
  BY <1>1, <1>3, <1>4 DEF CallsHold, IndexInv, KeepsIndex

LEMMA GenerationStepKeepsErasure ==
  ASSUME \A m, k \in GenerationWorkers : m = k,
         LifecycleTypesOK, LifecycleInv, IndexInv, CallsHold, NEW m \in GenerationWorkers,
         \/ GenerationProgress(m) \/ GenerationDisturb(m)
         \/ \E g \in Generations : GenerationCall(m, g),
         UNCHANGED OutsideGenerations
  PROVE  IndexInv' /\ CallsHold'
<1>a. UNCHANGED <<run, pc, operation, seen, trash, lifecycle>>
  BY DEF OutsideGenerations, workers
<1>1. /\ GenerationCallHolds(m)'
      /\ \/ StaysBeside
         \/ /\ UNCHANGED vectors
            /\ \E source, target \in Generations, expected \in {"INDEXED", "DELETE_PENDING"} :
                 Switches(source, target, expected)
  BY GenerationIsBeside DEF CallsHold
<1>2. ASSUME StaysBeside
      PROVE  /\ IndexInv' /\ \A s \in NoteWorkers : NoteCallHolds(s)'
             /\ \A v \in Operations, g \in Generations : Probed(v, g) => Probed(v, g)'
  BY <1>a, <1>2, BesideKeepsIndex, BesideKeepsNoteCall
     DEF CallsHold, IndexInv, StaysBeside, ChunksStayBeside
<1>3. ASSUME NEW source \in Generations, NEW target \in Generations,
             NEW expected \in {"INDEXED", "DELETE_PENDING"}, Switches(source, target, expected),
             UNCHANGED vectors
      PROVE  /\ IndexInv' /\ \A s \in NoteWorkers : NoteCallHolds(s)'
             /\ \A v \in Operations, g \in Generations : Probed(v, g) => Probed(v, g)'
  <2>1. PointersMove
    BY <1>a, <1>3, SwitchMoves DEF IndexInv
  <2> QED
    BY <1>3, <2>1, MovesKeepIndex, MovesKeepNoteCall DEF CallsHold, IndexInv, Probed
<1>4. /\ IndexInv' /\ \A s \in NoteWorkers : NoteCallHolds(s)'
      /\ \A v \in Operations, g \in Generations : Probed(v, g) => Probed(v, g)'
  BY <1>1, <1>2, <1>3
<1>5. \A w \in Workers : PublishCallHolds(w)'
  BY <1>a, <1>4, PublishCallLasts DEF CallsHold
<1> QED
  BY <1>1, <1>4, <1>5 DEF CallsHold

LEMMA ErasureInductive ==
  ASSUME OneCallEach
  PROVE  LifecycleTypesOK /\ ErasureInv /\ [LifecycleNext]_allVars => ErasureInv'
<1> SUFFICES ASSUME LifecycleTypesOK, ErasureInv, [LifecycleNext]_allVars PROVE ErasureInv'
  OBVIOUS
<1>a. /\ LifecycleInv /\ IndexInv /\ CallsHold /\ OneCallPerOperation
      /\ \A s, t \in NoteWorkers : s = t
      /\ \A m, k \in GenerationWorkers : m = k
  BY ErasureByParts DEF OneCallEach
<1>b. (LifecycleInv /\ IndexInv /\ CallsHold)' => ErasureInv'
  BY ErasureByParts, PTL
<1>1. LifecycleInv'
  BY <1>a, LifecycleInvInductive
<1>2. CASE UNCHANGED allVars
  <2>1. /\ UNCHANGED <<note, job, run, vectors, trash>>
        /\ UNCHANGED <<pc, operation, seen, lifecycle, migration>>
    BY <1>2 DEF allVars, vars, tables, workers
  <2>2. KeepsIndex
    BY <1>a, <2>1, NoRowKeepsIndex DEF IndexInv
  <2>3. CallsHold'
    BY <1>a, <2>1 DEF CallsHold, PublishCallHolds, At, Completed, NoteCallHolds, PointsTo, Probed,
       GenerationCallHolds, PointedTo
  <2> QED
    BY <1>1, <1>b, <2>2, <2>3 DEF KeepsIndex, IndexInv
<1>3. ASSUME LifecycleNext PROVE IndexInv' /\ CallsHold'
  BY <1>3, <1>a, PublishStepKeepsErasure, NoteStepKeepsErasure, GenerationStepKeepsErasure
     DEF LifecycleNext, NoteProgressStep, NoteCallStep, NoteDisturbStep,
         GenerationProgressStep, GenerationCallStep, GenerationDisturbStep
<1> QED
  BY <1>1, <1>2, <1>3, <1>b

(* With one call of each kind at a time, the index and the trash hold what *)
(* the control tables say of them: whichever step of a deletion, of a      *)
(* restoration, of a rebuild or of a publication the others fall between.  *)
THEOREM ErasureCorrect == OneCallEach => (LifecycleSpec => []ErasureInv)
<1> SUFFICES ASSUME OneCallEach PROVE LifecycleSpec => []ErasureInv
  OBVIOUS
<1>1. LifecycleTypesOK /\ ErasureInv /\ [LifecycleNext]_allVars => ErasureInv'
  BY ErasureInductive
<1> QED
  BY <1>1, LifecycleTypesInitially, LifecycleTypesInductive, ErasureInitially, PTL DEF LifecycleSpec

(* Recall stops before erasure: EraseVectors runs only behind the commit   *)
(* that excludes the note, and AdmitNote only behind a complete index.     *)
THEOREM ServedNotesAreInIndex == OneCallEach => (LifecycleSpec => []ServedIsInIndex)
<1> SUFFICES ASSUME OneCallEach PROVE LifecycleSpec => []ServedIsInIndex
  OBVIOUS
<1>1. LifecycleTypesOK /\ ErasureInv => ServedIsInIndex
  BY ServedRowIsProbed DEF ErasureInv, ServedIsInIndex
<1> QED
  BY <1>1, LifecycleTypesCorrect, ErasureCorrect, PTL

(* A confirmed deletion has erased what it confirms, and its file can      *)
(* still be brought back.                                                  *)
THEOREM DeletionsEraseAndKeep == OneCallEach => (LifecycleSpec => []DeletedIsErasedAndKept)
<1> SUFFICES ASSUME OneCallEach PROVE LifecycleSpec => []DeletedIsErasedAndKept
  OBVIOUS
<1>1. ErasureInv => DeletedIsErasedAndKept
  BY DEF ErasureInv
<1> QED
  BY <1>1, ErasureCorrect, PTL

(* What a switch leaves behind stays complete for the rollback, beside     *)
(* deletions that use the same job status to announce an erasure.          *)
THEOREM RollbacksFindTheirChunks == OneCallEach => (LifecycleSpec => []RetainedForRollback)
<1> SUFFICES ASSUME OneCallEach PROVE LifecycleSpec => []RetainedForRollback
  OBVIOUS
<1>1. LifecycleTypesOK /\ ErasureInv => RetainedForRollback
  <2> SUFFICES ASSUME LifecycleTypesOK, ErasureInv, NEW n \in Notes, NEW g \in Generations,
                      Served(n), g # note[n].generation,
                      job[note[n].current][g] = "DELETE_PENDING"
               PROVE  Probed(note[n].current, g)
    BY DEF RetainedForRollback
  <2>1. LifecycleInv /\ \A v \in Operations, h \in Generations : IndexKept(v, h)
    BY DEF ErasureInv
  <2>2. note[n].current \in Operations /\ NoteOf[note[n].current] = n
    BY <2>1, PointedToIsCompleted DEF Served, IsPublished
  <2>3. ~PointedTo(note[n].current, g)
    BY <2>2 DEF PointedTo, PointsTo
  <2> QED
    BY <2>1, <2>2, <2>3 DEF IndexKept
<1> QED
  BY <1>1, LifecycleTypesCorrect, ErasureCorrect, PTL
=============================================================================
