----------------------- MODULE PublicationRunner_proofs -----------------------
(***************************************************************************)
(* Proofs about PublicationRunner, for every set of operations, changes,   *)
(* notes, generations and workers, every assignment of operations to       *)
(* workers and every choice of fault points.                               *)
(***************************************************************************)
EXTENDS PublicationRunner, FiniteSetTheorems, TLAPS

USE DEF Absent

-----------------------------------------------------------------------------
(* Type correctness: first the moves of a worker, then the table writes.   *)

(* Moving a worker inside a call keeps the worker fields typed.            *)
LEMMA GotoWithTyped ==
  ASSUME WorkersTypeOK, NEW w \in Workers, pc[w] # "idle",
         NEW label \in PCs, NEW view \in View, GotoWith(w, label, view),
         label = "ready" => view \in ContextView,
         label = "resume" => view \in ResumeView
  PROVE  WorkersTypeOK' /\ operation[w] \in Operations
BY DEF WorkersTypeOK, GotoWith

LEMMA GotoTyped ==
  ASSUME WorkersTypeOK, NEW w \in Workers, pc[w] # "idle",
         NEW label \in PCs \ {"ready", "resume"}, Goto(w, label)
  PROVE  WorkersTypeOK' /\ operation[w] \in Operations
<1>1. Nothing \in View
  BY DEF View
<1> QED
  BY <1>1, GotoWithTyped DEF Goto, GotoWith

(* Leaving a call, by return or by an exception.                           *)
LEMMA ReturnTyped ==
  ASSUME WorkersTypeOK, NEW w \in Workers, Return(w)
  PROVE  WorkersTypeOK'
<1>1. Nothing \in View
  BY DEF View
<1> QED
  BY <1>1 DEF WorkersTypeOK, Return, PCs

(* Entering a call.                                                        *)
LEMMA CallTyped ==
  ASSUME TypeOK, NEW w \in Workers, NEW o \in Operations,
         PlanPublication(w, o) \/ ResumePublication(w, o)
  PROVE  WorkersTypeOK'
<1>1. [note |-> note[NoteOf[o]], versions |-> VersionsOf(NoteOf[o])] \in View
  BY RequestAssumption DEF TypeOK, TablesTypeOK, View, VersionsOf
<1> QED
  BY <1>1 DEF TypeOK, WorkersTypeOK, PlanPublication, ResumePublication, PCs

(* A declared transition writes a declared status and a bounded attempt.   *)
LEMMA TransitionRunTyped ==
  ASSUME TablesTypeOK, NEW o \in Operations, NEW target,
         CanTransitionRun(o, target), TransitionRun(o, target)
  PROVE  run' \in [Operations -> RunRow]
<1>1. target \in PublicationRunStatus
  BY DEF CanTransitionRun, CanTransition, PublicationRunTransitions, PublicationRunStatus
<1>2. run[o].attempt \in 0 .. MaxAttempts /\ run[o].attempt + 1 \in Nat
  BY AttemptsAssumption DEF TablesTypeOK, RunRow
<1> QED
  BY <1>1, <1>2, AttemptsAssumption DEF TablesTypeOK, RunRow, TransitionRun

LEMMA CommitRunTyped ==
  ASSUME TypeOK, NEW w \in Workers, pc[w] # "idle", NEW target, CommitRun(w, target)
  PROVE  TypeOK'
<1>1. operation[w] \in Operations
  BY DEF TypeOK, WorkersTypeOK
<1>2. WorkersTypeOK'
  BY GotoTyped DEF CommitRun, TypeOK, PCs
<1>3. run' \in [Operations -> RunRow]
  BY <1>1, TransitionRunTyped DEF CommitRun, TypeOK, TablesTypeOK
<1> QED
  BY <1>2, <1>3 DEF CommitRun, TypeOK, TablesTypeOK, VaultTypeOK, VectorsTypeOK, vault

(* The unit of work that creates a publication inserts typed rows.         *)
LEMMA AddPublicationTyped ==
  ASSUME TablesTypeOK, NEW o \in Operations, AddPublication(o),
         UNCHANGED <<change, generation>>
  PROVE  TablesTypeOK'
<1>1. NoteOf[o] \in Notes /\ GenerationOf[o] \in Generations
  BY RequestAssumption
<1>2. NewNote \in NoteRow /\ [status |-> "PLANNING", attempt |-> 1] \in RunRow
  BY AttemptsAssumption DEF NewNote, NoteRow, RunRow, PublicationRunStatus
<1>3. note' \in [Notes -> NoteRow] /\ run' \in [Operations -> RunRow]
  BY <1>1, <1>2 DEF TablesTypeOK, AddPublication
<1>4. version' \in [Operations -> CuratedVersionStatus \cup {Absent}]
  BY DEF TablesTypeOK, VersionRow, JobRow, AddPublication, CuratedVersionStatus
<1>5. job' \in [Operations -> [Generations -> IndexJobStatus \cup {Absent}]]
  BY <1>1 DEF TablesTypeOK, JobRow, AddPublication, IndexJobStatus
<1> QED
  BY <1>3, <1>4, <1>5 DEF TablesTypeOK, VersionRow, JobRow

(* The activation writes typed rows.                                       *)
LEMMA ActivatePublicationTyped ==
  ASSUME TablesTypeOK, NEW o \in Operations, NEW rows, ActivatePublication(o, rows)
  PROVE  TablesTypeOK'
<1>1. /\ NoteOf[o] \in Notes /\ GenerationOf[o] \in Generations
      /\ ChangeOf[o] \in Changes
  BY RequestAssumption
<1>2. [state |-> "live", current |-> o, generation |-> GenerationOf[o]] \in NoteRow
  BY <1>1 DEF NoteRow
<1>3. note' \in [Notes -> NoteRow]
  BY <1>1, <1>2 DEF TablesTypeOK, ActivatePublication
<1>4. version' \in [Operations -> CuratedVersionStatus \cup {Absent}]
  BY DEF TablesTypeOK, VersionRow, JobRow, ActivatePublication, CuratedVersionStatus
<1>5. job' \in [Operations -> [Generations -> IndexJobStatus \cup {Absent}]]
  BY <1>1 DEF TablesTypeOK, JobRow, ActivatePublication, IndexJobStatus
<1>6. run' \in [Operations -> RunRow]
  BY DEF TablesTypeOK, ActivatePublication, RunRow, PublicationRunStatus
<1>7. generation' \in [Generations -> IndexGenerationStatus]
  BY DEF TablesTypeOK, ActivatePublication, IndexGenerationStatus
<1>8. change' \in [Changes -> KnowledgeChangeStatus]
  BY <1>1 DEF TablesTypeOK, ActivatePublication, KnowledgeChangeStatus
<1> QED
  BY <1>3, <1>4, <1>5, <1>6, <1>7, <1>8 DEF TablesTypeOK, VersionRow, JobRow

LEMMA TypeInitially == Init => TypeOK
<1> SUFFICES ASSUME Init PROVE TypeOK
  OBVIOUS
<1>1. TablesTypeOK
  BY AttemptsAssumption DEF Init, TablesInit, TablesTypeOK, VersionRow, JobRow, NoNote, NoteRow, RunRow,
     KnowledgeChangeStatus, IndexGenerationStatus
<1>2. VaultTypeOK /\ VectorsTypeOK
  BY DEF Init, VaultInit, VaultTypeOK, VectorsInit, VectorsTypeOK, VectorStates
<1>3. WorkersTypeOK
  BY DEF Init, WorkersTypeOK, PCs, View
<1> QED
  BY <1>1, <1>2, <1>3 DEF TypeOK

(* One case per action: the worker fields by the moves above, then the one *)
(* store the action writes.                                                *)
LEMMA TypeInductive == TypeOK /\ [Next]_vars => TypeOK'
<1> SUFFICES ASSUME TypeOK, [Next]_vars PROVE TypeOK'
  OBVIOUS
<1>a. TablesTypeOK /\ VaultTypeOK /\ VectorsTypeOK /\ WorkersTypeOK
  BY DEF TypeOK
<1>t. UNCHANGED tables => TablesTypeOK'
  BY <1>a DEF tables, TablesTypeOK
<1>v. UNCHANGED vault => VaultTypeOK'
  BY <1>a DEF vault, VaultTypeOK
<1>x. UNCHANGED vectors => VectorsTypeOK'
  BY <1>a DEF VectorsTypeOK
<1>1. CASE UNCHANGED vars
  BY <1>1, <1>a, <1>t, <1>v, <1>x DEF vars, workers, WorkersTypeOK, TypeOK
<1>2. ASSUME NEW w \in Workers, Call(w) PROVE TypeOK'
  BY <1>2, <1>t, <1>v, <1>x, CallTyped DEF Call, PlanPublication, ResumePublication, TypeOK
<1>3. ASSUME NEW w \in Workers, Progress(w) PROVE TypeOK'
  <2>o. pc[w] # "idle" /\ operation[w] \in Operations
    BY <1>3, <1>a DEF WorkersTypeOK, Progress, At, Ready, BeginPublication, Load, StartCurating,
       StageVault, CommitStaged, StartIndexing, Index, FinishIndexing, CheckVault, ReplaceFinal,
       CommitVaultPublished, StartActivating, VerifyActivation, ReadActivationRows, Activate,
       ResumeFailed, CommitResumed, Fail
  <2>g. /\ GenerationOf[operation[w]] \in Generations
        /\ NoteOf[operation[w]] \in Notes /\ ChangeOf[operation[w]] \in Changes
    BY <2>o, RequestAssumption
  <2>m. ASSUME NEW label \in PCs \ {"ready", "resume"}, Goto(w, label) \/ Return(w) PROVE WorkersTypeOK'
    BY <2>m, <2>o, <1>a, GotoTyped, ReturnTyped
  <2>j. ASSUME NEW t \in IndexJobStatus, TransitionJob(operation[w], GenerationOf[operation[w]], t)
        PROVE  job' \in [Operations -> [Generations -> IndexJobStatus \cup {Absent}]]
    BY <2>j, <2>o, <2>g, <1>a DEF TablesTypeOK, VersionRow, JobRow, TransitionJob
  <2>r. ASSUME NEW t, CanTransitionRun(operation[w], t), TransitionRun(operation[w], t)
        PROVE  run' \in [Operations -> RunRow]
    BY <2>r, <2>o, <1>a, TransitionRunTyped
  <2>1. CASE BeginPublication(w)
    <3>1. WorkersTypeOK'
      BY <2>1, <2>m DEF BeginPublication, PCs
    <3>2. TablesTypeOK'
      BY <2>1, <2>o, <1>a, <1>t, AddPublicationTyped DEF BeginPublication
    <3> QED
      BY <2>1, <3>1, <3>2, <1>v, <1>x DEF BeginPublication, TypeOK
  <2>2. CASE Load(w)
    <3>1. Context(operation[w]) \in ContextView /\ Context(operation[w]) \in View
      BY <2>o, <2>g, <1>a DEF Context, ContextView, View, OwnJob, TablesTypeOK, VersionRow, JobRow, RunRow, NoteRow
    <3>2. ASSUME Goto(w, "failing") \/ Return(w) PROVE WorkersTypeOK'
      BY <3>2, <2>m DEF PCs
    <3>3. ASSUME GotoWith(w, "ready", Context(operation[w])) PROVE WorkersTypeOK'
      BY <3>3, <2>o, <3>1, <1>a, GotoWithTyped DEF PCs
    <3>4. WorkersTypeOK'
      BY <2>2, <3>2, <3>3 DEF Load
    <3> QED
      BY <2>2, <3>4, <1>t, <1>v, <1>x DEF Load, TypeOK
  <2>3. CASE StartCurating(w) \/ CommitVaultPublished(w) \/ StartActivating(w) \/ CommitResumed(w)
    BY <2>3, <2>o, CommitRunTyped
       DEF StartCurating, CommitVaultPublished, StartActivating, CommitResumed
  <2>4. CASE StageVault(w)
    BY <2>4, <2>o, <2>m, <1>a, <1>t, <1>x
       DEF StageVault, Stage, PCs, VaultTypeOK, TypeOK
  <2>5. CASE CommitStaged(w)
    <3>1. version' \in [Operations -> CuratedVersionStatus \cup {Absent}]
      BY <2>5, <1>a DEF CommitStaged, TransitionVersion, TablesTypeOK, VersionRow, CuratedVersionStatus
    <3>2. run' \in [Operations -> RunRow]
      BY <2>5, <2>r, <1>a DEF CommitStaged, TablesTypeOK
    <3> QED
      BY <2>5, <3>1, <3>2, <2>m, <1>a, <1>v, <1>x DEF CommitStaged, PCs, TypeOK, TablesTypeOK, VersionRow, JobRow
  <2>6. CASE StartIndexing(w)
    <3>1. job' \in [Operations -> [Generations -> IndexJobStatus \cup {Absent}]]
      BY <2>6, <2>j, <1>a DEF StartIndexing, TablesTypeOK, JobRow, IndexJobStatus
    <3>2. run' \in [Operations -> RunRow]
      BY <2>6, <2>r, <1>a DEF StartIndexing, TablesTypeOK
    <3> QED
      BY <2>6, <3>1, <3>2, <2>m, <1>a, <1>v, <1>x DEF StartIndexing, PCs, TypeOK, TablesTypeOK, VersionRow, JobRow
  <2>7. CASE Index(w)
    BY <2>7, <2>o, <2>g, <2>m, <1>a, <1>t, <1>v
       DEF Index, IndexChunks, PCs, VectorsTypeOK, VectorStates, TypeOK
  <2>8. CASE FinishIndexing(w)
    <3>1. job' \in [Operations -> [Generations -> IndexJobStatus \cup {Absent}]]
      BY <2>8, <2>j, <1>a DEF FinishIndexing, TablesTypeOK, JobRow, IndexJobStatus
    <3>2. run' \in [Operations -> RunRow]
      BY <2>8, <2>r, <1>a DEF FinishIndexing, TablesTypeOK
    <3> QED
      BY <2>8, <3>1, <3>2, <2>m, <1>a, <1>v, <1>x DEF FinishIndexing, PCs, TypeOK, TablesTypeOK, VersionRow, JobRow
  <2>9. CASE CheckVault(w)
    <3>1. seen[w].current \in Operations \cup {None}
      BY <2>9, <1>a DEF CheckVault, Ready, At, WorkersTypeOK, ContextView
    <3>2. archive' \subseteq Operations
      BY <2>9, <3>1, <2>g, <1>a
         DEF CheckVault, ArchiveReplaced, CanReplaceFinal, VerifiesFinal, VaultTypeOK
    <3> QED
      BY <2>9, <3>2, <2>m, <1>a, <1>t, <1>x DEF CheckVault, PCs, VaultTypeOK, TypeOK
  <2>10. CASE ReplaceFinal(w)
    BY <2>10, <2>o, <2>g, <2>m, <1>a, <1>t, <1>x
       DEF ReplaceFinal, MoveStagedToFinal, PCs, VaultTypeOK, TypeOK
  <2>11. CASE VerifyActivation(w)
    BY <2>11, <2>m, <1>t, <1>v, <1>x DEF VerifyActivation, PCs, TypeOK
  <2>12. CASE ReadActivationRows(w)
    <3>1. ActivationRows(operation[w]) \in View
      BY <2>o, <2>g, <1>a DEF ActivationRows, View, OwnJob, TablesTypeOK, VersionRow, JobRow
    <3>2. WorkersTypeOK'
      BY <2>12, <2>o, <3>1, <1>a, GotoWithTyped DEF ReadActivationRows, PCs
    <3> QED
      BY <2>12, <3>2, <1>t, <1>v, <1>x DEF ReadActivationRows, TypeOK
  <2>13. CASE Activate(w)
    BY <2>13, <2>o, <2>m, <1>a, <1>t, <1>v, <1>x, ActivatePublicationTyped
       DEF Activate, PCs, TypeOK
  <2>14. CASE ResumeFailed(w)
    <3>1. [target |-> ResumeTarget(w)] \in ResumeView /\ [target |-> ResumeTarget(w)] \in View
      BY DEF ResumeTarget, View, ResumeView
    <3>2. WorkersTypeOK'
      BY <2>14, <2>o, <3>1, <1>a, GotoWithTyped DEF ResumeFailed, PCs
    <3> QED
      BY <2>14, <3>2, <1>t, <1>v, <1>x DEF ResumeFailed, TypeOK
  <2>15. CASE Fail(w)
    <3>1. job' \in [Operations -> [Generations -> IndexJobStatus \cup {Absent}]]
      BY <2>15, <2>j, <1>a DEF Fail, TablesTypeOK, JobRow, IndexJobStatus
    <3>2. run' \in [Operations -> RunRow]
      BY <2>15, <2>o, <1>a, AttemptsAssumption
         DEF Fail, TransitionRun, TablesTypeOK, RunRow, PublicationRunStatus
    <3> QED
      BY <2>15, <3>1, <3>2, <1>a, <1>v, <1>x, ReturnTyped DEF Fail, TypeOK, TablesTypeOK, VersionRow, JobRow
  <2> QED
    BY <1>3, <2>1, <2>2, <2>3, <2>4, <2>5, <2>6, <2>7, <2>8, <2>9, <2>10, <2>11, <2>12, <2>13,
       <2>14, <2>15 DEF Progress
<1>4. ASSUME NEW w \in Workers, Disturb(w) PROVE TypeOK'
  <2>1. CASE Crash(w)
    BY <2>1, <1>a, <1>t, <1>v, <1>x, ReturnTyped DEF Crash, TypeOK
  <2>2. CASE Fault(w)
    <3>1. pc[w] # "idle" /\ Raise(w)
      BY <2>2 DEF Fault
    <3> QED
      BY <3>1, <1>a, <1>t, <1>v, <1>x, GotoTyped DEF Raise, PCs, TypeOK
  <2>3. CASE IndexRaises(w)
    <3>1. pc[w] # "idle" /\ operation[w] \in Operations /\ WorkersTypeOK'
      BY <2>3, <1>a, GotoTyped DEF IndexRaises, Ready, At, PCs
    <3>2. VectorsTypeOK'
      BY <2>3, <3>1, <1>a, RequestAssumption
         DEF IndexRaises, IndexChunksPartly, Probed, VectorsTypeOK, VectorStates
    <3> QED
      BY <2>3, <3>1, <3>2, <1>t, <1>v DEF IndexRaises, TypeOK
  <2> QED
    BY <1>4, <2>1, <2>2, <2>3 DEF Disturb
<1>5. ASSUME NEW n \in Notes, ManualEdit(n) PROVE TypeOK'
  BY <1>5, <1>a, <1>t, <1>x DEF ManualEdit, VaultTypeOK, workers, WorkersTypeOK, TypeOK
<1> QED
  BY <1>1, <1>2, <1>3, <1>4, <1>5 DEF Next

(* Type correctness of every reachable state.                              *)
THEOREM TypeCorrect == Spec => []TypeOK
  BY TypeInitially, TypeInductive, PTL DEF Spec

-----------------------------------------------------------------------------
(* The inductive invariant.  All but one kind of step is quiet: it changes *)
(* no pointer, no change, no generation, no row of a completed run and no  *)
(* version that has been switched to, and it loses no probed chunk set.    *)

Switched == {"ACTIVE", "SUPERSEDED"}

QuietTables ==
  /\ UNCHANGED <<change, generation>>
  /\ \A n \in Notes :
       /\ note'[n].current = note[n].current
       /\ ResolveCurrent(n)' = ResolveCurrent(n)
       /\ ResolveCurrent(n) # None => note'[n] = note[n]
  /\ \A o \in Operations :
       /\ run'[o].status = "COMPLETED" <=> run[o].status = "COMPLETED"
       /\ run[o].status = "COMPLETED" => run'[o] = run[o] /\ job'[o] = job[o]
       /\ version[o] \in Switched \/ version'[o] \in Switched => version'[o] = version[o]

QuietIndex ==
  /\ \A o \in Operations, g \in Generations : Probed(o, g) => Probed(o, g)'
  /\ \A o \in Operations : OwnJob(o)' \in {"INDEXED", "ACTIVE_INDEXED"} =>
       OwnJob(o) \in {"INDEXED", "ACTIVE_INDEXED"} \/ Probed(o, GenerationOf[o])
  /\ \A w \in Workers : pc'[w] = "indexed" =>
       \/ pc[w] = "indexed" /\ operation'[w] = operation[w]
       \/ Probed(operation[w], GenerationOf[operation[w]])' /\ operation'[w] = operation[w]

Activates(w) ==
  /\ At(w, "activate")
  /\ CanActivate(operation[w], seen[w])
  /\ ActivatePublication(operation[w], seen[w])
  /\ Goto(w, "reload")
  /\ UNCHANGED <<vault, vectors>>

(* A step that leaves the tables alone and loses no chunk set is quiet.    *)
LEMMA UnchangedTablesQuiet ==
  ASSUME UNCHANGED tables PROVE QuietTables
BY DEF tables, QuietTables, ResolveCurrent, IsLive

LEMMA UnchangedIndexQuiet ==
  ASSUME UNCHANGED <<vectors, job>>,
         \A w \in Workers : pc'[w] = "indexed" => pc[w] = "indexed" /\ operation'[w] = operation[w]
  PROVE  QuietIndex
BY DEF QuietIndex, Probed, OwnJob

LEMMA MoveIndexedOnlyByIndex ==
  ASSUME TypeOK, NEW w \in Workers, NEW label \in PCs \ {"indexed"}, NEW view,
         GotoWith(w, label, view) \/ Goto(w, label) \/ Return(w)
  PROVE  \A x \in Workers : pc'[x] = "indexed" => pc[x] = "indexed" /\ operation'[x] = operation[x]
BY DEF TypeOK, WorkersTypeOK, GotoWith, Goto, Return

(* No declared transition leaves COMPLETED, and one whose target is not    *)
(* COMPLETED does not enter it.                                            *)
LEMMA CompletedIsTerminal ==
  ASSUME NEW o, NEW target, CanTransitionRun(o, target)
  PROVE  run[o].status # "COMPLETED"
BY DEF CanTransitionRun, CanTransition, PublicationRunTransitions

LEMMA TransitionRunQuiet ==
  ASSUME TypeOK, NEW o \in Operations, NEW target, target # "COMPLETED",
         run[o].status # "COMPLETED", TransitionRun(o, target)
  PROVE  \A p \in Operations :
           /\ run'[p].status = "COMPLETED" <=> run[p].status = "COMPLETED"
           /\ run[p].status = "COMPLETED" => run'[p] = run[p]
BY DEF TransitionRun, TypeOK, TablesTypeOK, RunRow

LEMMA CommitRunQuiet ==
  ASSUME TypeOK, NEW w \in Workers, pc[w] # "idle", NEW target, target # "COMPLETED",
         CommitRun(w, target)
  PROVE  QuietTables /\ QuietIndex
<1>1. operation[w] \in Operations
  BY DEF TypeOK, WorkersTypeOK
<1>2. QuietTables
  BY <1>1, TransitionRunQuiet, CompletedIsTerminal
     DEF CommitRun, QuietTables, ResolveCurrent, IsLive
<1>3. QuietIndex
  BY MoveIndexedOnlyByIndex, UnchangedIndexQuiet DEF CommitRun, PCs
<1> QED
  BY <1>2, <1>3

(* Planning a publication inserts rows that were absent: the note, when it *)
(* is new, resolves to nothing before and after.                           *)
LEMMA AddPublicationQuiet ==
  ASSUME TypeOK, PointersResolve, CompletedIsActivated, NEW o \in Operations,
         run[o].status = Absent, AddPublication(o), UNCHANGED <<change, generation>>
  PROVE  QuietTables
<1>1. NoteOf[o] \in Notes /\ GenerationOf[o] \in Generations
  BY RequestAssumption
<1>2. note[NoteOf[o]].state = Absent =>
        ResolveCurrent(NoteOf[o]) = None /\ note[NoteOf[o]].current = None
  BY <1>1 DEF PointersResolve, ResolveCurrent, IsLive
<1>3. ASSUME NEW n \in Notes
      PROVE  /\ note'[n].current = note[n].current
             /\ ResolveCurrent(n)' = ResolveCurrent(n)
             /\ ResolveCurrent(n) # None => note'[n] = note[n]
  BY <1>1, <1>2 DEF AddPublication, NewNote, ResolveCurrent, IsLive, TypeOK, TablesTypeOK
<1>4. version[o] \notin Switched
  BY DEF CompletedIsActivated, Switched
<1>5. ASSUME NEW p \in Operations
      PROVE  /\ run'[p].status = "COMPLETED" <=> run[p].status = "COMPLETED"
             /\ run[p].status = "COMPLETED" => run'[p] = run[p] /\ job'[p] = job[p]
             /\ version[p] \in Switched \/ version'[p] \in Switched => version'[p] = version[p]
  BY <1>4 DEF AddPublication, TypeOK, TablesTypeOK, Switched
<1> QED
  BY <1>3, <1>5 DEF QuietTables

(* Every step is quiet or a successful activation.                         *)
LEMMA QuietOrActivates ==
  ASSUME TypeOK, PublicationInv, [Next]_vars
  PROVE  (QuietTables /\ QuietIndex) \/ \E w \in Workers : Activates(w)
<1>i. PointersResolve /\ CompletedIsActivated /\ IndexedIsProbed
  BY DEF PublicationInv
<1>q. UNCHANGED <<tables, vectors>> /\
        (\A w \in Workers : pc'[w] = "indexed" => pc[w] = "indexed" /\ operation'[w] = operation[w])
        => QuietTables /\ QuietIndex
  BY UnchangedTablesQuiet, UnchangedIndexQuiet DEF tables
<1>1. CASE UNCHANGED vars \/ \E n \in Notes : ManualEdit(n)
  BY <1>1, <1>q DEF vars, ManualEdit, workers
<1>2. ASSUME NEW w \in Workers, Call(w) PROVE QuietTables /\ QuietIndex
  BY <1>2, <1>q DEF Call, PlanPublication, ResumePublication, TypeOK, WorkersTypeOK
<1>3. ASSUME NEW w \in Workers, Disturb(w) PROVE QuietTables /\ QuietIndex
  <2>1. CASE Crash(w) \/ Fault(w)
    <3>1. UNCHANGED <<tables, vectors>> /\ (Return(w) \/ Goto(w, "failing"))
      BY <2>1 DEF Crash, Fault, Raise
    <3> QED
      BY <3>1, <1>q, MoveIndexedOnlyByIndex DEF PCs
  <2>2. CASE IndexRaises(w)
    <3>1. operation[w] \in Operations /\ GenerationOf[operation[w]] \in Generations
      BY <2>2, RequestAssumption DEF IndexRaises, Ready, At, TypeOK, WorkersTypeOK
    <3>2. \A o \in Operations, g \in Generations : Probed(o, g) => Probed(o, g)'
      BY <2>2, <3>1 DEF IndexRaises, IndexChunksPartly, Probed, TypeOK, VectorsTypeOK
    <3>3. \A x \in Workers : pc'[x] = "indexed" => pc[x] = "indexed" /\ operation'[x] = operation[x]
      BY <2>2, MoveIndexedOnlyByIndex DEF IndexRaises, PCs
    <3> QED
      BY <2>2, <3>2, <3>3, UnchangedTablesQuiet DEF IndexRaises, QuietIndex, OwnJob, tables
  <2> QED
    BY <1>3, <2>1, <2>2 DEF Disturb
<1>4. ASSUME NEW w \in Workers, Progress(w)
      PROVE  (QuietTables /\ QuietIndex) \/ Activates(w)
  <2>o. pc[w] # "idle" /\ operation[w] \in Operations
    BY <1>4 DEF TypeOK, WorkersTypeOK, Progress, At, Ready, BeginPublication, Load, StartCurating,
       StageVault, CommitStaged, StartIndexing, Index, FinishIndexing, CheckVault, ReplaceFinal,
       CommitVaultPublished, StartActivating, VerifyActivation, ReadActivationRows, Activate,
       ResumeFailed, CommitResumed, Fail
  <2>g. GenerationOf[operation[w]] \in Generations
    BY <2>o, RequestAssumption
  <2>m. ASSUME NEW label \in PCs \ {"indexed"}, NEW view,
               GotoWith(w, label, view) \/ Goto(w, label) \/ Return(w)
        PROVE  \A x \in Workers :
                 pc'[x] = "indexed" => pc[x] = "indexed" /\ operation'[x] = operation[x]
    BY <2>m, MoveIndexedOnlyByIndex
  <2>1. CASE BeginPublication(w)
    <3>1. QuietTables
      BY <2>1, <2>o, <1>i, AddPublicationQuiet, UnchangedTablesQuiet DEF BeginPublication
    <3>2. \A x \in Workers : pc'[x] = "indexed" => pc[x] = "indexed" /\ operation'[x] = operation[x]
      BY <2>1, <2>m DEF BeginPublication, PCs
    <3>3. \A o \in Operations : OwnJob(o)' \in {"INDEXED", "ACTIVE_INDEXED"} => OwnJob(o)' = OwnJob(o)
      BY <2>1, <2>o, <2>g, RequestAssumption
         DEF BeginPublication, AddPublication, OwnJob, tables, TypeOK, TablesTypeOK
    <3> QED
      BY <2>1, <3>1, <3>2, <3>3 DEF BeginPublication, QuietIndex, Probed
  <2>2. CASE StartCurating(w) \/ CommitVaultPublished(w) \/ StartActivating(w)
    BY <2>2, <2>o, CommitRunQuiet DEF StartCurating, CommitVaultPublished, StartActivating
  <2>3. CASE CommitResumed(w)
    <3>1. seen[w].target # "COMPLETED"
      BY <2>3 DEF CommitResumed, At, TypeOK, WorkersTypeOK, ResumeView
    <3> QED
      BY <2>3, <3>1, <2>o, CommitRunQuiet DEF CommitResumed
  <2>4. CASE \/ Load(w) \/ StageVault(w) \/ CheckVault(w) \/ ReplaceFinal(w)
             \/ VerifyActivation(w) \/ ReadActivationRows(w) \/ ResumeFailed(w)
    <3>1. UNCHANGED <<tables, vectors>>
      BY <2>4 DEF Load, StageVault, CheckVault, ReplaceFinal, VerifyActivation, ReadActivationRows,
         ResumeFailed
    <3>2. \E label \in PCs \ {"indexed"}, view \in {seen'[w]} :
            GotoWith(w, label, view) \/ Goto(w, label) \/ Return(w)
      BY <2>4 DEF Load, StageVault, CheckVault, ReplaceFinal, VerifyActivation, ReadActivationRows,
         ResumeFailed, PCs, GotoWith, Goto, TypeOK, WorkersTypeOK
    <3> QED
      BY <3>1, <3>2, <2>m, <1>q
  <2>5. CASE CommitStaged(w)
    <3>1. \A p \in Operations :
            version[p] \in Switched \/ version'[p] \in Switched => version'[p] = version[p]
      BY <2>5 DEF CommitStaged, TransitionVersion, Switched, TypeOK, TablesTypeOK
    <3>2. QuietTables
      BY <2>5, <2>o, <3>1, TransitionRunQuiet, CompletedIsTerminal
         DEF CommitStaged, QuietTables, ResolveCurrent, IsLive
    <3> QED
      BY <2>5, <3>2, <2>m, UnchangedIndexQuiet DEF CommitStaged, PCs
  <2>6. CASE StartIndexing(w) \/ FinishIndexing(w) \/ Fail(w)
    <3>j. /\ job' = job \/ \E t \in {"INDEXING", "INDEXED", "FAILED"} :
                             TransitionJob(operation[w], GenerationOf[operation[w]], t)
          /\ job' # job => OwnJob(operation[w]) \in {"PENDING", "INDEXING", "FAILED"}
      BY <2>6 DEF StartIndexing, FinishIndexing, Fail
    <3>1. \A p \in Operations :
            /\ run'[p].status = "COMPLETED" <=> run[p].status = "COMPLETED"
            /\ run[p].status = "COMPLETED" => run'[p] = run[p]
      <4>1. \/ UNCHANGED run
            \/ /\ run[operation[w]].status # "COMPLETED"
               /\ \E t \in {"INDEXING", "INDEX_VERIFIED", "FAILED"} : TransitionRun(operation[w], t)
        BY <2>6, CompletedIsTerminal DEF StartIndexing, FinishIndexing, Fail
      <4> QED
        BY <4>1, <2>o, TransitionRunQuiet
    <3>2. \A p \in Operations : run[p].status = "COMPLETED" => job'[p] = job[p]
      BY <3>j, <2>o, <1>i DEF CompletedIsActivated, TransitionJob, TypeOK, TablesTypeOK
    <3>3. QuietTables
      BY <2>6, <3>1, <3>2
         DEF StartIndexing, FinishIndexing, Fail, QuietTables, ResolveCurrent, IsLive
    <3>4. job' # job /\ job'[operation[w]][GenerationOf[operation[w]]] \in {"INDEXED", "ACTIVE_INDEXED"} =>
            Probed(operation[w], GenerationOf[operation[w]])
      <4>1. CASE FinishIndexing(w)
        BY <4>1, <1>i DEF FinishIndexing, At, IndexedIsProbed
      <4>2. CASE StartIndexing(w) \/ Fail(w)
        <5>1. job' = job \/ \E t \in {"INDEXING", "FAILED"} :
                              TransitionJob(operation[w], GenerationOf[operation[w]], t)
          BY <4>2 DEF StartIndexing, Fail
        <5> QED
          BY <5>1, <2>o, <2>g DEF TransitionJob, TypeOK, TablesTypeOK
      <4> QED
        BY <4>1, <4>2, <2>6
    <3>5. \A p \in Operations \ {operation[w]} : OwnJob(p)' = OwnJob(p)
      BY <3>j, <2>o, <2>g, RequestAssumption DEF TransitionJob, OwnJob, TypeOK, TablesTypeOK
    <3>6. \A x \in Workers : pc'[x] = "indexed" => pc[x] = "indexed" /\ operation'[x] = operation[x]
      BY <2>6, <2>m DEF StartIndexing, FinishIndexing, Fail, PCs
    <3>7. UNCHANGED vectors
      BY <2>6 DEF StartIndexing, FinishIndexing, Fail
    <3>8. \A p \in Operations : OwnJob(p)' \in {"INDEXED", "ACTIVE_INDEXED"} =>
            OwnJob(p) \in {"INDEXED", "ACTIVE_INDEXED"} \/ Probed(p, GenerationOf[p])
      BY <3>4, <3>5 DEF OwnJob
    <3> QED
      BY <3>3, <3>6, <3>7, <3>8 DEF QuietIndex, Probed
  <2>7. CASE Index(w)
    <3>1. QuietTables
      BY <2>7, UnchangedTablesQuiet DEF Index
    <3>2. \A o \in Operations, g \in Generations : Probed(o, g) => Probed(o, g)'
      BY <2>7, <2>o, <2>g DEF Index, IndexChunks, Probed, TypeOK, VectorsTypeOK
    <3>3. Probed(operation[w], GenerationOf[operation[w]])'
      BY <2>7, <2>o, <2>g DEF Index, Goto, IndexChunks, Probed, TypeOK, VectorsTypeOK
    <3>4. \A x \in Workers : pc'[x] = "indexed" =>
            operation'[x] = operation[x] /\ (x = w \/ pc[x] = "indexed")
      BY <2>7 DEF Index, Goto, TypeOK, WorkersTypeOK
    <3> QED
      BY <2>7, <3>1, <3>2, <3>3, <3>4 DEF Index, QuietIndex, OwnJob, tables
  <2>8. CASE Activate(w)
    <3>1. CASE CanActivate(operation[w], seen[w])
      BY <2>8, <3>1 DEF Activate, Activates
    <3>2. CASE ~CanActivate(operation[w], seen[w])
      BY <2>8, <3>2, <2>m, <1>q DEF Activate, PCs
    <3> QED
      BY <3>1, <3>2
  <2> QED
    BY <1>4, <2>1, <2>2, <2>3, <2>4, <2>5, <2>6, <2>7, <2>8 DEF Progress
<1> QED
  BY <1>1, <1>2, <1>3, <1>4 DEF Next

(* A quiet step keeps the invariant.                                       *)
LEMMA QuietKeepsInv ==
  ASSUME TypeOK, PublicationInv, QuietTables, QuietIndex
  PROVE  PublicationInv'
<1>g. \A o \in Operations :
        NoteOf[o] \in Notes /\ GenerationOf[o] \in Generations /\ ChangeOf[o] \in Changes
  BY RequestAssumption
<1>1. PointersResolve'
  BY DEF PublicationInv, PointersResolve, QuietTables
<1>2. CompletedIsActivated'
  BY DEF PublicationInv, CompletedIsActivated, QuietTables, Switched, OwnJob
<1>3. ActiveChangeHasOneRun'
  BY DEF PublicationInv, ActiveChangeHasOneRun, QuietTables
<1>4. IndexedIsProbed'
  BY <1>g DEF PublicationInv, IndexedIsProbed, QuietIndex, TypeOK, WorkersTypeOK
<1>5. OneActiveGeneration'
  BY DEF PublicationInv, OneActiveGeneration, QuietTables
<1>6. ActiveVersionIsServed'
  <2> SUFFICES ASSUME NEW v \in Operations, version'[v] = "ACTIVE"
               PROVE  ResolveCurrent(NoteOf[v])' = v
    BY DEF ActiveVersionIsServed
  <2>1. version[v] = "ACTIVE"
    BY DEF QuietTables, Switched
  <2> QED
    BY <2>1, <1>g DEF PublicationInv, ActiveVersionIsServed, QuietTables
<1>7. ServedIsPublished'
  <2> SUFFICES ASSUME NEW n \in Notes, ResolveCurrent(n)' # None
               PROVE  LET v == ResolveCurrent(n)' IN
                      /\ NoteOf[v] = n /\ note'[n].generation = GenerationOf[v]
                      /\ version'[v] = "ACTIVE" /\ run'[v].status = "COMPLETED"
                      /\ change'[ChangeOf[v]] = "ACTIVE"
                      /\ job'[v][GenerationOf[v]] = "ACTIVE_INDEXED"
                      /\ vectors'[v][GenerationOf[v]] = "complete"
    BY DEF ServedIsPublished, OwnJob, Probed
  <2>1. PICK v : v = ResolveCurrent(n)
    OBVIOUS
  <2>2. v # None /\ ResolveCurrent(n)' = v /\ note'[n] = note[n]
    BY <2>1 DEF QuietTables
  <2>3. /\ NoteOf[v] = n /\ note[n].generation = GenerationOf[v]
        /\ version[v] = "ACTIVE" /\ run[v].status = "COMPLETED"
        /\ change[ChangeOf[v]] = "ACTIVE"
        /\ OwnJob(v) = "ACTIVE_INDEXED" /\ Probed(v, GenerationOf[v])
    BY <2>1, <2>2 DEF PublicationInv, ServedIsPublished
  <2>4. v \in Operations
    BY <2>1, <2>2 DEF ResolveCurrent, TypeOK, TablesTypeOK, NoteRow
  <2>5. version'[v] = "ACTIVE" /\ run'[v] = run[v] /\ job'[v] = job[v] /\ change' = change
    BY <2>3, <2>4 DEF QuietTables, Switched
  <2>6. vectors'[v][GenerationOf[v]] = "complete"
    BY <2>3, <2>4, <1>g DEF QuietIndex, Probed
  <2> QED
    BY <2>2, <2>3, <2>5, <2>6 DEF OwnJob
<1> QED
  BY <1>1, <1>2, <1>3, <1>4, <1>5, <1>6, <1>7 DEF PublicationInv

(* What the activation finds and writes, row by row.                       *)
Activation(o) ==
  /\ run[o].status = "ACTIVATING" /\ version[o] = "STAGING" /\ OwnJob(o) = "INDEXED"
  /\ change[ChangeOf[o]] = "PUBLISH_INTENT" /\ IsLive(NoteOf[o])
  /\ note' = [note EXCEPT ![NoteOf[o]] =
                [state |-> "live", current |-> o, generation |-> GenerationOf[o]]]
  /\ version' = [v \in Operations |->
       IF v = o THEN "ACTIVE"
       ELSE IF v = note[NoteOf[o]].current THEN "SUPERSEDED" ELSE version[v]]
  /\ run' = [run EXCEPT ![o].status = "COMPLETED"]
  /\ job' = [job EXCEPT ![o][GenerationOf[o]] = "ACTIVE_INDEXED"]
  /\ change' = [change EXCEPT ![ChangeOf[o]] = "ACTIVE"]
  /\ vectors' = vectors

LEMMA ActivationWrites ==
  ASSUME TypeOK, NEW w \in Workers, Activates(w)
  PROVE  \E o \in Operations : Activation(o) /\ ActivatePublication(o, seen[w])
<1>1. operation[w] \in Operations
  BY DEF Activates, At, TypeOK, WorkersTypeOK
<1>2. Activation(operation[w])
  BY DEF Activates, Goto, CanActivate, RowsUnchanged, ActivationRows, ActivatePublication,
     IsLive, Activation, ReplacedVersions
<1> QED
  BY <1>1, <1>2 DEF Activates

(* The switch keeps the invariant.                                         *)
LEMMA ActivationKeepsInv ==
  ASSUME TypeOK, PublicationInv, NEW w \in Workers, Activates(w)
  PROVE  PublicationInv'
<1>o. PICK o \in Operations : Activation(o) /\ ActivatePublication(o, seen[w])
  BY ActivationWrites
<1> DEFINE n == NoteOf[o]
           g == GenerationOf[o]
           previous == note[n].current
<1>w. /\ run[o].status = "ACTIVATING" /\ version[o] = "STAGING" /\ OwnJob(o) = "INDEXED"
      /\ change[ChangeOf[o]] = "PUBLISH_INTENT" /\ IsLive(n)
      /\ note' = [note EXCEPT ![n] = [state |-> "live", current |-> o, generation |-> g]]
      /\ version' = [v \in Operations |->
           IF v = o THEN "ACTIVE" ELSE IF v = previous THEN "SUPERSEDED" ELSE version[v]]
      /\ run' = [run EXCEPT ![o].status = "COMPLETED"]
      /\ job' = [job EXCEPT ![o][g] = "ACTIVE_INDEXED"]
      /\ change' = [change EXCEPT ![ChangeOf[o]] = "ACTIVE"]
      /\ vectors' = vectors
  BY <1>o DEF Activation
<1>i. /\ PointersResolve /\ ServedIsPublished /\ ActiveVersionIsServed
      /\ CompletedIsActivated /\ ActiveChangeHasOneRun /\ IndexedIsProbed
      /\ OneActiveGeneration
  BY DEF PublicationInv
<1>t. TablesTypeOK
  BY DEF TypeOK
<1>g. \A p \in Operations :
        NoteOf[p] \in Notes /\ GenerationOf[p] \in Generations /\ ChangeOf[p] \in Changes
        /\ p # None /\ GenerationOf[p] # None
  BY RequestAssumption
<1>p. previous # None => previous \in Operations /\ NoteOf[previous] = n /\ version[previous] = "ACTIVE"
  BY <1>w, <1>g, <1>i, <1>t DEF PointersResolve, ServedIsPublished, TablesTypeOK, NoteRow
<1>r. /\ ResolveCurrent(n)' = o
      /\ \A m \in Notes \ {n} : ResolveCurrent(m)' = ResolveCurrent(m) /\ note'[m] = note[m]
  BY <1>w, <1>g, <1>t DEF ResolveCurrent, IsLive, TablesTypeOK
<1>e. /\ run'[o].status = "COMPLETED" /\ job'[o][g] = "ACTIVE_INDEXED" /\ version'[o] = "ACTIVE"
      /\ change'[ChangeOf[o]] = "ACTIVE"
      /\ \A p \in Operations \ {o} : run'[p] = run[p] /\ job'[p] = job[p]
      /\ \A c \in Changes \ {ChangeOf[o]} : change'[c] = change[c]
  BY <1>w, <1>g, <1>t DEF TablesTypeOK, RunRow
<1>1. PointersResolve'
  BY <1>r, <1>w, <1>g, <1>i, <1>t DEF PointersResolve, TablesTypeOK
<1>2. CompletedIsActivated'
  <2> SUFFICES ASSUME NEW p \in Operations
               PROVE  /\ run'[p].status = "COMPLETED" <=> version'[p] \in {"ACTIVE", "SUPERSEDED"}
                      /\ run'[p].status = "COMPLETED" =>
                           job'[p][GenerationOf[p]] = "ACTIVE_INDEXED" /\ change'[ChangeOf[p]] = "ACTIVE"
    BY DEF CompletedIsActivated, OwnJob
  <2>1. CASE p = o
    BY <2>1, <1>e
  <2>2. CASE p # o
    BY <2>2, <1>e, <1>w, <1>g, <1>i, <1>p DEF CompletedIsActivated, OwnJob
  <2> QED
    BY <2>1, <2>2
<1>3. ActiveChangeHasOneRun'
  <2>1. \A p \in Operations : ChangeOf[p] = ChangeOf[o] => run[p].status # "COMPLETED"
    BY <1>w, <1>i DEF CompletedIsActivated
  <2> QED
    BY <2>1, <1>e, <1>w, <1>g, <1>i DEF ActiveChangeHasOneRun
<1>4. IndexedIsProbed'
  <2>1. Probed(o, g)
    BY <1>w, <1>i DEF IndexedIsProbed
  <2>2. \A x \in Workers : pc'[x] = "indexed" => pc[x] = "indexed" /\ operation'[x] = operation[x]
    BY MoveIndexedOnlyByIndex DEF Activates, PCs
  <2> QED
    BY <2>1, <2>2, <1>e, <1>w, <1>i DEF IndexedIsProbed, Probed, OwnJob
<1>5. OneActiveGeneration'
  <2>1. \/ \A h \in Generations : generation'[h] = generation[h]
        \/ \A h \in Generations : generation'[h] =
             IF h = g THEN "ACTIVE"
             ELSE IF h \in OtherActiveGenerations(g) THEN "SUPERSEDED" ELSE generation[h]
    <3>1. seen[w].generation \in {"ACTIVE", "STAGING"}
      BY DEF Activates, CanActivate, GenerationReady
    <3>2. CASE seen[w].generation = "ACTIVE"
      BY <3>2, <1>o DEF ActivatePublication, ReplacedGenerations
    <3>3. CASE seen[w].generation = "STAGING"
      BY <3>3, <1>o DEF ActivatePublication, ReplacedGenerations
    <3> QED
      BY <3>1, <3>2, <3>3
  <2> QED
    BY <2>1, <1>i DEF OneActiveGeneration, OtherActiveGenerations
<1>6. ActiveVersionIsServed'
  <2> SUFFICES ASSUME NEW v \in Operations, version'[v] = "ACTIVE"
               PROVE  ResolveCurrent(NoteOf[v])' = v
    BY DEF ActiveVersionIsServed
  <2>1. CASE v = o
    BY <2>1, <1>r
  <2>2. CASE v # o
    <3>1. version[v] = "ACTIVE" /\ v # previous
      BY <2>2, <1>w
    <3>2. ResolveCurrent(NoteOf[v]) = v
      BY <3>1, <1>i DEF ActiveVersionIsServed
    <3>3. NoteOf[v] # n
      BY <3>1, <3>2, <1>i, <1>g, <1>w DEF PointersResolve
    <3> QED
      BY <3>2, <3>3, <1>r, <1>g
  <2> QED
    BY <2>1, <2>2
<1>7. ServedIsPublished'
  <2> SUFFICES ASSUME NEW m \in Notes, NEW v, v = ResolveCurrent(m)', v # None
               PROVE  /\ NoteOf[v] = m /\ note'[m].generation = GenerationOf[v]
                      /\ version'[v] = "ACTIVE" /\ run'[v].status = "COMPLETED"
                      /\ change'[ChangeOf[v]] = "ACTIVE"
                      /\ job'[v][GenerationOf[v]] = "ACTIVE_INDEXED"
                      /\ vectors'[v][GenerationOf[v]] = "complete"
    BY DEF ServedIsPublished, OwnJob, Probed
  <2>1. CASE m = n
    <3>1. v = o /\ note'[m].generation = g
      BY <2>1, <1>r, <1>w, <1>t, <1>g DEF TablesTypeOK
    <3>2. vectors'[o][g] = "complete"
      BY <1>w, <1>i DEF IndexedIsProbed, Probed
    <3> QED
      BY <2>1, <3>1, <3>2, <1>e
  <2>2. CASE m # n
    <3>1. v = ResolveCurrent(m) /\ note'[m] = note[m]
      BY <2>2, <1>r
    <3>2. v \in Operations
      BY <3>1, <1>t DEF ResolveCurrent, TablesTypeOK, NoteRow
    <3>3. /\ NoteOf[v] = m /\ note[m].generation = GenerationOf[v]
          /\ version[v] = "ACTIVE" /\ run[v].status = "COMPLETED"
          /\ change[ChangeOf[v]] = "ACTIVE"
          /\ OwnJob(v) = "ACTIVE_INDEXED" /\ Probed(v, GenerationOf[v])
      BY <3>1, <1>i DEF ServedIsPublished
    <3>4. v # o /\ v # previous
      BY <3>3, <2>2, <1>p
    <3>5. version'[v] = "ACTIVE"
      BY <3>2, <3>3, <3>4, <1>w
    <3>6. change'[ChangeOf[v]] = "ACTIVE"
      BY <3>2, <3>3, <1>e, <1>g
    <3> QED
      BY <3>1, <3>2, <3>3, <3>4, <3>5, <3>6, <1>e, <1>w DEF OwnJob, Probed
  <2> QED
    BY <2>1, <2>2
<1> QED
  BY <1>1, <1>2, <1>3, <1>4, <1>5, <1>6, <1>7 DEF PublicationInv

LEMMA InvInitially == Init => PublicationInv
<1> SUFFICES ASSUME Init PROVE PublicationInv
  OBVIOUS
<1>1. \A n \in Notes : ResolveCurrent(n) = None /\ note[n].current = None
  BY DEF Init, TablesInit, NoNote, ResolveCurrent, IsLive
<1>2. \A o \in Operations :
        run[o].status = Absent /\ version[o] = Absent /\ OwnJob(o) = Absent
  BY RequestAssumption DEF Init, TablesInit, OwnJob
<1>3. /\ \A c \in Changes : change[c] = "PUBLISH_INTENT"
      /\ \A g \in Generations : generation[g] = "STAGING"
      /\ \A w \in Workers : pc[w] = "idle"
  BY DEF Init, TablesInit
<1>4. PointersResolve /\ ServedIsPublished
  BY <1>1 DEF PointersResolve, ServedIsPublished
<1>5. ActiveVersionIsServed /\ CompletedIsActivated /\ ActiveChangeHasOneRun
  BY <1>2, <1>3 DEF ActiveVersionIsServed, CompletedIsActivated, ActiveChangeHasOneRun
<1>6. IndexedIsProbed /\ OneActiveGeneration
  BY <1>2, <1>3 DEF IndexedIsProbed, OneActiveGeneration
<1> QED
  BY <1>4, <1>5, <1>6 DEF PublicationInv

LEMMA InvInductive == TypeOK /\ PublicationInv /\ [Next]_vars => PublicationInv'
<1> SUFFICES ASSUME TypeOK, PublicationInv, [Next]_vars PROVE PublicationInv'
  OBVIOUS
<1>1. ASSUME NEW w \in Workers, Activates(w) PROVE PublicationInv'
  BY <1>1, ActivationKeepsInv
<1> QED
  BY <1>1, QuietOrActivates, QuietKeepsInv

(* Whatever interleaving, crash, failed step or manual edit: the pointers  *)
(* resolve only to versions whose whole publication has completed.         *)
THEOREM PublicationCorrect == Spec => []PublicationInv
  BY TypeInitially, TypeInductive, InvInitially, InvInductive, PTL DEF Spec

(* No half-published content is ever served.                               *)
THEOREM ServedContentIsPublished == Spec => []ServedIsPublished
<1>1. PublicationInv => ServedIsPublished
  BY DEF PublicationInv
<1> QED
  BY <1>1, PublicationCorrect, PTL

(* A note never has an ACTIVE version besides the one it serves.           *)
THEOREM ActiveVersionsAreServed == Spec => []ActiveVersionIsServed
<1>1. PublicationInv => ActiveVersionIsServed
  BY DEF PublicationInv
<1> QED
  BY <1>1, PublicationCorrect, PTL

(* The switch of the ACTIVE generation leaves one.                         *)
THEOREM GenerationIsUnique == Spec => []OneActiveGeneration
<1>1. PublicationInv => OneActiveGeneration
  BY DEF PublicationInv
<1> QED
  BY <1>1, PublicationCorrect, PTL

LEMMA OneRunIsCounted ==
  ASSUME ActiveChangeHasOneRun,
         \A o \in Operations : run[o].status = "COMPLETED" => change[ChangeOf[o]] = "ACTIVE"
  PROVE  ChangeActivatedOnce
<1> SUFFICES ASSUME NEW c \in Changes
             PROVE  Cardinality({o \in Operations : ChangeOf[o] = c /\ run[o].status = "COMPLETED"})
                      = IF change[c] = "ACTIVE" THEN 1 ELSE 0
  BY DEF ChangeActivatedOnce
<1> DEFINE Completions == {o \in Operations : ChangeOf[o] = c /\ run[o].status = "COMPLETED"}
<1>1. CASE change[c] = "ACTIVE"
  <2>1. PICK o \in Operations : ChangeOf[o] = c /\ run[o].status = "COMPLETED"
    BY <1>1 DEF ActiveChangeHasOneRun
  <2>2. Completions = {o}
    BY <2>1 DEF ActiveChangeHasOneRun
  <2> QED
    BY <1>1, <2>2, FS_Singleton
<1>2. CASE change[c] # "ACTIVE"
  <2>1. Completions = {}
    BY <1>2
  <2> QED
    BY <1>2, <2>1, FS_EmptySet
<1> QED
  BY <1>1, <1>2

(* A knowledge change is activated by exactly one operation.               *)
THEOREM ChangesAreActivatedOnce == Spec => []ChangeActivatedOnce
<1>1. PublicationInv => ChangeActivatedOnce
  BY OneRunIsCounted DEF PublicationInv, CompletedIsActivated
<1> QED
  BY <1>1, PublicationCorrect, PTL

-----------------------------------------------------------------------------
(* What a step may not do, and what the steps implement.                   *)

(* A completed run and its job are never written again.                    *)
THEOREM CompletedRunsAreFinal == Spec => CompletionIsFinal
<1>1. TypeOK /\ PublicationInv /\ [Next]_vars =>
        [\A o \in Operations : run[o].status = "COMPLETED" =>
           run'[o] = run[o] /\ job'[o] = job[o]]_vars
  <2> SUFFICES ASSUME TypeOK, PublicationInv, [Next]_vars
               PROVE  \A p \in Operations : run[p].status = "COMPLETED" =>
                        run'[p] = run[p] /\ job'[p] = job[p]
    OBVIOUS
  <2>1. CASE QuietTables
    BY <2>1 DEF QuietTables
  <2>2. ASSUME NEW w \in Workers, Activates(w)
        PROVE  \A p \in Operations : run[p].status = "COMPLETED" =>
                 run'[p] = run[p] /\ job'[p] = job[p]
    <3>1. PICK o \in Operations : Activation(o)
      BY <2>2, ActivationWrites
    <3> QED
      BY <3>1 DEF Activation, TypeOK, TablesTypeOK
  <2> QED
    BY <2>1, <2>2, QuietOrActivates
<1> QED
  BY <1>1, TypeCorrect, PublicationCorrect, PTL DEF Spec, CompletionIsFinal

(* Each activation is one Switch of the abstract specification, every      *)
(* other step stutters: a reader sees old or new, never anything between.  *)
THEOREM PublicationIsAtomic == Spec => ImplementsAtomicPublication
<1>1. Init => Reader!Init
  BY DEF Init, TablesInit, Reader!Init, ResolveCurrent, IsLive, NoNote
<1>2. TypeOK /\ PublicationInv /\ [Next]_vars =>
        [Reader!Next]_<<[n \in Notes |-> ResolveCurrent(n)],
                        {o \in Operations : run[o].status = "COMPLETED"}>>
  <2> SUFFICES ASSUME TypeOK, PublicationInv, [Next]_vars
               PROVE  \/ Reader!Next
                      \/ /\ [n \in Notes |-> ResolveCurrent(n)]'
                              = [n \in Notes |-> ResolveCurrent(n)]
                         /\ {o \in Operations : run[o].status = "COMPLETED"}'
                              = {o \in Operations : run[o].status = "COMPLETED"}
    OBVIOUS
  <2>1. CASE QuietTables
    BY <2>1 DEF QuietTables
  <2>2. ASSUME NEW w \in Workers, Activates(w) PROVE Reader!Next
    <3>1. PICK o \in Operations : Activation(o)
      BY <2>2, ActivationWrites
    <3>2. /\ run[o].status = "ACTIVATING" /\ change[ChangeOf[o]] = "PUBLISH_INTENT"
          /\ run' = [run EXCEPT ![o].status = "COMPLETED"]
          /\ note' = [note EXCEPT ![NoteOf[o]] =
                        [state |-> "live", current |-> o, generation |-> GenerationOf[o]]]
      BY <3>1 DEF Activation
    <3>3. NoteOf[o] \in Notes /\ o # None /\ GenerationOf[o] # None
      BY RequestAssumption
    <3>4. [n \in Notes |-> ResolveCurrent(n)]'
            = [[n \in Notes |-> ResolveCurrent(n)] EXCEPT ![NoteOf[o]] = o]
      BY <3>2, <3>3 DEF ResolveCurrent, IsLive, TypeOK, TablesTypeOK
    <3>5. {p \in Operations : run[p].status = "COMPLETED"}'
            = {p \in Operations : run[p].status = "COMPLETED"} \cup {o}
      BY <3>2 DEF TypeOK, TablesTypeOK, RunRow
    <3>6. \A p \in {q \in Operations : run[q].status = "COMPLETED"} : ChangeOf[p] # ChangeOf[o]
      BY <3>2 DEF PublicationInv, CompletedIsActivated
    <3> QED
      BY <3>2, <3>4, <3>5, <3>6 DEF Reader!Next, Reader!Switch
  <2> QED
    BY <2>1, <2>2, QuietOrActivates
<1> QED
  BY <1>1, <1>2, TypeCorrect, PublicationCorrect, PTL
     DEF Spec, ImplementsAtomicPublication, Reader!Spec
=============================================================================
