------------------------ MODULE PublicationFiles_proofs ------------------------
(***************************************************************************)
(* Proofs about the files of publication, for any operations, notes, calls *)
(* and faults: the index comes before the vault when an operation has one  *)
(* call at a time, and no version is lost when a note has.                 *)
(***************************************************************************)
EXTENDS PublicationRunner_proofs

USE DEF Absent

-----------------------------------------------------------------------------
(* What a step of a call may touch: its own worker, and the run, the job,  *)
(* the note and the final file of its operation.                           *)

WorkerAlone(w, o) ==
  /\ \A x \in Workers \ {w} :
       pc'[x] = pc[x] /\ operation'[x] = operation[x] /\ seen'[x] = seen[x]
  /\ pc[w] # "idle" => operation[w] = o
  /\ pc'[w] # "idle" => operation'[w] = o

RowsAlone(o) ==
  /\ \A p \in Operations \ {o} : run'[p] = run[p] /\ job'[p] = job[p]
  /\ \A n \in Notes \ {NoteOf[o]} : note'[n].current = note[n].current /\ final'[n] = final[n]
  /\ archive \subseteq archive'

CallStep(w) == Progress(w) \/ Call(w) \/ Disturb(w)

LEMMA MovesAlone ==
  ASSUME TypeOK, NEW w \in Workers, NEW label, NEW view, pc[w] # "idle",
         Goto(w, label) \/ GotoWith(w, label, view) \/ Return(w)
  PROVE  WorkerAlone(w, operation[w])
BY DEF TypeOK, WorkersTypeOK, Goto, GotoWith, Return, WorkerAlone

LEMMA NothingTouched ==
  ASSUME UNCHANGED <<tables, final, archive>>, NEW o PROVE RowsAlone(o)
BY DEF tables, RowsAlone

LEMMA CommitsAlone ==
  ASSUME TypeOK, NEW w \in Workers, pc[w] # "idle", NEW target, CommitRun(w, target)
  PROVE  /\ WorkerAlone(w, operation[w]) /\ RowsAlone(operation[w])
         /\ UNCHANGED <<job, note, final, archive>>
         /\ \/ /\ CanTransitionRun(operation[w], target)
               /\ run'[operation[w]].status = target /\ pc'[w] = "reload"
            \/ run' = run /\ pc'[w] = "failing"
<1>1. operation[w] \in Operations /\ WorkerAlone(w, operation[w])
  BY MovesAlone DEF CommitRun, TypeOK, WorkersTypeOK
<1>2. UNCHANGED <<job, note, final, archive>>
  BY DEF CommitRun, vault
<1>3. RowsAlone(operation[w])
  BY <1>1, <1>2 DEF CommitRun, TransitionRun, RowsAlone, TypeOK, TablesTypeOK
<1>4. \/ /\ CanTransitionRun(operation[w], target)
         /\ run'[operation[w]].status = target /\ pc'[w] = "reload"
      \/ run' = run /\ pc'[w] = "failing"
  BY <1>1 DEF CommitRun, TransitionRun, Goto, TypeOK, TablesTypeOK, WorkersTypeOK
<1> QED
  BY <1>1, <1>2, <1>3, <1>4

-----------------------------------------------------------------------------
(* The order of index and vault.  What the step of a call does to its own  *)
(* run, job and file.                                                      *)

KeepsOrder(w, o) ==
  /\ JobKeepsUp(o)' /\ CallAgrees(w)'
  /\ OwnJob(o) \in Built => OwnJob(o)' \in Built
  /\ \/ final'[NoteOf[o]] = final[NoteOf[o]]
     \/ final'[NoteOf[o]] = o /\ OwnJob(o) \in Built

(* Steps that write no row of the run leave the order alone, whatever is   *)
(* called next, if the call still agrees with the tables.                  *)
LEMMA IdleKeepsOrder ==
  ASSUME NEW w \in Workers, NEW o \in Operations, JobKeepsUp(o),
         run'[o].status = run[o].status, job'[o] = job[o],
         final'[NoteOf[o]] = final[NoteOf[o]], CallAgrees(w)'
  PROVE  KeepsOrder(w, o)
BY DEF KeepsOrder, JobKeepsUp, OwnJob

LEMMA CommitKeepsOrder ==
  ASSUME TypeOK, NEW w \in Workers, pc[w] # "idle", NEW target, target # Absent,
         CommitRun(w, target), JobKeepsUp(operation[w]), CallAgrees(w),
         ~At(w, "planning"), target # "INDEXING",
         target \in {"INDEX_VERIFIED", "VAULT_PUBLISHED", "ACTIVATING"} =>
           OwnJob(operation[w]) \in Built
  PROVE  KeepsOrder(w, operation[w])
<1>1. PICK o : o = operation[w]
  OBVIOUS
<1>2. o \in Operations /\ o \in Assigned[w] /\ run[o].status # Absent
  BY <1>1 DEF CallAgrees, At, TypeOK, WorkersTypeOK
<1>3. /\ UNCHANGED <<job, note, final, archive>> /\ operation'[w] = o
      /\ \/ run'[o].status = target /\ pc'[w] = "reload"
         \/ run' = run /\ pc'[w] = "failing"
  BY <1>1, CommitsAlone DEF WorkerAlone
<1>4. CallAgrees(w)'
  BY <1>2, <1>3 DEF CallAgrees, At
<1>5. JobKeepsUp(o)'
  BY <1>1, <1>2, <1>3 DEF JobKeepsUp, OwnJob
<1> QED
  BY <1>1, <1>3, <1>4, <1>5 DEF KeepsOrder, OwnJob

(* Every step of a call, action by action.                                 *)
LEMMA CallKeepsOrder ==
  ASSUME TypeOK, IndexedBeforeVault, NEW w \in Workers, CallStep(w),
         \A o \in Operations : JobKeepsUp(o), CallAgrees(w)
  PROVE  \E o \in Assigned[w] : WorkerAlone(w, o) /\ RowsAlone(o) /\ KeepsOrder(w, o)
<1>a. Assigned[w] \subseteq Operations
  BY WorkerAssumption
<1>q. UNCHANGED <<tables, final, archive>> =>
        \A o \in Operations : RowsAlone(o) /\ (CallAgrees(w)' => KeepsOrder(w, o))
  BY NothingTouched, IdleKeepsOrder DEF tables
<1>1. CASE Call(w)
  <2>1. PICK o \in Operations : PlanPublication(w, o) \/ ResumePublication(w, o)
    BY <1>1 DEF Call
  <2>2. UNCHANGED <<tables, final, archive>> /\ o \in Assigned[w] /\ WorkerAlone(w, o)
    BY <2>1 DEF PlanPublication, ResumePublication, vault, At, WorkerAlone, TypeOK, WorkersTypeOK
  <2>3. CallAgrees(w)'
    BY <2>1, <2>2 DEF PlanPublication, ResumePublication, At, CallAgrees, tables, TypeOK, WorkersTypeOK
  <2> QED
    BY <2>2, <2>3, <1>a, <1>q
<1>2. ASSUME pc[w] # "idle", NEW o \in Operations, o = operation[w], Disturb(w) \/ Progress(w)
      PROVE  WorkerAlone(w, o) /\ RowsAlone(o) /\ KeepsOrder(w, o)
  <2>a. /\ o \in Assigned[w] /\ (~At(w, "planning") => run[o].status # Absent)
        /\ NoteOf[o] \in Notes /\ GenerationOf[o] \in Generations /\ JobKeepsUp(o)
    BY <1>2, RequestAssumption DEF CallAgrees, At
  <2>m. ASSUME NEW label, NEW view, Goto(w, label) \/ GotoWith(w, label, view) \/ Return(w)
        PROVE  WorkerAlone(w, o)
    BY <2>m, <1>2, MovesAlone
  <2>l. ASSUME NEW label, Goto(w, label) \/ Return(w)
        PROVE  pc'[w] \in {label, "idle"} /\ (pc'[w] = "idle" \/ operation'[w] = o)
    BY <2>l, <1>2 DEF Goto, Return, TypeOK, WorkersTypeOK
  <2>s. ASSUME UNCHANGED <<tables, final, archive>>, NEW label, Goto(w, label) \/ Return(w),
               label \in {"failing", "reload", "load", "staged"}, ~At(w, "planning")
        PROVE  RowsAlone(o) /\ KeepsOrder(w, o)
    <3>1. CallAgrees(w)'
      BY <2>s, <2>l, <2>a DEF CallAgrees, At, tables
    <3> QED
      BY <3>1, <2>s, <1>q
  <2>1. CASE Crash(w) \/ Fault(w)
    <3>1. UNCHANGED <<tables, final, archive>> /\ (Goto(w, "failing") \/ Return(w))
      BY <2>1 DEF Crash, Fault, Raise, vault
    <3>2. CallAgrees(w)'
      BY <3>1, <2>l, <2>a, <2>1 DEF CallAgrees, At, tables, Crash, Fault, Return, TypeOK, WorkersTypeOK
    <3> QED
      BY <3>1, <3>2, <2>m, <1>q
  <2>2. CASE IndexRaises(w)
    <3>1. UNCHANGED <<tables, final, archive>> /\ Goto(w, "failing") /\ At(w, "ready")
      BY <2>2 DEF IndexRaises, vault, Ready
    <3> QED
      BY <3>1, <2>m, <2>s DEF At
  <2>3. CASE BeginPublication(w)
    <3>1. UNCHANGED <<final, archive>> /\ At(w, "planning")
      BY <2>3 DEF BeginPublication, vault
    <3>2. CASE UNCHANGED tables
      <4>1. Return(w) \/ (Goto(w, "load") /\ run[o].status # Absent)
        <5>1. AddPublication(o) => run'[o].status = "PLANNING"
          BY DEF AddPublication, TypeOK, TablesTypeOK
        <5>2. ~(run[o].status = Absent /\ AddPublication(o))
          BY <5>1, <3>2 DEF tables
        <5>3. operation[w] = o
          BY <1>2
        <5>4. \/ run[o].status # Absent /\ Goto(w, "load")
              \/ run[o].status = Absent /\ AddPublication(o)
              \/ Return(w)
          BY <5>3, <2>3 DEF BeginPublication
        <5> QED
          BY <5>2, <5>4
      <4>2. CallAgrees(w)'
        BY <4>1, <2>l, <2>a, <3>2 DEF CallAgrees, At, tables
      <4> QED
        BY <4>1, <4>2, <3>1, <3>2, <2>m, <1>q
    <3>3. CASE run[o].status = Absent /\ AddPublication(o) /\ Goto(w, "load")
      <4>1. run'[o].status = "PLANNING" /\ OwnJob(o)' = "PENDING" /\ OwnJob(o) = Absent
        BY <3>3, <2>a DEF AddPublication, OwnJob, JobKeepsUp, TypeOK, TablesTypeOK
      <4>2. RowsAlone(o)
        BY <3>1, <3>3, <2>a DEF AddPublication, RowsAlone, TypeOK, TablesTypeOK
      <4>3. CallAgrees(w)' /\ JobKeepsUp(o)'
        BY <4>1, <3>3, <2>l, <2>a DEF CallAgrees, At, JobKeepsUp
      <4> QED
        BY <4>1, <4>2, <4>3, <3>1, <3>3, <2>m DEF KeepsOrder, Built
    <3> QED
      BY <2>3, <3>2, <3>3, <1>2 DEF BeginPublication, tables
  <2>4. CASE Load(w)
    <3>1. UNCHANGED <<tables, final, archive>> /\ ~At(w, "planning")
      BY <2>4 DEF Load, vault, At
    <3>2. CASE GotoWith(w, "ready", Context(o))
      <4>1. CallAgrees(w)'
        BY <3>1, <3>2, <2>a, <1>2
           DEF GotoWith, Context, CallAgrees, At, tables, OwnJob, TypeOK, WorkersTypeOK
      <4> QED
        BY <3>1, <3>2, <4>1, <2>m, <1>q
    <3>3. CASE Goto(w, "failing") \/ Return(w)
      BY <3>1, <3>3, <2>m, <2>s
    <3> QED
      BY <2>4, <3>2, <3>3, <1>2 DEF Load
  <2>5. CASE StartCurating(w)
    BY <2>5, <1>2, <2>a, CommitsAlone, CommitKeepsOrder DEF StartCurating, Ready, At
  <2>6. CASE StageVault(w)
    BY <2>6, <2>m, <2>s DEF StageVault, Ready, At
  <2>7. CASE CommitStaged(w)
    <3>1. /\ UNCHANGED <<job, note, final, archive>> /\ ~At(w, "planning")
          /\ \/ Goto(w, "failing") /\ run' = run
             \/ Goto(w, "reload") /\ TransitionRun(o, "VAULT_STAGED")
      BY <2>7, <1>2 DEF CommitStaged, vault, At
    <3>2. /\ run'[o].status \in {run[o].status, "VAULT_STAGED"}
          /\ \A p \in Operations \ {o} : run'[p] = run[p]
      BY <3>1 DEF TransitionRun, TypeOK, TablesTypeOK
    <3>3. CallAgrees(w)' /\ JobKeepsUp(o)'
      BY <3>1, <3>2, <2>l, <2>a DEF CallAgrees, At, JobKeepsUp, OwnJob
    <3> QED
      BY <3>1, <3>2, <3>3, <2>m DEF KeepsOrder, RowsAlone, OwnJob
  <2>8. CASE StartIndexing(w)
    <3>1. /\ UNCHANGED <<note, final, archive>> /\ ~At(w, "planning")
          /\ \/ Goto(w, "failing") /\ run' = run /\ job' = job
             \/ /\ Goto(w, "reload") /\ TransitionRun(o, "INDEXING")
                /\ \/ OwnJob(o) \in {"FAILED", "PENDING"} /\ TransitionJob(o, GenerationOf[o], "INDEXING")
                   \/ OwnJob(o) \notin {"FAILED", "PENDING"} /\ job' = job
      BY <2>8, <1>2 DEF StartIndexing, vault, At, Ready
    <3>2. /\ \/ run'[o].status = run[o].status /\ OwnJob(o)' = OwnJob(o)
             \/ /\ run'[o].status = "INDEXING"
                /\ \/ OwnJob(o)' = "INDEXING" /\ OwnJob(o) \in {"FAILED", "PENDING"}
                   \/ OwnJob(o)' = OwnJob(o) /\ OwnJob(o) \notin {"FAILED", "PENDING"}
          /\ \A p \in Operations \ {o} : run'[p] = run[p] /\ job'[p] = job[p]
      BY <3>1, <2>a DEF TransitionRun, TransitionJob, OwnJob, TypeOK, TablesTypeOK
    <3>3. OwnJob(o) \in {"PENDING", "INDEXING", "INDEXED", "ACTIVE_INDEXED", "FAILED"}
      BY <2>a, <3>1 DEF JobKeepsUp, OwnJob, TypeOK, TablesTypeOK, JobRow, IndexJobStatus
    <3>4. CallAgrees(w)' /\ JobKeepsUp(o)'
      BY <3>1, <3>2, <3>3, <2>l, <2>a DEF CallAgrees, At, JobKeepsUp, Built
    <3> QED
      BY <3>1, <3>2, <3>4, <2>m DEF KeepsOrder, RowsAlone, Built
  <2>9. CASE Index(w)
    <3>1. /\ UNCHANGED <<tables, final, archive>> /\ Goto(w, "indexed")
          /\ At(w, "ready") /\ seen[w].run = "INDEXING"
      BY <2>9 DEF Index, vault, Ready
    <3>2. CallAgrees(w)'
      BY <3>1, <2>l, <2>a, <1>2 DEF CallAgrees, At, tables
    <3> QED
      BY <3>1, <3>2, <2>m, <1>q
  <2>10. CASE FinishIndexing(w)
    <3>1. /\ UNCHANGED <<note, final, archive>> /\ At(w, "indexed")
          /\ \/ Goto(w, "failing") /\ run' = run /\ job' = job
             \/ /\ Goto(w, "reload") /\ TransitionRun(o, "INDEX_VERIFIED")
                /\ \/ OwnJob(o) = "INDEXING" /\ TransitionJob(o, GenerationOf[o], "INDEXED")
                   \/ OwnJob(o) # "INDEXING" /\ job' = job
      BY <2>10, <1>2 DEF FinishIndexing, vault
    <3>2. /\ \/ run'[o].status = run[o].status /\ OwnJob(o)' = OwnJob(o)
             \/ /\ run'[o].status = "INDEX_VERIFIED"
                /\ \/ OwnJob(o)' = "INDEXED"
                   \/ OwnJob(o)' = OwnJob(o) /\ OwnJob(o) # "INDEXING"
          /\ \A p \in Operations \ {o} : run'[p] = run[p] /\ job'[p] = job[p]
      BY <3>1, <2>a DEF TransitionRun, TransitionJob, OwnJob, TypeOK, TablesTypeOK
    <3>3. OwnJob(o) \in {"INDEXING"} \cup Built
      BY <3>1, <2>a, <1>2 DEF CallAgrees, At, JobKeepsUp
    <3>4. CallAgrees(w)' /\ JobKeepsUp(o)'
      BY <3>1, <3>2, <3>3, <2>l, <2>a DEF CallAgrees, At, JobKeepsUp, Built
    <3> QED
      BY <3>1, <3>2, <3>3, <3>4, <2>m DEF KeepsOrder, RowsAlone, Built
  <2>11. CASE CheckVault(w)
    <3>1. /\ UNCHANGED <<tables, final>> /\ archive \subseteq archive'
          /\ At(w, "ready") /\ seen[w].run = "INDEX_VERIFIED"
          /\ \E label \in {"moved", "replace", "failing"} : Goto(w, label)
      BY <2>11, <1>2 DEF CheckVault, ArchiveReplaced, Ready
    <3>2. CallAgrees(w)'
      BY <3>1, <2>l, <2>a, <1>2 DEF CallAgrees, At, tables
    <3>3. RowsAlone(o) /\ KeepsOrder(w, o)
      BY <3>1, <3>2, <2>a, IdleKeepsOrder DEF tables, RowsAlone
    <3> QED
      BY <3>1, <3>3, <2>m
  <2>12. CASE ReplaceFinal(w)
    <3>1. /\ UNCHANGED <<tables, archive>> /\ At(w, "replace")
          /\ \/ Goto(w, "moved") /\ final' = [final EXCEPT ![NoteOf[o]] = o]
             \/ Goto(w, "failing") /\ final' = final
      BY <2>12, <1>2 DEF ReplaceFinal, MoveStagedToFinal
    <3>2. CallAgrees(w)' /\ JobKeepsUp(o)' /\ OwnJob(o)' = OwnJob(o)
      BY <3>1, <2>l, <2>a, <1>2 DEF CallAgrees, At, tables, JobKeepsUp, OwnJob
    <3>3. OwnJob(o) \in Built
      BY <3>1, <2>a, <1>2 DEF CallAgrees, At, JobKeepsUp
    <3>4. RowsAlone(o)
      BY <3>1, <2>a DEF RowsAlone, tables, TypeOK, VaultTypeOK
    <3> QED
      BY <3>1, <3>2, <3>3, <3>4, <2>a, <2>m DEF KeepsOrder, TypeOK, VaultTypeOK
  <2>13. CASE CommitVaultPublished(w)
    <3>1. At(w, "moved") /\ CommitRun(w, "VAULT_PUBLISHED") /\ OwnJob(o) \in Built
      BY <2>13, <2>a, <1>2 DEF CommitVaultPublished, CallAgrees, At, JobKeepsUp
    <3> QED
      BY <3>1, <2>a, <1>2, CommitsAlone, CommitKeepsOrder DEF At
  <2>14. CASE StartActivating(w)
    <3>1. At(w, "ready") /\ CommitRun(w, "ACTIVATING") /\ OwnJob(o) \in Built
      BY <2>14, <2>a, <1>2 DEF StartActivating, Ready, CallAgrees, At, JobKeepsUp
    <3> QED
      BY <3>1, <2>a, <1>2, CommitsAlone, CommitKeepsOrder DEF At
  <2>15. CASE VerifyActivation(w)
    <3>1. /\ UNCHANGED <<tables, final, archive>>
          /\ At(w, "ready") /\ seen[w].run = "ACTIVATING"
          /\ \E label \in {"verified", "failing"} : Goto(w, label)
      BY <2>15 DEF VerifyActivation, vault, Ready
    <3>2. CallAgrees(w)'
      BY <3>1, <2>l, <2>a, <1>2 DEF CallAgrees, At, tables
    <3> QED
      BY <3>1, <3>2, <2>m, <1>q
  <2>16. CASE ReadActivationRows(w)
    <3>1. /\ UNCHANGED <<tables, final, archive>> /\ At(w, "verified")
          /\ GotoWith(w, "activate", ActivationRows(o))
      BY <2>16, <1>2 DEF ReadActivationRows, vault
    <3>2. pc'[w] = "activate" /\ operation'[w] = o
      BY <3>1, <1>2 DEF GotoWith, TypeOK, WorkersTypeOK
    <3>3. CallAgrees(w)'
      BY <3>1, <3>2, <2>a, <1>2 DEF CallAgrees, At, tables
    <3> QED
      BY <3>1, <3>3, <2>m, <1>q
  <2>17. CASE Activate(w)
    <3>1. CASE UNCHANGED tables /\ Goto(w, "failing")
      BY <2>17, <3>1, <2>m, <2>s DEF Activate, vault, At
    <3>2. CASE CanActivate(o, seen[w]) /\ ActivatePublication(o, seen[w]) /\ Goto(w, "reload")
      <4>1. /\ UNCHANGED <<final, archive>> /\ run'[o].status = "COMPLETED"
            /\ OwnJob(o)' = "ACTIVE_INDEXED"
            /\ \A p \in Operations \ {o} : run'[p] = run[p] /\ job'[p] = job[p]
            /\ \A n \in Notes \ {NoteOf[o]} : note'[n] = note[n]
        BY <2>17, <3>2, <2>a DEF Activate, vault, ActivatePublication, OwnJob, TypeOK, TablesTypeOK
      <4>2. CallAgrees(w)' /\ JobKeepsUp(o)'
        BY <3>2, <4>1, <2>l, <2>a DEF CallAgrees, At, JobKeepsUp
      <4> QED
        BY <3>2, <4>1, <4>2, <2>m DEF KeepsOrder, RowsAlone, Built
    <3> QED
      BY <2>17, <3>1, <3>2, <1>2 DEF Activate
  <2>18. CASE ResumeFailed(w)
    <3>1. /\ UNCHANGED <<tables, final, archive>>
          /\ At(w, "ready") /\ seen[w].run = "FAILED"
          /\ GotoWith(w, "resume", [target |-> ResumeTarget(w)])
      BY <2>18 DEF ResumeFailed, vault, Ready
    <3>2. pc'[w] = "resume" /\ operation'[w] = o /\ seen'[w].target = ResumeTarget(w)
      BY <3>1, <1>2 DEF GotoWith, TypeOK, WorkersTypeOK
    <3>3. final[NoteOf[o]] = o => OwnJob(o) \in Built
      BY <2>a DEF IndexedBeforeVault, Built
    <3>4. seen[w].job = OwnJob(o)
      BY <3>1, <1>2 DEF CallAgrees, At
    <3>5. ResumeTarget(w) \in {"VAULT_PUBLISHED", "INDEX_VERIFIED"} => OwnJob(o) \in Built
      <4>1. CASE final[NoteOf[o]] = o
        BY <4>1, <3>3
      <4>2. CASE final[NoteOf[o]] # o /\ seen[w].job \in {"INDEXED", "ACTIVE_INDEXED"}
        BY <4>2, <3>4 DEF Built
      <4>3. CASE final[NoteOf[o]] # o /\ seen[w].job \notin {"INDEXED", "ACTIVE_INDEXED"}
        BY <4>3, <1>2 DEF ResumeTarget, VerifiesFinal
      <4> QED
        BY <4>1, <4>2, <4>3
    <3>6. CallAgrees(w)'
      BY <3>1, <3>2, <3>5, <2>a, <1>2 DEF CallAgrees, At, tables, OwnJob
    <3> QED
      BY <3>1, <3>6, <2>m, <1>q
  <2>19. CASE CommitResumed(w)
    <3>1. /\ At(w, "resume") /\ CommitRun(w, seen[w].target)
          /\ seen[w].target \in {"VAULT_PUBLISHED", "INDEX_VERIFIED"} => OwnJob(o) \in Built
          /\ seen[w].target \in {"VAULT_PUBLISHED", "INDEX_VERIFIED", "VAULT_STAGED", "CURATING"}
      BY <2>19, <1>2 DEF CommitResumed, CallAgrees, At, TypeOK, WorkersTypeOK, ResumeView
    <3> QED
      BY <3>1, <2>a, <1>2, CommitsAlone, CommitKeepsOrder DEF At
  <2>20. CASE Fail(w)
    <3>1. /\ UNCHANGED <<note, final, archive>> /\ At(w, "failing") /\ Return(w)
          /\ \/ run[o].status \notin {"COMPLETED", "FAILED"} /\ TransitionRun(o, "FAILED")
             \/ run[o].status \in {"COMPLETED", "FAILED"} /\ run' = run
          /\ \/ OwnJob(o) = "INDEXING" /\ TransitionJob(o, GenerationOf[o], "FAILED")
             \/ OwnJob(o) # "INDEXING" /\ job' = job
      BY <2>20, <1>2 DEF Fail, vault
    <3>2. /\ run'[o].status \in {"COMPLETED", "FAILED"}
          /\ \/ OwnJob(o) = "INDEXING" /\ OwnJob(o)' = "FAILED"
             \/ OwnJob(o)' = OwnJob(o)
          /\ \A p \in Operations \ {o} : run'[p] = run[p] /\ job'[p] = job[p]
      BY <3>1, <2>a DEF TransitionRun, TransitionJob, OwnJob, TypeOK, TablesTypeOK
    <3>3. CallAgrees(w)' /\ JobKeepsUp(o)'
      BY <3>1, <3>2, <2>a, <1>2 DEF CallAgrees, At, JobKeepsUp, Return, TypeOK, WorkersTypeOK
    <3> QED
      BY <3>1, <3>2, <3>3, <2>m DEF KeepsOrder, RowsAlone, Built
  <2> QED
    BY <1>2, <2>1, <2>2, <2>3, <2>4, <2>5, <2>6, <2>7, <2>8, <2>9, <2>10, <2>11, <2>12, <2>13,
       <2>14, <2>15, <2>16, <2>17, <2>18, <2>19, <2>20 DEF Progress, Disturb
<1>3. CASE Disturb(w) \/ Progress(w)
  <2>1. pc[w] # "idle"
    BY <1>3 DEF Disturb, IndexRaises, Fault, Crash, Progress, At, Ready, BeginPublication, Load,
       StartCurating, StageVault, CommitStaged, StartIndexing, Index, FinishIndexing, CheckVault,
       ReplaceFinal, CommitVaultPublished, StartActivating, VerifyActivation, ReadActivationRows,
       Activate, ResumeFailed, CommitResumed, Fail
  <2>2. operation[w] \in Operations /\ operation[w] \in Assigned[w]
    BY <2>1 DEF TypeOK, WorkersTypeOK, CallAgrees, At
  <2> QED
    BY <2>1, <2>2, <1>3, <1>2
<1> QED
  BY <1>1, <1>3 DEF CallStep

(* Other calls have other operations, and agree with other rows.           *)
LEMMA OthersAgree ==
  ASSUME OneCallPerOperation, TypeOK, NEW w \in Workers, NEW o \in Assigned[w],
         WorkerAlone(w, o), RowsAlone(o), NEW x \in Workers, x # w, CallAgrees(x)
  PROVE  CallAgrees(x)'
<1>1. pc'[x] = pc[x] /\ operation'[x] = operation[x] /\ seen'[x] = seen[x]
  BY DEF WorkerAlone
<1>2. CASE pc[x] = "idle"
  BY <1>1, <1>2 DEF CallAgrees, At
<1>3. CASE pc[x] # "idle"
  <2>1. operation[x] \in Operations /\ operation[x] # o
    BY <1>3 DEF OneCallPerOperation, CallAgrees, At, TypeOK, WorkersTypeOK
  <2>2. run'[operation[x]] = run[operation[x]] /\ OwnJob(operation[x])' = job[operation[x]][GenerationOf[operation[x]]]
    BY <2>1, <1>1 DEF RowsAlone, OwnJob
  <2> QED
    BY <1>1, <2>2 DEF CallAgrees, At, OwnJob
<1> QED
  BY <1>2, <1>3

LEMMA OrderInitially == Init => OrderInv
<1> SUFFICES ASSUME Init PROVE OrderInv
  OBVIOUS
<1>1. TypeOK /\ PublicationInv
  BY TypeInitially, InvInitially
<1>2. IndexedBeforeVault
  BY RequestAssumption DEF Init, VaultInit, IndexedBeforeVault
<1>3. ASSUME NEW o \in Operations PROVE JobKeepsUp(o)
  BY RequestAssumption DEF Init, TablesInit, JobKeepsUp, OwnJob
<1>4. ASSUME NEW w \in Workers PROVE CallAgrees(w)
  BY DEF Init, CallAgrees, At
<1> QED
  BY <1>1, <1>2, <1>3, <1>4 DEF OrderInv

LEMMA OrderInductive ==
  ASSUME OneCallPerOperation PROVE OrderInv /\ [Next]_vars => OrderInv'
<1> SUFFICES ASSUME OrderInv, [Next]_vars PROVE OrderInv'
  OBVIOUS
<1>a. /\ TypeOK /\ PublicationInv /\ IndexedBeforeVault
      /\ \A o \in Operations : JobKeepsUp(o)
      /\ \A w \in Workers : CallAgrees(w)
  BY DEF OrderInv
<1>b. TypeOK' /\ PublicationInv'
  BY <1>a, TypeInductive, InvInductive
<1>1. CASE UNCHANGED <<tables, workers>> /\ \A n \in Notes : final'[n] \in {final[n], ManualContent}
  <2>1. \A o \in Operations : JobKeepsUp(o)'
    BY <1>1, <1>a DEF tables, JobKeepsUp, OwnJob
  <2>2. \A w \in Workers : CallAgrees(w)'
    BY <1>1, <1>a DEF tables, workers, CallAgrees, At, OwnJob
  <2>3. IndexedBeforeVault'
    BY <1>1, <1>a, VaultAssumption DEF tables, IndexedBeforeVault, OwnJob
  <2> QED
    BY <2>1, <2>2, <2>3, <1>b DEF OrderInv
<1>2. ASSUME NEW w \in Workers, CallStep(w) PROVE OrderInv'
  <2>1. PICK o \in Assigned[w] : WorkerAlone(w, o) /\ RowsAlone(o) /\ KeepsOrder(w, o)
    BY <1>2, <1>a, CallKeepsOrder
  <2>2. o \in Operations /\ NoteOf[o] \in Notes
    BY WorkerAssumption, RequestAssumption
  <2>3. \A x \in Workers : CallAgrees(x)'
    BY <2>1, <1>a, OthersAgree DEF KeepsOrder
  <2>4. ASSUME NEW p \in Operations
        PROVE  JobKeepsUp(p)' /\ (OwnJob(p) \in Built => OwnJob(p)' \in Built)
    <3>1. CASE p = o
      BY <3>1, <2>1 DEF KeepsOrder
    <3>2. CASE p # o
      BY <3>2, <2>1, <1>a DEF RowsAlone, JobKeepsUp, OwnJob
    <3> QED
      BY <3>1, <3>2
  <2>5. ASSUME NEW n \in Notes, final'[n] \in Operations PROVE OwnJob(final[n])' \in Built
    <3>1. PICK p \in Operations : p = final'[n]
      BY <2>5
    <3>2. CASE final'[n] = final[n]
      BY <3>1, <3>2, <2>4, <1>a DEF IndexedBeforeVault, Built, OwnJob
    <3>3. CASE final'[n] # final[n]
      <4>1. p = o /\ OwnJob(o) \in Built
        BY <3>1, <3>3, <2>1 DEF RowsAlone, KeepsOrder
      <4> QED
        BY <3>1, <4>1, <2>4 DEF OwnJob
    <3> QED
      BY <3>2, <3>3
  <2> QED
    BY <2>3, <2>4, <2>5, <1>b DEF OrderInv, IndexedBeforeVault, Built
<1>3. CASE UNCHANGED vars \/ \E n \in Notes : ManualEdit(n)
  BY <1>3, <1>1, <1>a DEF vars, vault, ManualEdit, TypeOK, VaultTypeOK
<1> QED
  BY <1>2, <1>3 DEF Next, CallStep

(* The index comes before the vault when no two calls are made for one     *)
(* operation, whichever notes they share (runner.py publish, _resume_failed). *)
THEOREM IndexComesFirst == OneCallPerOperation => (Spec => []IndexedBeforeVault)
<1> SUFFICES ASSUME OneCallPerOperation PROVE Spec => []IndexedBeforeVault
  OBVIOUS
<1>1. OrderInv => IndexedBeforeVault
  BY DEF OrderInv
<1> QED
  BY <1>1, OrderInitially, OrderInductive, PTL DEF Spec

-----------------------------------------------------------------------------
(* The files.  Where a call comes to rely on the note or on its file, and  *)
(* which steps write the final file or the archive.                        *)

LEMMA ArrivesElsewhere ==
  ASSUME TypeOK, NEW w \in Workers, NEW label, Goto(w, label) \/ Return(w)
  PROVE  pc'[w] \in {label, "idle"}
BY DEF Goto, Return, TypeOK, WorkersTypeOK

LEMMA CommitArrives ==
  ASSUME TypeOK, NEW w \in Workers, NEW target, CommitRun(w, target)
  PROVE  pc'[w] \in {"reload", "failing", "idle"} /\ UNCHANGED <<final, archive>>
BY ArrivesElsewhere DEF CommitRun, vault

Relying == {"ready", "replace", "verified", "activate"}

LEMMA Arrivals ==
  ASSUME TypeOK, NEW w \in Workers, CallStep(w)
  PROVE  \/ pc'[w] \notin Relying /\ UNCHANGED <<final, archive>>
         \/ Load(w) /\ pc'[w] = "ready"
         \/ CheckVault(w) \/ ReplaceFinal(w) \/ VerifyActivation(w) \/ ReadActivationRows(w)
<1> DEFINE Elsewhere == pc'[w] \notin Relying /\ UNCHANGED <<final, archive>>
<1>g. ASSUME UNCHANGED <<final, archive>>, NEW label, label \notin Relying,
             Goto(w, label) \/ Return(w)
      PROVE  Elsewhere
  BY <1>g, ArrivesElsewhere DEF Relying
<1>c. ASSUME NEW target, CommitRun(w, target) PROVE Elsewhere
  BY <1>c, CommitArrives DEF Relying
<1>1. CASE Call(w)
  BY <1>1 DEF Call, PlanPublication, ResumePublication, Relying, vault, TypeOK, WorkersTypeOK
<1>2. CASE Disturb(w)
  <2>1. UNCHANGED <<final, archive>> /\ (Goto(w, "failing") \/ Return(w))
    BY <1>2 DEF Disturb, Crash, Fault, Raise, IndexRaises, vault
  <2> QED
    BY <2>1, <1>g DEF Relying
<1>3. CASE Progress(w)
  <2>1. CASE StartCurating(w) \/ CommitVaultPublished(w) \/ StartActivating(w) \/ CommitResumed(w)
    BY <2>1, <1>c DEF StartCurating, CommitVaultPublished, StartActivating, CommitResumed
  <2>2. CASE BeginPublication(w)
    <3>1. UNCHANGED <<final, archive>> /\ (Goto(w, "load") \/ Return(w))
      BY <2>2 DEF BeginPublication, vault
    <3> QED
      BY <3>1, <1>g DEF Relying
  <2>3. CASE StageVault(w)
    <3>1. UNCHANGED <<final, archive>> /\ Goto(w, "staged")
      BY <2>3 DEF StageVault
    <3> QED
      BY <3>1, <1>g DEF Relying
  <2>4. CASE CommitStaged(w) \/ StartIndexing(w) \/ FinishIndexing(w) \/ Activate(w) \/ Fail(w)
    <3>1. /\ UNCHANGED <<final, archive>>
          /\ Goto(w, "reload") \/ Goto(w, "failing") \/ Return(w)
      BY <2>4 DEF CommitStaged, StartIndexing, FinishIndexing, Activate, Fail, vault
    <3> QED
      BY <3>1, <1>g DEF Relying
  <2>5. CASE Index(w)
    <3>1. UNCHANGED <<final, archive>> /\ Goto(w, "indexed")
      BY <2>5 DEF Index, vault
    <3> QED
      BY <3>1, <1>g DEF Relying
  <2>6. CASE ResumeFailed(w)
    BY <2>6 DEF ResumeFailed, GotoWith, vault, Relying, TypeOK, WorkersTypeOK
  <2>7. CASE Load(w)
    <3>1. UNCHANGED <<final, archive>>
      BY <2>7 DEF Load, vault
    <3>2. CASE GotoWith(w, "ready", Context(operation[w]))
      BY <2>7, <3>2 DEF GotoWith, TypeOK, WorkersTypeOK
    <3>3. CASE Goto(w, "failing") \/ Return(w)
      BY <3>1, <3>3, <1>g DEF Relying
    <3> QED
      BY <2>7, <3>2, <3>3 DEF Load
  <2> QED
    BY <1>3, <2>1, <2>2, <2>3, <2>4, <2>5, <2>6, <2>7 DEF Progress
<1> QED
  BY <1>1, <1>2, <1>3 DEF CallStep

(* A call on another note holds what it held.                              *)
LEMMA OthersHold ==
  ASSUME OneCallPerNote, TypeOK, NEW w \in Workers, NEW o \in Assigned[w],
         WorkerAlone(w, o), RowsAlone(o), NEW x \in Workers, x # w,
         CallAgrees(x), CallHoldsNote(x)
  PROVE  CallHoldsNote(x)'
<1>1. pc'[x] = pc[x] /\ operation'[x] = operation[x] /\ seen'[x] = seen[x]
  BY DEF WorkerAlone
<1>2. CASE pc[x] = "idle"
  BY <1>1, <1>2 DEF CallHoldsNote, At
<1>3. CASE pc[x] # "idle"
  <2>1. PICK n : n = NoteOf[operation[x]]
    OBVIOUS
  <2>2. n \in Notes /\ n # NoteOf[o]
    BY <1>3, <2>1, RequestAssumption DEF OneCallPerNote, CallAgrees, At, TypeOK, WorkersTypeOK
  <2>3. note'[n].current = note[n].current /\ final'[n] = final[n] /\ archive \subseteq archive'
    BY <2>2 DEF RowsAlone
  <2> QED
    BY <1>1, <2>1, <2>3 DEF CallHoldsNote, At, CurrentIsKept
<1> QED
  BY <1>2, <1>3

(* What a call comes to rely on is so.                                     *)
LEMMA OwnHolds ==
  ASSUME FilesInv, TypeOK', NEW w \in Workers, NEW o \in Operations, CallStep(w),
         WorkerAlone(w, o), RowsAlone(o), QuietTables
  PROVE  CallHoldsNote(w)'
<1>a. /\ TypeOK /\ CallAgrees(w) /\ CallHoldsNote(w) /\ PointersResolve
      /\ FinalFileAccountedFor /\ NoteOf[o] \in Notes
      /\ final[NoteOf[o]] = o /\ run[o].status # "COMPLETED" => CurrentIsKept(NoteOf[o])
  BY RequestAssumption DEF FilesInv, OrderInv, PublicationInv
<1>b. CurrentIsKept(NoteOf[o]) => CurrentIsKept(NoteOf[o])'
  BY <1>a DEF CurrentIsKept, QuietTables, RowsAlone
<1>o. pc[w] # "idle" => operation[w] = o
  BY DEF WorkerAlone
<1>p. pc'[w] # "idle" => operation'[w] = o
  BY DEF WorkerAlone
<1>1. CASE pc'[w] \notin Relying
  BY <1>1 DEF CallHoldsNote, Relying, At
<1>2. CASE Load(w) /\ pc'[w] = "ready"
  <2>1. GotoWith(w, "ready", Context(o)) /\ UNCHANGED tables
    BY <1>2, <1>a, <1>o, ArrivesElsewhere DEF Load, At
  <2> QED
    BY <2>1, <1>2, <1>a, <1>p DEF GotoWith, Context, CallHoldsNote, At, tables, TypeOK, WorkersTypeOK
<1>3. CASE CheckVault(w) /\ pc'[w] = "replace"
  <2>1. /\ At(w, "ready") /\ final[NoteOf[o]] # o
        /\ CanReplaceFinal(NoteOf[o], o, seen[w].current)
        /\ ArchiveReplaced(NoteOf[o], seen[w].current)
    BY <1>3, <1>a, <1>o, ArrivesElsewhere DEF CheckVault, Ready, At, VerifiesFinal
  <2>2. seen[w].current = note[NoteOf[o]].current
    BY <2>1, <1>a, <1>o DEF CallHoldsNote, At
  <2>3. ASSUME final[NoteOf[o]] # None PROVE CurrentIsKept(NoteOf[o])'
    BY <2>1, <2>2, <2>3, <1>a DEF CanReplaceFinal, VerifiesFinal, ArchiveReplaced, CurrentIsKept, QuietTables
  <2>4. ASSUME final[NoteOf[o]] = None PROVE CurrentIsKept(NoteOf[o])'
    <3>1. note[NoteOf[o]].current = None
      BY <2>4, <1>a, RequestAssumption, VaultAssumption DEF FinalFileAccountedFor, PointersResolve
    <3> QED
      BY <3>1, <1>a DEF CurrentIsKept, QuietTables
  <2>5. CurrentIsKept(NoteOf[o])'
    BY <2>3, <2>4
  <2> QED
    BY <2>5, <1>3, <1>p DEF CallHoldsNote, At, CurrentIsKept
<1>4. CASE VerifyActivation(w) /\ pc'[w] = "verified"
  <2>1. At(w, "ready") /\ final[NoteOf[o]] = o /\ final' = final /\ seen[w].run = "ACTIVATING"
    BY <1>4, <1>a, <1>o, ArrivesElsewhere DEF VerifyActivation, Ready, At, VerifiesFinal, vault
  <2>2. CurrentIsKept(NoteOf[o])'
    BY <2>1, <1>a, <1>b, <1>o DEF CallAgrees, At
  <2> QED
    BY <2>1, <2>2, <1>4, <1>p DEF CallHoldsNote, At, CurrentIsKept
<1>5. CASE ReadActivationRows(w)
  <2>1. At(w, "verified") /\ final' = final /\ pc'[w] = "activate"
    BY <1>5, <1>a DEF ReadActivationRows, GotoWith, vault, TypeOK, WorkersTypeOK
  <2>2. final[NoteOf[o]] \in {o, ManualContent} /\ CurrentIsKept(NoteOf[o])
    BY <2>1, <1>a, <1>o DEF CallHoldsNote, At
  <2> QED
    BY <2>1, <2>2, <1>b, <1>p DEF CallHoldsNote, At, CurrentIsKept
<1>6. CASE CheckVault(w) /\ pc'[w] # "replace"
  BY <1>6, <1>1, <1>a, ArrivesElsewhere DEF CheckVault, Relying
<1>7. CASE VerifyActivation(w) /\ pc'[w] # "verified"
  BY <1>7, <1>1, <1>a, ArrivesElsewhere DEF VerifyActivation, Relying
<1>8. CASE ReplaceFinal(w)
  BY <1>8, <1>1, <1>a, ArrivesElsewhere DEF ReplaceFinal, Relying
<1> QED
  BY <1>1, <1>2, <1>3, <1>4, <1>5, <1>6, <1>7, <1>8, <1>a, Arrivals

-----------------------------------------------------------------------------
(* The invariant of the files, for one call per note.                      *)

LEMMA NotesBoundOperations == OneCallPerNote => OneCallPerOperation
BY DEF OneCallPerNote, OneCallPerOperation

NextIsBacked(o) ==
  final[NoteOf[o]] = o /\ run[o].status # "COMPLETED" => CurrentIsKept(NoteOf[o])

LEMMA FilesByParts ==
  FilesInv <=> /\ OrderInv /\ FinalFileAccountedFor /\ SupersededIsArchived
               /\ \A o \in Operations : NextIsBacked(o)
               /\ \A w \in Workers : CallHoldsNote(w)
BY DEF FilesInv, NextIsBacked

LEMMA FilesInitially == Init => FilesInv
<1> SUFFICES ASSUME Init PROVE FilesInv
  OBVIOUS
<1>1. FinalFileAccountedFor /\ SupersededIsArchived
  BY DEF Init, TablesInit, NoNote, ResolveCurrent, IsLive, FinalFileAccountedFor, SupersededIsArchived
<1>2. \A o \in Operations : final[NoteOf[o]] # o
  BY RequestAssumption DEF Init, VaultInit
<1>3. ASSUME NEW w \in Workers PROVE CallHoldsNote(w)
  BY DEF Init, CallHoldsNote, At
<1> QED
  BY <1>1, <1>2, <1>3, OrderInitially DEF FilesInv

(* A step that leaves the pointers alone: the final file stays, becomes a  *)
(* person's, or is replaced by the next version, with the current one in   *)
(* the archive.                                                            *)
LEMMA QuietKeepsFiles ==
  ASSUME FilesInv, QuietTables, archive \subseteq archive', final' \in [Notes -> Operations \cup {None, ManualContent}],
         \A n \in Notes :
           \/ final'[n] \in {final[n], ManualContent}
           \/ /\ final'[n] \in Operations /\ NoteOf[final'[n]] = n
              /\ run[final'[n]].status # "COMPLETED" /\ CurrentIsKept(n)
  PROVE  /\ FinalFileAccountedFor' /\ SupersededIsArchived'
         /\ \A o \in Operations : NextIsBacked(o)'
<1>a. FinalFileAccountedFor /\ SupersededIsArchived /\ \A o \in Operations : NextIsBacked(o)
  BY FilesByParts
<1>b. \A n \in Notes : CurrentIsKept(n) => CurrentIsKept(n)'
  BY DEF CurrentIsKept, QuietTables
<1>1. ASSUME NEW n \in Notes, ResolveCurrent(n)' # None
      PROVE  \/ final'[n] \in {ResolveCurrent(n)', ManualContent}
             \/ final'[n] \in {o \in Operations : NoteOf[o] = n /\ run'[o].status # "COMPLETED"}
  <2>1. PICK v : v = ResolveCurrent(n)
    OBVIOUS
  <2>2. ResolveCurrent(n)' = v /\ v # None
    BY <1>1, <2>1 DEF QuietTables
  <2>3. \/ final[n] \in {v, ManualContent}
        \/ final[n] \in {o \in Operations : NoteOf[o] = n /\ run[o].status # "COMPLETED"}
    BY <2>1, <2>2, <1>a DEF FinalFileAccountedFor
  <2>4. \/ final'[n] \in {v, ManualContent}
        \/ final'[n] \in {o \in Operations : NoteOf[o] = n /\ run[o].status # "COMPLETED"}
    BY <2>3
  <2> QED
    BY <2>2, <2>4 DEF QuietTables
<1>2. FinalFileAccountedFor'
  BY <1>1 DEF FinalFileAccountedFor
<1>3. SupersededIsArchived'
  BY <1>a DEF SupersededIsArchived, QuietTables, Switched
<1>4. ASSUME NEW o \in Operations, final'[NoteOf[o]] = o, run'[o].status # "COMPLETED"
      PROVE  CurrentIsKept(NoteOf[o])'
  <2>1. NoteOf[o] \in Notes /\ o # ManualContent /\ run[o].status # "COMPLETED"
    BY <1>4, RequestAssumption, VaultAssumption DEF QuietTables
  <2>2. CurrentIsKept(NoteOf[o])
    BY <2>1, <1>4, <1>a DEF NextIsBacked
  <2> QED
    BY <2>1, <2>2, <1>b
<1> QED
  BY <1>2, <1>3, <1>4 DEF NextIsBacked

(* The switch: the file of the new version is in place and the replaced    *)
(* version in the archive, because the call still holds its note.          *)
LEMMA ActivationKeepsFiles ==
  ASSUME FilesInv, NEW w \in Workers, Activates(w)
  PROVE  /\ FinalFileAccountedFor' /\ SupersededIsArchived'
         /\ \A o \in Operations : NextIsBacked(o)'
<1>a. /\ TypeOK /\ PointersResolve /\ CallHoldsNote(w) /\ FinalFileAccountedFor
      /\ SupersededIsArchived /\ \A o \in Operations : NextIsBacked(o)
  BY FilesByParts DEF OrderInv, PublicationInv
<1>1a. operation[w] \in Operations
  BY <1>a DEF Activates, At, TypeOK, WorkersTypeOK
<1>1b. Activation(operation[w])
  BY DEF Activates, Goto, CanActivate, RowsUnchanged, ActivationRows, ActivatePublication,
     IsLive, Activation, ReplacedVersions
<1>o. PICK o \in Operations : o = operation[w] /\ Activation(o)
  BY <1>1a, <1>1b
<1>n. PICK n \in Notes : n = NoteOf[o]
  BY RequestAssumption
<1>1. final[n] \in {o, ManualContent} /\ CurrentIsKept(n) /\ UNCHANGED <<final, archive>>
  BY <1>o, <1>n, <1>a DEF Activates, At, CallHoldsNote, vault
<1>2. /\ note'[n] = [state |-> "live", current |-> o, generation |-> GenerationOf[o]]
      /\ \A m \in Notes \ {n} : note'[m] = note[m]
      /\ run'[o].status = "COMPLETED" /\ \A p \in Operations \ {o} : run'[p] = run[p]
      /\ \A v \in Operations : version'[v] = "SUPERSEDED" =>
           version[v] = "SUPERSEDED" \/ v = note[n].current
  BY <1>o, <1>n, <1>a DEF Activation, TypeOK, TablesTypeOK
<1>3. ASSUME NEW m \in Notes, ResolveCurrent(m)' # None
      PROVE  \/ final'[m] \in {ResolveCurrent(m)', ManualContent}
             \/ final'[m] \in {p \in Operations : NoteOf[p] = m /\ run'[p].status # "COMPLETED"}
  <2>1. CASE m = n
    <3>1. ResolveCurrent(n)' = o
      BY <1>2, <1>n, RequestAssumption DEF ResolveCurrent, IsLive
    <3> QED
      BY <2>1, <3>1, <1>1
  <2>2. CASE m # n
    <3>1. PICK v : v = ResolveCurrent(m)
      OBVIOUS
    <3>2. ResolveCurrent(m)' = v /\ v # None
      BY <1>2, <1>3, <2>2, <3>1 DEF ResolveCurrent, IsLive
    <3>3. \/ final[m] \in {v, ManualContent}
          \/ final[m] \in {p \in Operations : NoteOf[p] = m /\ run[p].status # "COMPLETED"}
      BY <3>1, <3>2, <1>a DEF FinalFileAccountedFor
    <3> QED
      BY <3>2, <3>3, <2>2, <1>1, <1>2, <1>n
  <2> QED
    BY <2>1, <2>2
<1>4. FinalFileAccountedFor'
  BY <1>3 DEF FinalFileAccountedFor
<1>5. SupersededIsArchived'
  BY <1>1, <1>2, <1>a, RequestAssumption DEF SupersededIsArchived, CurrentIsKept
<1>6. ASSUME NEW p \in Operations, final'[NoteOf[p]] = p, run'[p].status # "COMPLETED"
      PROVE  CurrentIsKept(NoteOf[p])'
  <2>1. NoteOf[p] \in Notes /\ p # o /\ NoteOf[p] # n
    BY <1>1, <1>2, <1>6, <1>n, RequestAssumption, VaultAssumption
  <2>2. CurrentIsKept(NoteOf[p])
    BY <2>1, <1>1, <1>2, <1>6, <1>a DEF NextIsBacked
  <2> QED
    BY <2>1, <2>2, <1>1, <1>2 DEF CurrentIsKept
<1> QED
  BY <1>4, <1>5, <1>6 DEF NextIsBacked

LEMMA FilesInductive ==
  ASSUME OneCallPerNote PROVE FilesInv /\ [Next]_vars => FilesInv'
<1> SUFFICES ASSUME FilesInv, [Next]_vars PROVE FilesInv'
  OBVIOUS
<1>a. /\ OrderInv /\ TypeOK /\ PublicationInv
      /\ \A w \in Workers : CallAgrees(w) /\ CallHoldsNote(w)
      /\ \A o \in Operations : NextIsBacked(o) /\ JobKeepsUp(o)
  BY FilesByParts DEF OrderInv
<1>b. OrderInv' /\ TypeOK'
  BY <1>a, OrderInductive, NotesBoundOperations, TypeInductive
<1>p. (OrderInv /\ FinalFileAccountedFor /\ SupersededIsArchived
        /\ (\A o \in Operations : NextIsBacked(o)) /\ (\A w \in Workers : CallHoldsNote(w)))'
      => FilesInv'
  BY FilesByParts, PTL
<1>1. CASE UNCHANGED vars \/ \E n \in Notes : ManualEdit(n)
  <2>1. /\ UNCHANGED <<tables, workers, archive>> /\ final' \in [Notes -> Operations \cup {None, ManualContent}]
        /\ \A n \in Notes : final'[n] \in {final[n], ManualContent}
    BY <1>1, <1>a, <1>b DEF vars, vault, ManualEdit, TypeOK, VaultTypeOK
  <2>2. /\ FinalFileAccountedFor' /\ SupersededIsArchived'
        /\ \A o \in Operations : NextIsBacked(o)'
    BY <2>1, UnchangedTablesQuiet, QuietKeepsFiles
  <2>3. ASSUME NEW w \in Workers PROVE CallHoldsNote(w)'
    BY <2>1, <1>a, RequestAssumption
       DEF CallHoldsNote, CurrentIsKept, tables, workers, At, TypeOK, WorkersTypeOK, PCs
  <2> QED
    BY <2>2, <2>3, <1>b, <1>p
<1>2. ASSUME NEW w \in Workers, CallStep(w) PROVE FilesInv'
  <2>1. PICK o \in Assigned[w] : WorkerAlone(w, o) /\ RowsAlone(o)
    BY <1>2, <1>a, CallKeepsOrder DEF OrderInv
  <2>2. o \in Operations /\ NoteOf[o] \in Notes
    BY WorkerAssumption, RequestAssumption
  <2>3. \A x \in Workers \ {w} : CallHoldsNote(x)'
    BY <2>1, <1>a, OthersHold
  <2>4. ASSUME NEW x \in Workers, Activates(x) PROVE FilesInv'
    <3>1. pc[x] = "activate" /\ pc'[x] = "reload"
      BY <2>4, <1>a DEF Activates, At, Goto, TypeOK, WorkersTypeOK
    <3>2. x = w
      BY <3>1, <2>1 DEF WorkerAlone
    <3>3. CallHoldsNote(w)'
      BY <3>1, <3>2 DEF CallHoldsNote, At
    <3> QED
      BY <2>3, <2>4, <3>3, <1>b, <1>p, ActivationKeepsFiles
  <2>5. CASE QuietTables
    <3>1. CallHoldsNote(w)'
      BY <2>5, <2>1, <2>2, <1>2, <1>b, OwnHolds
    <3>2. ASSUME NEW n \in Notes
          PROVE  \/ final'[n] \in {final[n], ManualContent}
                 \/ /\ final'[n] \in Operations /\ NoteOf[final'[n]] = n
                    /\ run[final'[n]].status # "COMPLETED" /\ CurrentIsKept(n)
      <4>1. CASE ReplaceFinal(w)
        <5>1. At(w, "replace") /\ operation[w] = o /\ final' \in {final, [final EXCEPT ![NoteOf[o]] = o]}
          BY <4>1, <2>1 DEF ReplaceFinal, MoveStagedToFinal, At, WorkerAlone
        <5>2. run[o].status = "INDEX_VERIFIED" /\ CurrentIsKept(NoteOf[o])
          BY <5>1, <1>a DEF CallAgrees, CallHoldsNote, At
        <5> QED
          BY <5>1, <5>2, <2>2, <1>a DEF TypeOK, VaultTypeOK
      <4>2. CASE ~ReplaceFinal(w)
        BY <4>2, <1>2, <1>a, Arrivals DEF Load, CheckVault, VerifyActivation, ReadActivationRows, vault
      <4> QED
        BY <4>1, <4>2
    <3>3. archive \subseteq archive' /\ final' \in [Notes -> Operations \cup {None, ManualContent}]
      BY <2>1, <1>b DEF RowsAlone, TypeOK, VaultTypeOK
    <3>4. /\ FinalFileAccountedFor' /\ SupersededIsArchived'
          /\ \A p \in Operations : NextIsBacked(p)'
      BY <2>5, <3>2, <3>3, QuietKeepsFiles
    <3> QED
      BY <3>1, <3>4, <2>3, <1>b, <1>p
  <2> QED
    BY <2>4, <2>5, <1>a, QuietOrActivates
<1> QED
  BY <1>1, <1>2 DEF Next, CallStep

(* The invariant of the files holds of every publication, whatever fails,  *)
(* dies or is edited, when a note is published by one call at a time       *)
(* (runner.py publish).                                                    *)
THEOREM FilesCorrect == OneCallPerNote => (Spec => []FilesInv)
<1> SUFFICES ASSUME OneCallPerNote PROVE Spec => []FilesInv
  OBVIOUS
<1> QED
  BY FilesInitially, FilesInductive, PTL DEF Spec

(* What lies at the final path of a served note is the served version, a   *)
(* person's edit or the version that is about to be switched to            *)
(* (runner.py _publish_vault, _activate).                                  *)
THEOREM FinalFilesAreAccountedFor == OneCallPerNote => (Spec => []FinalFileAccountedFor)
<1> SUFFICES ASSUME OneCallPerNote PROVE Spec => []FinalFileAccountedFor
  OBVIOUS
<1>1. FilesInv => FinalFileAccountedFor
  BY DEF FilesInv
<1> QED
  BY <1>1, FilesCorrect, PTL

(* No version that was served is lost: a superseded one is in the archive  *)
(* (vault.py publish).                                                     *)
THEOREM SupersededVersionsAreArchived == OneCallPerNote => (Spec => []SupersededIsArchived)
<1> SUFFICES ASSUME OneCallPerNote PROVE Spec => []SupersededIsArchived
  OBVIOUS
<1>1. FilesInv => SupersededIsArchived
  BY DEF FilesInv
<1> QED
  BY <1>1, FilesCorrect, PTL

(* A version is switched to while its file is in place, or a person's      *)
(* (runner.py _activate).                                                  *)
THEOREM SwitchedFilesAreInPlace == OneCallPerNote => (Spec => SwitchedFileIsInPlace)
<1> SUFFICES ASSUME OneCallPerNote PROVE Spec => SwitchedFileIsInPlace
  OBVIOUS
<1>1. FilesInv /\ [Next]_vars =>
        [\A o \in Operations :
           run[o].status # "COMPLETED" /\ run'[o].status = "COMPLETED" =>
             final[NoteOf[o]] \in {o, ManualContent}]_vars
  <2> SUFFICES ASSUME FilesInv, [Next]_vars, NEW p \in Operations,
                      run[p].status # "COMPLETED", run'[p].status = "COMPLETED"
               PROVE  final[NoteOf[p]] \in {p, ManualContent}
    OBVIOUS
  <2>a. TypeOK /\ PublicationInv /\ \A w \in Workers : CallHoldsNote(w)
    BY DEF FilesInv, OrderInv
  <2>1. PICK w \in Workers : Activates(w)
    BY <2>a, QuietOrActivates DEF QuietTables
  <2>2. At(w, "activate") /\ operation[w] \in Operations
    BY <2>1, <2>a DEF Activates, At, TypeOK, WorkersTypeOK
  <2>3. p = operation[w]
    BY <2>1, <2>2, <2>a DEF Activates, ActivatePublication, TypeOK, TablesTypeOK
  <2> QED
    BY <2>2, <2>3, <2>a DEF CallHoldsNote, At
<1> QED
  BY <1>1, FilesCorrect, PTL DEF Spec, SwitchedFileIsInPlace
=============================================================================
