-------------------------- MODULE PublicationRunner --------------------------
(***************************************************************************)
(* PublicationRunner (publication/runner.py): the saga that stages a       *)
(* curated note in the vault, indexes it, moves it to its final path and   *)
(* only then switches the SQLite pointers.  A worker is one call of        *)
(* publish: it loads a context, acts on what it loaded, commits, loads     *)
(* again.  Between any two of its steps the process may die, another       *)
(* worker may run, and a person may edit the vault.                        *)
(***************************************************************************)
EXTENDS PublicationRepository, AtomicVaultPublisher, GenerationIndexer

CONSTANTS
  Workers,
  Assigned,      \* the operations each worker is asked to publish
  FaultPoints,   \* phases and pcs where the environment may make a step raise
  EditedNotes    \* notes whose final file a person may edit

PCs == {"idle", "planning", "load", "reload", "ready", "staged", "indexed",
        "resume", "replace", "moved", "verified", "activate", "failing"}

ASSUME WorkerAssumption ==
  /\ Assigned \in [Workers -> SUBSET Operations]
  /\ FaultPoints \subseteq PublicationRunStatus \cup PCs
  /\ EditedNotes \subseteq Notes

VARIABLES
  pc,          \* where each worker's publish call stands
  operation,   \* the operation it works on
  seen,        \* what it read and still relies on
  calm         \* the environment makes no step fail from here on

workers == <<pc, operation, seen>>
vars == <<tables, vault, vectors, workers, calm>>

Nothing == [kind |-> "nothing"]

(* What a worker carries from one of its steps to the next: the note read  *)
(* by _begin, the loaded context, the chosen resume target, the rows read  *)
(* for the activation.                                                     *)
ContextView ==
  [run : PublicationRunStatus \cup {Absent},
   job : IndexJobStatus \cup {Absent}, current : Operations \cup {None}]
ResumeView == [target : {"VAULT_PUBLISHED", "INDEX_VERIFIED", "VAULT_STAGED", "CURATING"}]
View ==
  {Nothing} \cup ContextView \cup ResumeView
  \cup [note : NoteRow, versions : SUBSET Operations]
  \cup [run : RunRow, note : NoteRow, version : CuratedVersionStatus \cup {Absent},
        job : IndexJobStatus \cup {Absent}, change : KnowledgeChangeStatus,
        generation : IndexGenerationStatus]

WorkersTypeOK ==
  /\ pc \in [Workers -> PCs]
  /\ operation \in [Workers -> Operations \cup {None}]
  /\ \A w \in Workers : pc[w] # "idle" => operation[w] \in Operations
  /\ seen \in [Workers -> View]
  /\ \A w \in Workers : pc[w] = "ready" => seen[w] \in ContextView
  /\ \A w \in Workers : pc[w] = "resume" => seen[w] \in ResumeView
  /\ calm \in BOOLEAN

Init ==
  /\ TablesInit /\ VaultInit /\ VectorsInit
  /\ pc = [w \in Workers |-> "idle"]
  /\ operation = [w \in Workers |-> None]
  /\ seen = [w \in Workers |-> Nothing]
  /\ calm = FALSE

-----------------------------------------------------------------------------
(* Moves of a worker.                                                      *)

Goto(w, label) ==
  /\ pc' = [pc EXCEPT ![w] = label]
  /\ seen' = [seen EXCEPT ![w] = Nothing]
  /\ UNCHANGED <<operation, calm>>

GotoWith(w, label, view) ==
  /\ pc' = [pc EXCEPT ![w] = label]
  /\ seen' = [seen EXCEPT ![w] = view]
  /\ UNCHANGED <<operation, calm>>

Return(w) ==
  /\ pc' = [pc EXCEPT ![w] = "idle"]
  /\ operation' = [operation EXCEPT ![w] = None]
  /\ seen' = [seen EXCEPT ![w] = Nothing]
  /\ UNCHANGED calm

(* The step raises: nothing it was about to write is written.              *)
Raise(w) == Goto(w, "failing") /\ UNCHANGED <<tables, vault, vectors>>

At(w, label) == pc[w] = label

(* The worker's context is loaded and dispatches on this run status.       *)
Ready(w, status) == At(w, "ready") /\ seen[w].run = status

-----------------------------------------------------------------------------
(* publish and _begin.                                                     *)

(* First unit of work of _begin for a new operation id: validate the       *)
(* request and read the note.  A refused request changes nothing.          *)
PlanPublication(w, o) ==
  /\ At(w, "idle") /\ o \in Assigned[w]
  /\ run[o].status = Absent
  /\ change[ChangeOf[o]] = "PUBLISH_INTENT"
  /\ generation[GenerationOf[o]] \in {"STAGING", "ACTIVE"}
  /\ pc' = [pc EXCEPT ![w] = "planning"]
  /\ operation' = [operation EXCEPT ![w] = o]
  /\ seen' = [seen EXCEPT ![w] =
       [note |-> note[NoteOf[o]], versions |-> VersionsOf(NoteOf[o])]]
  /\ UNCHANGED <<tables, vault, vectors, calm>>

(* An operation id that already has a run is resumed; Load reports one     *)
(* that is already completed.                                              *)
ResumePublication(w, o) ==
  /\ At(w, "idle") /\ o \in Assigned[w]
  /\ run[o].status # Absent
  /\ pc' = [pc EXCEPT ![w] = "load"]
  /\ operation' = [operation EXCEPT ![w] = o]
  /\ UNCHANGED <<seen, tables, vault, vectors, calm>>

(* Second unit of work of _begin, after the planner and the snapshot.      *)
BeginPublication(w) ==
  LET o == operation[w] IN
  /\ At(w, "planning")
  /\ \/ /\ run[o].status # Absent
        /\ Goto(w, "load")
        /\ UNCHANGED tables
     \/ /\ run[o].status = Absent
        /\ note[NoteOf[o]] = seen[w].note
        /\ CanAddPublication(o, seen[w].versions)
        /\ AddPublication(o)
        /\ Goto(w, "load")
        /\ UNCHANGED <<change, generation>>
     \/ /\ run[o].status = Absent
        /\ \/ note[NoteOf[o]] # seen[w].note
           \/ ~CanAddPublication(o, seen[w].versions)
        /\ Return(w)
        /\ UNCHANGED tables
  /\ UNCHANGED <<vault, vectors>>

Context(o) == [run |-> run[o].status, job |-> OwnJob(o), current |-> note[NoteOf[o]].current]

(* _load, and the loop condition: a completed run is reported.  A note     *)
(* that has been deleted is not found: inside the loop that fails the run, *)
(* while _begin is not inside the try of publish.                          *)
Load(w) ==
  LET o == operation[w] IN
  /\ pc[w] \in {"load", "reload"}
  /\ \/ IsLive(NoteOf[o]) /\ run[o].status = "COMPLETED" /\ Return(w)
     \/ IsLive(NoteOf[o]) /\ run[o].status # "COMPLETED" /\ GotoWith(w, "ready", Context(o))
     \/ ~IsLive(NoteOf[o]) /\ At(w, "reload") /\ Goto(w, "failing")
     \/ ~IsLive(NoteOf[o]) /\ At(w, "load") /\ Return(w)
  /\ UNCHANGED <<tables, vault, vectors>>

-----------------------------------------------------------------------------
(* The phases of the loop.                                                 *)

(* _transition_run: reread the run, require the transition, commit.        *)
CommitRun(w, target) ==
  /\ IF CanTransitionRun(operation[w], target)
     THEN TransitionRun(operation[w], target) /\ Goto(w, "reload")
     ELSE Goto(w, "failing") /\ UNCHANGED run
  /\ UNCHANGED <<change, note, version, job, generation, vault, vectors>>

StartCurating(w) == Ready(w, "PLANNING") /\ CommitRun(w, "CURATING")

StageVault(w) ==
  /\ Ready(w, "CURATING")
  /\ Stage(operation[w])
  /\ Goto(w, "staged")
  /\ UNCHANGED <<tables, final, archive, vectors>>

(* DRAFT -> VALIDATING -> STAGING in the same unit of work as the run.     *)
CommitStaged(w) ==
  LET o == operation[w] IN
  /\ At(w, "staged")
  /\ IF CanTransitionRun(o, "VAULT_STAGED")
     THEN /\ IF version[o] \in {"DRAFT", "VALIDATING"}
             THEN TransitionVersion(o, "STAGING") ELSE UNCHANGED version
          /\ TransitionRun(o, "VAULT_STAGED")
          /\ Goto(w, "reload")
     ELSE Goto(w, "failing") /\ UNCHANGED <<version, run>>
  /\ UNCHANGED <<change, note, job, generation, vault, vectors>>

\* mutant: a job that has failed is not reset
StartIndexingKeepingFailedJob(w) ==
  LET o == operation[w] IN
  /\ Ready(w, "VAULT_STAGED")
  /\ IF OwnJob(o) = "PENDING" THEN TransitionJob(o, GenerationOf[o], "INDEXING")
     ELSE UNCHANGED job
  /\ TransitionRun(o, "INDEXING")
  /\ Goto(w, "reload")
  /\ UNCHANGED <<change, note, version, generation, vault, vectors>>

StartIndexing(w) ==
  LET o == operation[w] IN
  /\ Ready(w, "VAULT_STAGED")
  /\ IF CanTransitionRun(o, "INDEXING")
     THEN /\ IF OwnJob(o) \in {"FAILED", "PENDING"}
             THEN TransitionJob(o, GenerationOf[o], "INDEXING") ELSE UNCHANGED job
          /\ TransitionRun(o, "INDEXING")
          /\ Goto(w, "reload")
     ELSE Goto(w, "failing") /\ UNCHANGED <<job, run>>
  /\ UNCHANGED <<change, note, version, generation, vault, vectors>>

Index(w) ==
  /\ Ready(w, "INDEXING")
  /\ IndexChunks(operation[w], GenerationOf[operation[w]])
  /\ Goto(w, "indexed")
  /\ UNCHANGED <<tables, vault>>

IndexRaises(w) ==
  /\ Ready(w, "INDEXING") /\ "INDEXING" \in FaultPoints
  /\ IndexChunksPartly(operation[w], GenerationOf[operation[w]])
  /\ Goto(w, "failing")
  /\ UNCHANGED <<tables, vault>>

(* A job another worker has meanwhile failed is left alone, yet the run    *)
(* still moves on.                                                         *)
FinishIndexing(w) ==
  LET o == operation[w] IN
  /\ At(w, "indexed")
  /\ IF CanTransitionRun(o, "INDEX_VERIFIED")
     THEN /\ IF OwnJob(o) = "INDEXING"
             THEN TransitionJob(o, GenerationOf[o], "INDEXED") ELSE UNCHANGED job
          /\ TransitionRun(o, "INDEX_VERIFIED")
          /\ Goto(w, "reload")
     ELSE Goto(w, "failing") /\ UNCHANGED <<job, run>>
  /\ UNCHANGED <<change, note, version, generation, vault, vectors>>

(* _publish_vault up to os.replace.  The expected current version is the   *)
(* one in the loaded context, not the one in the table now.                *)
CheckVault(w) ==
  LET o == operation[w]
      n == NoteOf[o]
      previous == seen[w].current
  IN
  /\ Ready(w, "INDEX_VERIFIED")
  /\ \/ /\ VerifiesFinal(n, o)
        /\ Goto(w, "moved")
        /\ UNCHANGED archive
     \/ /\ ~VerifiesFinal(n, o)
        /\ CanReplaceFinal(n, o, previous)
        /\ ArchiveReplaced(n, previous)
        /\ Goto(w, "replace")
     \/ /\ ~VerifiesFinal(n, o)
        /\ ~CanReplaceFinal(n, o, previous)
        /\ Goto(w, "failing")
        /\ UNCHANGED archive
  /\ UNCHANGED <<tables, staging, final, vectors>>

(* os.replace and the read-back of the final file.  The staged file may    *)
(* be gone: another worker moved it.                                       *)
ReplaceFinal(w) ==
  LET o == operation[w] IN
  /\ At(w, "replace")
  /\ IF VerifiesStaging(o)
     THEN MoveStagedToFinal(NoteOf[o], o) /\ Goto(w, "moved")
     ELSE Goto(w, "failing") /\ UNCHANGED <<staging, final>>
  /\ UNCHANGED <<tables, archive, vectors>>

\* mutant: the note points to the version as soon as its file is in place
CommitVaultPublishedAndPointer(w) ==
  LET o == operation[w] IN
  /\ At(w, "moved")
  /\ CanTransitionRun(o, "VAULT_PUBLISHED")
  /\ TransitionRun(o, "VAULT_PUBLISHED")
  /\ note' = [note EXCEPT ![NoteOf[o]].current = o,
                          ![NoteOf[o]].generation = GenerationOf[o]]
  /\ Goto(w, "reload")
  /\ UNCHANGED <<change, version, job, generation, vault, vectors>>

CommitVaultPublished(w) == At(w, "moved") /\ CommitRun(w, "VAULT_PUBLISHED")

StartActivating(w) == Ready(w, "VAULT_PUBLISHED") /\ CommitRun(w, "ACTIVATING")

(* _activate: verify the final file, read the rows the switch relies on,   *)
(* then switch.                                                            *)
VerifyActivation(w) ==
  /\ Ready(w, "ACTIVATING")
  /\ Goto(w, IF VerifiesFinal(NoteOf[operation[w]], operation[w])
             THEN "verified" ELSE "failing")
  /\ UNCHANGED <<tables, vault, vectors>>

ReadActivationRows(w) ==
  /\ At(w, "verified")
  /\ GotoWith(w, "activate", ActivationRows(operation[w]))
  /\ UNCHANGED <<tables, vault, vectors>>

Activate(w) ==
  LET o == operation[w] IN
  /\ At(w, "activate")
  /\ IF CanActivate(o, seen[w])
     THEN ActivatePublication(o, seen[w]) /\ Goto(w, "reload")
     ELSE Goto(w, "failing") /\ UNCHANGED tables
  /\ UNCHANGED <<vault, vectors>>

\* mutant: takes the staged file for granted
ResumeTargetUnstaged(w) ==
  LET o == operation[w] IN
  CASE VerifiesFinal(NoteOf[o], o) -> "VAULT_PUBLISHED"
    [] ~VerifiesFinal(NoteOf[o], o) /\ seen[w].job \in {"INDEXED", "ACTIVE_INDEXED"}
         -> "INDEX_VERIFIED"
    [] OTHER -> "VAULT_STAGED"

(* _resume_failed: the artifacts that still verify decide where to resume. *)
ResumeTarget(w) ==
  LET o == operation[w] IN
  CASE VerifiesFinal(NoteOf[o], o) -> "VAULT_PUBLISHED"
    [] ~VerifiesFinal(NoteOf[o], o) /\ seen[w].job \in {"INDEXED", "ACTIVE_INDEXED"}
         -> "INDEX_VERIFIED"
    [] OTHER -> IF VerifiesStaging(o) THEN "VAULT_STAGED" ELSE "CURATING"

ResumeFailed(w) ==
  /\ Ready(w, "FAILED")
  /\ GotoWith(w, "resume", [target |-> ResumeTarget(w)])
  /\ UNCHANGED <<tables, vault, vectors>>

CommitResumed(w) == At(w, "resume") /\ CommitRun(w, seen[w].target)

\* mutant: fails a run whatever its state
FailCompleted(w) ==
  LET o == operation[w] IN
  /\ At(w, "failing")
  /\ TransitionRun(o, "FAILED")
  /\ IF OwnJob(o) = "INDEXING"
     THEN TransitionJob(o, GenerationOf[o], "FAILED") ELSE UNCHANGED job
  /\ Return(w)
  /\ UNCHANGED <<change, note, version, generation, vault, vectors>>

(* The except branch of publish: _fail, then the exception leaves publish. *)
Fail(w) ==
  LET o == operation[w] IN
  /\ At(w, "failing")
  /\ IF run[o].status \notin {"COMPLETED", "FAILED"}
     THEN TransitionRun(o, "FAILED") ELSE UNCHANGED run
  /\ IF OwnJob(o) = "INDEXING"
     THEN TransitionJob(o, GenerationOf[o], "FAILED") ELSE UNCHANGED job
  /\ Return(w)
  /\ UNCHANGED <<change, note, version, generation, vault, vectors>>

-----------------------------------------------------------------------------
(* The environment.                                                        *)

(* A disk, database or index call of the step raises before it has any     *)
(* effect; IndexRaises is the one that may leave something behind.         *)
Fault(w) ==
  /\ \/ pc[w] = "ready" /\ seen[w].run \in FaultPoints
     \/ pc[w] \in FaultPoints \cap
          {"reload", "staged", "indexed", "resume", "replace", "moved", "verified", "activate"}
  /\ Raise(w)

(* The process dies or the call is cancelled, or _begin or _fail raises.   *)
Crash(w) ==
  /\ pc[w] # "idle"
  /\ Return(w)
  /\ UNCHANGED <<tables, vault, vectors>>

ManualEdit(n) ==
  /\ n \in EditedNotes /\ final[n] # ManualContent
  /\ final' = [final EXCEPT ![n] = ManualContent]
  /\ UNCHANGED <<tables, staging, archive, vectors, workers, calm>>

-----------------------------------------------------------------------------
Progress(w) ==
  \/ BeginPublication(w) \/ Load(w)
  \/ StartCurating(w) \/ StageVault(w) \/ CommitStaged(w)
  \/ StartIndexing(w) \/ Index(w) \/ FinishIndexing(w)
  \/ CheckVault(w) \/ ReplaceFinal(w) \/ CommitVaultPublished(w)
  \/ StartActivating(w) \/ VerifyActivation(w) \/ ReadActivationRows(w) \/ Activate(w)
  \/ ResumeFailed(w) \/ CommitResumed(w) \/ Fail(w)

Call(w) == \E o \in Operations : PlanPublication(w, o) \/ ResumePublication(w, o)

Disturb(w) == ~calm /\ (IndexRaises(w) \/ Fault(w) \/ Crash(w))

Next ==
  \/ \E w \in Workers : Progress(w) \/ Call(w) \/ Disturb(w)
  \/ \E n \in Notes : ManualEdit(n)

Spec == Init /\ [][Next]_vars

(* From some moment on the environment disturbs no step any more; only the *)
(* liveness properties are about such behaviours.                          *)
CalmDown ==
  /\ ~calm /\ calm' = TRUE
  /\ UNCHANGED <<tables, vault, vectors, workers>>

(* A call that has started keeps running; an operator reruns each          *)
(* unfinished operation.                                                   *)
Fairness ==
  /\ \A w \in Workers : WF_vars(Progress(w))
  /\ \A w \in Workers, o \in Operations :
       SF_vars(ResumePublication(w, o))

FairSpec == Init /\ [][Next \/ CalmDown]_vars /\ Fairness

-----------------------------------------------------------------------------
(* Properties.                                                             *)

(* Every table, file, vector row and worker field keeps its type.          *)
TypeOK == TablesTypeOK /\ VaultTypeOK /\ VectorsTypeOK /\ WorkersTypeOK

(* However publications to several generations interleave, at most one     *)
(* generation is ACTIVE: the switch supersedes the old one in the same     *)
(* unit of work (activate_publication).                                    *)
OneActiveGeneration ==
  \A g, h \in Generations :
    generation[g] = "ACTIVE" /\ generation[h] = "ACTIVE" => g = h

(* No half-published content is ever served: a version a note resolves to  *)
(* is the ACTIVE version of a completed run, its change is ACTIVE, its job *)
(* ACTIVE_INDEXED, and its whole chunk set is in the index, whichever      *)
(* worker failed, died or was overtaken on the way.                        *)
ServedIsPublished ==
  \A n \in Notes : LET v == ResolveCurrent(n) IN
    v # None =>
      /\ NoteOf[v] = n /\ note[n].generation = GenerationOf[v]
      /\ version[v] = "ACTIVE" /\ run[v].status = "COMPLETED"
      /\ change[ChangeOf[v]] = "ACTIVE"
      /\ OwnJob(v) = "ACTIVE_INDEXED" /\ Probed(v, GenerationOf[v])

(* A version is ACTIVE only while its note points to it, so a note never   *)
(* has two ACTIVE versions after any sequence of publications.             *)
ActiveVersionIsServed ==
  \A v \in Operations : version[v] = "ACTIVE" => ResolveCurrent(NoteOf[v]) = v

(* Exactly-once activation: a knowledge change is ACTIVE when exactly one  *)
(* operation that carries it has completed, although operations on two     *)
(* generations may race for the same change.                               *)
ChangeActivatedOnce ==
  \A c \in Changes :
    Cardinality({o \in Operations : ChangeOf[o] = c /\ run[o].status = "COMPLETED"})
      = IF change[c] = "ACTIVE" THEN 1 ELSE 0

(* The final file of a served note is the served version, a person's edit, *)
(* or the next version of a publication that is still to be activated; it  *)
(* is never missing and never a version that was superseded.               *)
FinalFileAccountedFor ==
  \A n \in Notes : LET v == ResolveCurrent(n) IN
    v # None =>
      \/ final[n] \in {v, ManualContent}
      \/ final[n] \in {o \in Operations : NoteOf[o] = n /\ run[o].status # "COMPLETED"}

(* A replaced version stays readable: once SUPERSEDED it is in the archive *)
(* (vault.py archives before os.replace).                                  *)
SupersededIsArchived ==
  \A v \in Operations : version[v] = "SUPERSEDED" => v \in archive

(* The inductive invariant the safety properties follow from.  A version   *)
(* becomes ACTIVE only together with the pointer, the run, the job and the *)
(* change, and the rows of a completed run are never written again except  *)
(* to supersede its version.                                               *)
PointersResolve ==
  \A n \in Notes : ResolveCurrent(n) = note[n].current

CompletedIsActivated ==
  \A o \in Operations :
    /\ run[o].status = "COMPLETED" <=> version[o] \in {"ACTIVE", "SUPERSEDED"}
    /\ run[o].status = "COMPLETED" =>
         OwnJob(o) = "ACTIVE_INDEXED" /\ change[ChangeOf[o]] = "ACTIVE"

ActiveChangeHasOneRun ==
  /\ \A c \in Changes : change[c] = "ACTIVE" =>
       \E o \in Operations : ChangeOf[o] = c /\ run[o].status = "COMPLETED"
  /\ \A o, p \in Operations :
       ChangeOf[o] = ChangeOf[p] /\ run[o].status = "COMPLETED" /\ run[p].status = "COMPLETED"
         => o = p

IndexedIsProbed ==
  /\ \A o \in Operations : OwnJob(o) \in {"INDEXED", "ACTIVE_INDEXED"} =>
       Probed(o, GenerationOf[o])
  /\ \A w \in Workers : pc[w] = "indexed" =>
       Probed(operation[w], GenerationOf[operation[w]])

PublicationInv ==
  /\ PointersResolve /\ ServedIsPublished /\ ActiveVersionIsServed
  /\ CompletedIsActivated /\ ActiveChangeHasOneRun /\ IndexedIsProbed
  /\ OneActiveGeneration

(* The index comes before the vault: content reaches a note's final path   *)
(* only when its job has been verified INDEXED.                            *)
IndexedBeforeVault ==
  \A n \in Notes : final[n] \in Operations =>
    OwnJob(final[n]) \in {"INDEXED", "ACTIVE_INDEXED"}

(* A version is switched to only while its file is at the final path,      *)
(* however the run was interrupted and resumed, unless a person replaced   *)
(* it in the meantime: _activate reads the file before its unit of work,   *)
(* so this holds for one worker at a time.                                 *)
SwitchedFileIsInPlace ==
  [][\A o \in Operations :
       run[o].status # "COMPLETED" /\ run'[o].status = "COMPLETED" =>
         final[NoteOf[o]] \in {o, ManualContent}]_vars

(* How calls are made: an operation is published by one call at a time; a  *)
(* note is.                                                                *)
OneCallPerOperation == \A w, x \in Workers : w # x => Assigned[w] \cap Assigned[x] = {}
OneCallPerNote ==
  \A w, x \in Workers : w # x =>
    \A o \in Assigned[w], p \in Assigned[x] : NoteOf[o] # NoteOf[p]

Built == {"INDEXED", "ACTIVE_INDEXED"}

(* The job of a run is as far as its status says.                          *)
JobKeepsUp(o) ==
  /\ OwnJob(o) = Absent <=> run[o].status = Absent
  /\ OwnJob(o) \notin {"DELETE_PENDING", "DELETED"}
  /\ run[o].status = "INDEXING" => OwnJob(o) \in {"INDEXING"} \cup Built
  /\ run[o].status \in {"INDEX_VERIFIED", "VAULT_PUBLISHED", "ACTIVATING"} => OwnJob(o) \in Built

(* What a call has read of its run still holds when it acts on it.         *)
CallAgrees(w) ==
  LET o == operation[w] IN
  ~At(w, "idle") =>
    /\ o \in Assigned[w]
    /\ ~At(w, "planning") => run[o].status # Absent
    /\ At(w, "ready") => seen[w].run = run[o].status /\ seen[w].job = OwnJob(o)
    /\ At(w, "indexed") => run[o].status = "INDEXING"
    /\ pc[w] \in {"replace", "moved"} => run[o].status = "INDEX_VERIFIED"
    /\ pc[w] \in {"verified", "activate"} => run[o].status = "ACTIVATING"
    /\ At(w, "resume") =>
         /\ run[o].status = "FAILED"
         /\ seen[w].target \in {"VAULT_PUBLISHED", "INDEX_VERIFIED"} => OwnJob(o) \in Built

(* The inductive invariant of the order of index and vault, for one call   *)
(* per operation.                                                          *)
OrderInv ==
  /\ TypeOK /\ PublicationInv /\ IndexedBeforeVault
  /\ \A o \in Operations : JobKeepsUp(o)
  /\ \A w \in Workers : CallAgrees(w)

CurrentIsKept(n) == note[n].current \in archive \cup {None}

(* Nor has another call touched the note, its file or its archive.         *)
CallHoldsNote(w) ==
  LET o == operation[w]
      n == NoteOf[o]
  IN  /\ At(w, "ready") => seen[w].current = note[n].current
      /\ At(w, "replace") => CurrentIsKept(n)
      /\ pc[w] \in {"verified", "activate"} => final[n] \in {o, ManualContent} /\ CurrentIsKept(n)

(* The inductive invariant of the files, for one call per note: where the  *)
(* next version lies, the current one is in the archive.                   *)
FilesInv ==
  /\ OrderInv /\ FinalFileAccountedFor /\ SupersededIsArchived
  /\ \A o \in Operations :
       final[NoteOf[o]] = o /\ run[o].status # "COMPLETED" => CurrentIsKept(NoteOf[o])
  /\ \A w \in Workers : CallHoldsNote(w)

(* A completed run is final: no late worker, failure or rerun of the same  *)
(* operation reopens it, fails it or touches its job again.                *)
CompletionIsFinal ==
  [][\A o \in Operations : run[o].status = "COMPLETED" =>
       run'[o] = run[o] /\ job'[o] = job[o]]_vars

(* Publication implements the atomic switch a reader is promised.          *)
Reader == INSTANCE AtomicPublication
  WITH served <- [n \in Notes |-> ResolveCurrent(n)],
       published <- {o \in Operations : run[o].status = "COMPLETED"}
ImplementsAtomicPublication == Reader!Spec

(* Once disturbances have ended, rerunning an operation that has begun     *)
(* completes it, wherever it was interrupted, unless a person edits the    *)
(* published file, which no later run overwrites.                          *)
RerunsComplete ==
  \A o \in Operations :
    (calm /\ run[o].status # Absent)
      ~> (run[o].status = "COMPLETED" \/ final[NoteOf[o]] = ManualContent)
=============================================================================
