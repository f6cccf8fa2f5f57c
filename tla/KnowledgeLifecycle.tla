-------------------------- MODULE KnowledgeLifecycle --------------------------
(***************************************************************************)
(* Publication, note lifecycle and generation lifecycle over one set of    *)
(* control tables, one vault and one index.  The three services share no   *)
(* lock; only the revision checks of the repository and the hash checks of *)
(* the vault stand between them.                                           *)
(*                                                                         *)
(* Bounds: publication steps do not fail here (PublicationRunner is where  *)
(* they do), and no operation is begun on the path of a deleted note,      *)
(* which would create a second note there.                                 *)
(***************************************************************************)
EXTENDS PublicationRunner, NoteLifecycle, GenerationLifecycle

allVars == <<vars, trash, lifecycle, migration>>

LifecycleInitially ==
  Init /\ trash = {} /\ LifecycleInit /\ MigrationInit

-----------------------------------------------------------------------------
PublishStep(w) ==
  /\ \/ Progress(w)
     \/ \E o \in Operations :
          \/ note[NoteOf[o]].state # "deleted" /\ PlanPublication(w, o)
          \/ ResumePublication(w, o)
  /\ UNCHANGED <<trash, lifecycle, migration>>

OutsideNotes == <<change, version, run, generation, staging, archive, workers, calm, migration>>

NoteProgressStep(s) == NoteProgress(s) /\ UNCHANGED OutsideNotes
NoteCallStep(s, n) == NoteCall(s, n) /\ UNCHANGED OutsideNotes
NoteDisturbStep(s) == ~calm /\ NoteDisturb(s) /\ UNCHANGED OutsideNotes

OutsideGenerations == <<change, version, run, vault, trash, workers, calm, lifecycle>>

GenerationProgressStep(m) == GenerationProgress(m) /\ UNCHANGED OutsideGenerations
GenerationCallStep(m, g) == GenerationCall(m, g) /\ UNCHANGED OutsideGenerations
GenerationDisturbStep(m) == ~calm /\ GenerationDisturb(m) /\ UNCHANGED OutsideGenerations

LifecycleNext ==
  \/ \E w \in Workers : PublishStep(w)
  \/ \E s \in NoteWorkers : NoteProgressStep(s) \/ NoteDisturbStep(s)
  \/ \E s \in NoteWorkers, n \in Notes : NoteCallStep(s, n)
  \/ \E m \in GenerationWorkers : GenerationProgressStep(m) \/ GenerationDisturbStep(m)
  \/ \E m \in GenerationWorkers, g \in Generations : GenerationCallStep(m, g)

LifecycleSpec == LifecycleInitially /\ [][LifecycleNext]_allVars

LifecycleCalmDown == CalmDown /\ UNCHANGED <<trash, lifecycle, migration>>

-----------------------------------------------------------------------------
(* Properties.                                                             *)

(* The variables keep their types through all three services.              *)
LifecycleTypesOK == TypeOK /\ TrashTypeOK /\ LifecycleTypeOK /\ MigrationTypeOK

Served(n) == IsLive(n) /\ IsPublished(n)

(* Whatever deletion, restoration, rebuild, promotion, rollback and        *)
(* publication have done to it, a served note resolves to an ACTIVE        *)
(* version of its own whose index job, in the generation the note points   *)
(* to, is ACTIVE_INDEXED: no service moves one of the two rows alone.      *)
ServedJobIsActive ==
  \A n \in Notes : Served(n) =>
    /\ NoteOf[note[n].current] = n
    /\ version[note[n].current] = "ACTIVE"
    /\ CurrentJob(n) = "ACTIVE_INDEXED"

(* Recall stops before erasure: as long as a note is served, all its       *)
(* chunks are in the collection it is served from.                         *)
ServedIsInIndex ==
  \A n \in Notes : Served(n) => Probed(note[n].current, note[n].generation)

(* A served note is always served from the one ACTIVE generation.          *)
LiveNotesOnActiveGeneration ==
  \A n \in Notes : Served(n) => generation[note[n].generation] = "ACTIVE"

(* A deletion that has been confirmed has left no chunk in the index, and  *)
(* the file is in the trash, so a restoration can still bring it back.     *)
DeletedIsErasedAndKept ==
  \A n \in Notes :
    IsPublished(n) /\ CurrentJob(n) = "DELETED" =>
      /\ vectors[note[n].current][note[n].generation] = "none"
      /\ note[n].current \in trash

(* What a rollback would need is retained: while a served version's job in *)
(* a superseded generation is DELETE_PENDING, its chunks there are intact. *)
RetainedForRollback ==
  \A n \in Notes, g \in Generations :
    /\ Served(n) /\ g # note[n].generation
    /\ job[note[n].current][g] = "DELETE_PENDING"
    => Probed(note[n].current, g)

(* The inductive invariant of the control tables.  A note keeps pointing   *)
(* to an ACTIVE version of a completed run while it is deleted, which is   *)
(* what lets a restoration put it back by the note's and the job's rows    *)
(* alone.                                                                  *)
PointersAreActivated ==
  \A n \in Notes :
    /\ note[n].state = Absent => note[n] = NoNote
    /\ note[n].current # None =>
         /\ NoteOf[note[n].current] = n
         /\ version[note[n].current] = "ACTIVE"
         /\ run[note[n].current].status = "COMPLETED"

CompletedChangeIsActive ==
  \A o \in Operations : run[o].status = "COMPLETED" => change[ChangeOf[o]] = "ACTIVE"

LifecycleInv ==
  /\ PointersAreActivated /\ CompletedChangeIsActive
  /\ ServedJobIsActive /\ OneActiveGeneration

(* How calls are made: an operation is published by one call at a time,    *)
(* one note is deleted or restored at a time, and one call at a time is    *)
(* made about generations; the three kinds run beside each other.          *)
OneCallEach ==
  /\ OneCallPerOperation
  /\ \A s, t \in NoteWorkers : s = t
  /\ \A m, k \in GenerationWorkers : m = k

Completed(v) == run[v].status = "COMPLETED"
PointedTo(v, g) == PointsTo(NoteOf[v], v, g)

(* Chunks are complete wherever a job says so, and where a switch of the   *)
(* generation left them behind.  DELETE_PENDING means erasure only for     *)
(* the row the note points to.                                             *)
IndexKept(v, g) ==
  \/ job[v][g] \in Built
  \/ job[v][g] = "DELETE_PENDING" /\ ~PointedTo(v, g)
  => Probed(v, g)

(* What a publish call has read of its run still holds.                    *)
PublishCallHolds(w) ==
  LET o == operation[w] IN
  /\ ~At(w, "idle") => o \in Assigned[w]
  /\ At(w, "ready") => seen[w].run = run[o].status
  /\ At(w, "indexed") => ~Completed(o) /\ Probed(o, GenerationOf[o])

(* From the exclusion on a deletion works on the version the deleted note  *)
(* points to, as does a restoration.                                       *)
NoteCallHolds(s) ==
  LET call == lifecycle[s]
      v == call.version
      g == call.generation
  IN
  /\ call.at \notin {"idle", "exclude", "verify", "reindex"} =>
       note[call.note].state = "deleted" /\ PointsTo(call.note, v, g)
  /\ call.at \in {"recycle", "erase", "confirm"} => job[v][g] \in {"DELETE_PENDING", "DELETED"}
  /\ call.at \in {"erase", "confirm"} => v \in trash
  /\ call.at = "confirm" => vectors[v][g] = "none"
  /\ call.at \notin {"idle", "exclude", "excluded", "recycle", "erase", "confirm", "reopen"} =>
       job[v][g] # "DELETED"
  /\ call.at = "mark" => Probed(v, g)

(* A rebuild writes only what no note points to.                           *)
GenerationCallHolds(m) ==
  LET call == migration[m] IN
  /\ \A v \in call.todo : Completed(v) /\ (call.at = "rebuild" => ~PointedTo(v, call.target))
  /\ call.at \in VersionLabels =>
       /\ Completed(call.version)
       /\ \A v \in call.todo \cup {call.version} : ~PointedTo(v, call.target)
  /\ call.at = "mark" => Probed(call.version, call.target)

(* The inductive invariant of the index and the trash, for one call each.  *)
ErasureInv ==
  /\ LifecycleInv /\ DeletedIsErasedAndKept
  /\ \A v \in Operations, g \in Generations : IndexKept(v, g)
  /\ \A w \in Workers : PublishCallHolds(w)
  /\ \A s \in NoteWorkers : NoteCallHolds(s)
  /\ \A m \in GenerationWorkers : GenerationCallHolds(m)

(* Publication, deletion, restoration, promotion and rollback together     *)
(* show a reader only switches, withdrawals and returns of the same text.  *)
Serving == INSTANCE KnowledgeServing
  WITH current <- [n \in Notes |-> note[n].current],
       withdrawn <- {n \in Notes : note[n].state = "deleted"},
       published <- {o \in Operations : run[o].status = "COMPLETED"}
ImplementsKnowledgeServing == Serving!Spec

(* Once disturbances have ended, rerunning the deletion and the            *)
(* restoration of a deleted note brings it back, wherever the last attempt *)
(* stopped: a note whose chunks are not known to be erased cannot be       *)
(* restored, so a deletion that was begun is completed on the way.         *)
RestorationsComplete ==
  \A n \in Notes : (calm /\ note[n].state = "deleted") ~> IsLive(n)
=============================================================================
