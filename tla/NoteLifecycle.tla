----------------------------- MODULE NoteLifecycle -----------------------------
(***************************************************************************)
(* NoteLifecycleService (publication/lifecycle.py): deletion and           *)
(* restoration of a published note as sagas over the control tables, the   *)
(* vault and the index.  A worker is one call of delete or restore; it     *)
(* goes on with the version, generation and job status it last loaded.     *)
(***************************************************************************)
EXTENDS LifecycleRepository, VaultRecycling, GenerationIndexer

CONSTANT NoteWorkers

VARIABLE lifecycle   \* what each worker has loaded and where it stands

NoCall == [at |-> "idle"]

CallLabels ==
  {"exclude", "excluded", "recycle", "erase", "confirm", "verify", "reindex", "reopen",
   "reopened", "index", "unindexed", "mark", "marked", "return", "admit"}

ActiveCall ==
  [at : CallLabels, note : Notes, version : Operations, generation : Generations,
   job : IndexJobStatus]

LifecycleTypeOK == lifecycle \in [NoteWorkers -> ActiveCall \cup {NoCall}]

LifecycleInit == lifecycle = [s \in NoteWorkers |-> NoCall]

-----------------------------------------------------------------------------
AtCall(s, label) == lifecycle[s].at = label

(* _load: what the note points to, read in one unit of work.               *)
Loadable(n) == IsPublished(n) /\ CurrentJob(n) # Absent

LoadNote(s, n, label) ==
  lifecycle' = [lifecycle EXCEPT ![s] =
    [at |-> label, note |-> n, version |-> note[n].current,
     generation |-> note[n].generation, job |-> CurrentJob(n)]]

Proceed(s, label) == lifecycle' = [lifecycle EXCEPT ![s].at = label]

(* The call returns, raises or dies: what it has committed stays.          *)
EndCall(s) == lifecycle' = [lifecycle EXCEPT ![s] = NoCall]

StoredJob(s) == job[lifecycle[s].version][lifecycle[s].generation]

SetJob(s, target) == TransitionJob(lifecycle[s].version, lifecycle[s].generation, target)

(* Reread the job, require the transition, commit, go on.                  *)
CommitJob(s, target, label) ==
  /\ IF CanTransition(IndexJobTransitions, StoredJob(s), target)
     THEN SetJob(s, target) /\ Proceed(s, label)
     ELSE EndCall(s) /\ UNCHANGED job
  /\ UNCHANGED <<note, vectors, final, trash>>

-----------------------------------------------------------------------------
(* delete.                                                                 *)

DeleteNote(s, n) ==
  /\ AtCall(s, "idle") /\ Loadable(n)
  /\ \/ IsLive(n) /\ CurrentJob(n) = "ACTIVE_INDEXED" /\ LoadNote(s, n, "exclude")
     \/ ~IsLive(n) /\ CurrentJob(n) \in {"DELETE_PENDING", "DELETED"}
        /\ LoadNote(s, n, "recycle")
  /\ UNCHANGED <<note, job, vectors, final, trash>>

ExcludeNote(s) ==
  LET call == lifecycle[s] IN
  /\ AtCall(s, "exclude")
  /\ IF CanPrepareDeletion(call.note, call.version, call.generation)
     THEN PrepareNoteDeletion(call.note, call.version, call.generation)
          /\ Proceed(s, "excluded")
     ELSE EndCall(s) /\ UNCHANGED <<note, job>>
  /\ UNCHANGED <<vectors, final, trash>>

(* The reloaded job is tested, the note's deleted_at is not.               *)
ReloadExcluded(s) ==
  LET n == lifecycle[s].note IN
  /\ AtCall(s, "excluded")
  /\ IF Loadable(n) /\ CurrentJob(n) \in {"DELETE_PENDING", "DELETED"}
     THEN LoadNote(s, n, "recycle") ELSE EndCall(s)
  /\ UNCHANGED <<note, job, vectors, final, trash>>

RecycleFile(s) ==
  LET call == lifecycle[s] IN
  /\ AtCall(s, "recycle")
  /\ IF CanRecycle(call.note, call.version)
     THEN Recycle(call.note, call.version) /\ Proceed(s, "erase")
     ELSE EndCall(s) /\ UNCHANGED <<final, trash>>
  /\ UNCHANGED <<note, job, vectors>>

(* A repeated deletion ends here: its job was DELETED when it loaded.      *)
EraseVectors(s) ==
  /\ AtCall(s, "erase")
  /\ DeleteChunks(lifecycle[s].version, lifecycle[s].generation)
  /\ IF lifecycle[s].job = "DELETE_PENDING" THEN Proceed(s, "confirm") ELSE EndCall(s)
  /\ UNCHANGED <<note, job, final, trash>>

EraseRaises(s) ==
  /\ AtCall(s, "erase")
  /\ DeleteChunksPartly(lifecycle[s].version, lifecycle[s].generation)
  /\ EndCall(s)
  /\ UNCHANGED <<note, job, final, trash>>

ConfirmDeletion(s) ==
  /\ AtCall(s, "confirm")
  /\ IF CanTransition(IndexJobTransitions, StoredJob(s), "DELETED")
     THEN SetJob(s, "DELETED") ELSE UNCHANGED job
  /\ EndCall(s)
  /\ UNCHANGED <<note, vectors, final, trash>>

-----------------------------------------------------------------------------
(* restore.                                                                *)

RestoreCall(s, n) ==
  /\ AtCall(s, "idle") /\ Loadable(n)
  /\ \/ IsLive(n) /\ CurrentJob(n) = "ACTIVE_INDEXED" /\ LoadNote(s, n, "verify")
     \/ ~IsLive(n) /\ CurrentJob(n) \in {"DELETED", "FAILED", "PENDING"}
        /\ LoadNote(s, n, "reopen")
     \/ ~IsLive(n) /\ CurrentJob(n) = "INDEXING" /\ LoadNote(s, n, "index")
     \/ ~IsLive(n) /\ CurrentJob(n) = "INDEXED" /\ LoadNote(s, n, "return")
  /\ UNCHANGED <<note, job, vectors, final, trash>>

(* A note that was not deleted: its file is verified and it is reindexed.  *)
VerifyLiveFile(s) ==
  /\ AtCall(s, "verify")
  /\ IF VerifiesFinal(lifecycle[s].note, lifecycle[s].version)
     THEN Proceed(s, "reindex") ELSE EndCall(s)
  /\ UNCHANGED <<note, job, vectors, final, trash>>

ReindexLive(s) ==
  /\ AtCall(s, "reindex")
  /\ \/ IndexChunks(lifecycle[s].version, lifecycle[s].generation)
     \/ IndexChunksPartly(lifecycle[s].version, lifecycle[s].generation)
  /\ EndCall(s)
  /\ UNCHANGED <<note, job, final, trash>>

(* DELETED or FAILED -> PENDING -> INDEXING in one unit of work.           *)
ReopenIndex(s) ==
  LET next == IF lifecycle[s].job = "PENDING" THEN "INDEXING" ELSE "PENDING" IN
  /\ AtCall(s, "reopen")
  /\ IF CanTransition(IndexJobTransitions, StoredJob(s), next)
     THEN SetJob(s, "INDEXING") /\ Proceed(s, "reopened")
     ELSE EndCall(s) /\ UNCHANGED job
  /\ UNCHANGED <<note, vectors, final, trash>>

ReloadReopened(s) ==
  LET n == lifecycle[s].note IN
  /\ AtCall(s, "reopened")
  /\ \/ Loadable(n) /\ CurrentJob(n) = "INDEXING" /\ LoadNote(s, n, "index")
     \/ Loadable(n) /\ CurrentJob(n) = "INDEXED" /\ LoadNote(s, n, "return")
     \/ ~(Loadable(n) /\ CurrentJob(n) \in {"INDEXING", "INDEXED"}) /\ EndCall(s)
  /\ UNCHANGED <<note, job, vectors, final, trash>>

\* mutant: an upsert that stopped half-way is taken for complete
MarkPartlyRestored(s) ==
  /\ AtCall(s, "index")
  /\ IndexChunksPartly(lifecycle[s].version, lifecycle[s].generation)
  /\ Proceed(s, "mark")
  /\ UNCHANGED <<note, job, final, trash>>

IndexRestored(s) ==
  /\ AtCall(s, "index")
  /\ IndexChunks(lifecycle[s].version, lifecycle[s].generation)
  /\ Proceed(s, "mark")
  /\ UNCHANGED <<note, job, final, trash>>

IndexRestoredRaises(s) ==
  /\ AtCall(s, "index")
  /\ IndexChunksPartly(lifecycle[s].version, lifecycle[s].generation)
  /\ Proceed(s, "unindexed")
  /\ UNCHANGED <<note, job, final, trash>>

FailRestoreIndex(s) ==
  /\ AtCall(s, "unindexed")
  /\ IF StoredJob(s) = "INDEXING" THEN SetJob(s, "FAILED") ELSE UNCHANGED job
  /\ EndCall(s)
  /\ UNCHANGED <<note, vectors, final, trash>>

MarkRestored(s) == AtCall(s, "mark") /\ CommitJob(s, "INDEXED", "marked")

(* Loaded once more, and used whatever the job has become.                 *)
ReloadMarked(s) ==
  LET n == lifecycle[s].note IN
  /\ AtCall(s, "marked")
  /\ IF Loadable(n) THEN LoadNote(s, n, "return") ELSE EndCall(s)
  /\ UNCHANGED <<note, job, vectors, final, trash>>

ReturnFile(s) ==
  LET call == lifecycle[s] IN
  /\ AtCall(s, "return")
  /\ IF CanRestoreRecycled(call.note, call.version)
     THEN RestoreRecycled(call.note, call.version) /\ Proceed(s, "admit")
     ELSE EndCall(s) /\ UNCHANGED <<final, trash>>
  /\ UNCHANGED <<note, job, vectors>>

AdmitNote(s) ==
  LET call == lifecycle[s] IN
  /\ AtCall(s, "admit")
  /\ IF CanRestoreNote(call.note, call.version, call.generation)
     THEN RestoreNote(call.note, call.version, call.generation)
     ELSE UNCHANGED <<note, job>>
  /\ EndCall(s)
  /\ UNCHANGED <<vectors, final, trash>>

-----------------------------------------------------------------------------
NoteCall(s, n) == DeleteNote(s, n) \/ RestoreCall(s, n)

NoteProgress(s) ==
  \/ ExcludeNote(s) \/ ReloadExcluded(s) \/ RecycleFile(s) \/ EraseVectors(s)
  \/ ConfirmDeletion(s)
  \/ VerifyLiveFile(s) \/ ReindexLive(s) \/ ReopenIndex(s) \/ ReloadReopened(s)
  \/ IndexRestored(s) \/ FailRestoreIndex(s) \/ MarkRestored(s)
  \/ ReloadMarked(s) \/ ReturnFile(s) \/ AdmitNote(s)

(* The process dies, or a step raises before it has any effect.            *)
NoteCrash(s) ==
  /\ ~AtCall(s, "idle") /\ EndCall(s)
  /\ UNCHANGED <<note, job, vectors, final, trash>>

NoteDisturb(s) == EraseRaises(s) \/ IndexRestoredRaises(s) \/ NoteCrash(s)
=============================================================================
