-------------------------- MODULE GenerationLifecycle --------------------------
(***************************************************************************)
(* GenerationLifecycleService (publication/generation_lifecycle.py): the   *)
(* rebuild of a STAGING generation, its promotion, the rollback to a       *)
(* retained one and the abort.  A worker is one call; the versions it has  *)
(* to deal with are those of the notes it listed when it began.  The code  *)
(* takes them in path order, the model in any order.                       *)
(***************************************************************************)
EXTENDS LifecycleRepository, GenerationIndexer

CONSTANT GenerationWorkers

VARIABLE migration   \* what each worker has listed and where it stands

NoMigration == [at |-> "idle", target |-> None, version |-> None, todo |-> {}]

(* Going through the list, or at work on one version of it.                *)
ListLabels == {"rebuild", "promote", "rollback"}
VersionLabels == {"index", "unindexed", "mark", "verify"}

MigrationCall ==
  {NoMigration}
  \cup [at : ListLabels, target : Generations, version : {None}, todo : SUBSET Operations]
  \cup [at : VersionLabels, target : Generations, version : Operations,
        todo : SUBSET Operations]

MigrationTypeOK == migration \in [GenerationWorkers -> MigrationCall]

MigrationInit == migration = [m \in GenerationWorkers |-> NoMigration]

-----------------------------------------------------------------------------
MigratingAt(m, label) == migration[m].at = label

VersionsServedFrom(source) == {note[n].current : n \in NotesServedFrom(source)}

Begin(m, source, target, label) ==
  migration' = [migration EXCEPT ![m] =
    [at |-> label, target |-> target, version |-> None,
     todo |-> VersionsServedFrom(source)]]

Continue(m, label) == migration' = [migration EXCEPT ![m].at = label]

EndMigration(m) == migration' = [migration EXCEPT ![m] = NoMigration]

(* This version is dealt with, back to the list.                           *)
Strike(m, v, label) ==
  migration' = [migration EXCEPT ![m] =
    [at |-> label, target |-> migration[m].target, version |-> None,
     todo |-> migration[m].todo \ {v}]]

TargetJob(m) == job[migration[m].version][migration[m].target]

SetTargetJob(m, status) == TransitionJob(migration[m].version, migration[m].target, status)

-----------------------------------------------------------------------------
(* _migration_context: a STAGING target beside an ACTIVE source.           *)
StartMigration(m, source, target, label) ==
  /\ MigratingAt(m, "idle")
  /\ source \in ActiveGenerations \ {target} /\ generation[target] = "STAGING"
  /\ Begin(m, source, target, label)
  /\ UNCHANGED <<generation, note, job, vectors>>

StartRebuild(m, target) ==
  \E source \in Generations : StartMigration(m, source, target, "rebuild")

StartPromotion(m, target) ==
  \E source \in Generations : StartMigration(m, source, target, "promote")

StartRollback(m, target) ==
  /\ MigratingAt(m, "idle")
  /\ generation[target] = "SUPERSEDED"
  /\ \E source \in ActiveGenerations : Begin(m, source, target, "rollback")
  /\ UNCHANGED <<generation, note, job, vectors>>

-----------------------------------------------------------------------------
(* rebuild: _index_note and _verify_chunks for every listed version.       *)

(* First unit of work of _index_note: find or add the job and start it.    *)
OpenRebuildJob(m, v) ==
  LET target == migration[m].target
      found == job[v][target]
      goto(label) == migration' = [migration EXCEPT ![m].at = label, ![m].version = v]
  IN
  /\ MigratingAt(m, "rebuild") /\ v \in migration[m].todo
  /\ \/ /\ found \in {Absent, "PENDING", "FAILED"}
        /\ TransitionJob(v, target, "INDEXING") /\ goto("index")
     \/ /\ found = "INDEXING"
        /\ goto("index") /\ UNCHANGED job
     \/ /\ found = "INDEXED"
        /\ goto("verify") /\ UNCHANGED job
     \/ /\ found \in {"ACTIVE_INDEXED", "DELETE_PENDING", "DELETED"}
        /\ EndMigration(m) /\ UNCHANGED job
  /\ UNCHANGED <<generation, note, vectors>>

IndexRebuilt(m) ==
  /\ MigratingAt(m, "index")
  /\ IndexChunks(migration[m].version, migration[m].target)
  /\ Continue(m, "mark")
  /\ UNCHANGED <<generation, note, job>>

IndexRebuiltRaises(m) ==
  /\ MigratingAt(m, "index")
  /\ IndexChunksPartly(migration[m].version, migration[m].target)
  /\ Continue(m, "unindexed")
  /\ UNCHANGED <<generation, note, job>>

FailRebuildIndex(m) ==
  /\ MigratingAt(m, "unindexed")
  /\ IF TargetJob(m) = "INDEXING" THEN SetTargetJob(m, "FAILED") ELSE UNCHANGED job
  /\ EndMigration(m)
  /\ UNCHANGED <<generation, note, vectors>>

MarkRebuilt(m) ==
  /\ MigratingAt(m, "mark")
  /\ IF CanTransition(IndexJobTransitions, TargetJob(m), "INDEXED")
     THEN SetTargetJob(m, "INDEXED") /\ Continue(m, "verify")
     ELSE EndMigration(m) /\ UNCHANGED job
  /\ UNCHANGED <<generation, note, vectors>>

VerifyRebuilt(m) ==
  LET v == migration[m].version IN
  /\ MigratingAt(m, "verify")
  /\ IF Probed(v, migration[m].target) THEN Strike(m, v, "rebuild") ELSE EndMigration(m)
  /\ UNCHANGED <<generation, note, job, vectors>>

(* Only the audit entry is left to write.                                  *)
FinishRebuild(m) ==
  /\ MigratingAt(m, "rebuild") /\ migration[m].todo = {}
  /\ EndMigration(m)
  /\ UNCHANGED <<generation, note, job, vectors>>

-----------------------------------------------------------------------------
(* promote and rollback: check every listed version, then switch.          *)

CheckPromoted(m, v) ==
  LET target == migration[m].target IN
  /\ MigratingAt(m, "promote") /\ v \in migration[m].todo
  /\ IF job[v][target] = "INDEXED" /\ Probed(v, target)
     THEN Strike(m, v, "promote") ELSE EndMigration(m)
  /\ UNCHANGED <<generation, note, job, vectors>>

CheckRetained(m, v) ==
  /\ MigratingAt(m, "rollback") /\ v \in migration[m].todo
  /\ IF Probed(v, migration[m].target)
     THEN Strike(m, v, "rollback") ELSE EndMigration(m)
  /\ UNCHANGED <<generation, note, job, vectors>>

(* The source is whatever generation is ACTIVE now.                        *)
CommitSwitch(m, label, expected) ==
  LET target == migration[m].target IN
  /\ MigratingAt(m, label) /\ migration[m].todo = {}
  /\ \/ \E source \in Generations :
          /\ CanSwitchGeneration(source, target, expected)
          /\ SwitchGeneration(source, target)
     \/ /\ \A source \in Generations : ~CanSwitchGeneration(source, target, expected)
        /\ UNCHANGED <<generation, note, job>>
  /\ EndMigration(m)
  /\ UNCHANGED vectors

Promote(m) == CommitSwitch(m, "promote", "INDEXED")
Rollback(m) == CommitSwitch(m, "rollback", "DELETE_PENDING")

(* abort is one unit of work.                                              *)
Abort(m, target) ==
  /\ MigratingAt(m, "idle")
  /\ generation[target] = "STAGING" /\ ActiveGenerations # {}
  /\ generation' = [generation EXCEPT ![target] = "FAILED"]
  /\ UNCHANGED <<note, job, vectors, migration>>

-----------------------------------------------------------------------------
GenerationCall(m, g) ==
  StartRebuild(m, g) \/ StartPromotion(m, g) \/ StartRollback(m, g) \/ Abort(m, g)

GenerationProgress(m) ==
  \/ \E v \in Operations : OpenRebuildJob(m, v) \/ CheckPromoted(m, v) \/ CheckRetained(m, v)
  \/ IndexRebuilt(m) \/ FailRebuildIndex(m) \/ MarkRebuilt(m) \/ VerifyRebuilt(m)
  \/ FinishRebuild(m) \/ Promote(m) \/ Rollback(m)

GenerationCrash(m) ==
  /\ ~MigratingAt(m, "idle") /\ EndMigration(m)
  /\ UNCHANGED <<generation, note, job, vectors>>

GenerationDisturb(m) == IndexRebuiltRaises(m) \/ GenerationCrash(m)
=============================================================================
