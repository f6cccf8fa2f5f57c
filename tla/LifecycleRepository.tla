------------------------- MODULE LifecycleRepository -------------------------
(***************************************************************************)
(* The operations of persistence/publication_repository.py that take a     *)
(* published note out of service and back, and that move every live note   *)
(* from one generation to another.  As in PublicationRepository the actor  *)
(* tests the stated condition and raises when it fails.                    *)
(***************************************************************************)
EXTENDS PublicationRepository

PointsTo(n, v, g) == note[n].current = v /\ note[n].generation = g

IsPublished(n) == note[n].current # None /\ note[n].generation # None

CurrentJob(n) == job[note[n].current][note[n].generation]

-----------------------------------------------------------------------------
(* Soft deletion and restoration of one note.                              *)

CanPrepareDeletion(n, v, g) ==
  /\ IsLive(n) /\ PointsTo(n, v, g)
  /\ CanTransition(IndexJobTransitions, job[v][g], "DELETE_PENDING")

\* mutant: the note stays in service until the erasure is confirmed
QueueErasureOnly(n, v, g) == TransitionJob(v, g, "DELETE_PENDING") /\ UNCHANGED note

PrepareNoteDeletion(n, v, g) ==
  /\ note' = [note EXCEPT ![n].state = "deleted"]
  /\ TransitionJob(v, g, "DELETE_PENDING")

(* The generation the note points to may have been superseded meanwhile.   *)
CanRestoreNote(n, v, g) ==
  note[n].state = "deleted" /\ PointsTo(n, v, g) /\ job[v][g] = "INDEXED"

RestoreNote(n, v, g) ==
  /\ note' = [note EXCEPT ![n].state = "live"]
  /\ TransitionJob(v, g, "ACTIVE_INDEXED")

-----------------------------------------------------------------------------
(* Promotion and rollback: one switch of the generation, of every live     *)
(* note on it and of both index jobs of each.                              *)

ActiveGenerations == {g \in Generations : generation[g] = "ACTIVE"}

(* list_active_notes(source) and the notes the switch moves.               *)
NotesServedFrom(source) == {n \in LiveNotesOn(source) : note[n].current # None}

StrayNotes(source) ==
  {n \in Notes : IsLive(n) /\ IsPublished(n) /\ note[n].generation # source}

(* expected is the job status a moved version must have in the target:     *)
(* INDEXED by the rebuild, or DELETE_PENDING when it was left behind.      *)
CanSwitchGeneration(source, target, expected) ==
  /\ generation[source] = "ACTIVE" /\ source # target
  /\ CanTransition(IndexGenerationTransitions, generation[target], "ACTIVE")
  /\ StrayNotes(source) = {}
  /\ \A n \in NotesServedFrom(source) :
       CurrentJob(n) = "ACTIVE_INDEXED" /\ job[note[n].current][target] = expected

\* mutant: the jobs in the target generation keep their status
SwitchSourceJobsOnly(source, target) ==
  LET moved == NotesServedFrom(source) IN
  /\ generation' = [generation EXCEPT ![source] = "SUPERSEDED", ![target] = "ACTIVE"]
  /\ note' = [n \in Notes |->
       IF n \in moved THEN [note[n] EXCEPT !.generation = target] ELSE note[n]]
  /\ job' = [v \in Operations |->
       IF \E n \in moved : note[n].current = v
       THEN [job[v] EXCEPT ![source] = "DELETE_PENDING"] ELSE job[v]]

SwitchGeneration(source, target) ==
  LET moved == NotesServedFrom(source) IN
  /\ generation' = [generation EXCEPT ![source] = "SUPERSEDED", ![target] = "ACTIVE"]
  /\ note' = [n \in Notes |->
       IF n \in moved THEN [note[n] EXCEPT !.generation = target] ELSE note[n]]
  /\ job' = [v \in Operations |->
       IF \E n \in moved : note[n].current = v
       THEN [job[v] EXCEPT ![source] = "DELETE_PENDING", ![target] = "ACTIVE_INDEXED"]
       ELSE job[v]]
=============================================================================
