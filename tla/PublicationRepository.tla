------------------------ MODULE PublicationRepository ------------------------
(***************************************************************************)
(* The publication control tables in SQLite and the repository operations  *)
(* that write them (persistence/publication_repository.py).  One unit of   *)
(* work is one atomic step of the actors that use these operators.         *)
(*                                                                         *)
(* In every module of this project a definition marked "mutant" is not     *)
(* part of the model: it is the definition below it with one plausible     *)
(* mistake, and PROJECT.json names the property that rules it out.         *)
(***************************************************************************)
EXTENDS PublicationRequests, StateTransitions

CONSTANT MaxAttempts   \* bound: run.attempt saturates here

ASSUME AttemptsAssumption == MaxAttempts \in Nat \ {0}

VARIABLES
  change,      \* knowledge_changes.status
  note,        \* knowledge_notes: deleted_at, current version, generation
  version,     \* curated_versions.status, by creating operation
  job,         \* index_jobs.status, by version and generation
  run,         \* publication_runs: status and attempt, by operation
  generation   \* index_generations.status

tables == <<change, note, version, job, run, generation>>

NoteRow == [state : {Absent, "live", "deleted"},
            current : Operations \cup {None},
            generation : Generations \cup {None}]
VersionRow == CuratedVersionStatus \cup {Absent}
JobRow == IndexJobStatus \cup {Absent}
RunRow == [status : PublicationRunStatus \cup {Absent}, attempt : 0 .. MaxAttempts]

TablesTypeOK ==
  /\ change \in [Changes -> KnowledgeChangeStatus]
  /\ note \in [Notes -> NoteRow]
  /\ version \in [Operations -> VersionRow]
  /\ job \in [Operations -> [Generations -> JobRow]]
  /\ run \in [Operations -> RunRow]
  /\ generation \in [Generations -> IndexGenerationStatus]

NoNote == [state |-> Absent, current |-> None, generation |-> None]
NewNote == [state |-> "live", current |-> None, generation |-> None]

(* Approved changes, created but never activated generations, no note yet. *)
TablesInit ==
  /\ change = [c \in Changes |-> "PUBLISH_INTENT"]
  /\ note = [n \in Notes |-> NoNote]
  /\ version = [o \in Operations |-> Absent]
  /\ job = [o \in Operations |-> [g \in Generations |-> Absent]]
  /\ run = [o \in Operations |-> [status |-> Absent, attempt |-> 0]]
  /\ generation = [g \in Generations |-> "STAGING"]

-----------------------------------------------------------------------------
(* Reads.                                                                  *)

VersionsOf(n) == {o \in Operations : NoteOf[o] = n /\ version[o] # Absent}

OwnJob(o) == job[o][GenerationOf[o]]

IsLive(n) == note[n].state = "live"

LiveNotesOn(g) == {n \in Notes : IsLive(n) /\ note[n].generation = g}

(* What the current-version resolver hands to retrieval, None when a note  *)
(* is not served.                                                          *)
ResolveCurrent(n) ==
  IF IsLive(n) /\ note[n].current # None /\ note[n].generation # None
  THEN note[n].current ELSE None

-----------------------------------------------------------------------------
(* Writes.  Each is total; the actor tests the stated condition first and  *)
(* raises when it fails.                                                   *)

(* (change, target generation) is unique over runs; a version number is    *)
(* unique within its note, and numbers are dense, so a number computed     *)
(* from the versions in seenVersions is free only if none was added since. *)
CanAddPublication(o, seenVersions) ==
  /\ VersionsOf(NoteOf[o]) = seenVersions
  /\ \A p \in Operations : run[p].status # Absent =>
       <<ChangeOf[p], GenerationOf[p]>> # <<ChangeOf[o], GenerationOf[o]>>

AddPublication(o) ==
  /\ note' = IF note[NoteOf[o]].state = Absent
             THEN [note EXCEPT ![NoteOf[o]] = NewNote] ELSE note
  /\ version' = [version EXCEPT ![o] = "DRAFT"]
  /\ job' = [job EXCEPT ![o][GenerationOf[o]] = "PENDING"]
  /\ run' = [run EXCEPT ![o] = [status |-> "PLANNING", attempt |-> 1]]

CanTransitionRun(o, target) ==
  CanTransition(PublicationRunTransitions, run[o].status, target)

(* Leaving FAILED opens the next attempt.                                  *)
TransitionRun(o, target) ==
  LET retry == run[o].status = "FAILED" /\ run[o].attempt < MaxAttempts
  IN  run' = [run EXCEPT ![o] =
                [status |-> target,
                 attempt |-> IF retry THEN run[o].attempt + 1 ELSE run[o].attempt]]

TransitionJob(o, g, target) == job' = [job EXCEPT ![o][g] = target]

TransitionVersion(o, target) == version' = [version EXCEPT ![o] = target]

-----------------------------------------------------------------------------
(* activate_publication: the one switch of every authoritative pointer.    *)

ActivationRows(o) ==
  [run |-> run[o], note |-> note[NoteOf[o]], version |-> version[o],
   job |-> OwnJob(o), change |-> change[ChangeOf[o]],
   generation |-> generation[GenerationOf[o]]]

\* mutant: only the run is compared
RowsUncompared(o, rows) == rows.run = run[o]

\* mutant: the change and the generation are not compared
ChangeUncompared(o, rows) ==
  /\ rows.run = run[o] /\ rows.note = note[NoteOf[o]] /\ rows.version = version[o]
  /\ rows.job = OwnJob(o)

(* Every row is read again inside the savepoint and compared with the      *)
(* revision read before.                                                   *)
RowsUnchanged(o, rows) == rows = ActivationRows(o)

\* mutant: the generation that is ACTIVE now is not looked up
NoOtherGeneration(g) == {}

OtherActiveGenerations(g) == {h \in Generations \ {g} : generation[h] = "ACTIVE"}

(* A STAGING generation is switched to only when that leaves no live note  *)
(* behind on the generation it replaces.                                   *)
GenerationReady(g, rows) ==
  \/ rows.generation = "ACTIVE"
  \/ /\ rows.generation = "STAGING"
     /\ \A h \in OtherActiveGenerations(g) : LiveNotesOn(h) = {}

\* mutant: a note deleted in the meantime is switched all the same
CanActivateDeleted(o, rows) ==
  /\ RowsUnchanged(o, rows)
  /\ rows.run.status = "ACTIVATING" /\ rows.version = "STAGING"
  /\ rows.job = "INDEXED" /\ rows.change = "PUBLISH_INTENT"
  /\ GenerationReady(GenerationOf[o], rows)

CanActivate(o, rows) ==
  /\ RowsUnchanged(o, rows)
  /\ rows.run.status = "ACTIVATING"
  /\ rows.version = "STAGING"
  /\ rows.job = "INDEXED"
  /\ rows.change = "PUBLISH_INTENT"
  /\ rows.note.state = "live"
  /\ rows.note.current # None =>
       CanTransition(CuratedVersionTransitions, version[rows.note.current], "SUPERSEDED")
  /\ GenerationReady(GenerationOf[o], rows)

\* mutant: the old version stays ACTIVE
NoVersion(rows) == {}

ReplacedVersions(rows) == {rows.note.current}

ReplacedGenerations(g, rows) ==
  IF rows.generation = "ACTIVE" THEN {} ELSE OtherActiveGenerations(g)

ActivatePublication(o, rows) ==
  LET g == GenerationOf[o] IN
  /\ version' = [v \in Operations |->
       IF v = o THEN "ACTIVE"
       ELSE IF v \in ReplacedVersions(rows) THEN "SUPERSEDED" ELSE version[v]]
  /\ generation' = [h \in Generations |->
       IF h = g /\ rows.generation = "STAGING" THEN "ACTIVE"
       ELSE IF h \in ReplacedGenerations(g, rows) THEN "SUPERSEDED" ELSE generation[h]]
  /\ note' = [note EXCEPT ![NoteOf[o]] =
                [state |-> "live", current |-> o, generation |-> g]]
  /\ job' = [job EXCEPT ![o][g] = "ACTIVE_INDEXED"]
  /\ change' = [change EXCEPT ![ChangeOf[o]] = "ACTIVE"]
  /\ run' = [run EXCEPT ![o].status = "COMPLETED"]
=============================================================================
