--------------------------- MODULE SourceRepository ---------------------------
(***************************************************************************)
(* Sources, their versions and their places in the vault, as               *)
(* persistence/source_repository.py and the location half of               *)
(* persistence/ingestion_repository.py keep them.  A source and its        *)
(* location are one row here: they are written in the same unit of work,   *)
(* moved together and deleted together.  A version is named by its         *)
(* content, which is unique within a source.                               *)
(***************************************************************************)
EXTENDS IngestionPlanner, StateTransitions, Sequences

VARIABLE sources

SourceRow ==
  [path : Paths \cup {None}, key : Keys \cup {None},
   live : BOOLEAN,                        \* deleted_at is NULL
   current : Contents \cup {None},
   history : Seq(Contents),               \* by version_number
   status : [Contents -> SourceVersionStatus \cup {Absent}]]

Unborn ==
  [path |-> None, key |-> None, live |-> FALSE, current |-> None,
   history |-> <<>>, status |-> [c \in Contents |-> Absent]]

(* A live source has a place in the vault and a captured version.          *)
SourcesTypeOK ==
  /\ sources \in [Sources -> SourceRow]
  /\ \A s \in Sources : sources[s].live =>
       sources[s].path \in Paths /\ sources[s].history # <<>>

SourcesInit == sources = [s \in Sources |-> Unborn]

-----------------------------------------------------------------------------

Fresh == {s \in Sources : sources[s] = Unborn}

Live == {s \in Sources : sources[s].live}

(* get_latest_source_version                                               *)
Latest(row) ==
  IF row.history = <<>> THEN None ELSE row.history[Len(row.history)]

(* The unique index on live paths refuses the row.                         *)
Occupied(path, s) == \E t \in Live \ {s} : sources[t].path = path

(* add_source and record_source_location                                   *)
NewSource(path, key) == [Unborn EXCEPT !.path = path, !.key = key, !.live = TRUE]

\* mutant: a move is recorded with the file key only
RelocatedKey(row, path, key) == [row EXCEPT !.key = key]

(* move_source and move_source_location                                    *)
Relocated(row, path, key) == [row EXCEPT !.path = path, !.key = key]

(* touch_source_location                                                   *)
Touched(row, key) == [row EXCEPT !.key = key]

(* append_source_version, unless the content has a version already.        *)
Captured(row, c) ==
  IF row.status[c] # Absent THEN row
  ELSE [row EXCEPT !.history = Append(@, c), !.status[c] = "CAPTURED"]

(* transition_source_version                                               *)
Transitioned(row, c, status) == [row EXCEPT !.status[c] = status]

(* activate_source_version, of a READY version                             *)
Activated(row, c) == [row EXCEPT !.current = c]

(* The version a deletion is about.                                        *)
DeletionTarget(row) == IF row.current # None THEN row.current ELSE Latest(row)

(* mark_source_deleted, mark_source_location_deleted and the transition of *)
(* that version.                                                           *)
Deleted(row) ==
  [row EXCEPT !.live = FALSE, !.status[DeletionTarget(row)] = "DELETED"]

(* _load_known_sources, for a caller whose configured scope is a set of    *)
(* paths.                                                                  *)
KnownSources(scope) ==
  {[source |-> s, path |-> sources[s].path, key |-> sources[s].key,
    current |-> sources[s].current, latest |-> Latest(sources[s]),
    unparsed |-> sources[s].status[Latest(sources[s])] = "PARSE_FAILED",
    eligible |-> sources[s].path \in scope] : s \in Live}
=============================================================================
