--------------------------- MODULE IngestionPlanner ---------------------------
(***************************************************************************)
(* plan_ingestion (ingestion/planner.py): what a complete scan of the      *)
(* vault says about the sources that are known.  Pure: a set of known      *)
(* sources and a set of manifest entries in, a set of plan items out.      *)
(***************************************************************************)
CONSTANTS
  None,                            \* NULL
  Sources, Paths, Keys, Contents   \* source ids, path and file keys, content hashes

ASSUME NoneAssumption == None \notin Sources \cup Paths \cup Keys \cup Contents

KnownSource ==
  [source : Sources, path : Paths, key : Keys \cup {None},
   current : Contents \cup {None}, latest : Contents \cup {None},
   unparsed : BOOLEAN,   \* latest_status is PARSE_FAILED
   eligible : BOOLEAN]   \* eligible_for_deletion

(* A file that could not be captured has an error instead of a hash.       *)
ManifestEntry ==
  [path : Paths, key : Keys \cup {None}, content : Contents \cup {None}]

(* Every item but a created one is about a known source.                   *)
PlanItem ==
  {item \in [action : {"CREATED", "UPDATED", "MOVED", "DELETED", "UNCHANGED"},
             source : Sources \cup {None}, path : Paths, key : Keys \cup {None},
             content : Contents \cup {None}] :
     item.action # "CREATED" => item.source # None}

-----------------------------------------------------------------------------
(* Matching.  A match is a pair of a known source and an entry.            *)

SamePath(known, entries) ==
  {m \in known \X entries : m[1].path = m[2].path}

(* _match_unique_identity: the identity is there, and one source and one   *)
(* entry have it.                                                          *)
SameKey(known, entries) ==
  {m \in known \X entries :
     /\ m[1].key # None /\ m[2].key = m[1].key
     /\ \A k \in known : k.key = m[1].key => k = m[1]
     /\ \A e \in entries : e.key = m[1].key => e = m[2]}

SameContent(known, entries) ==
  {m \in known \X entries :
     /\ m[1].latest # None /\ m[2].content = m[1].latest
     /\ \A k \in known : k.latest = m[1].latest => k = m[1]
     /\ \A e \in entries : e.content = m[1].latest => e = m[2]}

KnownLeft(known, matches) == {k \in known : \A m \in matches : m[1] # k}
EntriesLeft(entries, matches) == {e \in entries : \A m \in matches : m[2] # e}

(* By file key first, and by content among what that leaves.               *)
Moves(known, entries) ==
  LET byKey == SameKey(known, entries)
  IN  byKey \cup SameContent(KnownLeft(known, byKey), EntriesLeft(entries, byKey))

-----------------------------------------------------------------------------
(* Items.                                                                  *)

ComparisonHash(k) == IF k.latest # None THEN k.latest ELSE k.current

Changed(k, e) ==
  e.content = None \/ e.content # ComparisonHash(k) \/ k.unparsed

SamePathItem(k, e) ==
  [action |-> IF Changed(k, e) THEN "UPDATED" ELSE "UNCHANGED",
   source |-> k.source, path |-> e.path, key |-> e.key, content |-> e.content]

MovedItem(k, e) ==
  [action |-> "MOVED", source |-> k.source,
   path |-> e.path, key |-> e.key, content |-> e.content]

CreatedItem(e) ==
  [action |-> "CREATED", source |-> None,
   path |-> e.path, key |-> e.key, content |-> e.content]

DeletedItem(k) ==
  [action |-> "DELETED", source |-> k.source,
   path |-> k.path, key |-> k.key, content |-> None]

\* mutant: a file that could not be read counts as a file that is gone
PlanReadable(known, found) ==
  LET entries == {e \in found : e.content # None}
      kept    == SamePath(known, entries)
      moved   == Moves(KnownLeft(known, kept), EntriesLeft(entries, kept))
      matched == kept \cup moved
  IN  {SamePathItem(m[1], m[2]) : m \in kept}
      \cup {MovedItem(m[1], m[2]) : m \in moved}
      \cup {CreatedItem(e) : e \in EntriesLeft(found, matched)}
      \cup {DeletedItem(k) : k \in {l \in KnownLeft(known, matched) : l.eligible}}

PlanIngestion(known, entries) ==
  LET kept    == SamePath(known, entries)
      moved   == Moves(KnownLeft(known, kept), EntriesLeft(entries, kept))
      matched == kept \cup moved
  IN  {SamePathItem(m[1], m[2]) : m \in kept}
      \cup {MovedItem(m[1], m[2]) : m \in moved}
      \cup {CreatedItem(e) : e \in EntriesLeft(entries, matched)}
      \cup {DeletedItem(k) : k \in {l \in KnownLeft(known, matched) : l.eligible}}
=============================================================================
