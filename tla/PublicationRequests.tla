------------------------ MODULE PublicationRequests ------------------------
(***************************************************************************)
(* The identities publication works with.  An operation id fixes its       *)
(* request for good: the change, the note (one per canonical path) and the *)
(* target generation.  An operation creates at most one run, one curated   *)
(* version and, in its own target generation, one index job, so all three  *)
(* are named by the operation; a content hash is named by the version      *)
(* whose content it is.                                                    *)
(***************************************************************************)
EXTENDS Naturals, FiniteSets

CONSTANTS
  Operations,    \* publication operation ids
  Changes,       \* knowledge changes governance has approved
  Notes,         \* knowledge notes, one per canonical vault path
  Generations,   \* index generations
  ChangeOf, NoteOf, GenerationOf,  \* the request an operation id is bound to
  None           \* a NULL pointer, a missing file

ASSUME RequestAssumption ==
  /\ ChangeOf \in [Operations -> Changes]
  /\ NoteOf \in [Operations -> Notes]
  /\ GenerationOf \in [Operations -> Generations]
  /\ None \notin Operations /\ None \notin Generations
=============================================================================
