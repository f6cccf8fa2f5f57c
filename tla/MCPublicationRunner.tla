------------------------- MODULE MCPublicationRunner -------------------------
(* Finite instances of PublicationRunner for TLC.                          *)
EXTENDS PublicationRunner, TLC

CONSTANTS o1, o2, c1, c2, n1, g1, w1, w2

\* Two updates of one note in one generation.
SameNote_NoteOf == o1 :> n1 @@ o2 :> n1
OwnChange_ChangeOf == o1 :> c1 @@ o2 :> c2
SameGeneration_GenerationOf == o1 :> g1 @@ o2 :> g1

OneCall_Assigned == w1 :> {o1, o2}
\* Two calls of o1 at once, one of which goes on with o2.
Overlapping_Assigned == w1 :> {o1} @@ w2 :> {o1, o2}

EveryFault == PublicationRunStatus \cup PCs
\* Without the window between staging the file and recording it.
FaultsOutsideStaging == EveryFault \ {"CURATING", "staged"}
=============================================================================
