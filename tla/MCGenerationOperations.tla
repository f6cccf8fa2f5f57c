------------------------ MODULE MCGenerationOperations ------------------------
(* A finite instance of GenerationOperations for TLC.                      *)
EXTENDS GenerationOperations, TLC

CONSTANTS o1, o2, o3, c1, c2, n1, n2, g1, g2, w1, w2, m1, i1

\* Two notes: o1 and o3 are versions of one in g1, o2 of the other in g2.
\* o1 and o2 carry the same change.
TwoNotes_NoteOf == o1 :> n1 @@ o2 :> n2 @@ o3 :> n1
SharedChange_ChangeOf == o1 :> c1 @@ o2 :> c1 @@ o3 :> c2
TwoGenerations_GenerationOf == o1 :> g1 @@ o2 :> g2 @@ o3 :> g1
TwoWorkers_Assigned == w1 :> {o1} @@ w2 :> {o2, o3}
=============================================================================
