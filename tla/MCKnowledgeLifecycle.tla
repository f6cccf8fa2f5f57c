------------------------- MODULE MCKnowledgeLifecycle -------------------------
(* A finite instance of KnowledgeLifecycle for TLC.                       *)
EXTENDS KnowledgeLifecycle, TLC

CONSTANTS o1, o2, c1, c2, n1, g1, g2, w1, s1, m1

\* Two versions of one note.
SameNote_NoteOf == o1 :> n1 @@ o2 :> n1
Two_ChangeOf == o1 :> c1 @@ o2 :> c2
Two_GenerationOf == o1 :> g1 @@ o2 :> g1
Two_Assigned == w1 :> {o1, o2}
=============================================================================
