--------------------------- MODULE MCTrustedAnswers ---------------------------
(* Finite instances of TrustedAnswers for TLC.                             *)
EXTENDS TrustedAnswers, TLC

CONSTANTS o1, o2, c1, c2, n1, g1, w1, s1, a1, a2, r1, k1, q1, q2, t1, t2

\* Two versions of one note, of which the later rests on the owner's word.
SameNote_NoteOf == [o \in Operations |-> n1]
Own_ChangeOf == [o \in Operations |-> IF o = o1 THEN c1 ELSE c2]
Same_GenerationOf == [o \in Operations |-> g1]
All_Assigned == w1 :> Operations
MC_QualityOf == [o \in Operations |-> IF o = o1 THEN "VERIFIED" ELSE "USER_ASSERTED"]
MC_ScopeOf == [q \in Questions |-> IF q = q1 THEN "general" ELSE "auto"]
===============================================================================
