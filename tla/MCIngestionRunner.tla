--------------------------- MODULE MCIngestionRunner ---------------------------
(* Finite instances of IngestionRunner for TLC.                            *)
EXTENDS IngestionRunner, TLC

CONSTANTS a, b, p1, p2, k1, k2, s1, s2, s3, r1, r2, r3, w1, w2

\* a parses, b is held back by the safety scan
Screened_Preparation == a :> {"ready"} @@ b :> {"quarantine"}
\* a parses, b is judged by whatever release of parser and rules is installed
Varying_Preparation == a :> {"ready"} @@ b :> Prepared

WholeVault == {Paths}

Interchangeable ==
  Permutations(Sources) \cup Permutations(Paths) \cup Permutations(Keys)
  \cup Permutations(Runs) \cup Permutations(Callers)

(* Where ids are numbers they are generated in order: what ids of runs and *)
(* sources are called does not matter.                                     *)
IdsInOrder ==
  /\ \A c \in Callers : call'[c].at = "inventory" =>
       \A r \in Runs : r < call'[c].run => runs'[r] # Absent
  /\ \A s, t \in Sources :
       s < t /\ sources'[s] = Unborn => sources'[t] = Unborn
===============================================================================
