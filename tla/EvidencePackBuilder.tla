------------------------- MODULE EvidencePackBuilder -------------------------
(***************************************************************************)
(* The evidence that a claim is judged by: the pages that the supporting   *)
(* and the challenging search return and that can be fetched               *)
(* (governance/runner.py), and the pack of the best of them                *)
(* (governance/evidence_pack.py).  A page has one version and one excerpt. *)
(***************************************************************************)
EXTENDS Naturals, FiniteSets

CONSTANTS
  Pages,
  TierOf,      \* trust tier of each page
  FamilyOf,    \* evidence family of each page: its canonical origin
  RankOf,      \* rank of each material in its search, ties broken by family and URL
  MaxSources

SearchIntent == {"SUPPORT", "CHALLENGE"}
TrustTier == {"T0", "T1", "T2", "T3", "T4", "T5"}

(* EvidenceMaterial.  A page that both searches return is two materials:   *)
(* hits are the same only when intent and URL are.                         *)
Material == [intent : SearchIntent, page : Pages]

ASSUME EvidenceAssumption ==
  /\ TierOf \in [Pages -> TrustTier]
  /\ RankOf \in [Material -> Nat]
  /\ MaxSources \in Nat

(* What is fetched of the hits of the two searches.                        *)
Materials(supporting, challenging) ==
  [intent : {"SUPPORT"}, page : supporting]
    \cup [intent : {"CHALLENGE"}, page : challenging]

TrustOrder ==
  [T1 |-> 0, T2 |-> 1, T0 |-> 2, T3 |-> 3, T4 |-> 4, T5 |-> 5]

Precedes(m, n) ==
  LET tm == TrustOrder[TierOf[m.page]]
      tn == TrustOrder[TierOf[n.page]]
  IN  tm < tn \/ (tm = tn /\ RankOf[m] < RankOf[n])

(* The first of its family; these come before all the others.              *)
Leads(m, materials) ==
  \A n \in materials : FamilyOf[n.page] = FamilyOf[m.page] => ~Precedes(n, m)

Ahead(m, materials) ==
  {n \in materials :
     IF Leads(m, materials) = Leads(n, materials) THEN Precedes(n, m)
                                                  ELSE Leads(n, materials)}

(* build: the candidates of the pack.                                      *)
PackOf(materials) == {m \in materials : Cardinality(Ahead(m, materials)) < MaxSources}
==============================================================================
