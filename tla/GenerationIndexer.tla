-------------------------- MODULE GenerationIndexer --------------------------
(***************************************************************************)
(* The vector rows of one curated version in one generation's collection,  *)
(* as publication/indexing.py writes and proves them: nothing, part of the *)
(* chunk set (an upsert that did not finish) or all of it.                 *)
(***************************************************************************)
EXTENDS PublicationRequests

VARIABLE vectors

VectorStates == {"none", "partial", "complete"}

VectorsTypeOK == vectors \in [Operations -> [Generations -> VectorStates]]

VectorsInit == vectors = [v \in Operations |-> [g \in Generations |-> "none"]]

(* The strong read-back matches the chunk set.                             *)
Probed(v, g) == vectors[v][g] = "complete"

\* mutant: the upsert is not read back
IndexChunksUnproven(v, g) ==
  \E left \in {"partial", "complete"} : vectors' = [vectors EXCEPT ![v][g] = left]

(* index returned: every chunk was upserted and read back.                 *)
IndexChunks(v, g) == vectors' = [vectors EXCEPT ![v][g] = "complete"]

(* index raised: the idempotent upsert left some prefix of its work.       *)
IndexChunksPartly(v, g) ==
  \E left \in IF Probed(v, g) THEN {"complete"} ELSE {vectors[v][g], "partial", "complete"} :
    vectors' = [vectors EXCEPT ![v][g] = left]

\* mutant: the chunks are left in the collection
DeleteNoChunks(v, g) == UNCHANGED vectors

\* mutant: the chunks are deleted from every collection
DeleteChunksEverywhere(v, g) ==
  vectors' = [vectors EXCEPT ![v] = [h \in Generations |-> "none"]]

(* delete returned: no probe of the chunk set is left.                     *)
DeleteChunks(v, g) == vectors' = [vectors EXCEPT ![v][g] = "none"]

(* delete raised: the deletion or its verification failed.                 *)
DeleteChunksPartly(v, g) ==
  \E left \in {vectors[v][g], "none"} \cup (IF vectors[v][g] = "none" THEN {} ELSE {"partial"}) :
    vectors' = [vectors EXCEPT ![v][g] = left]
=============================================================================
