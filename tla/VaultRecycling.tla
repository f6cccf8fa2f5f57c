---------------------------- MODULE VaultRecycling ----------------------------
(***************************************************************************)
(* The trash of the vault (publication/vault.py): the file of a deleted    *)
(* note waits there, under its version, for a restoration.                 *)
(***************************************************************************)
EXTENDS AtomicVaultPublisher

VARIABLE trash   \* versions whose file is in the trash

TrashTypeOK == trash \subseteq Operations

(* recycle returns: the file is moved now, or an earlier call moved it.    *)
CanRecycle(n, v) ==
  \/ VerifiesFinal(n, v) /\ v \notin trash
  \/ final[n] = None /\ v \in trash

Recycle(n, v) ==
  /\ final' = [final EXCEPT ![n] = None]
  /\ trash' = trash \cup {v}

\* mutant: a file moved back by an earlier call is an error
CanRestoreRecycledOnce(n, v) == final[n] = None /\ v \in trash

CanRestoreRecycled(n, v) ==
  \/ VerifiesFinal(n, v) /\ v \notin trash
  \/ final[n] = None /\ v \in trash

RestoreRecycled(n, v) ==
  /\ final' = [final EXCEPT ![n] = v]
  /\ trash' = trash \ {v}
=============================================================================
