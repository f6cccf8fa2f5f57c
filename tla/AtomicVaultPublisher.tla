------------------------ MODULE AtomicVaultPublisher ------------------------
(***************************************************************************)
(* The Obsidian vault as publication/vault.py drives it: one staging file  *)
(* per curated version, one final file per note, an archive of replaced    *)
(* versions.  Content is the version whose artifact it is; ManualContent   *)
(* stands for whatever a person saved over a generated file.               *)
(***************************************************************************)
EXTENDS PublicationRequests

CONSTANT ManualContent

ASSUME VaultAssumption == ManualContent \notin Operations \cup {None}

VARIABLES
  staging,  \* versions whose staging file exists (and verifies)
  final,    \* content at each note's canonical path
  archive   \* versions kept under the versions root

vault == <<staging, final, archive>>

VaultTypeOK ==
  /\ staging \subseteq Operations
  /\ final \in [Notes -> Operations \cup {None, ManualContent}]
  /\ archive \subseteq Operations

VaultInit ==
  /\ staging = {}
  /\ final = [n \in Notes |-> None]
  /\ archive = {}

\* mutant: any file will do
FinalExists(n, v) == final[n] # None

(* verify(path, expected_hash) returns instead of raising.                 *)
VerifiesFinal(n, v) == final[n] = v
VerifiesStaging(v) == v \in staging

(* stage writes the file or, when it is there already, only verifies it.   *)
Stage(v) == staging' = staging \cup {v}

(* The checks of publish: the staged file verifies, and a file already at  *)
(* the final path must be the expected current version.                    *)
CanReplaceFinal(n, v, expected) ==
  /\ VerifiesStaging(v)
  /\ final[n] # None => expected # None /\ VerifiesFinal(n, expected)

\* mutant: the replaced version is not kept
NothingArchived(n, expected) == UNCHANGED archive

\* mutant: archives although there is nothing to replace
ArchiveAlways(n, expected) == archive' = archive \cup {expected}

(* A file that is about to be replaced is archived first.                  *)
ArchiveReplaced(n, expected) ==
  archive' = IF final[n] = None THEN archive ELSE archive \cup {expected}

(* os.replace: the staged file becomes the final file, whatever was there. *)
MoveStagedToFinal(n, v) ==
  /\ final' = [final EXCEPT ![n] = v]
  /\ staging' = staging \ {v}
=============================================================================
