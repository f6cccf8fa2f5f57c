----------------------------- MODULE Reconciliation -----------------------------
(***************************************************************************)
(* PublicationReconciler (publication/reconciliation.py) as the reconcile  *)
(* command runs it beside publication, deletion and restoration: it lists  *)
(* the notes a generation serves, verifies the file of each, compares the  *)
(* rows of its version in the collection with the chunk set, and indexes   *)
(* the version again when they differ.  Nothing is reread after the        *)
(* listing.  A finding is all a step that fails leaves; the next version   *)
(* is taken up.                                                            *)
(*                                                                         *)
(* Bounds: the command is not given --no-repair; the collection loses rows *)
(* only until calm, and holds no row of a version that is not in its chunk *)
(* set.                                                                    *)
(***************************************************************************)
EXTENDS KnowledgeLifecycle

CONSTANTS
  Reconcilers,
  LosesRows      \* the collection may lose rows

ASSUME ReconciliationAssumption == LosesRows \in BOOLEAN

VARIABLE reconciler   \* what each command has listed and where it stands

reconciledVars == <<allVars, reconciler>>

NoReconcile == [at |-> "idle", generation |-> None, todo |-> {}, version |-> None]

ReconcileLabels == {"idle", "vault", "index", "repair"}

ReconcilerTypeOK ==
  reconciler \in [Reconcilers ->
    [at : ReconcileLabels, generation : Generations \cup {None}, todo : SUBSET Operations,
     version : Operations \cup {None}]]

ReconcilerInit == reconciler = [c \in Reconcilers |-> NoReconcile]

-----------------------------------------------------------------------------
ReconcilerAt(c, label) == reconciler[c].at = label

ReconcileOn(c, label) == reconciler' = [reconciler EXCEPT ![c].at = label]

EndReconcile(c) == reconciler' = [reconciler EXCEPT ![c] = NoReconcile]

(* A finding is recorded and the next version is taken up, if there is one. *)
NextFinding(c) ==
  IF reconciler[c].todo = {} THEN EndReconcile(c) ELSE ReconcileOn(c, "vault")

(* list_active_notes: the published notes on g that are not deleted.       *)
ListActiveNotes(g) ==
  {note[n].current : n \in {m \in Notes : Served(m) /\ note[m].generation = g}}

(* _reconcile of the command line: the listing, read in one unit of work.  *)
StartReconcile(c, g) ==
  /\ ReconcilerAt(c, "idle") /\ ListActiveNotes(g) # {}
  /\ reconciler' = [reconciler EXCEPT ![c] =
       [at |-> "vault", generation |-> g, todo |-> ListActiveNotes(g), version |-> None]]
  /\ UNCHANGED vectors

(* _verify_vault: without the right file in place the index is left alone. *)
VerifyVault(c) ==
  /\ ReconcilerAt(c, "vault")
  /\ \E v \in reconciler[c].todo :
       LET rest == reconciler[c].todo \ {v} IN
       reconciler' = [reconciler EXCEPT ![c] =
         IF VerifiesFinal(NoteOf[v], v)
         THEN [@ EXCEPT !.at = "index", !.version = v, !.todo = rest]
         ELSE IF rest = {} THEN NoReconcile ELSE [@ EXCEPT !.todo = rest]]
  /\ UNCHANGED vectors

\* mutant: drift is reported and left
ReportIndex(c) ==
  /\ ReconcilerAt(c, "index") /\ NextFinding(c) /\ UNCHANGED vectors

(* _verify_index: the rows of the version against its chunks.              *)
VerifyIndex(c) ==
  /\ ReconcilerAt(c, "index")
  /\ IF Probed(reconciler[c].version, reconciler[c].generation)
     THEN NextFinding(c) ELSE ReconcileOn(c, "repair")
  /\ UNCHANGED vectors

(* _verify_index: the version is indexed again, and read back.             *)
RepairVersion(c) ==
  /\ ReconcilerAt(c, "repair")
  /\ IndexChunks(reconciler[c].version, reconciler[c].generation)
  /\ NextFinding(c)

RepairRaises(c) ==
  /\ ReconcilerAt(c, "repair")
  /\ IndexChunksPartly(reconciler[c].version, reconciler[c].generation)
  /\ NextFinding(c)

(* The index or the vault does not answer, which is a finding too.         *)
ReconcileUnreadable(c) ==
  ReconcilerAt(c, "index") /\ NextFinding(c) /\ UNCHANGED vectors

ReconcileCrash(c) == ~ReconcilerAt(c, "idle") /\ EndReconcile(c) /\ UNCHANGED vectors

ReconcileProgress(c) == VerifyVault(c) \/ VerifyIndex(c) \/ RepairVersion(c)

ReconcileDisturb(c) == RepairRaises(c) \/ ReconcileUnreadable(c) \/ ReconcileCrash(c)

(* The collection loses the rows of a version, or some of them.            *)
LoseRows(v, g) ==
  /\ LosesRows /\ vectors[v][g] # "none"
  /\ \E left \in {"none", "partial"} : vectors' = [vectors EXCEPT ![v][g] = left]
  /\ UNCHANGED reconciler

-----------------------------------------------------------------------------
OutsideIndex ==
  <<note, change, version, run, generation, job, staging, archive, final, trash, workers,
    calm, lifecycle, migration>>

ReconcilerRuns(c) ==
  /\ ReconcileProgress(c) \/ \E g \in Generations : StartReconcile(c, g)
  /\ UNCHANGED OutsideIndex

DriftStep ==
  /\ ~calm
  /\ \/ \E c \in Reconcilers : ReconcileDisturb(c)
     \/ \E v \in Operations, g \in Generations : LoseRows(v, g)
  /\ UNCHANGED OutsideIndex

-----------------------------------------------------------------------------
(* Properties.                                                             *)

(* Once the index and the callers have quietened down, a note that is      *)
(* served without all of its chunks gets them back, whatever deletions,    *)
(* restorations and publications go on (reconciliation.py _verify_index).  *)
DriftIsRepaired ==
  \A n \in Notes :
    (calm /\ Served(n) /\ ~Probed(note[n].current, note[n].generation))
      ~> (Served(n) => Probed(note[n].current, note[n].generation))
=============================================================================
