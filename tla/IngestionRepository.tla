------------------------- MODULE IngestionRepository -------------------------
(***************************************************************************)
(* Runs, their items and the knowledge changes that items announce         *)
(* (persistence/ingestion_repository.py; add_knowledge_change of           *)
(* persistence/publication_repository.py).  An item is the plan item it    *)
(* was made from: its action, path and content are never written again,    *)
(* only its status is.                                                     *)
(***************************************************************************)
EXTENDS IngestionPlanner, StateTransitions

CONSTANT Runs

VARIABLES
  runs,      \* status of each run
  items,     \* per run, the status of each item of its plan
  changes    \* knowledge_changes, all RECEIVED here

ledger == <<runs, items, changes>>

ActiveStatus == {"PLANNING", "APPLYING"}
SettledStatus == {"SUCCEEDED", "SKIPPED", "QUARANTINED", "FAILED"}

NoItems == [i \in {} |-> "PENDING"]

KnowledgeChange ==
  [run : Runs, item : PlanItem, source : Sources,
   type : {"CREATED", "UPDATED", "MOVED", "DELETED"},
   base : Contents \cup {None}, target : Contents]

(* What a run's rows of ingestion_items amount to.                         *)
IsItemTable(rows) ==
  DOMAIN rows \subseteq PlanItem /\ \A i \in DOMAIN rows : rows[i] \in IngestionItemStatus

LedgerTypeOK ==
  /\ runs \in [Runs -> IngestionRunStatus \cup {Absent}]
  /\ \A r \in Runs : IsItemTable(items[r])
  /\ DOMAIN items = Runs
  /\ changes \subseteq KnowledgeChange

LedgerInit ==
  /\ runs = [r \in Runs |-> Absent]
  /\ items = [r \in Runs |-> NoItems]
  /\ changes = {}

-----------------------------------------------------------------------------

ActiveRuns == {r \in Runs : runs[r] \in ActiveStatus}

ItemsIn(r, statuses) == {i \in DOMAIN items[r] : items[r][i] \in statuses}

\* mutant: nothing keeps a second run of the vault from being active
InsertRunBeside(r) ==
  /\ runs' = [runs EXCEPT ![r] = "PLANNING"]
  /\ UNCHANGED <<items, changes>>

(* begin_run: the unique index lets one run of the vault be active.        *)
InsertRun(r) ==
  /\ ActiveRuns = {}
  /\ runs' = [runs EXCEPT ![r] = "PLANNING"]
  /\ UNCHANGED <<items, changes>>

(* materialize_plan_items                                                  *)
PendingItems(plan) == [i \in plan |-> "PENDING"]

\* mutant: the run's status is not looked at again before the plan is saved
SavePlanBlindly(r, plan) ==
  /\ items' = [items EXCEPT ![r] = PendingItems(plan)]
  /\ runs' = [runs EXCEPT ![r] = "APPLYING"]
  /\ UNCHANGED changes

(* The second unit of work of plan_run: save_plan and transition_run.      *)
SavePlan(r, plan) ==
  IF runs[r] = "PLANNING"
  THEN /\ items' = [items EXCEPT ![r] = PendingItems(plan)]
       /\ runs' = [runs EXCEPT ![r] = "APPLYING"]
       /\ UNCHANGED changes
  ELSE UNCHANGED ledger

(* start_item followed, in the same unit of work, by complete_item or      *)
(* fail_item.                                                              *)
CanStartItem(r, i) == CanTransition(IngestionItemTransitions, items[r][i], "APPLYING")

SettleItem(r, i, status) ==
  /\ items' = [items EXCEPT ![r][i] = status]
  /\ UNCHANGED runs

(* add_knowledge_change, under the operation id of the item                *)
AddChange(r, i, s, type, base, target) ==
  changes' = changes \cup
    {[run |-> r, item |-> i, source |-> s, type |-> type, base |-> base, target |-> target]}

\* mutant: an item that failed keeps its run from ending
FinishedWithoutFailure(r) ==
  runs[r] = "APPLYING" /\ ItemsIn(r, {"PENDING", "APPLYING", "FAILED"}) = {}

(* transition_run to a final status: no item is left.                      *)
Finished(r) == runs[r] = "APPLYING" /\ ItemsIn(r, {"PENDING", "APPLYING"}) = {}

FinishRun(r) ==
  /\ runs' = [runs EXCEPT ![r] =
       IF ItemsIn(r, {"FAILED", "QUARANTINED"}) # {} THEN "PARTIAL_FAILED" ELSE "COMPLETED"]
  /\ UNCHANGED <<items, changes>>

(* fail_planning_run                                                       *)
FailPlanningRun(r) ==
  /\ runs' = [runs EXCEPT ![r] = IF @ = "PLANNING" THEN "FAILED" ELSE @]
  /\ UNCHANGED <<items, changes>>
=============================================================================
