--------------------------- MODULE IngestionRunner ---------------------------
(***************************************************************************)
(* The full scan of a vault (ingestion/runner.py), driven by the workflow  *)
(* of ingestion/workflow.py.  A caller works on one run: it begins it,     *)
(* lists and reads the files, saves the plan, applies the items one by one *)
(* and finishes the run.  A person edits the vault meanwhile, a caller may *)
(* raise or die between any two steps, and another caller may continue the *)
(* same run.                                                               *)
(***************************************************************************)
EXTENDS IngestionService, Naturals

CONSTANTS
  Callers,
  Scopes,       \* the path sets callers are configured to scan
  Preparation,  \* what parsing and the safety scan may make of a content
  MaxEdits      \* bound on the edits of the vault

ASSUME IngestionAssumption ==
  /\ Scopes \subseteq SUBSET Paths
  /\ Preparation \in [Contents -> (SUBSET Prepared) \ {{}}]
  /\ MaxEdits \in Nat

Labels ==
  {"idle", "inventory", "plan", "capture", "save", "apply", "next",
   "prepared", "unread"}

(* VaultFileObservation                                                    *)
Observation == [path : Paths, key : Keys \cup {None}]

NoFile == [key |-> None, content |-> None]
File == [key : Keys \cup {None}, content : Contents]

VARIABLES
  vault,   \* the file at each path
  edits,
  call,    \* what each caller is doing
  calm     \* nothing fails by itself from here on

callers == <<call, calm>>
vars == <<sources, ledger, vault, edits, callers>>

Idle ==
  [at |-> "idle", run |-> None, scope |-> {}, listed |-> {}, manifest |-> {},
   items |-> {}, item |-> None, prepared |-> None]

Call ==
  [at : Labels, run : Runs \cup {None}, scope : Scopes \cup {{}},
   listed : SUBSET Observation, manifest : SUBSET ManifestEntry,
   items : SUBSET PlanItem, item : PlanItem \cup {None},
   prepared : Prepared \cup {None}]

TypeOK ==
  /\ SourcesTypeOK /\ LedgerTypeOK
  /\ vault \in [Paths -> File \cup {NoFile}]
  /\ edits \in 0..MaxEdits
  /\ call \in [Callers -> Call]
  /\ \A c \in Callers : call[c].at # "idle" => call[c].run \in Runs
  /\ calm \in BOOLEAN

Init ==
  /\ SourcesInit /\ LedgerInit
  /\ vault \in [Paths -> File \cup {NoFile}]
  /\ \A p, q \in Paths : vault[p].key = vault[q].key => p = q \/ vault[p].key = None
  /\ edits = 0
  /\ call = [c \in Callers |-> Idle]
  /\ calm = FALSE

-----------------------------------------------------------------------------
(* The person who owns the vault.                                          *)

Edit(v) == edits < MaxEdits /\ edits' = edits + 1 /\ vault' = v
           /\ UNCHANGED <<sources, ledger, callers>>

(* A file is created or written; an editor that saves by replacing the     *)
(* file gives it another identity.                                         *)
SaveFile(p, f) ==
  /\ f # vault[p]
  /\ \A q \in Paths \ {p} : vault[q].key = f.key => f.key = None
  /\ Edit([vault EXCEPT ![p] = f])

RemoveFile(p) == vault[p] # NoFile /\ Edit([vault EXCEPT ![p] = NoFile])

RenameFile(p, q) ==
  /\ p # q /\ vault[p] # NoFile
  /\ Edit([vault EXCEPT ![q] = vault[p], ![p] = NoFile])

-----------------------------------------------------------------------------
(* Moves of a caller.                                                      *)

At(c, label) == call[c].at = label

Goto(c, label) ==
  /\ call' = [call EXCEPT ![c] = [Idle EXCEPT !.at = label, !.run = call[c].run,
                                              !.scope = call[c].scope]]
  /\ UNCHANGED calm

(* The loop of apply_pending goes on with the other items it has listed.   *)
NextItem(c) ==
  /\ call' = [call EXCEPT ![c] = [@ EXCEPT !.at = "next", !.item = None, !.prepared = None]]
  /\ UNCHANGED calm

Return(c) == call' = [call EXCEPT ![c] = Idle] /\ UNCHANGED calm

(* run_ingestion_workflow for a run id.  A resumed graph continues at a    *)
(* later node: the nodes before it would find their work done and change   *)
(* nothing, as does the whole call for a run that has ended.               *)
RunWorkflow(c, r, scope) ==
  /\ At(c, "idle") /\ runs[r] \in ActiveStatus \cup {Absent}
  /\ call' = [call EXCEPT ![c] = [Idle EXCEPT !.at = "inventory", !.run = r, !.scope = scope]]
  /\ UNCHANGED <<sources, ledger, vault, edits, calm>>

(* begin_run: a run that is there is taken up again.                       *)
BeginRun(c) ==
  /\ At(c, "inventory")
  /\ \/ runs[call[c].run] = Absent /\ InsertRun(call[c].run)
     \/ runs[call[c].run] # Absent /\ UNCHANGED ledger
  /\ Goto(c, "plan")
  /\ UNCHANGED <<sources, vault, edits>>

(* IngestionAlreadyRunningError                                            *)
RefuseRun(c) ==
  /\ At(c, "inventory") /\ runs[call[c].run] = Absent /\ ActiveRuns # {}
  /\ Return(c)
  /\ UNCHANGED <<sources, ledger, vault, edits>>

-----------------------------------------------------------------------------
(* plan_run and capture_inventory.                                         *)

(* First unit of work of plan_run, and the inventory.                      *)
ListInventory(c) ==
  /\ At(c, "plan") /\ runs[call[c].run] = "PLANNING"
  /\ call' = [call EXCEPT ![c] = [@ EXCEPT
       !.at = "capture", !.listed = {[path |-> p, key |-> vault[p].key] :
                                         p \in {q \in call[c].scope : vault[q] # NoFile}}]]
  /\ UNCHANGED <<sources, ledger, vault, edits, calm>>

PlanAlreadySaved(c) ==
  /\ At(c, "plan") /\ runs[call[c].run] # "PLANNING"
  /\ Goto(c, "apply")
  /\ UNCHANGED <<sources, ledger, vault, edits>>

(* The file is read stably, or its entry is a failure that keeps the path  *)
(* and the file key that were listed.                                      *)
Capture(c, o, key, content) ==
  /\ At(c, "capture") /\ o \in call[c].listed
  /\ call' = [call EXCEPT ![c] = [@ EXCEPT
       !.listed = call[c].listed \ {o},
       !.manifest = call[c].manifest \cup
         {[path |-> o.path, key |-> key, content |-> content]}]]
  /\ UNCHANGED <<sources, ledger, vault, edits, calm>>

CaptureFile(c, o) ==
  vault[o.path] # NoFile /\ Capture(c, o, vault[o.path].key, vault[o.path].content)

(* Unstable, too large, or gone since it was listed.                       *)
CaptureFailure(c, o) ==
  (vault[o.path] = NoFile \/ ~calm) /\ Capture(c, o, o.key, None)

LoadKnownSources(c) ==
  /\ At(c, "capture") /\ call[c].listed = {}
  /\ call' = [call EXCEPT ![c] = [@ EXCEPT
       !.at = "save", !.manifest = {},
       !.items = PlanIngestion(KnownSources(call[c].scope), call[c].manifest)]]
  /\ UNCHANGED <<sources, ledger, vault, edits, calm>>

SavePlanRun(c) ==
  /\ At(c, "save")
  /\ SavePlan(call[c].run, call[c].items)
  /\ Goto(c, "apply")
  /\ UNCHANGED <<sources, vault, edits>>

-----------------------------------------------------------------------------
(* apply_pending.                                                          *)

ListPendingItems(c) ==
  /\ At(c, "apply")
  /\ call' = [call EXCEPT ![c] = [@ EXCEPT
       !.at = "next", !.items = ItemsIn(call[c].run, {"PENDING"})]]
  /\ UNCHANGED <<sources, ledger, vault, edits, calm>>

NeedsDocument(i) == i.content # None

TakeItem(c, i, label, prepared) ==
  /\ At(c, "next") /\ i \in call[c].items
  /\ call' = [call EXCEPT ![c] = [@ EXCEPT
       !.at = label, !.items = call[c].items \ {i}, !.item = i, !.prepared = prepared]]
  /\ UNCHANGED <<sources, ledger, vault, edits, calm>>

TakeItemWithoutDocument(c, i) ==
  ~NeedsDocument(i) /\ TakeItem(c, i, "prepared", None)

(* _prepare_item                                                           *)
PrepareItem(c, i, prepared) ==
  /\ NeedsDocument(i)
  /\ vault[i.path].content = i.content /\ prepared \in Preparation[i.content]
  /\ TakeItem(c, i, "prepared", prepared)

(* The file has changed since the plan was frozen, or cannot be read.      *)
FailToPrepareItem(c, i) ==
  /\ NeedsDocument(i)
  /\ vault[i.path].content # i.content \/ ~calm
  /\ TakeItem(c, i, "unread", None)

MarkItemFailed(c) ==
  /\ At(c, "unread") /\ CanStartItem(call[c].run, call[c].item)
  /\ SettleItem(call[c].run, call[c].item, "FAILED")
  /\ NextItem(c)
  /\ UNCHANGED <<sources, changes, vault, edits>>

ApplyPreparedItem(c) ==
  /\ At(c, "prepared") /\ CanStartItem(call[c].run, call[c].item)
  /\ ~Refused(call[c].item)
  /\ ApplyItem(call[c].run, call[c].item, call[c].prepared)
  /\ NextItem(c)
  /\ UNCHANGED <<vault, edits>>

ReplayItem(c) ==
  /\ At(c, "prepared") /\ Replayed(call[c].run, call[c].item)
  /\ NextItem(c)
  /\ UNCHANGED <<sources, ledger, vault, edits>>

-----------------------------------------------------------------------------
(* reconcile_run, and the ways a call ends early.                          *)

ReconcileRun(c) ==
  /\ At(c, "next") /\ call[c].items = {}
  /\ \/ Finished(call[c].run) /\ FinishRun(call[c].run)
     \/ ~Finished(call[c].run) /\ UNCHANGED ledger
  /\ Return(c)
  /\ UNCHANGED <<sources, vault, edits>>

(* An exception leaves the call through fail_planning_run.                 *)
Raise(c) ==
  /\ FailPlanningRun(call[c].run)
  /\ Return(c)
  /\ UNCHANGED <<sources, vault, edits>>

(* The item was settled by another caller before it could be failed, or    *)
(* the service refuses it.                                                 *)
RaiseOnItem(c) ==
  /\ \/ At(c, "unread") /\ ~CanStartItem(call[c].run, call[c].item)
     \/ At(c, "prepared") /\ CanStartItem(call[c].run, call[c].item)
        /\ Refused(call[c].item)
  /\ Raise(c)

(* The inventory is incomplete, the database is busy, the disk is full.    *)
Fault(c) == ~At(c, "idle") /\ runs[call[c].run] # Absent /\ ~calm /\ Raise(c)

Crash(c) ==
  /\ ~At(c, "idle") /\ ~calm
  /\ Return(c)
  /\ UNCHANGED <<sources, ledger, vault, edits>>

-----------------------------------------------------------------------------
Step(c) ==
  \/ BeginRun(c) \/ RefuseRun(c)
  \/ ListInventory(c) \/ PlanAlreadySaved(c)
  \/ \E o \in call[c].listed : CaptureFile(c, o) \/ CaptureFailure(c, o)
  \/ LoadKnownSources(c) \/ SavePlanRun(c)
  \/ ListPendingItems(c)
  \/ \E i \in call[c].items :
       \/ TakeItemWithoutDocument(c, i) \/ FailToPrepareItem(c, i)
       \/ \E prepared \in Prepared : PrepareItem(c, i, prepared)
  \/ MarkItemFailed(c) \/ ApplyPreparedItem(c) \/ ReplayItem(c)
  \/ ReconcileRun(c) \/ RaiseOnItem(c)

Start(c, r) == \E scope \in Scopes : RunWorkflow(c, r, scope)

Environment ==
  \/ \E p \in Paths : RemoveFile(p) \/ \E f \in File : SaveFile(p, f)
  \/ \E p, q \in Paths : RenameFile(p, q)

Next ==
  \/ \E c \in Callers : Step(c) \/ Fault(c) \/ Crash(c) \/ \E r \in Runs : Start(c, r)
  \/ Environment

Spec == Init /\ [][Next]_vars

CalmDown == ~calm /\ calm' = TRUE /\ UNCHANGED <<sources, ledger, vault, edits, call>>

(* A call that has begun goes on, and an unfinished run is called again.   *)
Fairness ==
  /\ \A c \in Callers : WF_vars(Step(c))
  /\ \A r \in Runs : SF_vars(runs[r] \in ActiveStatus /\ \E c \in Callers : Start(c, r))

FairSpec == Init /\ [][Next \/ CalmDown]_vars /\ Fairness

-----------------------------------------------------------------------------
(* Properties.                                                             *)

(* One run of the vault is active at a time.                               *)
OneActiveRun == \A q, r \in ActiveRuns : q = r

(* An item waits only in a run that is applying its plan, and no unit of   *)
(* work leaves one half applied.                                           *)
OnlyApplyingRunsHavePending ==
  \A r \in Runs :
    /\ runs[r] \in {Absent, "PLANNING"} => DOMAIN items[r] = {}
    /\ runs[r] # "APPLYING" => ItemsIn(r, {"PENDING"}) = {}
    /\ ItemsIn(r, {"APPLYING"}) = {}

(* A change has been announced by an item that succeeded, once.            *)
ChangesComeFromItems ==
  /\ \A change \in changes : change.item \in ItemsIn(change.run, {"SUCCEEDED"})
  /\ \A x, y \in changes : x.run = y.run /\ x.item = y.item => x = y

(* What a caller goes on with is in the plan of its run.                   *)
CallsHoldPlannedItems ==
  \A c \in Callers :
    /\ call[c].at \in {"next", "prepared", "unread"} =>
         call[c].items \subseteq DOMAIN items[call[c].run]
    /\ call[c].at \in {"prepared", "unread"} => call[c].item \in DOMAIN items[call[c].run]

(* The inductive invariant: runs, items, announcements and what callers    *)
(* remember of them keep together, whoever fails or dies.                  *)
IngestionInv ==
  /\ TypeOK
  /\ OneActiveRun
  /\ OnlyApplyingRunsHavePending
  /\ ChangesComeFromItems
  /\ CallsHoldPlannedItems

Applying == {r \in Runs : runs[r] = "APPLYING"}

(* The frozen plan of a run stays applicable for as long as the run lasts, *)
(* however late its items are applied and whoever plans beside it: an item *)
(* that waits finds its source live and its path free, and the plan names  *)
(* each source and each path once, so that the order does not matter.      *)
PlanStaysApplicable ==
  \A r \in Applying :
    /\ \A i, j \in DOMAIN items[r] :
         i # j => i.path # j.path /\ (i.source # j.source \/ i.source = None)
    /\ \A i \in ItemsIn(r, {"PENDING"}) :
         /\ i.action # "CREATED" => sources[i.source].live
         /\ i.action \in {"CREATED", "MOVED"} => ~Occupied(i.path, i.source)

(* Until a run ends, the sources say what its applied items said: nothing  *)
(* another call does takes the effect of an item back.                     *)
AppliedItemsHold ==
  \A r \in Applying : \A i \in ItemsIn(r, {"SUCCEEDED"}) :
    \/ i.action = "DELETED" /\ ~sources[i.source].live
    \/ /\ i.action # "DELETED"
       /\ \E s \in Live : /\ sources[s].path = i.path /\ sources[s].current = i.content
                         /\ i.source \in {s, None}

(* What is current has passed the parser and the safety scan, whichever    *)
(* way it became current; after a deletion it is no longer offered.        *)
CurrentIsScreened ==
  \A s \in Sources : LET row == sources[s] IN row.current # None =>
    /\ "ready" \in Preparation[row.current]
    /\ row.status[row.current] = IF row.live THEN "READY" ELSE "DELETED"

(* No two live sources share a path, and no two captures of a call do.     *)
PathsAreDistinct ==
  /\ \A s, t \in Live : sources[s].path = sources[t].path => s = t
  /\ \A c \in Callers : LET row == call[c] IN
       /\ \A o, p \in row.listed : o.path = p.path => o = p
       /\ \A d, e \in row.manifest : d.path = e.path => d = e
       /\ \A o \in row.listed, e \in row.manifest : o.path # e.path
       /\ row.at # "capture" => row.listed = {} /\ row.manifest = {}

NamesEachOnce(plan) ==
  /\ \A i, j \in plan : i # j => i.path # j.path /\ (i.source # j.source \/ i.source = None)
  /\ \A i \in plan : i.action = "CREATED" => i.source = None

(* What an item of a plan relies on until it is applied.                   *)
Awaits(i, plan) ==
  /\ i.action # "CREATED" =>
       /\ sources[i.source].live
       /\ i.action # "MOVED" => sources[i.source].path = i.path
       /\ \A j \in plan \ {i} : j.path # sources[i.source].path
  /\ i.action \in {"CREATED", "MOVED"} => ~Occupied(i.path, i.source)

(* What the sources say of an item that was applied.                       *)
HasTakenEffect(i) ==
  \/ i.action = "DELETED" /\ ~sources[i.source].live /\ i.source \notin Fresh
  \/ /\ i.action # "DELETED"
     /\ \E s \in Live : /\ sources[s].path = i.path /\ sources[s].current = i.content
                        /\ i.source \in {s, None}

(* A plan is sound from when it is made, for as long as it may be saved,   *)
(* until the run that it was saved for has ended.                          *)
PlansAreSound ==
  /\ \A c \in Callers :
       /\ call[c].at \in {"capture", "save"} => runs[call[c].run] # Absent
       /\ At(c, "save") /\ runs[call[c].run] = "PLANNING" =>
            /\ NamesEachOnce(call[c].items)
            /\ \A i \in call[c].items : Awaits(i, call[c].items)
  /\ \A r \in Applying :
       /\ NamesEachOnce(DOMAIN items[r])
       /\ \A i \in ItemsIn(r, {"PENDING"}) : Awaits(i, DOMAIN items[r])
       /\ \A i \in ItemsIn(r, {"SUCCEEDED"}) : HasTakenEffect(i)

(* What a caller has prepared is what its document may come to, and every  *)
(* version that is READY has been found so.                                *)
PreparationsAreTrue ==
  /\ \A c \in Callers : At(c, "prepared") /\ NeedsDocument(call[c].item) =>
       call[c].prepared \in Preparation[call[c].item.content]
  /\ \A s \in Sources, d \in Contents :
       sources[s].status[d] = "READY" => "ready" \in Preparation[d]

(* The inductive invariant of what scans do to the sources.                *)
ScanInv ==
  IngestionInv /\ PathsAreDistinct /\ PlansAreSound /\ PreparationsAreTrue /\ CurrentIsScreened

(* Ingestion implements the ledger its consumers rely on.                  *)
Ledger == INSTANCE IngestionLedger WITH
  current <- [s \in Sources |-> IF sources[s].live THEN sources[s].current ELSE None]
ImplementsIngestionLedger == Ledger!Spec

(* Once disturbances have ended, calling an unfinished run again ends it,  *)
(* unless an item is left that the service refuses for repeating the       *)
(* version that is current.                                                *)
RunsEnd ==
  \A r \in Runs : (calm /\ runs[r] \in ActiveStatus) ~>
    \/ runs[r] \notin ActiveStatus
    \/ \E i \in ItemsIn(r, {"PENDING"}) : RepeatsCurrent(i)
=============================================================================
