------------------------ MODULE IngestionRunner_proofs ------------------------
(***************************************************************************)
(* Proofs about ingestion, for any number of sources, paths, contents,     *)
(* runs and callers: what a run plans, applies and announces keeps         *)
(* together, and ingestion implements the ledger its consumers rely on.    *)
(***************************************************************************)
EXTENDS IngestionRunner, TLAPS

-----------------------------------------------------------------------------
(* The planner.                                                            *)

LEMMA MatchesArePairs ==
  ASSUME NEW known, NEW entries
  PROVE  /\ SamePath(known, entries) \subseteq known \X entries
         /\ Moves(known, entries) \subseteq known \X entries
BY DEF SamePath, Moves, SameKey, SameContent, KnownLeft, EntriesLeft

LEMMA PlanTyped ==
  ASSUME NEW known \in SUBSET KnownSource, NEW entries \in SUBSET ManifestEntry
  PROVE  PlanIngestion(known, entries) \subseteq PlanItem
<1> DEFINE kept == SamePath(known, entries)
           moved == Moves(KnownLeft(known, kept), EntriesLeft(entries, kept))
<1>1. /\ kept \subseteq known \X entries
      /\ moved \subseteq known \X entries
  <2>1. KnownLeft(known, kept) \subseteq known /\ EntriesLeft(entries, kept) \subseteq entries
    BY DEF KnownLeft, EntriesLeft
  <2>2. moved \subseteq KnownLeft(known, kept) \X EntriesLeft(entries, kept)
    BY MatchesArePairs
  <2> QED
    BY <2>1, <2>2, MatchesArePairs
<1>2. \A k \in known : k.source \in Sources /\ k.source # None
  BY NoneAssumption DEF KnownSource
<1>3. \A k \in known, e \in entries : SamePathItem(k, e) \in PlanItem /\ MovedItem(k, e) \in PlanItem
  BY <1>2 DEF SamePathItem, MovedItem, PlanItem, KnownSource, ManifestEntry
<1>4. \A e \in entries : CreatedItem(e) \in PlanItem
  BY DEF CreatedItem, PlanItem, ManifestEntry
<1>5. \A k \in known : DeletedItem(k) \in PlanItem
  BY <1>2 DEF DeletedItem, PlanItem, KnownSource
<1>6. \A m \in known \X entries : m[1] \in known /\ m[2] \in entries
  OBVIOUS
<1>7. {SamePathItem(m[1], m[2]) : m \in kept} \subseteq PlanItem
  BY <1>1, <1>3, <1>6
<1>8. {MovedItem(m[1], m[2]) : m \in moved} \subseteq PlanItem
  BY <1>1, <1>3, <1>6
<1>9. {CreatedItem(e) : e \in EntriesLeft(entries, kept \cup moved)} \subseteq PlanItem
  BY <1>4 DEF EntriesLeft
<1>10. {DeletedItem(k) : k \in {l \in KnownLeft(known, kept \cup moved) : l.eligible}}
         \subseteq PlanItem
  BY <1>5 DEF KnownLeft
<1> QED
  BY <1>7, <1>8, <1>9, <1>10 DEF PlanIngestion

LEMMA KnownTyped ==
  ASSUME SourcesTypeOK, NEW scope
  PROVE  KnownSources(scope) \in SUBSET KnownSource
<1> SUFFICES ASSUME NEW s \in Live
             PROVE  [source |-> s, path |-> sources[s].path, key |-> sources[s].key,
                     current |-> sources[s].current, latest |-> Latest(sources[s]),
                     unparsed |-> sources[s].status[Latest(sources[s])] = "PARSE_FAILED",
                     eligible |-> sources[s].path \in scope] \in KnownSource
  BY DEF KnownSources
<1>1. s \in Sources /\ sources[s] \in SourceRow /\ sources[s].path \in Paths
  BY DEF Live, SourcesTypeOK
<1>2. Latest(sources[s]) \in Contents \cup {None}
  BY <1>1 DEF Latest, SourceRow
<1> QED
  BY <1>1, <1>2 DEF KnownSource, SourceRow

-----------------------------------------------------------------------------
(* Sources.                                                                *)

(* A row that may be written to the sources.                               *)
SoundRow(row) ==
  row \in SourceRow /\ (row.live => row.path \in Paths /\ row.history # <<>>)

(* The version a consumer finds current.                                   *)
Served == [s \in Sources |-> IF sources[s].live THEN sources[s].current ELSE None]

LEMMA RowsAreSound ==
  ASSUME SourcesTypeOK, NEW s \in Sources
  PROVE  SoundRow(sources[s])
BY DEF SourcesTypeOK, SoundRow

LEMMA WriteTyped ==
  ASSUME SourcesTypeOK, NEW s \in Sources, NEW row, SoundRow(row), Write(s, row)
  PROVE  /\ SourcesTypeOK'
         /\ Served' = [Served EXCEPT ![s] = IF row.live THEN row.current ELSE None]
BY DEF SourcesTypeOK, SoundRow, Write, Served

LEMMA CapturedRow ==
  ASSUME NEW row \in SourceRow, NEW c \in Contents,
         row.live, row.path \in Paths, row.history # <<>> \/ row.status[c] = Absent
  PROVE  /\ SoundRow(Captured(row, c)) /\ Captured(row, c).live
         /\ Captured(row, c).current = row.current
<1>1. CASE row.status[c] # Absent
  BY <1>1 DEF Captured, SoundRow
<1>2. CASE row.status[c] = Absent
  <2>1. Append(row.history, c) \in Seq(Contents) /\ Append(row.history, c) # <<>>
    BY DEF SourceRow
  <2> QED
    BY <1>2, <2>1 DEF Captured, SoundRow, SourceRow, SourceVersionStatus
<1> QED
  BY <1>1, <1>2

LEMMA TransitionedRow ==
  ASSUME NEW row, SoundRow(row), NEW c \in Contents, NEW status \in SourceVersionStatus
  PROVE  /\ SoundRow(Transitioned(row, c, status))
         /\ Transitioned(row, c, status).live = row.live
         /\ Transitioned(row, c, status).current = row.current
BY DEF Transitioned, SoundRow, SourceRow

LEMMA ActivatedRow ==
  ASSUME NEW row, SoundRow(row), NEW c \in Contents
  PROVE  /\ SoundRow(Activated(row, c))
         /\ Activated(row, c).live = row.live
         /\ Activated(row, c).current = c
BY DEF Activated, SoundRow, SourceRow

LEMMA PlacedRow ==
  ASSUME SourcesTypeOK, NEW i \in PlanItem, i.source \in Sources
  PROVE  /\ SoundRow(Placed(i))
         /\ Placed(i).live = sources[i.source].live
         /\ Placed(i).current = sources[i.source].current
         /\ Placed(i).history = sources[i.source].history
<1>1. SoundRow(sources[i.source]) /\ i.path \in Paths /\ i.key \in Keys \cup {None}
  BY RowsAreSound DEF PlanItem
<1> QED
  BY <1>1 DEF Placed, Relocated, Touched, SoundRow, SourceRow

-----------------------------------------------------------------------------
(* What applying an item comes to.                                         *)

(* The item is settled and nothing is announced.                           *)
SettledQuietly(r, i) ==
  /\ \E status \in {"SKIPPED", "QUARANTINED", "FAILED"} :
       items' = [items EXCEPT ![r][i] = status]
  /\ changes' = changes /\ Served' = Served

(* The item has succeeded, and what is served moves by its announcement.   *)
SettledByChange(r, i) ==
  /\ items' = [items EXCEPT ![r][i] = "SUCCEEDED"]
  /\ \E change \in KnowledgeChange :
       /\ change.run = r /\ change.item = i
       /\ changes' = changes \cup {change}
       /\ change.type # "DELETED" => change.base = Served[change.source]
       /\ Served' = [Served EXCEPT ![change.source] =
            IF change.type = "DELETED" THEN None ELSE change.target]

Settled(r, i) ==
  /\ SourcesTypeOK' /\ runs' = runs
  /\ SettledQuietly(r, i) \/ SettledByChange(r, i)

LEMMA ChangeTyped ==
  ASSUME NEW r \in Runs, NEW i \in PlanItem, NEW s \in Sources,
         NEW type \in {"CREATED", "UPDATED", "MOVED", "DELETED"},
         NEW base \in Contents \cup {None}, NEW target \in Contents
  PROVE  [run |-> r, item |-> i, source |-> s, type |-> type,
          base |-> base, target |-> target] \in KnowledgeChange
BY DEF KnowledgeChange

(* A source is written with the version it had: nothing is announced.      *)
LEMMA KeptVersion ==
  ASSUME SourcesTypeOK, NEW r, NEW i, NEW s \in Sources, NEW row,
         SoundRow(row), Served[s] = (IF row.live THEN row.current ELSE None), Write(s, row),
         NEW status \in {"SKIPPED", "QUARANTINED", "FAILED"}, SettleItem(r, i, status),
         UNCHANGED changes
  PROVE  Settled(r, i)
<1>1. SourcesTypeOK' /\ Served' = [Served EXCEPT ![s] = IF row.live THEN row.current ELSE None]
  BY WriteTyped
<1>2. Served' = Served
  BY <1>1 DEF Served
<1> QED
  BY <1>1, <1>2 DEF Settled, SettledQuietly, SettleItem

(* The version written is announced as following on the one that was       *)
(* served.                                                                 *)
LEMMA AnnouncedVersion ==
  ASSUME SourcesTypeOK, NEW r \in Runs, NEW i \in PlanItem, NEW s \in Sources, NEW row,
         SoundRow(row), row.live, Write(s, row), row.current \in Contents,
         NEW type \in {"CREATED", "UPDATED", "MOVED"},
         SettleItem(r, i, "SUCCEEDED"),
         AddChange(r, i, s, type, Served[s], row.current)
  PROVE  Settled(r, i)
<1> DEFINE change == [run |-> r, item |-> i, source |-> s, type |-> type,
                      base |-> Served[s], target |-> row.current]
<1>1. SourcesTypeOK' /\ Served' = [Served EXCEPT ![s] = row.current]
  BY WriteTyped
<1>2. Served[s] \in Contents \cup {None}
  BY DEF Served, SourcesTypeOK, SourceRow
<1>3. change \in KnowledgeChange
  BY <1>2, ChangeTyped
<1>4. /\ change.run = r /\ change.item = i /\ change.source = s
      /\ change.type = type /\ change.base = Served[s] /\ change.target = row.current
  OBVIOUS
<1>5. changes' = changes \cup {change}
  BY DEF AddChange
<1>6. items' = [items EXCEPT ![r][i] = "SUCCEEDED"] /\ runs' = runs
  BY DEF SettleItem
<1> HIDE DEF change
<1>7. SettledByChange(r, i)
  BY <1>1, <1>3, <1>4, <1>5, <1>6 DEF SettledByChange
<1> QED
  BY <1>1, <1>6, <1>7 DEF Settled

LEMMA PreparedVersion ==
  ASSUME SourcesTypeOK, NEW r \in Runs, NEW i \in PlanItem, NEW s \in Sources,
         NEW row \in SourceRow, NEW prepared,
         i.action \in {"CREATED", "UPDATED", "MOVED"}, i.content \in Contents,
         row.live, row.path \in Paths, row.history # <<>> \/ row.status[i.content] = Absent,
         row.current = Served[s],
         FinishPreparedVersion(r, i, s, row, prepared)
  PROVE  Settled(r, i)
<1> DEFINE c == i.content
           version == Captured(row, c)
<1>1. /\ SoundRow(version) /\ version.live /\ version.current = Served[s]
  BY CapturedRow
<1>2. ASSUME NEW status \in SourceVersionStatus
      PROVE  /\ SoundRow(Transitioned(version, c, status))
             /\ Transitioned(version, c, status).live
             /\ Transitioned(version, c, status).current = Served[s]
  BY <1>1, TransitionedRow
<1>3. /\ SoundRow(Activated(Transitioned(version, c, "READY"), c))
      /\ Activated(Transitioned(version, c, "READY"), c).live
      /\ Activated(Transitioned(version, c, "READY"), c).current = c
  <2>1. "READY" \in SourceVersionStatus
    BY DEF SourceVersionStatus
  <2> QED
    BY <1>2, <2>1, ActivatedRow
<1>4. CASE /\ prepared = "parse_failed"
           /\ Write(s, Transitioned(version, c, "PARSE_FAILED"))
           /\ SettleItem(r, i, "FAILED") /\ UNCHANGED changes
  <2>1. "PARSE_FAILED" \in SourceVersionStatus
    BY DEF SourceVersionStatus
  <2> QED
    BY <1>2, <1>4, <2>1, KeptVersion
<1>5. CASE /\ prepared = "quarantine"
           /\ Write(s, Transitioned(version, c, "QUARANTINED"))
           /\ SettleItem(r, i, "QUARANTINED") /\ UNCHANGED changes
  <2>1. "QUARANTINED" \in SourceVersionStatus
    BY DEF SourceVersionStatus
  <2> QED
    BY <1>2, <1>5, <2>1, KeptVersion
<1>6. CASE /\ prepared = "ready"
           /\ Write(s, Activated(Transitioned(version, c, "READY"), c))
           /\ SettleItem(r, i, "SUCCEEDED")
           /\ AddChange(r, i, s, ChangeType(i, row.current), row.current, c)
  <2>1. ChangeType(i, row.current) \in {"CREATED", "UPDATED", "MOVED"}
    BY DEF ChangeType
  <2> QED
    BY <1>3, <1>6, <2>1, AnnouncedVersion
<1> QED
  BY <1>4, <1>5, <1>6 DEF FinishPreparedVersion

LEMMA ItemSettled ==
  ASSUME SourcesTypeOK, NEW r \in Runs, NEW i \in PlanItem, NEW prepared,
         ApplyItem(r, i, prepared)
  PROVE  Settled(r, i)
<1>1. i.source \in Sources \cup {None} /\ i.path \in Paths /\ i.content \in Contents \cup {None}
      /\ (i.action # "CREATED" => i.source \in Sources)
  BY DEF PlanItem
<1>2. CASE ApplyUncaptured(r, i)
  BY <1>2 DEF ApplyUncaptured, Settled, SettledQuietly, SettleItem, SourcesTypeOK, Served
<1>3. CASE ApplyCreated(r, i, prepared)
  <2> DEFINE row == NewSource(i.path, i.key)
  <2>1. PICK s \in Fresh : FinishPreparedVersion(r, i, s, row, prepared)
    BY <1>3 DEF ApplyCreated
  <2>2. /\ s \in Sources /\ Served[s] = None
    BY DEF Fresh, Unborn, Served
  <2>3. /\ i.action = "CREATED" /\ i.content \in Contents
    BY <1>1, <1>3 DEF ApplyCreated
  <2>4. /\ Unborn \in SourceRow /\ Unborn.current = None /\ Unborn.status[i.content] = Absent
    BY <2>3 DEF Unborn, SourceRow
  <2>5. row \in SourceRow /\ row.live /\ row.path \in Paths /\ row.current = None
        /\ row.status[i.content] = Absent
    BY <2>4, <1>1 DEF NewSource, SourceRow, PlanItem
  <2> HIDE DEF row
  <2> QED
    BY <2>1, <2>2, <2>3, <2>5, PreparedVersion
<1>4. ASSUME AppliesToExisting(i)
      PROVE  /\ i.source \in Sources /\ i.content \in Contents
             /\ i.action \in {"CREATED", "UPDATED", "MOVED"}
             /\ SoundRow(Placed(i)) /\ Placed(i).live
             /\ Placed(i).current = sources[i.source].current
             /\ Placed(i).history # <<>>
             /\ Served[i.source] = sources[i.source].current
  <2>1. /\ i.source \in Sources /\ sources[i.source].live /\ i.content \in Contents
        /\ i.action \in {"UPDATED", "MOVED"}
    BY <1>1, <1>4 DEF AppliesToExisting
  <2>2. sources[i.source].history # <<>>
    BY <2>1 DEF SourcesTypeOK
  <2> QED
    BY <2>1, <2>2, PlacedRow DEF Served
<1>5. ASSUME AppliesToExisting(i)
      PROVE  ChangeType(i, sources[i.source].current) \in {"CREATED", "UPDATED", "MOVED"}
  BY DEF ChangeType
<1>6. CASE ApplyNewContent(r, i, prepared)
  BY <1>4, <1>6, PreparedVersion DEF ApplyNewContent, SoundRow
<1>7. CASE FinishPreservedQuarantine(r, i)
  BY <1>4, <1>7, KeptVersion DEF FinishPreservedQuarantine
<1>8. CASE FinishMoveWithoutVersion(r, i)
  BY <1>4, <1>8, AnnouncedVersion DEF FinishMoveWithoutVersion
<1>9. CASE FinishReadyReactivation(r, i)
  <2>1. AppliesToExisting(i)
    BY <1>9 DEF FinishReadyReactivation
  <2>2. /\ SoundRow(Activated(Placed(i), i.content))
        /\ Activated(Placed(i), i.content).live
        /\ Activated(Placed(i), i.content).current = i.content
    BY <1>4, <2>1, ActivatedRow
  <2> QED
    BY <1>4, <1>5, <1>9, <2>1, <2>2, AnnouncedVersion DEF FinishReadyReactivation
<1>10. CASE ApplyUnchanged(r, i)
  <2> DEFINE row == Touched(sources[i.source], i.key)
  <2>1. i.source \in Sources /\ sources[i.source].live /\ i.action = "UNCHANGED"
    BY <1>1, <1>10 DEF ApplyUnchanged
  <2>2. row = Placed(i)
    BY <2>1 DEF Placed
  <2>3. SoundRow(row) /\ Served[i.source] = (IF row.live THEN row.current ELSE None)
    BY <2>1, <2>2, PlacedRow DEF Served
  <2> HIDE DEF row
  <2>4. /\ Write(i.source, row) /\ UNCHANGED changes
        /\ \E status \in {"SKIPPED", "QUARANTINED", "FAILED"} : SettleItem(r, i, status)
    BY <1>10 DEF ApplyUnchanged, row
  <2> QED
    BY <2>1, <2>3, <2>4, KeptVersion
<1>11. CASE ApplyDeleted(r, i)
  <2> DEFINE s == i.source
             old == sources[s]
             target == DeletionTarget(old)
             change == [run |-> r, item |-> i, source |-> s, type |-> "DELETED",
                        base |-> target, target |-> target]
  <2>1. s \in Sources /\ old.live
    BY <1>1, <1>11 DEF ApplyDeleted
  <2>2. /\ old \in SourceRow /\ old.history # <<>>
    BY <2>1 DEF SourcesTypeOK
  <2>3. target \in Contents
    <3>1. Latest(old) \in Contents
      BY <2>2 DEF Latest, SourceRow
    <3> QED
      BY <2>2, <3>1 DEF DeletionTarget, SourceRow
  <2>4. SoundRow(Deleted(old)) /\ ~Deleted(old).live
    BY <2>2, <2>3 DEF Deleted, SoundRow, SourceRow, SourceVersionStatus
  <2>5. /\ Write(s, Deleted(old)) /\ SettleItem(r, i, "SUCCEEDED")
        /\ AddChange(r, i, s, "DELETED", target, target)
    BY <1>11 DEF ApplyDeleted
  <2>6. SourcesTypeOK' /\ Served' = [Served EXCEPT ![s] = None]
    BY <2>1, <2>4, <2>5, WriteTyped
  <2>7. change \in KnowledgeChange
    BY <2>1, <2>3, ChangeTyped
  <2>8. /\ change.run = r /\ change.item = i /\ change.source = s /\ change.type = "DELETED"
    OBVIOUS
  <2>9. changes' = changes \cup {change}
    BY <2>5 DEF AddChange
  <2>10. items' = [items EXCEPT ![r][i] = "SUCCEEDED"] /\ runs' = runs
    BY <2>5 DEF SettleItem
  <2> HIDE DEF change, target, old, s
  <2>11. SettledByChange(r, i)
    BY <2>6, <2>7, <2>8, <2>9, <2>10 DEF SettledByChange
  <2> QED
    BY <2>6, <2>10, <2>11 DEF Settled
<1> QED
  BY <1>2, <1>3, <1>6, <1>7, <1>8, <1>9, <1>10, <1>11 DEF ApplyItem

-----------------------------------------------------------------------------
(* The steps, by what they do to the sources and the ledger.               *)

(* What the inductive invariant says of the tables, and of the callers.    *)
TablesInv ==
  /\ SourcesTypeOK /\ LedgerTypeOK
  /\ OneActiveRun /\ OnlyApplyingRunsHavePending /\ ChangesComeFromItems

CallsInv ==
  /\ vault \in [Paths -> File \cup {NoFile}]
  /\ edits \in 0..MaxEdits
  /\ call \in [Callers -> Call]
  /\ \A c \in Callers : call[c].at # "idle" => call[c].run \in Runs
  /\ calm \in BOOLEAN
  /\ CallsHoldPlannedItems

LEMMA InvariantInTwo == IngestionInv <=> TablesInv /\ CallsInv
BY DEF IngestionInv, TypeOK, TablesInv, CallsInv

TableStep ==
  \/ UNCHANGED <<sources, ledger>>
  \/ \E r \in Runs :
       \/ InsertRun(r) /\ runs[r] = Absent /\ UNCHANGED sources
       \/ /\ runs[r] = "PLANNING"
          /\ \E plan \in SUBSET PlanItem : SavePlan(r, plan)
          /\ UNCHANGED sources
       \/ \E i \in ItemsIn(r, {"PENDING"}) : Settled(r, i)
       \/ Finished(r) /\ FinishRun(r) /\ UNCHANGED sources
       \/ runs[r] = "PLANNING" /\ FailPlanningRun(r) /\ UNCHANGED sources

LEMMA OnlyPendingStarts ==
  ASSUME NEW r, NEW i \in DOMAIN items[r], CanStartItem(r, i)
  PROVE  i \in ItemsIn(r, {"PENDING"})
BY DEF CanStartItem, CanTransition, IngestionItemTransitions, ItemsIn

LEMMA PlanningFails ==
  ASSUME LedgerTypeOK, NEW r \in Runs, FailPlanningRun(r), UNCHANGED sources
  PROVE  TableStep
<1>1. CASE runs[r] = "PLANNING"
  BY <1>1 DEF TableStep
<1>2. CASE runs[r] # "PLANNING"
  BY <1>2 DEF TableStep, FailPlanningRun, LedgerTypeOK, ledger
<1> QED
  BY <1>1, <1>2

LEMMA StepsOfTables ==
  ASSUME IngestionInv, [Next]_vars
  PROVE  TableStep
<1>1. CASE UNCHANGED vars
  BY <1>1 DEF vars, TableStep
<1>2. CASE Environment
  BY <1>2 DEF Environment, RemoveFile, SaveFile, RenameFile, Edit, TableStep
<1>3. ASSUME NEW c \in Callers, NEW r \in Runs, Start(c, r) PROVE TableStep
  BY <1>3 DEF Start, RunWorkflow, TableStep
<1>4. ASSUME NEW c \in Callers, Crash(c) PROVE TableStep
  BY <1>4 DEF Crash, TableStep
<1>5. ASSUME NEW c \in Callers, ~At(c, "idle")
      PROVE  /\ call[c] \in Call /\ call[c].run \in Runs
             /\ LedgerTypeOK /\ SourcesTypeOK
  BY <1>5 DEF IngestionInv, TypeOK, At
<1>6. ASSUME NEW c \in Callers, At(c, "unread") \/ At(c, "prepared")
      PROVE  /\ ~At(c, "idle") /\ call[c].item \in DOMAIN items[call[c].run]
             /\ call[c].item \in PlanItem
  <2>1. ~At(c, "idle") /\ call[c].item \in DOMAIN items[call[c].run]
    BY <1>6 DEF IngestionInv, CallsHoldPlannedItems, At
  <2> QED
    BY <1>5, <2>1 DEF LedgerTypeOK, IsItemTable
<1>7. ASSUME NEW c \in Callers, Fault(c) PROVE TableStep
  BY <1>5, <1>7, PlanningFails DEF Fault, Raise
<1>8. ASSUME NEW c \in Callers, Step(c) PROVE TableStep
  <2> DEFINE r == call[c].run
             i == call[c].item
  <2>1. CASE BeginRun(c)
    <3>1. r \in Runs
      BY <1>5, <2>1 DEF BeginRun, At
    <3> QED
      BY <2>1, <3>1 DEF BeginRun, TableStep
  <2>2. CASE SavePlanRun(c)
    <3>1. r \in Runs /\ call[c].items \in SUBSET PlanItem
      BY <1>5, <2>2 DEF SavePlanRun, At, Call
    <3>2. SavePlan(r, call[c].items) /\ UNCHANGED sources
      BY <2>2 DEF SavePlanRun
    <3>3. CASE runs[r] = "PLANNING"
      BY <3>1, <3>2, <3>3 DEF TableStep
    <3>4. CASE runs[r] # "PLANNING"
      BY <3>2, <3>4 DEF SavePlan, TableStep
    <3> QED
      BY <3>3, <3>4
  <2>3. CASE MarkItemFailed(c)
    <3>1. At(c, "unread") /\ CanStartItem(r, i) /\ SettleItem(r, i, "FAILED")
          /\ UNCHANGED <<sources, changes>>
      BY <2>3 DEF MarkItemFailed
    <3>2. r \in Runs /\ i \in ItemsIn(r, {"PENDING"}) /\ SourcesTypeOK
      BY <1>5, <1>6, <3>1, OnlyPendingStarts
    <3>3. Settled(r, i)
      BY <3>1, <3>2 DEF Settled, SettledQuietly, SettleItem, SourcesTypeOK, Served
    <3> QED
      BY <3>2, <3>3 DEF TableStep
  <2>4. CASE ApplyPreparedItem(c)
    <3>1. At(c, "prepared") /\ CanStartItem(r, i) /\ ApplyItem(r, i, call[c].prepared)
      BY <2>4 DEF ApplyPreparedItem
    <3>2. r \in Runs /\ i \in ItemsIn(r, {"PENDING"}) /\ SourcesTypeOK /\ i \in PlanItem
      BY <1>5, <1>6, <3>1, OnlyPendingStarts
    <3>3. Settled(r, i)
      BY <3>1, <3>2, ItemSettled
    <3> QED
      BY <3>2, <3>3 DEF TableStep
  <2>5. CASE ReconcileRun(c)
    <3>1. r \in Runs
      BY <1>5, <2>5 DEF ReconcileRun, At
    <3> QED
      BY <2>5, <3>1 DEF ReconcileRun, TableStep
  <2>6. CASE RaiseOnItem(c)
    <3>1. r \in Runs /\ LedgerTypeOK
      BY <1>5, <1>6, <2>6 DEF RaiseOnItem
    <3> QED
      BY <2>6, <3>1, PlanningFails DEF RaiseOnItem, Raise
  <2>7. ASSUME \/ RefuseRun(c) \/ ListInventory(c) \/ PlanAlreadySaved(c)
               \/ LoadKnownSources(c) \/ ListPendingItems(c) \/ ReplayItem(c)
               \/ \E o \in call[c].listed : CaptureFile(c, o) \/ CaptureFailure(c, o)
               \/ \E j \in call[c].items :
                    \/ TakeItemWithoutDocument(c, j) \/ FailToPrepareItem(c, j)
                    \/ \E prepared \in Prepared : PrepareItem(c, j, prepared)
        PROVE  UNCHANGED <<sources, ledger>>
    BY <2>7 DEF RefuseRun, ListInventory, PlanAlreadySaved, LoadKnownSources,
                ListPendingItems, ReplayItem, CaptureFile, CaptureFailure, Capture,
                TakeItemWithoutDocument, FailToPrepareItem, PrepareItem, TakeItem
  <2> QED
    BY <1>8, <2>1, <2>2, <2>3, <2>4, <2>5, <2>6, <2>7 DEF Step, TableStep
<1> QED
  BY <1>1, <1>2, <1>3, <1>4, <1>7, <1>8 DEF Next

-----------------------------------------------------------------------------
(* The tables keep their half of the invariant, and a plan only grows.     *)

PlansGrow == \A r \in Runs : DOMAIN items[r] \subseteq DOMAIN items'[r]

LEMMA RunInserted ==
  ASSUME TablesInv, NEW r \in Runs, InsertRun(r), runs[r] = Absent, UNCHANGED sources
  PROVE  TablesInv' /\ PlansGrow
<1>1. runs' = [runs EXCEPT ![r] = "PLANNING"] /\ ActiveRuns = {} /\ UNCHANGED <<items, changes>>
  BY DEF InsertRun
<1>2. SourcesTypeOK'
  BY DEF TablesInv, SourcesTypeOK, Live
<1>3. LedgerTypeOK'
  BY <1>1 DEF TablesInv, LedgerTypeOK, IngestionRunStatus
<1>4. ActiveRuns' = {r}
  BY <1>1 DEF ActiveRuns, ActiveStatus, TablesInv, LedgerTypeOK
<1>5. OnlyApplyingRunsHavePending'
  BY <1>1 DEF TablesInv, LedgerTypeOK, OnlyApplyingRunsHavePending, ItemsIn
<1>6. ChangesComeFromItems'
  BY <1>1 DEF TablesInv, ChangesComeFromItems, ItemsIn
<1> QED
  BY <1>1, <1>2, <1>3, <1>4, <1>5, <1>6 DEF TablesInv, OneActiveRun, PlansGrow

LEMMA PlanSaved ==
  ASSUME TablesInv, NEW r \in Runs, NEW plan \in SUBSET PlanItem,
         runs[r] = "PLANNING", SavePlan(r, plan), UNCHANGED sources
  PROVE  TablesInv' /\ PlansGrow
<1> DEFINE frozen == [i \in plan |-> "PENDING"]
<1>1. /\ items' = [items EXCEPT ![r] = frozen]
      /\ runs' = [runs EXCEPT ![r] = "APPLYING"] /\ UNCHANGED changes
  BY DEF SavePlan, PendingItems
<1>2. DOMAIN items[r] = {} /\ DOMAIN items = Runs /\ changes \subseteq KnowledgeChange
  BY DEF TablesInv, OnlyApplyingRunsHavePending, LedgerTypeOK
<1>3. DOMAIN frozen = plan /\ \A i \in plan : frozen[i] = "PENDING"
  OBVIOUS
<1> HIDE DEF frozen
<1>4. SourcesTypeOK'
  BY DEF TablesInv, SourcesTypeOK, Live
<1>5. LedgerTypeOK'
  BY <1>1, <1>3 DEF TablesInv, LedgerTypeOK, IsItemTable, IngestionRunStatus, IngestionItemStatus
<1>6. ActiveRuns' = ActiveRuns
  BY <1>1 DEF ActiveRuns, ActiveStatus, TablesInv, LedgerTypeOK
<1>7. OnlyApplyingRunsHavePending'
  BY <1>1, <1>2, <1>3 DEF TablesInv, LedgerTypeOK, OnlyApplyingRunsHavePending, ItemsIn, Absent
<1>8. \A change \in changes : change.run \in Runs /\ change.run # r
  BY <1>2 DEF TablesInv, ChangesComeFromItems, ItemsIn, KnowledgeChange
<1>9. ChangesComeFromItems'
  BY <1>1, <1>2, <1>8 DEF TablesInv, ChangesComeFromItems, ItemsIn
<1> QED
  BY <1>1, <1>2, <1>4, <1>5, <1>6, <1>7, <1>9 DEF TablesInv, OneActiveRun, PlansGrow

LEMMA ItemKept ==
  ASSUME TablesInv, NEW r \in Runs, NEW i \in ItemsIn(r, {"PENDING"}), Settled(r, i)
  PROVE  TablesInv' /\ PlansGrow
<1>1. PICK status \in SettledStatus : items' = [items EXCEPT ![r][i] = status]
  BY DEF Settled, SettledQuietly, SettledByChange, SettledStatus
<1>2. SourcesTypeOK' /\ runs' = runs
  BY DEF Settled
<1>3. /\ i \in DOMAIN items[r] /\ items[r][i] = "PENDING" /\ runs[r] = "APPLYING"
      /\ DOMAIN items = Runs /\ DOMAIN items[r] \subseteq PlanItem
  BY DEF ItemsIn, TablesInv, OnlyApplyingRunsHavePending, LedgerTypeOK, IsItemTable
<1>4. /\ DOMAIN items' = Runs /\ \A q \in Runs : DOMAIN items'[q] = DOMAIN items[q]
      /\ \A q \in Runs \ {r} : items'[q] = items[q]
      /\ \A j \in DOMAIN items[r] \ {i} : items'[r][j] = items[r][j]
      /\ items'[r][i] = status
  BY <1>1, <1>3
<1>5. changes' \subseteq KnowledgeChange
  BY DEF TablesInv, LedgerTypeOK, Settled, SettledQuietly, SettledByChange
<1>6. LedgerTypeOK'
  BY <1>2, <1>4, <1>5 DEF TablesInv, LedgerTypeOK, IsItemTable, SettledStatus, IngestionItemStatus
<1>7. OneActiveRun'
  BY <1>2 DEF TablesInv, OneActiveRun, ActiveRuns
<1>8. OnlyApplyingRunsHavePending'
  BY <1>2, <1>3, <1>4 DEF TablesInv, OnlyApplyingRunsHavePending, ItemsIn, SettledStatus, Absent
<1>9. \A change \in changes : change.run \in Runs /\ ~(change.run = r /\ change.item = i)
  BY <1>3 DEF TablesInv, LedgerTypeOK, KnowledgeChange, ChangesComeFromItems, ItemsIn
<1>10. \A change \in changes : change.item \in ItemsIn(change.run, {"SUCCEEDED"})'
  BY <1>4, <1>9 DEF TablesInv, ChangesComeFromItems, ItemsIn
<1>11. ChangesComeFromItems'
  <2>1. CASE SettledQuietly(r, i)
    BY <1>10, <2>1 DEF SettledQuietly, TablesInv, ChangesComeFromItems
  <2>2. CASE SettledByChange(r, i)
    <3>1. PICK new \in KnowledgeChange : /\ new.run = r /\ new.item = i
                                          /\ changes' = changes \cup {new}
      BY <2>2 DEF SettledByChange
    <3>2. items'[r][i] = "SUCCEEDED"
      BY <1>3, <2>2 DEF SettledByChange
    <3>3. new.item \in ItemsIn(new.run, {"SUCCEEDED"})'
      BY <1>3, <1>4, <3>1, <3>2 DEF ItemsIn
    <3> QED
      BY <1>9, <1>10, <3>1, <3>3 DEF TablesInv, ChangesComeFromItems
  <2> QED
    BY <2>1, <2>2 DEF Settled
<1> QED
  BY <1>2, <1>4, <1>6, <1>7, <1>8, <1>11 DEF TablesInv, PlansGrow

(* A run ends with nothing left waiting.                                   *)
LEMMA RunEnded ==
  ASSUME TablesInv, NEW r \in Runs, NEW status \in {"COMPLETED", "PARTIAL_FAILED", "FAILED"},
         runs' = [runs EXCEPT ![r] = status], UNCHANGED <<items, changes, sources>>,
         ItemsIn(r, {"PENDING"}) = {}
  PROVE  TablesInv' /\ PlansGrow
<1>1. SourcesTypeOK'
  BY DEF TablesInv, SourcesTypeOK, Live
<1>2. LedgerTypeOK'
  BY DEF TablesInv, LedgerTypeOK, IngestionRunStatus
<1>3. ActiveRuns' \subseteq ActiveRuns
  BY DEF ActiveRuns, ActiveStatus, TablesInv, LedgerTypeOK
<1>4. OnlyApplyingRunsHavePending'
  BY DEF TablesInv, LedgerTypeOK, OnlyApplyingRunsHavePending, ItemsIn, Absent
<1>5. ChangesComeFromItems'
  BY DEF TablesInv, ChangesComeFromItems, ItemsIn
<1> QED
  BY <1>1, <1>2, <1>3, <1>4, <1>5 DEF TablesInv, OneActiveRun, PlansGrow

LEMMA TablesKept ==
  ASSUME TablesInv, TableStep
  PROVE  TablesInv' /\ PlansGrow
<1>1. CASE UNCHANGED <<sources, ledger>>
  BY <1>1 DEF ledger, TablesInv, SourcesTypeOK, Live, LedgerTypeOK, OneActiveRun, ActiveRuns,
              OnlyApplyingRunsHavePending, ChangesComeFromItems, ItemsIn, PlansGrow
<1>2. ASSUME NEW r \in Runs, Finished(r), FinishRun(r), UNCHANGED sources
      PROVE  TablesInv' /\ PlansGrow
  <2>1. ItemsIn(r, {"PENDING"}) = {}
    BY <1>2 DEF Finished, ItemsIn
  <2>2. \E status \in {"COMPLETED", "PARTIAL_FAILED"} : runs' = [runs EXCEPT ![r] = status]
    BY <1>2 DEF FinishRun
  <2> QED
    BY <1>2, <2>1, <2>2, RunEnded DEF FinishRun
<1>3. ASSUME NEW r \in Runs, runs[r] = "PLANNING", FailPlanningRun(r), UNCHANGED sources
      PROVE  TablesInv' /\ PlansGrow
  <2>1. ItemsIn(r, {"PENDING"}) = {}
    BY <1>3 DEF TablesInv, OnlyApplyingRunsHavePending
  <2>2. runs' = [runs EXCEPT ![r] = "FAILED"]
    BY <1>3 DEF FailPlanningRun
  <2> QED
    BY <1>3, <2>1, <2>2, RunEnded DEF FailPlanningRun
<1> QED
  BY <1>1, <1>2, <1>3, RunInserted, PlanSaved, ItemKept DEF TableStep

-----------------------------------------------------------------------------
(* The callers keep theirs.                                                *)

LEMMA IdleTyped == Idle \in Call /\ Idle.at = "idle"
BY DEF Idle, Call, Labels

(* A caller moves on, and what it holds is in the plan of its run.         *)
LEMMA CallerMoves ==
  ASSUME CallsInv, PlansGrow, NEW c \in Callers, NEW row \in Call,
         row.at # "idle" => row.run \in Runs,
         row.at \in {"next", "prepared", "unread"} => row.items \subseteq DOMAIN items[row.run],
         row.at \in {"prepared", "unread"} => row.item \in DOMAIN items[row.run],
         call' = [call EXCEPT ![c] = row], UNCHANGED <<vault, edits>>, calm' \in BOOLEAN
  PROVE  CallsInv'
<1>1. /\ call' \in [Callers -> Call] /\ call'[c] = row
      /\ \A d \in Callers \ {c} : call'[d] = call[d]
  BY DEF CallsInv
<1>2. \A d \in Callers : call'[d].at # "idle" => call'[d].run \in Runs
  BY <1>1 DEF CallsInv
<1>3. CallsHoldPlannedItems'
  <2> SUFFICES ASSUME NEW d \in Callers
               PROVE  /\ call'[d].at \in {"next", "prepared", "unread"} =>
                           call'[d].items \subseteq DOMAIN items'[call'[d].run]
                      /\ call'[d].at \in {"prepared", "unread"} =>
                           call'[d].item \in DOMAIN items'[call'[d].run]
    BY DEF CallsHoldPlannedItems, At
  <2>1. CASE d = c
    BY <1>1, <2>1 DEF PlansGrow
  <2>2. CASE d # c
    <3>1. /\ call[d].at \in {"next", "prepared", "unread"} =>
               call[d].items \subseteq DOMAIN items[call[d].run]
          /\ call[d].at \in {"prepared", "unread"} =>
               call[d].item \in DOMAIN items[call[d].run]
          /\ call[d].at # "idle" => call[d].run \in Runs
      BY DEF CallsInv, CallsHoldPlannedItems, At
    <3> QED
      BY <1>1, <2>2, <3>1 DEF PlansGrow
  <2> QED
    BY <2>1, <2>2
<1> QED
  BY <1>1, <1>2, <1>3 DEF CallsInv

LEMMA CallerReturns ==
  ASSUME CallsInv, PlansGrow, NEW c \in Callers, Return(c), UNCHANGED <<vault, edits>>
  PROVE  CallsInv'
<1>1. calm' \in BOOLEAN
  BY DEF Return, CallsInv
<1> QED
  BY <1>1, IdleTyped, CallerMoves DEF Return

LEMMA CallerGoes ==
  ASSUME CallsInv, PlansGrow, NEW c \in Callers, NEW label \in {"plan", "apply"},
         ~At(c, "idle"), Goto(c, label), UNCHANGED <<vault, edits>>
  PROVE  CallsInv'
<1> DEFINE row == [Idle EXCEPT !.at = label, !.run = call[c].run, !.scope = call[c].scope]
<1>1. call[c] \in Call /\ call[c].run \in Runs
  BY DEF CallsInv, At
<1>2. row \in Call /\ row.at = label /\ row.run = call[c].run
  BY <1>1, IdleTyped DEF Call, Labels
<1>3. call' = [call EXCEPT ![c] = row] /\ calm' \in BOOLEAN
  BY DEF Goto, CallsInv
<1> HIDE DEF row
<1> QED
  BY <1>1, <1>2, <1>3, CallerMoves

LEMMA CallerTakesNext ==
  ASSUME CallsInv, PlansGrow, NEW c \in Callers,
         At(c, "unread") \/ At(c, "prepared"), NextItem(c), UNCHANGED <<vault, edits>>
  PROVE  CallsInv'
<1> DEFINE row == [call[c] EXCEPT !.at = "next", !.item = None, !.prepared = None]
<1>1. /\ call[c] \in Call /\ call[c].run \in Runs
      /\ call[c].items \subseteq DOMAIN items[call[c].run]
  BY DEF CallsInv, CallsHoldPlannedItems, At
<1>2. /\ row \in Call /\ row.at = "next"
      /\ row.run = call[c].run /\ row.items = call[c].items
  BY <1>1 DEF Call, Labels
<1>3. call' = [call EXCEPT ![c] = row] /\ calm' \in BOOLEAN
  BY DEF NextItem, CallsInv
<1> HIDE DEF row
<1> QED
  BY <1>1, <1>2, <1>3, CallerMoves

LEMMA CallerTakesItem ==
  ASSUME CallsInv, PlansGrow, NEW c \in Callers, NEW i,
         NEW label \in {"prepared", "unread"}, NEW prepared \in Prepared \cup {None},
         TakeItem(c, i, label, prepared)
  PROVE  CallsInv'
<1> DEFINE row == [call[c] EXCEPT !.at = label, !.items = @ \ {i}, !.item = i,
                                  !.prepared = prepared]
<1>1. /\ call[c] \in Call /\ call[c].run \in Runs
      /\ call[c].items \subseteq DOMAIN items[call[c].run] /\ i \in call[c].items
  BY DEF CallsInv, CallsHoldPlannedItems, TakeItem, At
<1>2. /\ row \in Call /\ row.at = label
      /\ row.run = call[c].run /\ row.items \subseteq call[c].items /\ row.item = i
  BY <1>1 DEF Call, Labels
<1>3. /\ call' = [call EXCEPT ![c] = row] /\ calm' \in BOOLEAN /\ UNCHANGED <<vault, edits>>
  BY DEF TakeItem, CallsInv
<1> HIDE DEF row
<1> QED
  BY <1>1, <1>2, <1>3, CallerMoves

LEMMA VaultEdited ==
  ASSUME CallsInv, PlansGrow, Environment
  PROVE  CallsInv'
<1>1. ASSUME NEW v \in [Paths -> File \cup {NoFile}], Edit(v) PROVE CallsInv'
  <2>1. /\ edits' \in 0..MaxEdits /\ vault' = v /\ UNCHANGED <<call, calm, items>>
    BY <1>1, IngestionAssumption DEF Edit, CallsInv, ledger, callers
  <2> QED
    BY <2>1 DEF CallsInv, CallsHoldPlannedItems, At
<1>2. vault \in [Paths -> File \cup {NoFile}]
  BY DEF CallsInv
<1>3. ASSUME NEW p \in Paths, RemoveFile(p) PROVE CallsInv'
  BY <1>1, <1>2, <1>3 DEF RemoveFile
<1>4. ASSUME NEW p \in Paths, NEW f \in File, SaveFile(p, f) PROVE CallsInv'
  BY <1>1, <1>2, <1>4 DEF SaveFile
<1>5. ASSUME NEW p \in Paths, NEW q \in Paths, RenameFile(p, q) PROVE CallsInv'
  BY <1>1, <1>2, <1>5 DEF RenameFile
<1> QED
  BY <1>3, <1>4, <1>5 DEF Environment

LEMMA ListingStep ==
  ASSUME CallsInv, SourcesTypeOK, LedgerTypeOK, PlansGrow, NEW c \in Callers,
         \/ ListInventory(c) \/ LoadKnownSources(c) \/ ListPendingItems(c)
         \/ \E o \in call[c].listed : CaptureFile(c, o) \/ CaptureFailure(c, o)
  PROVE  CallsInv'
<1>1. /\ call[c] \in Call /\ call[c].run \in Runs /\ vault \in [Paths -> File \cup {NoFile}]
      /\ ~At(c, "idle")
  BY DEF CallsInv, At, ListInventory, LoadKnownSources, ListPendingItems, CaptureFile,
         CaptureFailure, Capture
<1>2. ASSUME NEW row \in Call, row.at \in {"capture", "save"}, row.run = call[c].run,
             call' = [call EXCEPT ![c] = row], UNCHANGED <<vault, edits, calm>>
      PROVE  CallsInv'
  BY <1>1, <1>2, CallerMoves DEF CallsInv
<1>3. \A p \in Paths : vault[p].key \in Keys \cup {None} /\ vault[p].content \in Contents \cup {None}
  BY <1>1 DEF File, NoFile
<1>4. CASE ListInventory(c)
  <2> DEFINE seen == {[path |-> p, key |-> vault[p].key] :
                        p \in {q \in call[c].scope : vault[q] # NoFile}}
             row == [call[c] EXCEPT !.at = "capture", !.listed = seen]
  <2>1. call[c].scope \subseteq Paths
    BY <1>1, IngestionAssumption DEF Call
  <2>2. seen \in SUBSET Observation
    BY <1>3, <2>1 DEF Observation
  <2> HIDE DEF seen
  <2>3. row \in Call /\ row.at = "capture" /\ row.run = call[c].run
    BY <1>1, <2>2 DEF Call, Labels
  <2>4. call' = [call EXCEPT ![c] = row] /\ UNCHANGED <<vault, edits, calm>>
    BY <1>4 DEF ListInventory, seen
  <2> HIDE DEF row
  <2> QED
    BY <1>2, <2>3, <2>4
<1>5. ASSUME NEW o \in call[c].listed, CaptureFile(c, o) \/ CaptureFailure(c, o)
      PROVE  CallsInv'
  <2>1. o \in Observation
    BY <1>1, <1>5 DEF Call
  <2>2. o.path \in Paths /\ o.key \in Keys \cup {None}
    BY <2>1 DEF Observation
  <2>3. PICK key \in Keys \cup {None}, content \in Contents \cup {None} :
          Capture(c, o, key, content)
    BY <1>3, <1>5, <2>2 DEF CaptureFile, CaptureFailure
  <2> DEFINE entry == [path |-> o.path, key |-> key, content |-> content]
             row == [call[c] EXCEPT !.listed = @ \ {o}, !.manifest = @ \cup {entry}]
  <2>4. entry \in ManifestEntry
    BY <2>2 DEF ManifestEntry
  <2>5. call' = [call EXCEPT ![c] = row] /\ UNCHANGED <<vault, edits, calm>>
        /\ call[c].at = "capture"
    BY <2>3 DEF Capture, At
  <2> HIDE DEF entry
  <2>6. row \in Call /\ row.at = "capture" /\ row.run = call[c].run
    BY <1>1, <2>4, <2>5 DEF Call
  <2> HIDE DEF row
  <2> QED
    BY <1>2, <2>5, <2>6
<1>6. CASE LoadKnownSources(c)
  <2> DEFINE plan == PlanIngestion(KnownSources(call[c].scope), call[c].manifest)
             row == [call[c] EXCEPT !.at = "save", !.manifest = {}, !.items = plan]
  <2>1. plan \in SUBSET PlanItem
    <3>1. call[c].manifest \in SUBSET ManifestEntry
      BY <1>1 DEF Call
    <3> QED
      BY <3>1, KnownTyped, PlanTyped
  <2>2. call' = [call EXCEPT ![c] = row] /\ UNCHANGED <<vault, edits, calm>>
    BY <1>6 DEF LoadKnownSources
  <2> HIDE DEF plan
  <2>3. row \in Call /\ row.at = "save" /\ row.run = call[c].run
    BY <1>1, <2>1 DEF Call, Labels
  <2> HIDE DEF row
  <2> QED
    BY <1>2, <2>2, <2>3
<1>7. CASE ListPendingItems(c)
  <2> DEFINE pending == ItemsIn(call[c].run, {"PENDING"})
             row == [call[c] EXCEPT !.at = "next", !.items = pending]
  <2>1. pending \in SUBSET PlanItem /\ pending \subseteq DOMAIN items[call[c].run]
    BY <1>1 DEF ItemsIn, LedgerTypeOK, IsItemTable
  <2>2. call' = [call EXCEPT ![c] = row] /\ UNCHANGED <<vault, edits, calm>>
    BY <1>7 DEF ListPendingItems
  <2> HIDE DEF pending
  <2>3. row \in Call /\ row.at = "next" /\ row.run = call[c].run /\ row.items = pending
    BY <1>1, <2>1 DEF Call, Labels
  <2> HIDE DEF row
  <2>4. calm' \in BOOLEAN
    BY <2>2 DEF CallsInv
  <2> QED
    BY <1>1, <2>1, <2>2, <2>3, <2>4, CallerMoves
<1> QED
  BY <1>4, <1>5, <1>6, <1>7

LEMMA CallsKept ==
  ASSUME IngestionInv, PlansGrow, [Next]_vars
  PROVE  CallsInv'
<1>1. CallsInv /\ SourcesTypeOK /\ LedgerTypeOK
  BY InvariantInTwo DEF TablesInv
<1>2. CASE UNCHANGED vars
  BY <1>1, <1>2 DEF vars, ledger, callers, CallsInv, CallsHoldPlannedItems, At
<1>3. CASE Environment
  BY <1>1, <1>3, VaultEdited
<1>4. ASSUME NEW c \in Callers, NEW r \in Runs, Start(c, r) PROVE CallsInv'
  <2>1. PICK scope \in Scopes : RunWorkflow(c, r, scope)
    BY <1>4 DEF Start
  <2> DEFINE row == [Idle EXCEPT !.at = "inventory", !.run = r, !.scope = scope]
  <2>2. row \in Call /\ row.at = "inventory" /\ row.run = r
    BY IdleTyped DEF Call, Labels
  <2>3. call' = [call EXCEPT ![c] = row] /\ UNCHANGED <<vault, edits, calm>>
    BY <2>1 DEF RunWorkflow
  <2> HIDE DEF row
  <2>4. calm' \in BOOLEAN
    BY <1>1, <2>3 DEF CallsInv
  <2> QED
    BY <1>1, <2>2, <2>3, <2>4, CallerMoves
<1>5. ASSUME NEW c \in Callers, Fault(c) \/ Crash(c) PROVE CallsInv'
  BY <1>1, <1>5, CallerReturns DEF Fault, Crash, Raise
<1>6. ASSUME NEW c \in Callers, Step(c) PROVE CallsInv'
  <2>1. CASE BeginRun(c)
    BY <1>1, <2>1, CallerGoes DEF BeginRun, At
  <2>2. CASE RefuseRun(c)
    BY <1>1, <2>2, CallerReturns DEF RefuseRun
  <2>3. CASE PlanAlreadySaved(c)
    BY <1>1, <2>3, CallerGoes DEF PlanAlreadySaved, At
  <2>4. CASE SavePlanRun(c)
    BY <1>1, <2>4, CallerGoes DEF SavePlanRun, At
  <2>5. CASE \/ ListInventory(c) \/ LoadKnownSources(c) \/ ListPendingItems(c)
             \/ \E o \in call[c].listed : CaptureFile(c, o) \/ CaptureFailure(c, o)
    BY <1>1, <2>5, ListingStep
  <2>6. ASSUME NEW i \in call[c].items,
               \/ TakeItemWithoutDocument(c, i) \/ FailToPrepareItem(c, i)
               \/ \E prepared \in Prepared : PrepareItem(c, i, prepared)
        PROVE  CallsInv'
    BY <1>1, <2>6, CallerTakesItem DEF TakeItemWithoutDocument, FailToPrepareItem, PrepareItem
  <2>7. CASE MarkItemFailed(c) \/ ApplyPreparedItem(c) \/ ReplayItem(c)
    BY <1>1, <2>7, CallerTakesNext DEF MarkItemFailed, ApplyPreparedItem, ReplayItem
  <2>8. CASE ReconcileRun(c) \/ RaiseOnItem(c)
    BY <1>1, <2>8, CallerReturns DEF ReconcileRun, RaiseOnItem, Raise
  <2> QED
    BY <1>6, <2>1, <2>2, <2>3, <2>4, <2>5, <2>6, <2>7, <2>8 DEF Step
<1> QED
  BY <1>2, <1>3, <1>4, <1>5, <1>6 DEF Next

-----------------------------------------------------------------------------
(* The theorems.                                                           *)

LEMMA InitInvariant == Init => IngestionInv
<1> SUFFICES ASSUME Init PROVE IngestionInv
  OBVIOUS
<1>1. SourcesTypeOK
  <2>1. Unborn \in SourceRow /\ ~Unborn.live
    BY DEF Unborn, SourceRow
  <2> QED
    BY <2>1 DEF Init, SourcesInit, SourcesTypeOK
<1>2. LedgerTypeOK
  BY DEF Init, LedgerInit, LedgerTypeOK, IsItemTable, NoItems
<1>3. CallsInv
  <2>1. call \in [Callers -> Call] /\ \A c \in Callers : call[c].at = "idle"
    BY IdleTyped DEF Init
  <2>2. edits \in 0..MaxEdits
    BY IngestionAssumption DEF Init
  <2> QED
    BY <2>1, <2>2 DEF Init, CallsInv, CallsHoldPlannedItems
<1>4. ActiveRuns = {}
  BY DEF Init, LedgerInit, ActiveRuns, ActiveStatus, Absent
<1>5. \A r \in Runs : runs[r] = Absent /\ DOMAIN items[r] = {}
  BY DEF Init, LedgerInit, NoItems
<1>6. OnlyApplyingRunsHavePending
  BY <1>5 DEF OnlyApplyingRunsHavePending, ItemsIn
<1>7. ChangesComeFromItems
  BY DEF Init, LedgerInit, ChangesComeFromItems
<1> QED
  BY <1>1, <1>2, <1>3, <1>4, <1>6, <1>7, InvariantInTwo DEF TablesInv, OneActiveRun

(* However many callers run, raise or die over a vault somebody edits, one *)
(* run is active, an item waits only in the run that applies it, and each  *)
(* announcement belongs to one item that succeeded.                        *)
THEOREM IngestionCorrect == Spec => []IngestionInv
<1>1. IngestionInv /\ [Next]_vars => IngestionInv'
  <2>1. IngestionInv' <=> TablesInv' /\ CallsInv'
    BY DEF IngestionInv, TypeOK, TablesInv, CallsInv
  <2> QED
    BY <2>1, InvariantInTwo, StepsOfTables, TablesKept, CallsKept
<1> QED
  BY <1>1, InitInvariant, PTL DEF Spec

(* The variables keep the values their names promise.                      *)
THEOREM IngestionTypesCorrect == Spec => []TypeOK
<1>1. IngestionInv => TypeOK
  BY DEF IngestionInv
<1> QED
  BY <1>1, IngestionCorrect, PTL

(* A step is one step of the ledger, or leaves what it shows alone.        *)
LEMMA LedgerStep ==
  ASSUME TablesInv, TableStep
  PROVE  [Ledger!Next]_<<runs, items, Served, changes>>
<1>1. CASE UNCHANGED <<sources, ledger>>
  BY <1>1 DEF ledger, Served
<1>2. ASSUME NEW r \in Runs, InsertRun(r), runs[r] = Absent, UNCHANGED sources
      PROVE  Ledger!Begin(r)
  BY <1>2 DEF InsertRun, ActiveRuns, ActiveStatus, Ledger!Begin, Absent
<1>3. ASSUME NEW r \in Runs, NEW plan, runs[r] = "PLANNING", SavePlan(r, plan), UNCHANGED sources
      PROVE  Ledger!Freeze(r)
  <2>1. DOMAIN items = Runs
    BY DEF TablesInv, LedgerTypeOK
  <2>2. DOMAIN items'[r] = plan
    BY <1>3, <2>1 DEF SavePlan, PendingItems
  <2> QED
    BY <1>3, <2>2 DEF SavePlan, PendingItems, Ledger!Freeze
<1>4. ASSUME NEW r \in Runs, NEW i \in ItemsIn(r, {"PENDING"}), Settled(r, i)
      PROVE  i \in DOMAIN items[r] /\ Ledger!Settle(r, i)
  <2>1. /\ i \in DOMAIN items[r] /\ items[r][i] = "PENDING" /\ runs[r] = "APPLYING"
        /\ runs' = runs
    BY <1>4 DEF ItemsIn, TablesInv, OnlyApplyingRunsHavePending, Settled
  <2>2. CASE SettledQuietly(r, i)
    BY <2>1, <2>2 DEF SettledQuietly, Ledger!Settle, Ledger!Pending, Served
  <2>3. CASE SettledByChange(r, i)
    <3>1. PICK change \in KnowledgeChange :
            /\ change.run = r /\ change.item = i
            /\ changes' = changes \cup {change}
            /\ change.type # "DELETED" => change.base = Served[change.source]
            /\ Served' = [Served EXCEPT ![change.source] =
                 IF change.type = "DELETED" THEN None ELSE change.target]
      BY <2>3 DEF SettledByChange
    <3>2. change \notin changes
      BY <2>1, <3>1 DEF TablesInv, ChangesComeFromItems, ItemsIn
    <3>3. Ledger!Announce(r, i)
      BY <3>1, <3>2 DEF Ledger!Announce, Served
    <3> QED
      BY <2>1, <2>3, <3>3 DEF SettledByChange, Ledger!Settle, Ledger!Pending
  <2> QED
    BY <1>4, <2>1, <2>2, <2>3 DEF Settled
<1>5. ASSUME NEW r \in Runs, Finished(r), FinishRun(r), UNCHANGED sources
      PROVE  Ledger!Finish(r)
  BY <1>5 DEF Finished, FinishRun, ItemsIn, Ledger!Finish, Ledger!Pending
<1>6. ASSUME NEW r \in Runs, runs[r] = "PLANNING", FailPlanningRun(r), UNCHANGED sources
      PROVE  Ledger!Abandon(r)
  BY <1>6 DEF FailPlanningRun, Ledger!Abandon
<1> QED
  BY <1>1, <1>2, <1>3, <1>4, <1>5, <1>6 DEF TableStep, Ledger!Next, Served

(* What consumers of the changes may rely on holds in every execution: one *)
(* frozen plan at a time, every item settled once, and a current version   *)
(* that moves exactly by what has been announced.                          *)
THEOREM LedgerImplemented == Spec => ImplementsIngestionLedger
<1>1. Init => Ledger!Init
  BY DEF Init, SourcesInit, LedgerInit, NoItems, Absent, Unborn, Ledger!Init
<1>2. IngestionInv /\ [Next]_vars =>
        [Ledger!Next]_<<runs, items,
           [s \in Sources |-> IF sources[s].live THEN sources[s].current ELSE None], changes>>
  BY InvariantInTwo, StepsOfTables, LedgerStep DEF Served
<1> QED
  BY <1>1, <1>2, IngestionCorrect, PTL DEF Spec, ImplementsIngestionLedger, Ledger!Spec
=============================================================================
