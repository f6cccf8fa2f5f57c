------------------------- MODULE IngestionPlans_proofs -------------------------
(***************************************************************************)
(* Proofs about what scans do to the sources, for any number of sources,   *)
(* paths, contents, runs and callers: a plan names each source and path    *)
(* once and stays applicable, the effect of an item lasts as long as its   *)
(* run, and what is current has been screened.                             *)
(***************************************************************************)
EXTENDS IngestionRunner_proofs

-----------------------------------------------------------------------------
(* The planner matches each source and each entry at most once.            *)

OneToOne(matches) == \A m, n \in matches : m[1] = n[1] \/ m[2] = n[2] => m = n

LEMMA PairsAreEqual ==
  ASSUME NEW known, NEW entries, NEW m \in known \X entries, NEW n \in known \X entries,
         m[1] = n[1], m[2] = n[2]
  PROVE  m = n
OBVIOUS

LEMMA MovesAreOneToOne ==
  ASSUME NEW known, NEW entries
  PROVE  OneToOne(Moves(known, entries))
<1> DEFINE byKey == SameKey(known, entries)
           leftK == KnownLeft(known, byKey)
           leftE == EntriesLeft(entries, byKey)
           byContent == SameContent(leftK, leftE)
<1>1. leftK \subseteq known /\ leftE \subseteq entries
  BY DEF KnownLeft, EntriesLeft
<1>2. byKey \subseteq known \X entries /\ byContent \subseteq known \X entries
  BY <1>1 DEF SameKey, SameContent
<1>3. ASSUME NEW m \in byKey, NEW n \in byKey, m[1] = n[1] \/ m[2] = n[2] PROVE m = n
  <2>1. m[1] = n[1] /\ m[2] = n[2]
    BY <1>3 DEF SameKey
  <2> QED
    BY <1>2, <2>1, PairsAreEqual
<1>4. ASSUME NEW m \in byContent, NEW n \in byContent, m[1] = n[1] \/ m[2] = n[2] PROVE m = n
  <2>1. m[1] = n[1] /\ m[2] = n[2]
    BY <1>4 DEF SameContent
  <2> QED
    BY <1>2, <2>1, PairsAreEqual
<1>5. \A m \in byKey, n \in byContent : m[1] # n[1] /\ m[2] # n[2]
  <2>1. \A n \in byContent : n[1] \in leftK /\ n[2] \in leftE
    BY DEF SameContent
  <2> QED
    BY <2>1 DEF KnownLeft, EntriesLeft
<1>6. Moves(known, entries) = byKey \cup byContent
  BY DEF Moves
<1> QED
  BY <1>3, <1>4, <1>5, <1>6 DEF OneToOne

(* Files that are listed once match by path at most once.                  *)
HaveOwnPaths(rows) == \A k, l \in rows : k.path = l.path => k = l

LEMMA SamePathIsOneToOne ==
  ASSUME NEW known, NEW entries, HaveOwnPaths(known), HaveOwnPaths(entries)
  PROVE  OneToOne(SamePath(known, entries))
<1> SUFFICES ASSUME NEW m \in SamePath(known, entries), NEW n \in SamePath(known, entries),
                    m[1] = n[1] \/ m[2] = n[2]
             PROVE  m = n
  BY DEF OneToOne
<1>1. m \in known \X entries /\ n \in known \X entries
  BY DEF SamePath
<1>2. m[1] = n[1] /\ m[2] = n[2]
  BY DEF SamePath, HaveOwnPaths
<1> QED
  BY <1>1, <1>2, PairsAreEqual

-----------------------------------------------------------------------------
(* The plan.                                                               *)

(* What the planner is given: the live sources, each with its own path,    *)
(* and entries of different paths.                                         *)
KnowsTheSources(known) ==
  /\ \A k \in known : k.source \in Live /\ k.path = sources[k.source].path
  /\ \A k, l \in known : k.source = l.source => k = l
  /\ \A s \in Live : \E k \in known : k.source = s
  /\ HaveOwnPaths(known)

IsSoundPlan(plan) == NamesEachOnce(plan) /\ \A i \in plan : Awaits(i, plan)

LEMMA KnownSourcesAreKnown ==
  ASSUME NEW scope, \A s, t \in Live : sources[s].path = sources[t].path => s = t
  PROVE  KnowsTheSources(KnownSources(scope))
<1> DEFINE Known(s) ==
      [source |-> s, path |-> sources[s].path, key |-> sources[s].key,
       current |-> sources[s].current, latest |-> Latest(sources[s]),
       unparsed |-> sources[s].status[Latest(sources[s])] = "PARSE_FAILED",
       eligible |-> sources[s].path \in scope]
<1>1. \A s : Known(s).source = s /\ Known(s).path = sources[s].path
  OBVIOUS
<1>2. KnownSources(scope) = {Known(s) : s \in Live}
  BY DEF KnownSources
<1> HIDE DEF Known
<1> QED
  BY <1>1, <1>2 DEF KnowsTheSources, HaveOwnPaths

LEMMA PlanIsSound ==
  ASSUME SourcesTypeOK, NEW known, NEW entries, KnowsTheSources(known), HaveOwnPaths(entries)
  PROVE  IsSoundPlan(PlanIngestion(known, entries))
<1> DEFINE kept == SamePath(known, entries)
           moved == Moves(KnownLeft(known, kept), EntriesLeft(entries, kept))
           matched == kept \cup moved
           created == EntriesLeft(entries, matched)
           gone == {k \in KnownLeft(known, matched) : k.eligible}
           plan == PlanIngestion(known, entries)
<1>k. HaveOwnPaths(known) /\ None \notin Sources
  BY NoneAssumption DEF KnowsTheSources
<1>1. /\ KnownLeft(known, kept) \subseteq known /\ EntriesLeft(entries, kept) \subseteq entries
      /\ kept \subseteq known \X entries
      /\ moved \subseteq KnownLeft(known, kept) \X EntriesLeft(entries, kept)
  BY MatchesArePairs DEF KnownLeft, EntriesLeft
<1>2. \A m \in kept : m[1] \in known /\ m[2] \in entries /\ m[1].path = m[2].path
  BY DEF SamePath
<1>3. \A m \in moved : /\ m[1] \in known /\ m[2] \in entries
                       /\ \A n \in kept : n[1] # m[1] /\ n[2] # m[2]
  BY <1>1 DEF KnownLeft, EntriesLeft
<1>4. \A k \in known, e \in entries : k.path = e.path =>
        \E m \in kept : m[1] = k /\ m[2] = e
  <2> SUFFICES ASSUME NEW k \in known, NEW e \in entries, k.path = e.path
               PROVE  <<k, e>> \in kept
    OBVIOUS
  <2> QED
    BY DEF SamePath
<1>5. OneToOne(kept) /\ OneToOne(moved)
  BY <1>k, SamePathIsOneToOne, MovesAreOneToOne
<1>6. /\ \A e \in created : e \in entries /\ \A m \in kept \cup moved : m[2] # e
      /\ \A k \in gone : k \in known /\ \A m \in kept \cup moved : m[1] # k
  BY DEF EntriesLeft, KnownLeft
<1>7. \A i : i \in plan <=>
        \/ \E m \in kept : i = SamePathItem(m[1], m[2])
        \/ \E m \in moved : i = MovedItem(m[1], m[2])
        \/ \E e \in created : i = CreatedItem(e)
        \/ \E k \in gone : i = DeletedItem(k)
  BY DEF PlanIngestion
<1> DEFINE Of(i, k) == \/ \E m \in kept : m[1] = k /\ i = SamePathItem(m[1], m[2])
                       \/ \E m \in moved : m[1] = k /\ i = MovedItem(m[1], m[2])
                       \/ k \in gone /\ i = DeletedItem(k)
           From(i, e) == \/ \E m \in kept : m[2] = e /\ i = SamePathItem(m[1], m[2])
                         \/ \E m \in moved : m[2] = e /\ i = MovedItem(m[1], m[2])
                         \/ e \in created /\ i = CreatedItem(e)
<1> HIDE DEF kept, moved, created, gone, plan, matched
<1>8. \A i, j, k : Of(i, k) /\ Of(j, k) => i = j
  BY <1>3, <1>5, <1>6 DEF OneToOne
<1>9. \A i, j, e : From(i, e) /\ From(j, e) => i = j
  BY <1>3, <1>5, <1>6 DEF OneToOne
<1>10. \A i, k : Of(i, k) => k \in known /\ i.source = k.source /\ i.action # "CREATED"
  BY <1>2, <1>3, <1>6 DEF SamePathItem, MovedItem, DeletedItem
<1>11. \A i, e : From(i, e) => e \in entries /\ i.path = e.path
  BY <1>2, <1>3, <1>6 DEF SamePathItem, MovedItem, CreatedItem
<1>12. \A i \in plan : \/ \E k : Of(i, k)
                       \/ i.action = "CREATED" /\ i.source = None
  <2> SUFFICES ASSUME NEW i \in plan
               PROVE  (\E k : Of(i, k)) \/ (i.action = "CREATED" /\ i.source = None)
    OBVIOUS
  <2>1. ASSUME NEW m \in kept, i = SamePathItem(m[1], m[2]) PROVE Of(i, m[1])
    BY <2>1
  <2>2. ASSUME NEW m \in moved, i = MovedItem(m[1], m[2]) PROVE Of(i, m[1])
    BY <2>2
  <2>3. ASSUME NEW k \in gone, i = DeletedItem(k) PROVE Of(i, k)
    BY <2>3
  <2> HIDE DEF Of
  <2> QED
    BY <1>7, <2>1, <2>2, <2>3 DEF CreatedItem
<1>13. \A i \in plan : \/ \E e : From(i, e)
                       \/ \E k \in gone : Of(i, k) /\ i.path = k.path
  <2> SUFFICES ASSUME NEW i \in plan
               PROVE  (\E e : From(i, e)) \/ \E k \in gone : Of(i, k) /\ i.path = k.path
    OBVIOUS
  <2>1. ASSUME NEW m \in kept, i = SamePathItem(m[1], m[2]) PROVE From(i, m[2])
    BY <2>1
  <2>2. ASSUME NEW m \in moved, i = MovedItem(m[1], m[2]) PROVE From(i, m[2])
    BY <2>2
  <2>3. ASSUME NEW e \in created, i = CreatedItem(e) PROVE From(i, e)
    BY <2>3
  <2>4. ASSUME NEW k \in gone, i = DeletedItem(k) PROVE Of(i, k) /\ i.path = k.path
    BY <2>4 DEF DeletedItem
  <2> HIDE DEF Of, From
  <2> QED
    BY <1>7, <2>1, <2>2, <2>3, <2>4
<1>14. \A i \in plan : i.action \notin {"CREATED", "MOVED"} =>
         \E k : Of(i, k) /\ i.path = k.path
  BY <1>2, <1>7 DEF DeletedItem, SamePathItem, CreatedItem, MovedItem
<1>15. \A i \in plan : i.action \in {"CREATED", "MOVED"} =>
         \E e : From(i, e) /\ \A m \in kept : m[2] # e
  BY <1>3, <1>6, <1>7 DEF SamePathItem, DeletedItem, CreatedItem, MovedItem
<1> HIDE DEF Of, From
(* Of two items, one does not go to the path at which the other's source is. *)
<1>16. ASSUME NEW i \in plan, NEW j \in plan, NEW k, Of(i, k), j.path = k.path PROVE i = j
  <2>0. k \in known
    BY <1>10, <1>16
  <2>1. ASSUME NEW e, From(j, e) PROVE i = j
    <3>1. e \in entries /\ e.path = k.path
      BY <1>11, <1>16, <2>1
    <3>2. PICK m \in kept : m[1] = k /\ m[2] = e
      BY <1>4, <2>0, <3>1
    <3>3. Of(SamePathItem(k, e), k) /\ From(SamePathItem(k, e), e)
      BY <3>2 DEF Of, From
    <3> QED
      BY <1>8, <1>9, <1>16, <2>1, <3>3
  <2>2. ASSUME NEW l \in gone, Of(j, l), j.path = l.path PROVE i = j
    <3>1. l = k
      BY <1>k, <1>6, <1>16, <2>0, <2>2 DEF HaveOwnPaths
    <3> QED
      BY <1>8, <1>16, <2>2, <3>1
  <2> QED
    BY <1>13, <2>1, <2>2
<1>17. ASSUME NEW i \in plan, NEW j \in plan, i.path = j.path PROVE i = j
  <2>1. ASSUME NEW e, From(i, e), NEW f, From(j, f) PROVE i = j
    BY <1>9, <1>11, <1>17, <2>1 DEF HaveOwnPaths
  <2>2. ASSUME NEW k \in gone, Of(i, k), i.path = k.path PROVE i = j
    BY <1>16, <1>17, <2>2
  <2>3. ASSUME NEW k \in gone, Of(j, k), j.path = k.path PROVE i = j
    BY <1>16, <1>17, <2>3
  <2> QED
    BY <1>13, <2>1, <2>2, <2>3
<1>18. ASSUME NEW i \in plan, NEW j \in plan, i.source = j.source, i.source # None PROVE i = j
  BY <1>8, <1>10, <1>12, <1>18 DEF KnowsTheSources
<1>19. NamesEachOnce(plan)
  BY <1>10, <1>12, <1>17, <1>18 DEF NamesEachOnce
<1>20. ASSUME NEW i \in plan PROVE Awaits(i, plan)
  <2>1. ASSUME i.action # "CREATED"
        PROVE  /\ sources[i.source].live
               /\ i.action # "MOVED" => sources[i.source].path = i.path
               /\ \A j \in plan \ {i} : j.path # sources[i.source].path
    <3>1. PICK k : Of(i, k)
      BY <1>12, <2>1
    <3>2. k \in known /\ i.source = k.source
      BY <1>10, <3>1
    <3>3. sources[i.source].live /\ sources[i.source].path = k.path
      BY <3>2 DEF KnowsTheSources, Live
    <3>4. i.action # "MOVED" => i.path = k.path
      BY <1>8, <1>10, <1>14, <2>1, <3>1, <3>2 DEF KnowsTheSources
    <3> QED
      BY <1>16, <3>1, <3>3, <3>4
  <2>2. ASSUME i.action \in {"CREATED", "MOVED"} PROVE ~Occupied(i.path, i.source)
    <3>1. PICK e : From(i, e) /\ \A m \in kept : m[2] # e
      BY <1>15, <2>2
    <3>2. ASSUME NEW t \in Live, sources[t].path = i.path PROVE FALSE
      <4>1. PICK k \in known : k.source = t
        BY DEF KnowsTheSources
      <4>2. k.path = e.path /\ e \in entries
        BY <1>11, <3>1, <3>2, <4>1 DEF KnowsTheSources
      <4> QED
        BY <1>4, <3>1, <4>2
    <3> QED
      BY <3>2 DEF Occupied
  <2> QED
    BY <2>1, <2>2 DEF Awaits
<1> QED
  BY <1>19, <1>20 DEF IsSoundPlan, plan
-----------------------------------------------------------------------------
(* What applying an item does to the sources.                              *)

(* One row is written: a new one, or that of the item's source.            *)
WritesRow(i, s, row) ==
  /\ s \in Sources /\ Write(s, row) /\ row.path \in Paths
  /\ \/ /\ i.action = "CREATED" /\ s \in Fresh /\ ~Occupied(i.path, None)
        /\ row.live /\ row.path = i.path
     \/ /\ i.action # "CREATED" /\ s = i.source /\ sources[s].live
        /\ i.action = "MOVED" => row.path = i.path /\ ~Occupied(i.path, s)
        /\ i.action # "MOVED" => row.path = sources[s].path
        /\ row.live <=> i.action # "DELETED"

Writes(i, status) ==
  \/ sources' = sources /\ status # "SUCCEEDED"
  \/ \E s, row : /\ WritesRow(i, s, row)
                 /\ status = "SUCCEEDED" /\ i.action # "DELETED" => row.current = i.content

AppliesItem(r, i) ==
  /\ runs' = runs
  /\ \E status \in SettledStatus :
       items' = [items EXCEPT ![r][i] = status] /\ Writes(i, status)

(* The rows that a version is captured and judged in.                      *)
LEMMA VersionLeavesPlace ==
  ASSUME NEW row \in SourceRow, NEW c, NEW status
  PROVE  LET version == Transitioned(Captured(row, c), c, status) IN
         /\ version.live = row.live /\ version.path = row.path
         /\ Activated(version, c).live = row.live /\ Activated(version, c).path = row.path
         /\ Activated(version, c).current = c
BY DEF Transitioned, Captured, Activated, SourceRow

LEMMA PreparedWrites ==
  ASSUME NEW r, NEW i, NEW s, NEW row \in SourceRow, NEW prepared,
         FinishPreparedVersion(r, i, s, row, prepared)
  PROVE  \E status \in SettledStatus : \E new :
           /\ SettleItem(r, i, status) /\ Write(s, new)
           /\ new.live = row.live /\ new.path = row.path
           /\ status = "SUCCEEDED" => new.current = i.content
<1> DEFINE Judged(status) == Transitioned(Captured(row, i.content), i.content, status)
<1>1. /\ \A status : Judged(status).live = row.live /\ Judged(status).path = row.path
      /\ Activated(Judged("READY"), i.content).live = row.live
      /\ Activated(Judged("READY"), i.content).path = row.path
      /\ Activated(Judged("READY"), i.content).current = i.content
  BY VersionLeavesPlace
<1>2. \/ Write(s, Judged("PARSE_FAILED")) /\ SettleItem(r, i, "FAILED")
      \/ Write(s, Judged("QUARANTINED")) /\ SettleItem(r, i, "QUARANTINED")
      \/ Write(s, Activated(Judged("READY"), i.content)) /\ SettleItem(r, i, "SUCCEEDED")
  BY DEF FinishPreparedVersion
<1> HIDE DEF Judged
<1> QED
  BY <1>1, <1>2 DEF SettledStatus

LEMMA ItemWrites ==
  ASSUME SourcesTypeOK, NEW r, NEW i \in PlanItem, NEW prepared, ApplyItem(r, i, prepared)
  PROVE  AppliesItem(r, i)
<1>a. /\ i.source \in Sources \cup {None} /\ i.path \in Paths
      /\ i.key \in Keys \cup {None} /\ i.content \in Contents \cup {None}
      /\ i.action # "CREATED" => i.source \in Sources
  BY DEF PlanItem
<1>1. CASE ApplyUncaptured(r, i)
  BY <1>1 DEF ApplyUncaptured, SettleItem, AppliesItem, Writes, SettledStatus
<1>2. CASE ApplyCreated(r, i, prepared)
  <2> DEFINE row == NewSource(i.path, i.key)
  <2>1. PICK s \in Fresh : FinishPreparedVersion(r, i, s, row, prepared)
    BY <1>2 DEF ApplyCreated
  <2>2. Unborn \in SourceRow
    BY DEF Unborn, SourceRow
  <2>3. row \in SourceRow /\ row.live /\ row.path = i.path
    BY <1>a, <2>2 DEF NewSource, SourceRow
  <2>4. /\ i.action = "CREATED" /\ ~Occupied(i.path, None) /\ s \in Sources
    BY <1>2 DEF ApplyCreated, Fresh
  <2> HIDE DEF row
  <2>6. PICK status \in SettledStatus : \E new :
          /\ SettleItem(r, i, status) /\ Write(s, new)
          /\ new.live = row.live /\ new.path = row.path
          /\ status = "SUCCEEDED" => new.current = i.content
    <3>1. row \in SourceRow
      BY <2>3
    <3> QED
      BY <2>1, <3>1, PreparedWrites
  <2>7. PICK new : /\ Write(s, new) /\ new.live = row.live /\ new.path = row.path
                   /\ status = "SUCCEEDED" => new.current = i.content
    BY <2>6
  <2>8. WritesRow(i, s, new)
    BY <1>a, <2>3, <2>4, <2>7 DEF WritesRow
  <2> QED
    BY <2>6, <2>7, <2>8 DEF AppliesItem, Writes, SettleItem
<1>3. ASSUME NEW status \in SettledStatus, NEW row, SettleItem(r, i, status),
             Write(i.source, row), i.action # "CREATED", sources[i.source].live,
             i.action = "MOVED" => row.path = i.path /\ ~Occupied(i.path, i.source),
             i.action # "MOVED" => row.path = sources[i.source].path,
             row.live <=> i.action # "DELETED",
             status = "SUCCEEDED" /\ i.action # "DELETED" => row.current = i.content
      PROVE  AppliesItem(r, i)
  <2>1. row.path \in Paths
    BY <1>3, <1>a DEF SourcesTypeOK
  <2>2. WritesRow(i, i.source, row)
    BY <1>3, <1>a, <2>1 DEF WritesRow
  <2> QED
    BY <1>3, <2>2 DEF AppliesItem, Writes, SettleItem
<1>4. ASSUME AppliesToExisting(i)
      PROVE  /\ i.action \in {"UPDATED", "MOVED"} /\ i.source \in Sources
             /\ Placed(i) \in SourceRow
             /\ Placed(i).live /\ sources[i.source].live
             /\ i.action = "MOVED" => Placed(i).path = i.path /\ ~Occupied(i.path, i.source)
             /\ i.action # "MOVED" => Placed(i).path = sources[i.source].path
             /\ Placed(i).current = sources[i.source].current
  <2>1. /\ i.action \in {"UPDATED", "MOVED"} /\ sources[i.source].live
        /\ i.action = "MOVED" => ~Occupied(i.path, i.source)
    BY <1>4 DEF AppliesToExisting
  <2>2. i.source \in Sources /\ sources[i.source] \in SourceRow
    BY <1>a, <2>1 DEF SourcesTypeOK
  <2> QED
    BY <1>a, <2>1, <2>2 DEF Placed, Relocated, Touched, SourceRow
<1>5. CASE ApplyNewContent(r, i, prepared)
  <2>1. AppliesToExisting(i) /\ FinishPreparedVersion(r, i, i.source, Placed(i), prepared)
    BY <1>5 DEF ApplyNewContent
  <2>a. Placed(i) \in SourceRow
    BY <1>4, <2>1
  <2>2. PICK status \in SettledStatus : \E row :
          /\ SettleItem(r, i, status) /\ Write(i.source, row)
          /\ row.live = Placed(i).live /\ row.path = Placed(i).path
          /\ status = "SUCCEEDED" => row.current = i.content
    BY <2>1, <2>a, PreparedWrites
  <2>4. PICK row : /\ Write(i.source, row)
                   /\ row.live = Placed(i).live /\ row.path = Placed(i).path
                   /\ status = "SUCCEEDED" => row.current = i.content
    BY <2>2
  <2> QED
    BY <1>3, <1>4, <2>1, <2>2, <2>4
<1>6. CASE FinishPreservedQuarantine(r, i)
  BY <1>3, <1>4, <1>6 DEF FinishPreservedQuarantine, SettledStatus
<1>7. CASE FinishMoveWithoutVersion(r, i)
  BY <1>3, <1>4, <1>7 DEF FinishMoveWithoutVersion, SettledStatus
<1>8. CASE FinishReadyReactivation(r, i)
  <2> DEFINE row == Activated(Placed(i), i.content)
  <2>1. AppliesToExisting(i)
    BY <1>8 DEF FinishReadyReactivation
  <2>2. row.live = Placed(i).live /\ row.path = Placed(i).path /\ row.current = i.content
    BY <1>4, <2>1 DEF Activated, SourceRow
  <2>3. SettleItem(r, i, "SUCCEEDED") /\ Write(i.source, row)
    BY <1>8 DEF FinishReadyReactivation
  <2> HIDE DEF row
  <2> QED
    BY <1>3, <1>4, <2>1, <2>2, <2>3 DEF SettledStatus
<1>9. CASE ApplyDeleted(r, i)
  <2> DEFINE row == Deleted(sources[i.source])
  <2>1. i.action = "DELETED" /\ sources[i.source].live
        /\ SettleItem(r, i, "SUCCEEDED") /\ Write(i.source, row)
    BY <1>9 DEF ApplyDeleted
  <2>2. row.live = FALSE /\ row.path = sources[i.source].path
    BY <1>a, <2>1 DEF Deleted, SourcesTypeOK, SourceRow
  <2> HIDE DEF row
  <2> QED
    BY <1>3, <2>1, <2>2 DEF SettledStatus
<1>10. CASE ApplyUnchanged(r, i)
  <2> DEFINE row == Touched(sources[i.source], i.key)
  <2>1. i.action = "UNCHANGED" /\ sources[i.source].live /\ Write(i.source, row)
        /\ \E status \in {"QUARANTINED", "SKIPPED"} : SettleItem(r, i, status)
    BY <1>10 DEF ApplyUnchanged
  <2>2. row.live = sources[i.source].live /\ row.path = sources[i.source].path
    BY <1>a, <2>1 DEF Touched, SourcesTypeOK, SourceRow
  <2> HIDE DEF row
  <2> QED
    BY <1>3, <2>1, <2>2 DEF SettledStatus
<1> QED
  BY <1>1, <1>2, <1>5, <1>6, <1>7, <1>8, <1>9, <1>10 DEF ApplyItem

-----------------------------------------------------------------------------
(* What it leaves of the plan it is in.                                    *)

LivePathsAreDistinct == \A s, t \in Live : sources[s].path = sources[t].path => s = t

LEMMA ItemKeepsPathsDistinct ==
  ASSUME SourcesTypeOK, LivePathsAreDistinct, NEW i, NEW s, NEW row, WritesRow(i, s, row)
  PROVE  LivePathsAreDistinct'
<1>1. /\ s \in Sources /\ sources'[s] = row
      /\ \A t \in Sources \ {s} : sources'[t] = sources[t]
  BY DEF WritesRow, Write, SourcesTypeOK
<1>2. ASSUME NEW t \in Live', t # s, row.live PROVE row.path # sources[t].path
  <2>1. t \in Live /\ t # None
    BY <1>1, <1>2, NoneAssumption DEF Live
  <2> QED
    BY <1>2, <2>1 DEF WritesRow, Occupied, LivePathsAreDistinct, Live
<1> QED
  BY <1>1, <1>2 DEF LivePathsAreDistinct, Live

(* Another item of the plan keeps what it waits for.                       *)
LEMMA OthersKeepWaiting ==
  ASSUME SourcesTypeOK, NEW plan \in SUBSET PlanItem, NamesEachOnce(plan),
         NEW i \in plan, NEW j \in plan, i # j, Awaits(j, plan),
         NEW s, NEW row, WritesRow(i, s, row)
  PROVE  Awaits(j, plan)'
<1>1. /\ s \in Sources /\ sources'[s] = row
      /\ \A t \in Sources \ {s} : sources'[t] = sources[t]
  BY DEF WritesRow, Write, SourcesTypeOK
<1>2. i.path # j.path /\ (i.source # j.source \/ i.source = None)
  BY DEF NamesEachOnce
<1>3. j.source \in Sources => j.source # s \/ j.action = "CREATED"
  <2>1. s \in Fresh => ~sources[s].live
    BY DEF Fresh, Unborn
  <2> QED
    BY <1>1, <1>2, <2>1, NoneAssumption DEF WritesRow, Awaits
<1>4. ASSUME j.action # "CREATED"
      PROVE  /\ sources'[j.source].live
             /\ j.action # "MOVED" => sources'[j.source].path = j.path
             /\ \A k \in plan \ {j} : k.path # sources'[j.source].path
  <2>1. j.source \in Sources
    BY <1>4 DEF PlanItem
  <2> QED
    BY <1>1, <1>3, <1>4, <2>1 DEF Awaits
<1>5. ASSUME j.action \in {"CREATED", "MOVED"} PROVE ~Occupied(j.path, j.source)'
  <2> SUFFICES ASSUME NEW t \in Live' \ {j.source}, sources'[t].path = j.path PROVE FALSE
    BY DEF Occupied
  <2>1. CASE t # s
    BY <1>1, <1>5, <2>1 DEF Live, Awaits, Occupied
  <2>2. CASE t = s
    <3>1. row.path = j.path
      BY <1>1, <2>2
    <3>2. row.path = sources[s].path /\ sources[s].live
      BY <1>2, <3>1 DEF WritesRow
    <3> QED
      BY <1>1, <1>5, <2>2, <3>1, <3>2 DEF Live, Awaits, Occupied
  <2> QED
    BY <2>1, <2>2
<1> QED
  BY <1>4, <1>5 DEF Awaits

(* What was applied before stays so.                                       *)
LEMMA EffectsLast ==
  ASSUME SourcesTypeOK, NEW plan \in SUBSET PlanItem, NamesEachOnce(plan),
         NEW i \in plan, NEW j \in plan, i # j, Awaits(i, plan), HasTakenEffect(j),
         NEW s, NEW row, WritesRow(i, s, row)
  PROVE  HasTakenEffect(j)'
<1>1. /\ s \in Sources /\ sources'[s] = row
      /\ \A t \in Sources \ {s} : sources'[t] = sources[t]
  BY DEF WritesRow, Write, SourcesTypeOK
<1>2. s \in Fresh => ~sources[s].live
  BY DEF Fresh, Unborn
<1>3. CASE j.action = "DELETED"
  <2>1. j.source \in Sources
    BY <1>3 DEF PlanItem
  <2>2. j.source # s
    BY <1>3 DEF HasTakenEffect, WritesRow
  <2> QED
    BY <1>1, <1>3, <2>1, <2>2 DEF HasTakenEffect, Fresh
<1>4. CASE j.action # "DELETED"
  <2>1. PICK t \in Live : /\ sources[t].path = j.path /\ sources[t].current = j.content
                          /\ j.source \in {t, None}
    BY <1>4 DEF HasTakenEffect
  <2>2. t # s
    BY <1>2, <2>1 DEF WritesRow, Awaits, Live
  <2> QED
    BY <1>1, <1>4, <2>1, <2>2 DEF HasTakenEffect, Live
<1> QED
  BY <1>3, <1>4

(* What succeeds has taken effect.                                         *)
LEMMA EffectIsTaken ==
  ASSUME SourcesTypeOK, NEW plan \in SUBSET PlanItem, NamesEachOnce(plan),
         NEW i \in plan, Awaits(i, plan), Writes(i, "SUCCEEDED")
  PROVE  HasTakenEffect(i)'
<1>1. PICK s, row : /\ WritesRow(i, s, row)
                    /\ i.action # "DELETED" => row.current = i.content
  BY DEF Writes
<1>2. s \in Sources /\ sources'[s] = row
  BY <1>1 DEF WritesRow, Write, SourcesTypeOK
<1>3. CASE i.action = "DELETED"
  <2>1. s = i.source /\ ~row.live /\ row.path # None
    BY <1>1, <1>3, NoneAssumption DEF WritesRow
  <2> QED
    BY <1>2, <1>3, <2>1 DEF HasTakenEffect, Fresh, Unborn
<1>4. CASE i.action # "DELETED"
  <2>1. row.live /\ row.path = i.path /\ row.current = i.content
    BY <1>1, <1>4 DEF WritesRow, Awaits
  <2>2. i.source \in {s, None}
    BY <1>1 DEF WritesRow, NamesEachOnce
  <2> QED
    BY <1>2, <1>4, <2>1, <2>2 DEF HasTakenEffect, Live
<1> QED
  BY <1>3, <1>4
-----------------------------------------------------------------------------
(* The invariant, by the parts of the state it is about.                   *)

PlanHolds(r) ==
  /\ NamesEachOnce(DOMAIN items[r])
  /\ \A i \in ItemsIn(r, {"PENDING"}) : Awaits(i, DOMAIN items[r])
  /\ \A i \in ItemsIn(r, {"SUCCEEDED"}) : HasTakenEffect(i)

PlansHold == LivePathsAreDistinct /\ \A r \in Applying : PlanHolds(r)

(* What a call carries before its plan is saved.                           *)
CarriesSound(row) ==
  /\ HaveOwnPaths(row.listed) /\ HaveOwnPaths(row.manifest)
  /\ \A o \in row.listed, e \in row.manifest : o.path # e.path
  /\ row.at # "capture" => row.listed = {} /\ row.manifest = {}
  /\ row.at \in {"capture", "save"} => runs[row.run] # Absent
  /\ row.at = "save" /\ runs[row.run] = "PLANNING" => IsSoundPlan(row.items)

LEMMA SoundByParts ==
  PathsAreDistinct /\ PlansAreSound <=>
    PlansHold /\ \A c \in Callers : CarriesSound(call[c])
BY DEF PathsAreDistinct, PlansAreSound, PlansHold, PlanHolds, LivePathsAreDistinct, CarriesSound,
       HaveOwnPaths, IsSoundPlan, At

(* The steps, by what they do to plans and sources.                        *)
PlanStep ==
  \/ UNCHANGED <<sources, runs, items>>
  \/ \E r \in Runs :
       \/ /\ runs[r] = Absent /\ ActiveRuns = {} /\ runs' = [runs EXCEPT ![r] = "PLANNING"]
          /\ UNCHANGED <<sources, items>>
       \/ /\ runs[r] = "PLANNING" /\ UNCHANGED sources
          /\ \E plan \in SUBSET PlanItem : SavePlan(r, plan) /\ IsSoundPlan(plan)
       \/ \E i \in ItemsIn(r, {"PENDING"}) : AppliesItem(r, i)
       \/ /\ runs[r] \in ActiveStatus /\ UNCHANGED <<sources, items>>
          /\ \E status \in {"COMPLETED", "PARTIAL_FAILED", "FAILED"} :
               runs' = [runs EXCEPT ![r] = status]

LEMMA StepsOfPlans ==
  ASSUME IngestionInv, \A c \in Callers : CarriesSound(call[c]), [Next]_vars
  PROVE  PlanStep
<1>a. LedgerTypeOK /\ SourcesTypeOK
  BY DEF IngestionInv, TypeOK
<1>1. ASSUME NEW c \in Callers, ~At(c, "idle")
      PROVE  call[c] \in Call /\ call[c].run \in Runs
  BY <1>1 DEF IngestionInv, TypeOK, At
<1>2. ASSUME NEW r \in Runs, FailPlanningRun(r), UNCHANGED sources PROVE PlanStep
  <2>1. CASE runs[r] = "PLANNING"
    BY <1>2, <2>1 DEF PlanStep, FailPlanningRun, ActiveStatus
  <2>2. CASE runs[r] # "PLANNING"
    BY <1>2, <1>a, <2>2 DEF PlanStep, FailPlanningRun, LedgerTypeOK
  <2> QED
    BY <2>1, <2>2
<1>3. ASSUME NEW c \in Callers, BeginRun(c) PROVE PlanStep
  <2>1. call[c].run \in Runs
    BY <1>1, <1>3 DEF BeginRun, At
  <2> QED
    BY <1>3, <2>1 DEF BeginRun, InsertRun, PlanStep, ledger
<1>4. ASSUME NEW c \in Callers, SavePlanRun(c) PROVE PlanStep
  <2>1. call[c].run \in Runs /\ call[c].items \in SUBSET PlanItem /\ call[c].at = "save"
    BY <1>1, <1>4 DEF SavePlanRun, At, Call
  <2>2. SavePlan(call[c].run, call[c].items) /\ UNCHANGED sources
    BY <1>4 DEF SavePlanRun
  <2>3. runs[call[c].run] = "PLANNING" => IsSoundPlan(call[c].items)
    BY <2>1 DEF CarriesSound
  <2>4. CASE runs[call[c].run] = "PLANNING"
    BY <2>1, <2>2, <2>3, <2>4 DEF PlanStep
  <2>5. CASE runs[call[c].run] # "PLANNING"
    BY <2>2, <2>5 DEF PlanStep, SavePlan, ledger
  <2> QED
    BY <2>4, <2>5
<1>5. ASSUME NEW c \in Callers, At(c, "unread") \/ At(c, "prepared"),
             CanStartItem(call[c].run, call[c].item)
      PROVE  /\ call[c].run \in Runs /\ call[c].item \in PlanItem
             /\ call[c].item \in ItemsIn(call[c].run, {"PENDING"})
  <2>1. call[c].run \in Runs /\ call[c].item \in DOMAIN items[call[c].run]
    BY <1>1, <1>5 DEF IngestionInv, CallsHoldPlannedItems, At
  <2> QED
    BY <1>5, <1>a, <2>1, OnlyPendingStarts DEF LedgerTypeOK, IsItemTable
<1>6. ASSUME NEW c \in Callers, MarkItemFailed(c) PROVE PlanStep
  <2>1. AppliesItem(call[c].run, call[c].item)
    BY <1>6 DEF MarkItemFailed, SettleItem, AppliesItem, Writes, SettledStatus
  <2> QED
    BY <1>5, <1>6, <2>1 DEF MarkItemFailed, PlanStep
<1>7. ASSUME NEW c \in Callers, ApplyPreparedItem(c) PROVE PlanStep
  <2>1. /\ call[c].run \in Runs /\ call[c].item \in PlanItem
        /\ call[c].item \in ItemsIn(call[c].run, {"PENDING"})
    BY <1>5, <1>7 DEF ApplyPreparedItem
  <2>2. AppliesItem(call[c].run, call[c].item)
    BY <1>7, <1>a, <2>1, ItemWrites DEF ApplyPreparedItem
  <2> QED
    BY <2>1, <2>2 DEF PlanStep
<1>8. ASSUME NEW c \in Callers, ReconcileRun(c) PROVE PlanStep
  <2>1. call[c].run \in Runs
    BY <1>1, <1>8 DEF ReconcileRun, At
  <2> QED
    BY <1>8, <2>1 DEF ReconcileRun, Finished, FinishRun, PlanStep, ledger, ActiveStatus
<1>9. ASSUME NEW c \in Callers, Fault(c) \/ RaiseOnItem(c) PROVE PlanStep
  <2>1. call[c].run \in Runs
    BY <1>1, <1>9 DEF Fault, RaiseOnItem, At
  <2> QED
    BY <1>2, <1>9, <2>1 DEF Fault, RaiseOnItem, Raise
<1>10. ASSUME \/ UNCHANGED vars \/ Environment
              \/ \E c \in Callers :
                   \/ Crash(c) \/ \E r \in Runs : Start(c, r)
                   \/ RefuseRun(c) \/ ListInventory(c) \/ PlanAlreadySaved(c)
                   \/ LoadKnownSources(c) \/ ListPendingItems(c) \/ ReplayItem(c)
                   \/ \E o \in call[c].listed : CaptureFile(c, o) \/ CaptureFailure(c, o)
                   \/ \E j \in call[c].items :
                        \/ TakeItemWithoutDocument(c, j) \/ FailToPrepareItem(c, j)
                        \/ \E prepared \in Prepared : PrepareItem(c, j, prepared)
       PROVE  UNCHANGED <<sources, runs, items>>
  BY <1>10 DEF vars, ledger, Environment, RemoveFile, SaveFile, RenameFile, Edit, Crash, Start,
               RunWorkflow, RefuseRun, ListInventory, PlanAlreadySaved, LoadKnownSources,
               ListPendingItems, ReplayItem, CaptureFile, CaptureFailure, Capture,
               TakeItemWithoutDocument, FailToPrepareItem, PrepareItem, TakeItem
<1>11. CASE UNCHANGED <<sources, runs, items>>
  BY <1>11 DEF PlanStep
<1> QED
  BY <1>3, <1>4, <1>6, <1>7, <1>8, <1>9, <1>10, <1>11 DEF Next, Step

(* An item that is applied leaves its plan holding.                        *)
LEMMA ItemKeepsPlan ==
  ASSUME TablesInv, PlansHold, NEW r \in Runs, NEW i \in ItemsIn(r, {"PENDING"}),
         AppliesItem(r, i)
  PROVE  PlansHold'
<1> DEFINE plan == DOMAIN items[r]
<1>1. PICK status \in SettledStatus :
        items' = [items EXCEPT ![r][i] = status] /\ Writes(i, status)
  BY DEF AppliesItem
<1>2. /\ runs' = runs /\ i \in plan /\ runs[r] = "APPLYING" /\ SourcesTypeOK
      /\ plan \in SUBSET PlanItem
  BY DEF AppliesItem, TablesInv, OnlyApplyingRunsHavePending, ItemsIn, LedgerTypeOK, IsItemTable
<1>3. DOMAIN items'[r] = plan /\ items'[r][i] = status
      /\ \A j \in plan \ {i} : items'[r][j] = items[r][j]
  BY <1>1, <1>2 DEF TablesInv, LedgerTypeOK
<1>4. Applying = {r} /\ Applying' = {r}
  BY <1>2 DEF Applying, TablesInv, OneActiveRun, ActiveRuns, ActiveStatus
<1>5. PlanHolds(r)
  BY <1>4 DEF PlansHold
<1>6. \A j \in ItemsIn(r, {"PENDING"})' : j \in ItemsIn(r, {"PENDING"}) /\ j # i
  BY <1>3 DEF ItemsIn, SettledStatus
<1>7. \A j \in ItemsIn(r, {"SUCCEEDED"})' :
        \/ j = i /\ status = "SUCCEEDED"
        \/ j \in ItemsIn(r, {"SUCCEEDED"}) /\ j # i
  BY <1>3 DEF ItemsIn
<1>8. \A j : j \in ItemsIn(r, {"PENDING"}) \/ j \in ItemsIn(r, {"SUCCEEDED"}) => j \in plan
  BY DEF ItemsIn
<1>9. Awaits(i, plan) /\ NamesEachOnce(plan)
  BY <1>5 DEF PlanHolds
<1>10. /\ \A j \in ItemsIn(r, {"PENDING"}) : Awaits(j, plan)
       /\ \A j \in ItemsIn(r, {"SUCCEEDED"}) : HasTakenEffect(j)
  BY <1>5 DEF PlanHolds
<1>11. NamesEachOnce(DOMAIN items[r])'
  BY <1>3, <1>9 DEF NamesEachOnce
<1>12. CASE sources' = sources /\ status # "SUCCEEDED"
  <2>1. \A j \in plan : Awaits(j, plan) => Awaits(j, DOMAIN items[r])'
    BY <1>3, <1>12 DEF Awaits, Occupied, Live
  <2>2. \A j \in plan : HasTakenEffect(j) => HasTakenEffect(j)'
    BY <1>12 DEF HasTakenEffect, Live, Fresh
  <2>3. PlanHolds(r)'
    BY <1>6, <1>7, <1>8, <1>10, <1>11, <1>12, <2>1, <2>2 DEF PlanHolds
  <2>4. LivePathsAreDistinct'
    BY <1>12 DEF PlansHold, LivePathsAreDistinct, Live
  <2> QED
    BY <1>4, <2>3, <2>4 DEF PlansHold
<1>13. ASSUME NEW s, NEW row, WritesRow(i, s, row) PROVE PlansHold'
  <2>1. LivePathsAreDistinct'
    BY <1>2, <1>13, ItemKeepsPathsDistinct DEF PlansHold
  <2> HIDE DEF plan
  <2>2. PICK frozen \in SUBSET PlanItem : frozen = plan
    BY <1>2
  <2>3. ASSUME NEW j \in ItemsIn(r, {"PENDING"})' PROVE Awaits(j, DOMAIN items[r])'
    <3>1. Awaits(j, frozen)'
      BY <1>2, <1>6, <1>8, <1>9, <1>10, <1>13, <2>2, <2>3, OthersKeepWaiting
    <3> QED
      BY <1>3, <2>2, <3>1 DEF Awaits
  <2>4. ASSUME NEW j \in ItemsIn(r, {"SUCCEEDED"})' PROVE HasTakenEffect(j)'
    <3>1. CASE j = i /\ status = "SUCCEEDED"
      BY <1>1, <1>2, <1>9, <3>1, EffectIsTaken
    <3>2. CASE j \in ItemsIn(r, {"SUCCEEDED"}) /\ j # i
      BY <1>2, <1>8, <1>9, <1>10, <1>13, <3>2, EffectsLast
    <3> QED
      BY <1>7, <2>4, <3>1, <3>2
  <2>5. PlanHolds(r)'
    BY <1>11, <2>3, <2>4 DEF PlanHolds
  <2> QED
    BY <1>4, <2>1, <2>5 DEF PlansHold
<1> QED
  BY <1>1, <1>12, <1>13 DEF Writes

LEMMA PlansKept ==
  ASSUME TablesInv, PlansHold, PlanStep
  PROVE  PlansHold'
<1>a. runs \in [Runs -> IngestionRunStatus \cup {Absent}] /\ DOMAIN items = Runs
  BY DEF TablesInv, LedgerTypeOK
<1>1. ASSUME UNCHANGED <<sources, items>>, Applying' \subseteq Applying PROVE PlansHold'
  BY <1>1 DEF PlansHold, PlanHolds, LivePathsAreDistinct, NamesEachOnce, Awaits, Occupied, Live,
              HasTakenEffect, Fresh, ItemsIn
<1>2. CASE UNCHANGED <<sources, runs, items>>
  BY <1>1, <1>2 DEF Applying
<1>3. ASSUME NEW r \in Runs, NEW status \in {"PLANNING", "COMPLETED", "PARTIAL_FAILED", "FAILED"},
             runs' = [runs EXCEPT ![r] = status], UNCHANGED <<sources, items>>
      PROVE  PlansHold'
  <2>1. Applying' \subseteq Applying
    BY <1>3, <1>a DEF Applying
  <2> QED
    BY <1>1, <1>3, <2>1
<1>4. ASSUME NEW r \in Runs, runs[r] = "PLANNING", UNCHANGED sources,
             NEW plan \in SUBSET PlanItem, SavePlan(r, plan), IsSoundPlan(plan)
      PROVE  PlansHold'
  <2>1. /\ runs' = [runs EXCEPT ![r] = "APPLYING"]
        /\ items' = [items EXCEPT ![r] = [i \in plan |-> "PENDING"]]
    BY <1>4 DEF SavePlan, PendingItems
  <2>2. Applying' = {r}
    BY <1>4, <1>a, <2>1 DEF Applying, TablesInv, OneActiveRun, ActiveRuns, ActiveStatus
  <2>3. DOMAIN items'[r] = plan /\ \A i \in plan : items'[r][i] = "PENDING"
    BY <1>a, <2>1
  <2>4. ItemsIn(r, {"PENDING"})' = plan /\ ItemsIn(r, {"SUCCEEDED"})' = {}
    BY <2>3 DEF ItemsIn
  <2>5. NamesEachOnce(DOMAIN items[r])'
    BY <1>4, <2>3 DEF IsSoundPlan, NamesEachOnce
  <2>6. \A i \in plan : Awaits(i, DOMAIN items[r])'
    BY <1>4, <2>3 DEF IsSoundPlan, Awaits, Occupied, Live
  <2>7. PlanHolds(r)'
    BY <2>4, <2>5, <2>6 DEF PlanHolds
  <2>8. LivePathsAreDistinct'
    BY <1>4 DEF PlansHold, LivePathsAreDistinct, Live
  <2> QED
    BY <2>2, <2>7, <2>8 DEF PlansHold
<1> QED
  BY <1>2, <1>3, <1>4, ItemKeepsPlan DEF PlanStep
-----------------------------------------------------------------------------
(* What the calls carry.                                                   *)

(* A plan stays sound until it is saved: a run that is being planned is    *)
(* the only one, so nothing is applied meanwhile.                          *)
LEMMA CarriedStaysSound ==
  ASSUME TablesInv, PlanStep, NEW row, CarriesSound(row),
         row.at \in {"capture", "save"} => row.run \in Runs
  PROVE  CarriesSound(row)'
<1>a. runs \in [Runs -> IngestionRunStatus \cup {Absent}]
  BY DEF TablesInv, LedgerTypeOK
<1>1. ASSUME NEW r \in Runs, runs[r] # Absent PROVE runs'[r] # Absent
  BY <1>1, <1>a DEF PlanStep, SavePlan, ledger, AppliesItem, Absent
<1>2. ASSUME NEW r \in Runs, runs[r] # Absent, runs'[r] = "PLANNING"
      PROVE  runs[r] = "PLANNING" /\ UNCHANGED sources
  <2>1. ASSUME NEW q \in Runs, NEW i \in ItemsIn(q, {"PENDING"}), AppliesItem(q, i) PROVE FALSE
    <3>1. runs[q] = "APPLYING" /\ runs' = runs
      BY <2>1 DEF AppliesItem, TablesInv, OnlyApplyingRunsHavePending
    <3> QED
      BY <1>2, <3>1 DEF TablesInv, OneActiveRun, ActiveRuns, ActiveStatus
  <2> QED
    BY <1>2, <1>a, <2>1 DEF PlanStep, SavePlan, ledger
<1>3. UNCHANGED sources => (IsSoundPlan(row.items) => IsSoundPlan(row.items)')
  BY DEF IsSoundPlan, NamesEachOnce, Awaits, Occupied, Live
<1> QED
  BY <1>1, <1>2, <1>3 DEF CarriesSound, HaveOwnPaths

(* One caller moves, and carries what is sound.                            *)
LEMMA CallersStaySound ==
  ASSUME TablesInv, CallsInv, \A d \in Callers : CarriesSound(call[d]), PlanStep,
         NEW c \in Callers, NEW row, call' = [call EXCEPT ![c] = row], CarriesSound(row)'
  PROVE  \A d \in Callers : CarriesSound(call[d])'
<1> SUFFICES ASSUME NEW d \in Callers PROVE CarriesSound(call[d])'
  OBVIOUS
<1>1. call'[c] = row /\ (d # c => call'[d] = call[d])
  BY DEF CallsInv
<1>2. CASE d = c
  BY <1>1, <1>2 DEF CarriesSound
<1>3. CASE d # c
  <2>1. PICK old : old = call[d]
    OBVIOUS
  <2>2. old.at \in {"capture", "save"} => old.run \in Runs
    BY <2>1 DEF CallsInv
  <2>3. CarriesSound(old)'
    BY <2>1, <2>2, CarriedStaysSound
  <2> QED
    BY <1>1, <1>3, <2>1, <2>3 DEF CarriesSound
<1> QED
  BY <1>2, <1>3

(* A call that carries nothing is sound.                                   *)
LEMMA EmptyHandsAreSound ==
  ASSUME NEW row, row.listed = {}, row.manifest = {}, row.at \notin {"capture", "save"}
  PROVE  CarriesSound(row)'
BY DEF CarriesSound, HaveOwnPaths

LEMMA ListingsAreSound ==
  ASSUME IngestionInv, PlansHold, \A d \in Callers : CarriesSound(call[d]), PlanStep,
         NEW c \in Callers,
         \/ ListInventory(c) \/ LoadKnownSources(c)
         \/ \E o \in call[c].listed : CaptureFile(c, o) \/ CaptureFailure(c, o)
  PROVE  \A d \in Callers : CarriesSound(call[d])'
<1>a. TablesInv /\ CallsInv /\ SourcesTypeOK
  BY InvariantInTwo DEF TablesInv
<1>b. UNCHANGED <<sources, ledger>> /\ call[c] \in Call /\ CarriesSound(call[c])
  BY <1>a DEF CallsInv, ListInventory, LoadKnownSources, CaptureFile, CaptureFailure, Capture
<1>1. ASSUME NEW row, call' = [call EXCEPT ![c] = row], CarriesSound(row)
      PROVE  \A d \in Callers : CarriesSound(call[d])'
  <2>1. CarriesSound(row)'
    BY <1>1, <1>b
       DEF CarriesSound, ledger, IsSoundPlan, NamesEachOnce, Awaits, Occupied, Live, HaveOwnPaths
  <2> QED
    BY <1>1, <1>a, <2>1, CallersStaySound
<1>2. CASE ListInventory(c)
  <2> DEFINE found == {q \in call[c].scope : vault[q] # NoFile}
             seen == {[path |-> p, key |-> vault[p].key] : p \in found}
             row == [call[c] EXCEPT !.at = "capture", !.listed = seen]
  <2>1. /\ call' = [call EXCEPT ![c] = row] /\ call[c].at = "plan"
        /\ runs[call[c].run] = "PLANNING"
    BY <1>2 DEF ListInventory, At
  <2>2. \A o, p \in seen : o.path = p.path => o = p
    OBVIOUS
  <2> HIDE DEF seen
  <2>3. /\ row.at = "capture" /\ row.listed = seen /\ row.manifest = {} /\ row.run = call[c].run
    BY <1>b, <2>1 DEF Call, CarriesSound
  <2> HIDE DEF row
  <2>4. CarriesSound(row)
    BY <2>1, <2>2, <2>3 DEF CarriesSound, HaveOwnPaths, Absent
  <2> QED
    BY <1>1, <2>1, <2>4
<1>3. ASSUME NEW o \in call[c].listed, CaptureFile(c, o) \/ CaptureFailure(c, o)
      PROVE  \A d \in Callers : CarriesSound(call[d])'
  <2>1. PICK key, content : Capture(c, o, key, content)
    BY <1>3 DEF CaptureFile, CaptureFailure
  <2> DEFINE entry == [path |-> o.path, key |-> key, content |-> content]
             row == [call[c] EXCEPT !.listed = call[c].listed \ {o},
                                    !.manifest = call[c].manifest \cup {entry}]
  <2>2. call' = [call EXCEPT ![c] = row] /\ call[c].at = "capture"
    BY <2>1 DEF Capture, At
  <2>3. entry.path = o.path
    OBVIOUS
  <2> HIDE DEF entry
  <2>4. /\ row.at = "capture" /\ row.listed = call[c].listed \ {o} /\ row.run = call[c].run
        /\ row.manifest = call[c].manifest \cup {entry}
    BY <1>b, <2>2 DEF Call
  <2> HIDE DEF row
  <2>5. CarriesSound(row)
    BY <1>3, <1>b, <2>2, <2>3, <2>4 DEF CarriesSound, HaveOwnPaths
  <2> QED
    BY <1>1, <2>2, <2>5
<1>4. CASE LoadKnownSources(c)
  <2> DEFINE plan == PlanIngestion(KnownSources(call[c].scope), call[c].manifest)
             row == [call[c] EXCEPT !.at = "save", !.manifest = {}, !.items = plan]
  <2>1. call' = [call EXCEPT ![c] = row] /\ call[c].at = "capture" /\ call[c].listed = {}
    BY <1>4 DEF LoadKnownSources, At
  <2>2. KnowsTheSources(KnownSources(call[c].scope))
    BY KnownSourcesAreKnown DEF PlansHold, LivePathsAreDistinct
  <2>3. IsSoundPlan(plan)
    BY <1>a, <1>b, <2>2, PlanIsSound DEF CarriesSound
  <2> HIDE DEF plan
  <2>4. /\ row.at = "save" /\ row.listed = {} /\ row.manifest = {} /\ row.run = call[c].run
        /\ row.items = plan
    BY <1>b, <2>1 DEF Call
  <2> HIDE DEF row
  <2>5. CarriesSound(row)
    BY <1>b, <2>1, <2>3, <2>4 DEF CarriesSound, HaveOwnPaths
  <2> QED
    BY <1>1, <2>1, <2>5
<1> QED
  BY <1>2, <1>3, <1>4

LEMMA CallsStaySound ==
  ASSUME IngestionInv, PlansHold, \A d \in Callers : CarriesSound(call[d]), PlanStep,
         [Next]_vars
  PROVE  \A d \in Callers : CarriesSound(call[d])'
<1>a. TablesInv /\ CallsInv
  BY InvariantInTwo
<1>1. ASSUME UNCHANGED call PROVE \A d \in Callers : CarriesSound(call[d])'
  <2> SUFFICES ASSUME NEW d \in Callers PROVE CarriesSound(call[d])'
    OBVIOUS
  <2>1. PICK old : old = call[d]
    OBVIOUS
  <2>2. old.at \in {"capture", "save"} => old.run \in Runs
    BY <1>a, <2>1 DEF CallsInv
  <2>3. CarriesSound(old)'
    BY <1>a, <2>1, <2>2, CarriedStaysSound
  <2> QED
    BY <1>1, <2>1, <2>3 DEF CarriesSound
<1>2. ASSUME NEW c \in Callers, NEW row, call' = [call EXCEPT ![c] = row],
             row.listed = {}, row.manifest = {}, row.at \notin {"capture", "save"}
      PROVE  \A d \in Callers : CarriesSound(call[d])'
  BY <1>2, <1>a, EmptyHandsAreSound, CallersStaySound
<1>3. ASSUME NEW c \in Callers, NEW label \in Labels \ {"capture", "save"}, NEW r, NEW scope,
             call' = [call EXCEPT ![c] = [Idle EXCEPT !.at = label, !.run = r, !.scope = scope]]
      PROVE  \A d \in Callers : CarriesSound(call[d])'
  <2> DEFINE row == [Idle EXCEPT !.at = label, !.run = r, !.scope = scope]
  <2>1. row.listed = {} /\ row.manifest = {} /\ row.at = label
    BY DEF Idle
  <2>2. call' = [call EXCEPT ![c] = row]
    BY <1>3
  <2> HIDE DEF row
  <2> QED
    BY <1>2, <1>3, <2>1, <2>2
<1>4. ASSUME NEW c \in Callers, Return(c)
      PROVE  \A d \in Callers : CarriesSound(call[d])'
  <2>1. Idle.listed = {} /\ Idle.manifest = {} /\ Idle.at \notin {"capture", "save"}
    BY DEF Idle
  <2> QED
    BY <1>2, <1>4, <2>1 DEF Return
(* A call that has saved its plan, or found it saved, carries nothing.     *)
<1>5. ASSUME NEW c \in Callers, call[c].at \notin {"capture", "save"},
             NEW row \in Call, row.listed = call[c].listed, row.manifest = call[c].manifest,
             row.at \notin {"capture", "save"}, call' = [call EXCEPT ![c] = row]
      PROVE  \A d \in Callers : CarriesSound(call[d])'
  <2>1. row.listed = {} /\ row.manifest = {}
    BY <1>5 DEF CarriesSound
  <2> QED
    BY <1>2, <1>5, <2>1
<1>6. ASSUME NEW c \in Callers, NextItem(c), At(c, "unread") \/ At(c, "prepared")
      PROVE  \A d \in Callers : CarriesSound(call[d])'
  <2> DEFINE row == [call[c] EXCEPT !.at = "next", !.item = None, !.prepared = None]
  <2>1. row \in Call /\ row.at = "next" /\ row.listed = call[c].listed
        /\ row.manifest = call[c].manifest
    BY <1>a DEF CallsInv, Call, Labels
  <2>2. call' = [call EXCEPT ![c] = row] /\ call[c].at \notin {"capture", "save"}
    BY <1>6 DEF NextItem, At
  <2> HIDE DEF row
  <2> QED
    BY <1>5, <2>1, <2>2
<1>7. ASSUME NEW c \in Callers, NEW i, NEW label \in {"prepared", "unread"}, NEW prepared,
             TakeItem(c, i, label, prepared)
      PROVE  \A d \in Callers : CarriesSound(call[d])'
  <2> DEFINE row == [call[c] EXCEPT !.at = label, !.items = call[c].items \ {i}, !.item = i,
                                    !.prepared = prepared]
  <2>1. /\ call[c] \in Call /\ call[c].at = "next" /\ call' = [call EXCEPT ![c] = row]
    BY <1>7, <1>a DEF TakeItem, At, CallsInv
  <2>2. call[c].listed = {} /\ call[c].manifest = {}
    BY <2>1 DEF CarriesSound
  <2>3. row.at = label /\ row.listed = {} /\ row.manifest = {}
    BY <2>1, <2>2 DEF Call
  <2> HIDE DEF row
  <2> QED
    BY <1>2, <2>1, <2>3
<1>8. ASSUME NEW c \in Callers, ListPendingItems(c)
      PROVE  \A d \in Callers : CarriesSound(call[d])'
  <2> DEFINE pending == ItemsIn(call[c].run, {"PENDING"})
             row == [call[c] EXCEPT !.at = "next", !.items = pending]
  <2>1. /\ call[c] \in Call /\ call[c].at = "apply" /\ call' = [call EXCEPT ![c] = row]
    BY <1>8, <1>a DEF ListPendingItems, At, CallsInv
  <2>2. call[c].listed = {} /\ call[c].manifest = {}
    BY <2>1 DEF CarriesSound
  <2> HIDE DEF pending
  <2>3. row.at = "next" /\ row.listed = {} /\ row.manifest = {}
    BY <2>1, <2>2 DEF Call
  <2> HIDE DEF row
  <2> QED
    BY <1>2, <2>1, <2>3
<1>9. CASE UNCHANGED vars \/ Environment
  BY <1>1, <1>9 DEF vars, callers, Environment, RemoveFile, SaveFile, RenameFile, Edit
<1>10. ASSUME NEW c \in Callers, NEW r \in Runs, Start(c, r)
       PROVE  \A d \in Callers : CarriesSound(call[d])'
  BY <1>3, <1>10 DEF Start, RunWorkflow, Labels
<1>11. ASSUME NEW c \in Callers, Fault(c) \/ Crash(c)
       PROVE  \A d \in Callers : CarriesSound(call[d])'
  BY <1>4, <1>11 DEF Fault, Crash, Raise
<1>12. ASSUME NEW c \in Callers, Step(c) PROVE \A d \in Callers : CarriesSound(call[d])'
  <2>1. CASE BeginRun(c) \/ PlanAlreadySaved(c) \/ SavePlanRun(c)
    BY <1>3, <2>1 DEF BeginRun, PlanAlreadySaved, SavePlanRun, Goto, Labels
  <2>2. CASE RefuseRun(c) \/ ReconcileRun(c) \/ RaiseOnItem(c)
    BY <1>4, <2>2 DEF RefuseRun, ReconcileRun, RaiseOnItem, Raise
  <2>3. CASE \/ ListInventory(c) \/ LoadKnownSources(c)
             \/ \E o \in call[c].listed : CaptureFile(c, o) \/ CaptureFailure(c, o)
    BY <2>3, ListingsAreSound
  <2>4. CASE ListPendingItems(c)
    BY <1>8, <2>4
  <2>5. ASSUME NEW i \in call[c].items,
               \/ TakeItemWithoutDocument(c, i) \/ FailToPrepareItem(c, i)
               \/ \E prepared \in Prepared : PrepareItem(c, i, prepared)
        PROVE  \A d \in Callers : CarriesSound(call[d])'
    BY <1>7, <2>5 DEF TakeItemWithoutDocument, FailToPrepareItem, PrepareItem
  <2>6. CASE MarkItemFailed(c) \/ ApplyPreparedItem(c) \/ ReplayItem(c)
    BY <1>6, <2>6 DEF MarkItemFailed, ApplyPreparedItem, ReplayItem
  <2> QED
    BY <1>12, <2>1, <2>2, <2>3, <2>4, <2>5, <2>6 DEF Step
<1> QED
  BY <1>9, <1>10, <1>11, <1>12 DEF Next
-----------------------------------------------------------------------------
(* Screening: what is READY or current has been found ready.               *)

ScreenedRow(row) ==
  /\ \A d \in Contents : row.status[d] = "READY" => "ready" \in Preparation[d]
  /\ row.current # None =>
       /\ "ready" \in Preparation[row.current]
       /\ row.status[row.current] = IF row.live THEN "READY" ELSE "DELETED"

SourcesAreScreened == \A s \in Sources : ScreenedRow(sources[s])

CarriesPrepared(row) ==
  row.at = "prepared" /\ NeedsDocument(row.item) => row.prepared \in Preparation[row.item.content]

LEMMA ScreenedByParts ==
  PreparationsAreTrue /\ CurrentIsScreened <=>
    SourcesAreScreened /\ \A c \in Callers : CarriesPrepared(call[c])
BY DEF PreparationsAreTrue, CurrentIsScreened, SourcesAreScreened, ScreenedRow, CarriesPrepared, At

(* The fields that screening is about, as each operation leaves them.      *)
LEMMA JudgedFields ==
  ASSUME NEW row, NEW c, NEW status, NEW version, row \in SourceRow, c \in Contents, row.live,
         version = Transitioned(Captured(row, c), c, status)
  PROVE  /\ version.status[c] = status
         /\ \A d \in Contents \ {c} : version.status[d] = row.status[d]
         /\ version.current = row.current /\ version.live
<1>1. PICK captured \in SourceRow :
        /\ captured = Captured(row, c)
        /\ \A d \in Contents \ {c} : captured.status[d] = row.status[d]
        /\ captured.current = row.current /\ captured.live
  <2>1. Captured(row, c) \in SourceRow
    <3>1. row.status[c] = Absent => Append(row.history, c) \in Seq(Contents)
      BY DEF SourceRow
    <3> QED
      BY <3>1 DEF Captured, SourceRow, SourceVersionStatus
  <2>2. /\ \A d \in Contents \ {c} : Captured(row, c).status[d] = row.status[d]
        /\ Captured(row, c).current = row.current /\ Captured(row, c).live
    BY DEF Captured, SourceRow
  <2> QED
    BY <2>1, <2>2
<1>2. version = [captured EXCEPT !.status[c] = status]
  BY <1>1 DEF Transitioned
<1>3. /\ version.status[c] = status
      /\ \A d \in Contents \ {c} : version.status[d] = captured.status[d]
      /\ version.current = captured.current /\ version.live
  BY <1>1, <1>2 DEF SourceRow
<1> QED
  BY <1>1, <1>3

(* A version that was absent or could not be parsed is judged by what its  *)
(* document came to.                                                       *)
LEMMA FinishedIsScreened ==
  ASSUME NEW r, NEW i, i.content \in Contents, NEW s, NEW row \in SourceRow,
         ScreenedRow(row), row.live, row.status[i.content] \in {Absent, "PARSE_FAILED"},
         NEW prepared \in Preparation[i.content],
         FinishPreparedVersion(r, i, s, row, prepared)
  PROVE  \E new : Write(s, new) /\ ScreenedRow(new)
<1> PICK c \in Contents : c = i.content
  OBVIOUS
<1>1. row.status \in [Contents -> SourceVersionStatus \cup {Absent}]
  BY DEF SourceRow
<1>2. row.current # None => row.current \in Contents /\ row.current # c
  BY DEF SourceRow, ScreenedRow, Absent
<1>3. ASSUME NEW status \in {"PARSE_FAILED", "QUARANTINED"},
             Write(s, Transitioned(Captured(row, c), c, status))
      PROVE  \E new : Write(s, new) /\ ScreenedRow(new)
  <2> PICK new : new = Transitioned(Captured(row, c), c, status)
    OBVIOUS
  <2>1. /\ new.status[c] = status
        /\ \A d \in Contents \ {c} : new.status[d] = row.status[d]
        /\ new.current = row.current /\ new.live
    BY JudgedFields
  <2>2. Write(s, new)
    BY <1>3
  <2>3. ScreenedRow(new)
    BY <1>1, <1>2, <2>1 DEF ScreenedRow
  <2> QED
    BY <2>2, <2>3
<1>4. ASSUME prepared = "ready",
             Write(s, Activated(Transitioned(Captured(row, c), c, "READY"), c))
      PROVE  \E new : Write(s, new) /\ ScreenedRow(new)
  <2> PICK judged : judged = Transitioned(Captured(row, c), c, "READY")
    OBVIOUS
  <2> PICK new : new = Activated(judged, c)
    OBVIOUS
  <2>1. /\ judged.status[c] = "READY"
        /\ \A d \in Contents \ {c} : judged.status[d] = row.status[d]
        /\ judged.live
    BY JudgedFields
  <2>2. new.status = judged.status /\ new.current = c /\ new.live
    BY <2>1 DEF Activated, Transitioned, Captured, SourceRow
  <2>3. Write(s, new)
    BY <1>4
  <2>4. /\ new.live /\ new.status[c] = "READY" /\ "ready" \in Preparation[c]
        /\ \A d \in Contents \ {c} : new.status[d] = row.status[d]
    BY <1>1, <1>4, <2>1, <2>2
  <2>5. ScreenedRow(new)
    BY <2>2, <2>4 DEF ScreenedRow
  <2> QED
    BY <2>3, <2>5
<1> QED
  BY <1>3, <1>4 DEF FinishPreparedVersion

(* However an item is applied, what it makes current has been screened.    *)
LEMMA ItemIsScreened ==
  ASSUME SourcesTypeOK, SourcesAreScreened, NEW r, NEW i \in PlanItem, NEW prepared,
         NeedsDocument(i) => prepared \in Preparation[i.content],
         ApplyItem(r, i, prepared)
  PROVE  SourcesAreScreened'
<1>a. /\ i.source \in Sources \cup {None} /\ i.path \in Paths
      /\ i.key \in Keys \cup {None} /\ i.content \in Contents \cup {None}
      /\ i.action # "CREATED" => i.source \in Sources
  BY DEF PlanItem
<1>1. ASSUME NEW s \in Sources, NEW new, Write(s, new), ScreenedRow(new)
      PROVE  SourcesAreScreened'
  <2>1. \A t \in Sources : sources'[t] = new \/ sources'[t] = sources[t]
    BY <1>1 DEF Write, SourcesTypeOK
  <2> QED
    BY <1>1, <2>1 DEF SourcesAreScreened, ScreenedRow
<1>2. CASE ApplyUncaptured(r, i)
  BY <1>2 DEF ApplyUncaptured, SourcesAreScreened, ScreenedRow
<1>3. CASE ApplyCreated(r, i, prepared)
  <2> DEFINE row == NewSource(i.path, i.key)
  <2>1. PICK s \in Fresh : FinishPreparedVersion(r, i, s, row, prepared)
    BY <1>3 DEF ApplyCreated
  <2>2. /\ Unborn \in SourceRow /\ Unborn.current = None
        /\ \A c \in Contents : Unborn.status[c] = Absent
    BY DEF Unborn, SourceRow
  <2>3. row \in SourceRow /\ row.live /\ row.current = None /\ row.status = Unborn.status
    BY <1>a, <2>2 DEF NewSource, SourceRow
  <2>4. i.content \in Contents /\ s \in Sources
    BY <1>3, <1>a DEF ApplyCreated, Fresh
  <2>5. prepared \in Preparation[i.content]
    BY <1>3 DEF ApplyCreated, NeedsDocument
  <2> HIDE DEF row
  <2>6. ScreenedRow(row) /\ row.status[i.content] = Absent
    BY <2>2, <2>3, <2>4 DEF ScreenedRow, Absent
  <2>7. row \in SourceRow /\ row.live
    BY <2>3
  <2>8. \E new : Write(s, new) /\ ScreenedRow(new)
    BY <2>1, <2>4, <2>5, <2>6, <2>7, FinishedIsScreened
  <2> QED
    BY <1>1, <2>4, <2>8
<1>4. ASSUME i.source \in Sources
      PROVE  /\ Touched(sources[i.source], i.key) \in SourceRow
             /\ ScreenedRow(Touched(sources[i.source], i.key))
             /\ Placed(i) \in SourceRow /\ ScreenedRow(Placed(i))
             /\ Placed(i).live = sources[i.source].live
             /\ Placed(i).status = sources[i.source].status
             /\ Placed(i).current = sources[i.source].current
  <2>1. sources[i.source] \in SourceRow /\ ScreenedRow(sources[i.source])
    BY <1>4 DEF SourcesTypeOK, SourcesAreScreened
  <2> PICK old : old = sources[i.source]
    OBVIOUS
  <2>2. ASSUME NEW new \in SourceRow, new.status = old.status, new.live = old.live,
               new.current = old.current
        PROVE  ScreenedRow(new)
    BY <2>1, <2>2 DEF ScreenedRow
  <2>3. /\ Touched(old, i.key) \in SourceRow /\ Touched(old, i.key).status = old.status
        /\ Touched(old, i.key).live = old.live /\ Touched(old, i.key).current = old.current
    BY <1>a, <2>1 DEF Touched, SourceRow
  <2>4. /\ Placed(i) \in SourceRow /\ Placed(i).status = old.status
        /\ Placed(i).live = old.live /\ Placed(i).current = old.current
    BY <1>a, <2>1 DEF Placed, Touched, Relocated, SourceRow
  <2> QED
    BY <2>2, <2>3, <2>4
<1>5. ASSUME AppliesToExisting(i)
      PROVE  /\ i.source \in Sources /\ i.content \in Contents /\ NeedsDocument(i)
             /\ sources[i.source].live
  BY <1>5, <1>a DEF AppliesToExisting, NeedsDocument
<1>6. CASE ApplyNewContent(r, i, prepared)
  <2>1. /\ AppliesToExisting(i) /\ Existing(i) \in {Absent, "PARSE_FAILED"}
        /\ FinishPreparedVersion(r, i, i.source, Placed(i), prepared)
    BY <1>6 DEF ApplyNewContent
  <2>2. /\ Placed(i) \in SourceRow /\ ScreenedRow(Placed(i)) /\ Placed(i).live
        /\ Placed(i).status[i.content] \in {Absent, "PARSE_FAILED"}
        /\ i.content \in Contents /\ prepared \in Preparation[i.content] /\ i.source \in Sources
    BY <1>4, <1>5, <2>1 DEF Existing
  <2>3. \E new : Write(i.source, new) /\ ScreenedRow(new)
    BY <2>1, <2>2, FinishedIsScreened
  <2> QED
    BY <1>1, <2>2, <2>3
<1>7. CASE FinishPreservedQuarantine(r, i) \/ FinishMoveWithoutVersion(r, i)
  <2>1. AppliesToExisting(i) /\ Write(i.source, Placed(i))
    BY <1>7 DEF FinishPreservedQuarantine, FinishMoveWithoutVersion
  <2> QED
    BY <1>1, <1>4, <1>5, <2>1
<1>8. CASE FinishReadyReactivation(r, i)
  <2> DEFINE new == Activated(Placed(i), i.content)
  <2>1. /\ AppliesToExisting(i) /\ Existing(i) = "READY" /\ Write(i.source, new)
    BY <1>8 DEF FinishReadyReactivation
  <2>2. /\ Placed(i) \in SourceRow /\ ScreenedRow(Placed(i)) /\ Placed(i).live
        /\ Placed(i).status[i.content] = "READY" /\ i.content \in Contents /\ i.source \in Sources
    BY <1>4, <1>5, <2>1 DEF Existing
  <2>3. new.status = Placed(i).status /\ new.live = Placed(i).live /\ new.current = i.content
    BY <2>2 DEF Activated, SourceRow
  <2> HIDE DEF new
  <2>4. ScreenedRow(new)
    BY <2>2, <2>3 DEF ScreenedRow
  <2> QED
    BY <1>1, <2>1, <2>2, <2>4
<1>9. CASE ApplyDeleted(r, i)
  <2>1. /\ i.source \in Sources /\ sources[i.source].live
        /\ Write(i.source, Deleted(sources[i.source]))
    BY <1>9, <1>a DEF ApplyDeleted
  <2> PICK old : old = sources[i.source]
    OBVIOUS
  <2> DEFINE new == Deleted(old)
  <2>2. old \in SourceRow /\ ScreenedRow(old)
    BY <2>1 DEF SourcesTypeOK, SourcesAreScreened
  <2>3. /\ new.status = [old.status EXCEPT ![DeletionTarget(old)] = "DELETED"]
        /\ new.live = FALSE /\ new.current = old.current
    BY <2>2 DEF Deleted, SourceRow
  <2>4. /\ old.status \in [Contents -> SourceVersionStatus \cup {Absent}]
        /\ old.current # None => old.current \in Contents /\ DeletionTarget(old) = old.current
    BY <2>2 DEF SourceRow, DeletionTarget
  <2>5. Write(i.source, new)
    BY <2>1
  <2> HIDE DEF new
  <2>6. ScreenedRow(new)
    BY <2>2, <2>3, <2>4 DEF ScreenedRow
  <2> QED
    BY <1>1, <2>1, <2>5, <2>6
<1>10. CASE ApplyUnchanged(r, i)
  <2>1. i.source \in Sources /\ Write(i.source, Touched(sources[i.source], i.key))
    BY <1>10, <1>a DEF ApplyUnchanged
  <2> QED
    BY <1>1, <1>4, <2>1
<1> QED
  BY <1>2, <1>3, <1>6, <1>7, <1>8, <1>9, <1>10 DEF ApplyItem
LEMMA SourcesStayScreened ==
  ASSUME IngestionInv, SourcesAreScreened, \A c \in Callers : CarriesPrepared(call[c]),
         [Next]_vars
  PROVE  SourcesAreScreened'
<1>1. CASE UNCHANGED sources
  BY <1>1 DEF SourcesAreScreened, ScreenedRow
<1>2. ASSUME NEW c \in Callers, ApplyPreparedItem(c) PROVE SourcesAreScreened'
  <2>1. /\ call[c].at = "prepared" /\ SourcesTypeOK
        /\ ApplyItem(call[c].run, call[c].item, call[c].prepared)
    BY <1>2 DEF ApplyPreparedItem, At, IngestionInv, TypeOK
  <2>2. call[c].item \in PlanItem
    BY <2>1 DEF IngestionInv, TypeOK, CallsHoldPlannedItems, At, LedgerTypeOK, IsItemTable
  <2>3. NeedsDocument(call[c].item) => call[c].prepared \in Preparation[call[c].item.content]
    BY <2>1 DEF CarriesPrepared
  <2> QED
    BY <2>1, <2>2, <2>3, ItemIsScreened
<1>3. ASSUME NEW c \in Callers, Fault(c) \/ Crash(c) \/ \E r \in Runs : Start(c, r)
      PROVE  UNCHANGED sources
  BY <1>3 DEF Fault, Raise, Crash, Start, RunWorkflow
<1>4. ASSUME NEW c \in Callers, Step(c), ~ApplyPreparedItem(c) PROVE UNCHANGED sources
  BY <1>4 DEF Step, BeginRun, RefuseRun, ListInventory, PlanAlreadySaved, CaptureFile,
              CaptureFailure, Capture, LoadKnownSources, SavePlanRun, ListPendingItems,
              TakeItemWithoutDocument, FailToPrepareItem, PrepareItem, TakeItem, MarkItemFailed,
              ReplayItem, ReconcileRun, RaiseOnItem, Raise
<1>5. CASE UNCHANGED vars \/ Environment
  BY <1>1, <1>5 DEF vars, Environment, RemoveFile, SaveFile, RenameFile, Edit
<1> QED
  BY <1>1, <1>2, <1>3, <1>4, <1>5 DEF Next

(* A caller holds what its document came to, or nothing yet.               *)
LEMMA CallsStayPrepared ==
  ASSUME CallsInv, \A d \in Callers : CarriesPrepared(call[d]), [Next]_vars
  PROVE  \A d \in Callers : CarriesPrepared(call'[d])
<1>1. ASSUME NEW c \in Callers, NEW row, call' = [call EXCEPT ![c] = row], CarriesPrepared(row)
      PROVE  \A d \in Callers : CarriesPrepared(call'[d])
  BY <1>1 DEF CallsInv
<1>2. ASSUME NEW c \in Callers, NEW row, call' = [call EXCEPT ![c] = row], row.at # "prepared"
      PROVE  \A d \in Callers : CarriesPrepared(call'[d])
  BY <1>1, <1>2 DEF CarriesPrepared
<1>3. ASSUME NEW c \in Callers, NEW label \in Labels \ {"prepared"}, NEW r, NEW scope,
             call' = [call EXCEPT ![c] = [Idle EXCEPT !.at = label, !.run = r, !.scope = scope]]
      PROVE  \A d \in Callers : CarriesPrepared(call'[d])
  <2> DEFINE row == [Idle EXCEPT !.at = label, !.run = r, !.scope = scope]
  <2>1. row.at = label
    BY DEF Idle
  <2>2. call' = [call EXCEPT ![c] = row]
    BY <1>3
  <2> HIDE DEF row
  <2> QED
    BY <1>2, <1>3, <2>1, <2>2
<1>4. ASSUME NEW c \in Callers, Return(c) PROVE \A d \in Callers : CarriesPrepared(call'[d])
  <2>1. Idle.at # "prepared"
    BY DEF Idle
  <2> QED
    BY <1>2, <1>4, <2>1 DEF Return
<1>5. ASSUME NEW c \in Callers, NEW i, NEW label, NEW prepared,
             label = "prepared" /\ NeedsDocument(i) => prepared \in Preparation[i.content],
             TakeItem(c, i, label, prepared)
      PROVE  \A d \in Callers : CarriesPrepared(call'[d])
  <2> DEFINE row == [call[c] EXCEPT !.at = label, !.items = call[c].items \ {i}, !.item = i,
                                    !.prepared = prepared]
  <2>1. call[c] \in Call /\ call' = [call EXCEPT ![c] = row]
    BY <1>5 DEF TakeItem, CallsInv
  <2>2. row.at = label /\ row.item = i /\ row.prepared = prepared
    BY <2>1 DEF Call
  <2> HIDE DEF row
  <2>3. CarriesPrepared(row)
    BY <1>5, <2>2 DEF CarriesPrepared
  <2> QED
    BY <1>1, <2>1, <2>3
<1>6. ASSUME NEW c \in Callers,
             \/ ListInventory(c) \/ LoadKnownSources(c) \/ ListPendingItems(c) \/ NextItem(c)
             \/ \E o \in call[c].listed : CaptureFile(c, o) \/ CaptureFailure(c, o)
      PROVE  \A d \in Callers : CarriesPrepared(call'[d])
  <2>1. call[c] \in Call
    BY DEF CallsInv
  <2>2. CASE ListInventory(c)
    <3> DEFINE listed == {[path |-> p, key |-> vault[p].key] :
                            p \in {q \in call[c].scope : vault[q] # NoFile}}
               row == [call[c] EXCEPT !.at = "capture", !.listed = listed]
    <3>1. call' = [call EXCEPT ![c] = row]
      BY <2>2 DEF ListInventory
    <3> HIDE DEF listed
    <3>2. row.at = "capture"
      BY <2>1 DEF Call
    <3> HIDE DEF row
    <3> QED
      BY <1>2, <3>1, <3>2
  <2>3. CASE LoadKnownSources(c)
    <3> DEFINE plan == PlanIngestion(KnownSources(call[c].scope), call[c].manifest)
               row == [call[c] EXCEPT !.at = "save", !.manifest = {}, !.items = plan]
    <3>1. call' = [call EXCEPT ![c] = row]
      BY <2>3 DEF LoadKnownSources
    <3> HIDE DEF plan
    <3>2. row.at = "save"
      BY <2>1 DEF Call
    <3> HIDE DEF row
    <3> QED
      BY <1>2, <3>1, <3>2
  <2>4. CASE ListPendingItems(c)
    <3> DEFINE pending == ItemsIn(call[c].run, {"PENDING"})
               row == [call[c] EXCEPT !.at = "next", !.items = pending]
    <3>1. call' = [call EXCEPT ![c] = row]
      BY <2>4 DEF ListPendingItems
    <3> HIDE DEF pending
    <3>2. row.at = "next"
      BY <2>1 DEF Call
    <3> HIDE DEF row
    <3> QED
      BY <1>2, <3>1, <3>2
  <2>5. CASE NextItem(c)
    <3> DEFINE row == [call[c] EXCEPT !.at = "next", !.item = None, !.prepared = None]
    <3>1. call' = [call EXCEPT ![c] = row]
      BY <2>5 DEF NextItem
    <3>2. row.at = "next"
      BY <2>1 DEF Call
    <3> HIDE DEF row
    <3> QED
      BY <1>2, <3>1, <3>2
  <2>6. ASSUME NEW o, NEW key, NEW content, Capture(c, o, key, content)
        PROVE  \A d \in Callers : CarriesPrepared(call'[d])
    <3> DEFINE entry == [path |-> o.path, key |-> key, content |-> content]
               row == [call[c] EXCEPT !.listed = call[c].listed \ {o},
                                      !.manifest = call[c].manifest \cup {entry}]
    <3>1. call' = [call EXCEPT ![c] = row] /\ call[c].at = "capture"
      BY <2>6 DEF Capture, At
    <3> HIDE DEF entry
    <3>2. row.at = "capture"
      BY <2>1, <3>1 DEF Call
    <3> HIDE DEF row
    <3> QED
      BY <1>2, <3>1, <3>2
  <2> QED
    BY <1>6, <2>2, <2>3, <2>4, <2>5, <2>6 DEF CaptureFile, CaptureFailure
<1>7. CASE UNCHANGED vars \/ Environment
  BY <1>7 DEF vars, callers, Environment, RemoveFile, SaveFile, RenameFile, Edit
<1>8. ASSUME NEW c \in Callers, NEW r \in Runs, Start(c, r)
      PROVE  \A d \in Callers : CarriesPrepared(call'[d])
  BY <1>3, <1>8 DEF Start, RunWorkflow, Labels
<1>9. ASSUME NEW c \in Callers, Fault(c) \/ Crash(c)
      PROVE  \A d \in Callers : CarriesPrepared(call'[d])
  BY <1>4, <1>9 DEF Fault, Crash, Raise
<1>10. ASSUME NEW c \in Callers, Step(c) PROVE \A d \in Callers : CarriesPrepared(call'[d])
  <2>1. CASE BeginRun(c) \/ PlanAlreadySaved(c) \/ SavePlanRun(c)
    BY <1>3, <2>1 DEF BeginRun, PlanAlreadySaved, SavePlanRun, Goto, Labels
  <2>2. CASE RefuseRun(c) \/ ReconcileRun(c) \/ RaiseOnItem(c)
    BY <1>4, <2>2 DEF RefuseRun, ReconcileRun, RaiseOnItem, Raise
  <2>3. CASE \/ ListInventory(c) \/ LoadKnownSources(c) \/ ListPendingItems(c)
             \/ \E o \in call[c].listed : CaptureFile(c, o) \/ CaptureFailure(c, o)
    BY <1>6, <2>3
  <2>4. ASSUME NEW i \in call[c].items,
               \/ TakeItemWithoutDocument(c, i) \/ FailToPrepareItem(c, i)
               \/ \E prepared \in Prepared : PrepareItem(c, i, prepared)
        PROVE  \A d \in Callers : CarriesPrepared(call'[d])
    BY <1>5, <2>4 DEF TakeItemWithoutDocument, FailToPrepareItem, PrepareItem
  <2>5. CASE MarkItemFailed(c) \/ ApplyPreparedItem(c) \/ ReplayItem(c)
    BY <1>6, <2>5 DEF MarkItemFailed, ApplyPreparedItem, ReplayItem
  <2> QED
    BY <1>10, <2>1, <2>2, <2>3, <2>4, <2>5 DEF Step
<1> QED
  BY <1>7, <1>8, <1>9, <1>10 DEF Next

-----------------------------------------------------------------------------
(* The theorems.                                                           *)

LEMMA InitScan == Init => ScanInv
<1> SUFFICES ASSUME Init PROVE ScanInv
  OBVIOUS
<1>1. IngestionInv
  BY InitInvariant
<1>2. /\ Unborn.live = FALSE /\ Unborn.current = None
      /\ \A d \in Contents : Unborn.status[d] = Absent
      /\ Idle.at = "idle" /\ Idle.listed = {} /\ Idle.manifest = {}
  BY DEF Unborn, Idle
<1>3. Live = {} /\ Applying = {}
  BY <1>2 DEF Init, SourcesInit, LedgerInit, Live, Applying, Absent
<1>4. PlansHold
  BY <1>3 DEF PlansHold, LivePathsAreDistinct
<1>5. \A c \in Callers : CarriesSound(call[c]) /\ CarriesPrepared(call[c])
  BY <1>2 DEF Init, CarriesSound, CarriesPrepared, HaveOwnPaths
<1>6. SourcesAreScreened
  BY <1>2 DEF Init, SourcesInit, SourcesAreScreened, ScreenedRow, Absent
<1> QED
  BY <1>1, <1>4, <1>5, <1>6, SoundByParts, ScreenedByParts DEF ScanInv

LEMMA ScanStep == ScanInv /\ [Next]_vars => ScanInv'
<1> SUFFICES ASSUME ScanInv, [Next]_vars PROVE ScanInv'
  OBVIOUS
<1>1. /\ IngestionInv /\ PlansHold /\ SourcesAreScreened
      /\ \A c \in Callers : CarriesSound(call[c]) /\ CarriesPrepared(call[c])
  BY SoundByParts, ScreenedByParts DEF ScanInv
<1>2. TablesInv /\ CallsInv
  BY <1>1, InvariantInTwo
<1>3. IngestionInv'
  <2>1. IngestionInv' <=> TablesInv' /\ CallsInv'
    BY DEF IngestionInv, TypeOK, TablesInv, CallsInv
  <2> QED
    BY <1>1, <1>2, <2>1, StepsOfTables, TablesKept, CallsKept
<1>4. PlanStep
  BY <1>1, StepsOfPlans
<1>5. (PathsAreDistinct /\ PlansAreSound)'
  <2>1. PlansHold' /\ \A c \in Callers : CarriesSound(call[c])'
    BY <1>1, <1>2, <1>4, PlansKept, CallsStaySound
  <2>2. (PathsAreDistinct /\ PlansAreSound)' <=>
          PlansHold' /\ \A c \in Callers : CarriesSound(call[c])'
    BY DEF PathsAreDistinct, PlansAreSound, PlansHold, PlanHolds, LivePathsAreDistinct,
           CarriesSound, HaveOwnPaths, IsSoundPlan, At
  <2> QED
    BY <2>1, <2>2
<1>6. (PreparationsAreTrue /\ CurrentIsScreened)'
  <2>1. SourcesAreScreened' /\ \A c \in Callers : CarriesPrepared(call'[c])
    BY <1>1, <1>2, SourcesStayScreened, CallsStayPrepared
  <2>2. (PreparationsAreTrue /\ CurrentIsScreened)' <=>
          SourcesAreScreened' /\ \A c \in Callers : CarriesPrepared(call'[c])
    BY DEF PreparationsAreTrue, CurrentIsScreened, SourcesAreScreened, ScreenedRow,
           CarriesPrepared, At
  <2> QED
    BY <2>1, <2>2
<1> QED
  BY <1>3, <1>5, <1>6 DEF ScanInv

(* Whatever people do to the vault and wherever calls fail, a plan is made *)
(* of distinct sources and paths and stays what the sources bear out,      *)
(* while it waits and once it is applied.                                  *)
THEOREM ScansCorrect == Spec => []ScanInv
BY InitScan, ScanStep, PTL DEF Spec

(* However late an item of a frozen plan is applied, its source is live    *)
(* and the path it takes is free.                                          *)
THEOREM PlansStayApplicable == Spec => []PlanStaysApplicable
<1>1. ScanInv => PlanStaysApplicable
  BY DEF ScanInv, PlansAreSound, PlanStaysApplicable, NamesEachOnce, Awaits
<1> QED
  BY <1>1, ScansCorrect, PTL

(* What an item has done to its source stands until its run has ended.     *)
THEOREM AppliedItemsLast == Spec => []AppliedItemsHold
<1>1. ScanInv => AppliedItemsHold
  BY DEF ScanInv, PlansAreSound, AppliedItemsHold, HasTakenEffect
<1> QED
  BY <1>1, ScansCorrect, PTL

(* No version becomes current that the parser and the safety scan have not *)
(* passed, whether it was captured, moved or came back.                    *)
THEOREM CurrentVersionsAreScreened == Spec => []CurrentIsScreened
<1>1. ScanInv => CurrentIsScreened
  BY DEF ScanInv
<1> QED
  BY <1>1, ScansCorrect, PTL
===============================================================================
