--------------------------- MODULE IngestionService ---------------------------
(***************************************************************************)
(* IngestionService.apply_item (ingestion/service.py): one item, one unit  *)
(* of work.  It writes the source, announces the knowledge change and      *)
(* settles the item together, or raises and writes nothing.                *)
(*                                                                         *)
(* A document is prepared outside the unit of work: prepared is what       *)
(* decoding, parsing and the safety scan made of it.                       *)
(***************************************************************************)
EXTENDS SourceRepository, IngestionRepository

Prepared == {"ready", "quarantine", "parse_failed"}

Write(s, row) == sources' = [sources EXCEPT ![s] = row]

(* Where an item of an existing source finds it: moved, or touched.        *)
Placed(i) ==
  IF i.action = "MOVED" THEN Relocated(sources[i.source], i.path, i.key)
                        ELSE Touched(sources[i.source], i.key)

Existing(i) == sources[i.source].status[i.content]

ChangeType(i, current) ==
  IF i.action = "MOVED" THEN "MOVED" ELSE IF current # None THEN "UPDATED" ELSE "CREATED"

(* apply_item returns a settled item as it is.                             *)
Replayed(r, i) == items[r][i] \in SettledStatus

-----------------------------------------------------------------------------
(* The ways an item is applied.                                            *)

(* _dispatch of an item whose file could not be captured by the plan.      *)
ApplyUncaptured(r, i) ==
  /\ i.action # "DELETED" /\ i.content = None
  /\ SettleItem(r, i, "FAILED")
  /\ UNCHANGED <<sources, changes>>

(* _finish_prepared_version: of a captured version, or of one whose        *)
(* parsing failed before.                                                  *)
FinishPreparedVersion(r, i, s, row, prepared) ==
  LET version == Captured(row, i.content)
      base    == row.current
  IN  \/ /\ prepared = "parse_failed"
         /\ Write(s, Transitioned(version, i.content, "PARSE_FAILED"))
         /\ SettleItem(r, i, "FAILED")
         /\ UNCHANGED changes
      \/ /\ prepared = "quarantine"
         /\ Write(s, Transitioned(version, i.content, "QUARANTINED"))
         /\ SettleItem(r, i, "QUARANTINED")
         /\ UNCHANGED changes
      \/ /\ prepared = "ready"
         /\ Write(s, Activated(Transitioned(version, i.content, "READY"), i.content))
         /\ SettleItem(r, i, "SUCCEEDED")
         /\ AddChange(r, i, s, ChangeType(i, base), base, i.content)

ApplyCreated(r, i, prepared) ==
  /\ i.action = "CREATED" /\ i.content # None
  /\ ~Occupied(i.path, None)
  /\ \E s \in Fresh : FinishPreparedVersion(r, i, s, NewSource(i.path, i.key), prepared)

(* _apply_existing_content finds the source, and the path of a move free.  *)
AppliesToExisting(i) ==
  /\ i.action \in {"UPDATED", "MOVED"} /\ i.content # None
  /\ sources[i.source].live
  /\ i.action = "MOVED" => ~Occupied(i.path, i.source)

ApplyNewContent(r, i, prepared) ==
  /\ AppliesToExisting(i) /\ Existing(i) \in {Absent, "PARSE_FAILED"}
  /\ FinishPreparedVersion(r, i, i.source, Placed(i), prepared)

\* mutant: a document that has been in quarantine before is let in
ReleasePreservedQuarantine(r, i) ==
  /\ AppliesToExisting(i) /\ Existing(i) = "QUARANTINED"
  /\ Write(i.source, Activated(Placed(i), i.content))
  /\ SettleItem(r, i, "QUARANTINED")
  /\ UNCHANGED changes

FinishPreservedQuarantine(r, i) ==
  /\ AppliesToExisting(i) /\ Existing(i) = "QUARANTINED"
  /\ Write(i.source, Placed(i))
  /\ SettleItem(r, i, "QUARANTINED")
  /\ UNCHANGED changes

FinishMoveWithoutVersion(r, i) ==
  /\ AppliesToExisting(i) /\ i.action = "MOVED"
  /\ Existing(i) = "READY" /\ sources[i.source].current = i.content
  /\ Write(i.source, Placed(i))
  /\ SettleItem(r, i, "SUCCEEDED")
  /\ AddChange(r, i, i.source, "MOVED", i.content, i.content)

FinishReadyReactivation(r, i) ==
  LET base == sources[i.source].current
  IN  /\ AppliesToExisting(i) /\ Existing(i) = "READY" /\ base # i.content
      /\ Write(i.source, Activated(Placed(i), i.content))
      /\ SettleItem(r, i, "SUCCEEDED")
      /\ AddChange(r, i, i.source, ChangeType(i, base), base, i.content)

ApplyDeleted(r, i) ==
  LET target == DeletionTarget(sources[i.source])
  IN  /\ i.action = "DELETED" /\ sources[i.source].live
      /\ Write(i.source, Deleted(sources[i.source]))
      /\ SettleItem(r, i, "SUCCEEDED")
      /\ AddChange(r, i, i.source, "DELETED", target, target)

ApplyUnchanged(r, i) ==
  LET row == sources[i.source]
  IN  /\ i.action = "UNCHANGED" /\ row.live
      /\ Write(i.source, Touched(row, i.key))
      /\ SettleItem(r, i, IF row.status[Latest(row)] = "QUARANTINED"
                          THEN "QUARANTINED" ELSE "SKIPPED")
      /\ UNCHANGED changes

ApplyItem(r, i, prepared) ==
  \/ ApplyUncaptured(r, i)
  \/ ApplyCreated(r, i, prepared)
  \/ ApplyNewContent(r, i, prepared)
  \/ FinishPreservedQuarantine(r, i)
  \/ FinishMoveWithoutVersion(r, i)
  \/ FinishReadyReactivation(r, i)
  \/ ApplyDeleted(r, i)
  \/ ApplyUnchanged(r, i)

(* The unit of work raises: the path is taken, the source is gone, or the  *)
(* content is that of the version that is current already ("updated item   *)
(* does not change the current version").                                  *)
RepeatsCurrent(i) ==
  /\ i.action = "UPDATED" /\ i.content # None
  /\ Existing(i) = "READY" /\ sources[i.source].current = i.content

Refused(i) ==
  /\ i.action = "DELETED" \/ i.content # None
  /\ \/ i.action \in {"CREATED", "MOVED"} /\ Occupied(i.path, i.source)
     \/ i.action # "CREATED" /\ ~sources[i.source].live
     \/ i.action \in {"UPDATED", "MOVED"} /\ Existing(i) \in {"CAPTURED", "PARSED", "DELETED"}
     \/ RepeatsCurrent(i)
=============================================================================
