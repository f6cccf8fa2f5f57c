-------------------------- MODULE IngestionLedger --------------------------
(***************************************************************************)
(* What ingestion promises to whoever consumes its knowledge changes,      *)
(* whatever callers, crashes and edits of the vault do: one run at a time  *)
(* holds a plan, the plan is frozen once, each of its items is settled     *)
(* once, and the current version of a source moves exactly by the changes  *)
(* announced: one change per item that succeeded, based on the version     *)
(* that was current until then.                                            *)
(***************************************************************************)
CONSTANTS Runs, Sources, None

VARIABLES
  runs,     \* status of each run
  items,    \* per run, the status of each item of its frozen plan
  current,  \* the version of each live source that is current
  changes   \* what has been announced

Init ==
  /\ runs = [r \in Runs |-> "absent"]
  /\ items = [r \in Runs |-> [i \in {} |-> "PENDING"]]
  /\ current = [s \in Sources |-> None]
  /\ changes = {}

Pending(r) == {i \in DOMAIN items[r] : items[r][i] = "PENDING"}

Begin(r) ==
  /\ runs[r] = "absent"
  /\ \A q \in Runs : runs[q] \notin {"PLANNING", "APPLYING"}
  /\ runs' = [runs EXCEPT ![r] = "PLANNING"]
  /\ UNCHANGED <<items, current, changes>>

Abandon(r) ==
  /\ runs[r] = "PLANNING"
  /\ runs' = [runs EXCEPT ![r] = "FAILED"]
  /\ UNCHANGED <<items, current, changes>>

Freeze(r) ==
  /\ runs[r] = "PLANNING"
  /\ runs' = [runs EXCEPT ![r] = "APPLYING"]
  /\ \E plan \in {DOMAIN items'[r]} :
       items' = [items EXCEPT ![r] = [i \in plan |-> "PENDING"]]
  /\ UNCHANGED <<current, changes>>

(* The change follows on what is current, or says that nothing is any      *)
(* longer.                                                                 *)
Announce(r, i) ==
  \E change \in changes' \ changes :
    /\ change.run = r /\ change.item = i
    /\ changes' = changes \cup {change}
    /\ change.type # "DELETED" => change.base = current[change.source]
    /\ current' = [current EXCEPT ![change.source] =
         IF change.type = "DELETED" THEN None ELSE change.target]

Settle(r, i) ==
  /\ runs[r] = "APPLYING" /\ i \in Pending(r)
  /\ \/ /\ items' = [items EXCEPT ![r][i] = "SUCCEEDED"]
        /\ Announce(r, i)
     \/ /\ \E status \in {"SKIPPED", "QUARANTINED", "FAILED"} :
             items' = [items EXCEPT ![r][i] = status]
        /\ UNCHANGED <<current, changes>>
  /\ UNCHANGED runs

Finish(r) ==
  /\ runs[r] = "APPLYING" /\ Pending(r) = {}
  /\ \E status \in {"COMPLETED", "PARTIAL_FAILED"} : runs' = [runs EXCEPT ![r] = status]
  /\ UNCHANGED <<items, current, changes>>

Next ==
  \E r \in Runs :
    \/ Begin(r) \/ Abandon(r) \/ Freeze(r) \/ Finish(r)
    \/ \E i \in DOMAIN items[r] : Settle(r, i)

Spec == Init /\ [][Next]_<<runs, items, current, changes>>
=============================================================================
