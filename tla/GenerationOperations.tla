------------------------- MODULE GenerationOperations -------------------------
(***************************************************************************)
(* The calls of GenerationLifecycleService under an operation id           *)
(* (publication/generation_lifecycle.py), while notes are published.  What *)
(* a call has done is recorded in the operation log, which a later call    *)
(* under the same id reads first.                                          *)
(*                                                                         *)
(* A switch of generations is made inside a savepoint that is not nested   *)
(* in any transaction: it is committed when the savepoint is released, and *)
(* its log entry is written by another transaction afterwards.  A rebuild  *)
(* and an abort are recorded by the transaction they end with.             *)
(***************************************************************************)
EXTENDS KnowledgeLifecycle

CONSTANT OperationIds   \* ids that calls are made under, given or by default

VARIABLES
  log,       \* operation_logs: the latest entry of each operation id
  request    \* what each generation worker has been called for

operationVars == <<allVars, log, request>>

SwitchAction == {"PROMOTED", "ROLLED_BACK"}
LogAction == {"REBUILT", "ABORTED"} \cup SwitchAction

ASSUME OperationsAssumption == None \notin LogAction

LogEntry == [action : LogAction, target : Generations]
NoEntry == [action |-> None, target |-> None]

\* TRUE once the call has begun its work.
Request == [id : OperationIds, action : LogAction, target : Generations, begun : BOOLEAN]
NoRequest == [id |-> None, action |-> None, target |-> None, begun |-> FALSE]

OperationsInit ==
  /\ LifecycleInitially
  /\ log = [id \in OperationIds |-> NoEntry]
  /\ request = [m \in GenerationWorkers |-> NoRequest]

-----------------------------------------------------------------------------
(* The operation log.                                                      *)

(* _replay: the latest entry of the id is of the same action.  The call    *)
(* then reports the recorded switch, when it is in force, or raises; it    *)
(* writes nothing either way.                                              *)
Repeats(id, action) == log[id].action = action

(* _append_audit raises for an id that belongs to another generation ...   *)
MayRecord(id, target) == log[id] = NoEntry \/ log[id].target = target

\* mutant: an id keeps the generation of its first entry
RecordAction(id, action, target) == log' = [log EXCEPT ![id].action = action]

(* ... and otherwise leaves the id with this entry as its latest.          *)
Record(id, action, target) ==
  log' = [log EXCEPT ![id] = [action |-> action, target |-> target]]

RecordRequest(m) ==
  LET asked == request[m] IN
  IF MayRecord(asked.id, asked.target) THEN Record(asked.id, asked.action, asked.target)
                                       ELSE UNCHANGED log

EndRequest(m) == request' = [request EXCEPT ![m] = NoRequest]

-----------------------------------------------------------------------------
(* A call.  A promotion or a rollback reads the log before anything else.  *)

Asked(m, id, action, target, begun) ==
  /\ request[m] = NoRequest
  /\ request' = [request EXCEPT ![m] =
       [id |-> id, action |-> action, target |-> target, begun |-> begun]]

CallRebuild(m, id, target) ==
  /\ Asked(m, id, "REBUILT", target, TRUE)
  /\ StartRebuild(m, target)
  /\ UNCHANGED <<OutsideGenerations, log>>

CallSwitch(m, id, action, target) ==
  /\ Asked(m, id, action, target, FALSE)
  /\ ~Repeats(id, action)
  /\ UNCHANGED <<allVars, log>>

BeginSwitch(m) ==
  /\ ~request[m].begun
  /\ \/ request[m].action = "PROMOTED" /\ StartPromotion(m, request[m].target)
     \/ request[m].action = "ROLLED_BACK" /\ StartRollback(m, request[m].target)
  /\ request' = [request EXCEPT ![m].begun = TRUE]
  /\ UNCHANGED <<OutsideGenerations, log>>

(* The generation is not eligible, or the process dies.                    *)
RefuseSwitch(m) ==
  /\ request[m] # NoRequest /\ ~request[m].begun
  /\ EndRequest(m)
  /\ UNCHANGED <<allVars, log>>

-----------------------------------------------------------------------------
(* A call at work.                                                         *)

Works(m) ==
  /\ GenerationProgressStep(m)
  /\ ~MigratingAt(m, "idle")' /\ UNCHANGED <<log, request>>

(* The switch is committed, its entry is not.                              *)
Switch(m) ==
  /\ GenerationProgressStep(m)
  /\ generation' # generation /\ UNCHANGED <<log, request>>

(* The last unit of work of a rebuild writes the entry and nothing else.   *)
FinishCalledRebuild(m) ==
  /\ FinishRebuild(m) /\ UNCHANGED OutsideGenerations
  /\ RecordRequest(m)
  /\ EndRequest(m)

\* mutant: the entry is written although the switch was refused
RaisesRecorded(m) ==
  /\ GenerationProgressStep(m)
  /\ ~(MigratingAt(m, "rebuild") /\ migration[m].todo = {})
  /\ MigratingAt(m, "idle")' /\ generation' = generation
  /\ EndRequest(m)
  /\ Record(request[m].id, request[m].action, request[m].target)

(* The call raises: a job is in the way, chunks are missing, or the        *)
(* repository refuses the switch.                                          *)
Raises(m) ==
  /\ GenerationProgressStep(m)
  /\ ~(MigratingAt(m, "rebuild") /\ migration[m].todo = {})
  /\ MigratingAt(m, "idle")' /\ generation' = generation
  /\ EndRequest(m)
  /\ UNCHANGED log

(* The entry of a switch; when it cannot be written the caller is told of  *)
(* a failure, the switch stays.                                            *)
RecordSwitch(m) ==
  /\ request[m].begun /\ MigratingAt(m, "idle")
  /\ RecordRequest(m)
  /\ EndRequest(m)
  /\ UNCHANGED allVars

(* abort: of a STAGING generation, or once more of one that has FAILED.    *)
AbortUnder(m, id, target) ==
  /\ request[m] = NoRequest
  /\ MayRecord(id, target)
  /\ \/ Abort(m, target) /\ UNCHANGED OutsideGenerations
     \/ generation[target] = "FAILED" /\ ActiveGenerations # {} /\ UNCHANGED allVars
  /\ Record(id, "ABORTED", target)
  /\ UNCHANGED request

(* Indexing raises, or the process dies at any point.                      *)
Disturbed(m) ==
  \/ GenerationDisturbStep(m) /\ UNCHANGED log
     /\ IF MigratingAt(m, "idle")' THEN EndRequest(m) ELSE UNCHANGED request
  \/ /\ request[m].begun /\ MigratingAt(m, "idle")
     /\ EndRequest(m)
     /\ UNCHANGED <<allVars, log>>

-----------------------------------------------------------------------------
OperationsNext ==
  \/ \E w \in Workers : PublishStep(w) /\ UNCHANGED <<log, request>>
  \/ \E m \in GenerationWorkers, id \in OperationIds, g \in Generations :
       \/ CallRebuild(m, id, g) \/ AbortUnder(m, id, g)
       \/ \E action \in SwitchAction : CallSwitch(m, id, action, g)
  \/ \E m \in GenerationWorkers :
       \/ BeginSwitch(m) \/ RefuseSwitch(m)
       \/ Works(m) \/ Switch(m) \/ FinishCalledRebuild(m) \/ Raises(m)
       \/ RecordSwitch(m) \/ Disturbed(m)

OperationsSpec == OperationsInit /\ [][OperationsNext]_operationVars

-----------------------------------------------------------------------------
(* Properties.                                                             *)

OperationsTypeOK ==
  /\ log \in [OperationIds -> LogEntry \cup {NoEntry}]
  /\ request \in [GenerationWorkers -> Request \cup {NoRequest}]

(* What the log says has happened, and stays so whatever is called, under  *)
(* the same id or another, fails or dies afterwards: a generation whose    *)
(* promotion or rollback is on record has been switched to, and one whose  *)
(* abort is on record is FAILED and is never switched to.                  *)
LogIsTrue ==
  \A id \in OperationIds :
    /\ log[id].action \in SwitchAction =>
         generation[log[id].target] \in {"ACTIVE", "SUPERSEDED"}
    /\ log[id].action = "ABORTED" => generation[log[id].target] = "FAILED"
=============================================================================
