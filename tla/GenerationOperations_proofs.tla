---------------------- MODULE GenerationOperations_proofs ----------------------
(***************************************************************************)
(* Proofs about generation calls under operation ids, for any number of    *)
(* workers of each kind and any set of ids.                                *)
(***************************************************************************)
EXTENDS GenerationOperations, KnowledgeLifecycle_proofs

InForce == {"ACTIVE", "SUPERSEDED"}

(* A generation that has been switched to is never STAGING or FAILED       *)
(* again, and one that has been aborted stays so.                          *)
GenerationsMoveOn ==
  \A g \in Generations :
    /\ generation[g] \in InForce => generation'[g] \in InForce
    /\ generation[g] = "FAILED" => generation'[g] = "FAILED"

(* What a worker is called for is what it is at work on; a call that has   *)
(* ended its work on a promotion or a rollback has switched to its target, *)
(* and only a rebuild ends without a switch and is still recorded.         *)
CalledFor(m) ==
  LET asked == request[m] IN
  /\ asked.begun => asked.action # "ABORTED"
  /\ asked.begun /\ asked.action \in SwitchAction /\ MigratingAt(m, "idle") =>
       generation[asked.target] \in InForce
  /\ ~MigratingAt(m, "idle") => asked.begun /\ asked.target = migration[m].target
  /\ migration[m].at \in {"rebuild"} \cup VersionLabels => asked.action = "REBUILT"

OperationsInv ==
  /\ LogIsTrue
  /\ \A m \in GenerationWorkers : CalledFor(m)

-----------------------------------------------------------------------------
(* A step under an operation id is a step of the services, or none.        *)

LEMMA RequestHeldTyped ==
  ASSUME OperationsTypeOK, NEW m \in GenerationWorkers, request[m] # NoRequest
  PROVE  request[m] \in Request
BY DEF OperationsTypeOK

LEMMA OperationsStepIsLifecycleStep ==
  ASSUME OperationsTypeOK, [OperationsNext]_operationVars
  PROVE  [LifecycleNext]_allVars
<1>1. CASE UNCHANGED operationVars
  BY <1>1 DEF operationVars
<1>2. ASSUME NEW w \in Workers, PublishStep(w) PROVE LifecycleNext
  BY <1>2 DEF LifecycleNext
<1>3. ASSUME NEW m \in GenerationWorkers, NEW id \in OperationIds, NEW g \in Generations,
             \/ CallRebuild(m, id, g) \/ AbortUnder(m, id, g)
             \/ \E action \in SwitchAction : CallSwitch(m, id, action, g)
      PROVE  [LifecycleNext]_allVars
  BY <1>3 DEF CallRebuild, AbortUnder, CallSwitch, LifecycleNext, GenerationCallStep, GenerationCall
<1>4. ASSUME NEW m \in GenerationWorkers, BeginSwitch(m) PROVE LifecycleNext
  <2>1. request[m].action \in SwitchAction /\ request[m] # NoRequest
    BY <1>4, OperationsAssumption DEF BeginSwitch, SwitchAction, LogAction, NoRequest
  <2>2. request[m].target \in Generations
    BY <2>1, RequestHeldTyped DEF Request
  <2> QED
    BY <1>4, <2>2 DEF BeginSwitch, LifecycleNext, GenerationCallStep, GenerationCall
<1>5. ASSUME NEW m \in GenerationWorkers, Works(m) \/ Switch(m) \/ FinishCalledRebuild(m) \/ Raises(m)
      PROVE  LifecycleNext
  BY <1>5 DEF Works, Switch, FinishCalledRebuild, Raises, LifecycleNext, GenerationProgressStep,
     GenerationProgress
<1>6. ASSUME NEW m \in GenerationWorkers, RefuseSwitch(m) \/ RecordSwitch(m) \/ Disturbed(m)
      PROVE  [LifecycleNext]_allVars
  BY <1>6 DEF RefuseSwitch, RecordSwitch, Disturbed, LifecycleNext
<1> QED
  BY <1>1, <1>2, <1>3, <1>4, <1>5, <1>6 DEF OperationsNext

-----------------------------------------------------------------------------
(* Type correctness.                                                       *)

LEMMA RecordTyped ==
  ASSUME OperationsTypeOK, NEW id \in OperationIds, NEW action \in LogAction,
         NEW target \in Generations, Record(id, action, target)
  PROVE  log' \in [OperationIds -> LogEntry \cup {NoEntry}]
<1>1. [action |-> action, target |-> target] \in LogEntry
  BY DEF LogEntry
<1> QED
  BY <1>1 DEF Record, OperationsTypeOK

LEMMA RecordRequestTyped ==
  ASSUME OperationsTypeOK, NEW m \in GenerationWorkers, request[m] # NoRequest, RecordRequest(m)
  PROVE  log' \in [OperationIds -> LogEntry \cup {NoEntry}]
<1>1. request[m].id \in OperationIds /\ request[m].action \in LogAction
      /\ request[m].target \in Generations
  BY RequestHeldTyped DEF Request
<1> QED
  BY <1>1, RecordTyped DEF RecordRequest, OperationsTypeOK

LEMMA OperationsTypesInitially == OperationsInit => OperationsTypeOK
BY DEF OperationsInit, OperationsTypeOK

LEMMA OperationsTypesInductive ==
  ASSUME LifecycleTypesOK, OperationsTypeOK, OperationsInv, [OperationsNext]_operationVars
  PROVE  OperationsTypeOK'
<1>e. \A m \in GenerationWorkers :
        EndRequest(m) => request' \in [GenerationWorkers -> Request \cup {NoRequest}]
  BY DEF EndRequest, OperationsTypeOK
<1>a. ASSUME NEW m \in GenerationWorkers, NEW id \in OperationIds, NEW action \in LogAction,
             NEW g \in Generations, NEW begun \in BOOLEAN, Asked(m, id, action, g, begun)
      PROVE  request' \in [GenerationWorkers -> Request \cup {NoRequest}]
  <2>1. [id |-> id, action |-> action, target |-> g, begun |-> begun] \in Request
    BY DEF Request
  <2> QED
    BY <1>a, <2>1 DEF Asked, OperationsTypeOK
<1>1. CASE UNCHANGED <<log, request>>
  BY <1>1 DEF OperationsTypeOK
<1>2. ASSUME NEW m \in GenerationWorkers, NEW id \in OperationIds, NEW g \in Generations,
             \/ CallRebuild(m, id, g) \/ AbortUnder(m, id, g)
             \/ \E action \in SwitchAction : CallSwitch(m, id, action, g)
      PROVE  OperationsTypeOK'
  <2>1. CASE CallRebuild(m, id, g)
    BY <2>1, <1>a DEF CallRebuild, OperationsTypeOK, LogAction
  <2>2. ASSUME NEW action \in SwitchAction, CallSwitch(m, id, action, g) PROVE OperationsTypeOK'
    BY <2>2, <1>a DEF CallSwitch, OperationsTypeOK, LogAction
  <2>3. CASE AbortUnder(m, id, g)
    BY <2>3, RecordTyped DEF AbortUnder, OperationsTypeOK, LogAction
  <2> QED
    BY <1>2, <2>1, <2>2, <2>3
<1>3. ASSUME NEW m \in GenerationWorkers, BeginSwitch(m) PROVE OperationsTypeOK'
  <2>1. request[m] \in Request
    BY <1>3, OperationsAssumption, RequestHeldTyped
       DEF BeginSwitch, SwitchAction, LogAction, NoRequest
  <2>2. [request[m] EXCEPT !.begun = TRUE] \in Request
    BY <2>1 DEF Request
  <2> QED
    BY <1>3, <2>2 DEF BeginSwitch, OperationsTypeOK
<1>4. ASSUME NEW m \in GenerationWorkers, RefuseSwitch(m) \/ Raises(m) \/ Disturbed(m)
      PROVE  OperationsTypeOK'
  BY <1>4, <1>e DEF RefuseSwitch, Raises, Disturbed, OperationsTypeOK
<1>5. ASSUME NEW m \in GenerationWorkers, FinishCalledRebuild(m) \/ RecordSwitch(m)
      PROVE  OperationsTypeOK'
  <2>1. request[m].begun
    BY <1>5 DEF FinishCalledRebuild, FinishRebuild, RecordSwitch, OperationsInv, CalledFor,
       MigratingAt
  <2>2. request[m] # NoRequest
    BY <2>1 DEF NoRequest
  <2> QED
    BY <1>5, <1>e, <2>2, RecordRequestTyped DEF FinishCalledRebuild, RecordSwitch, OperationsTypeOK
<1> QED
  BY <1>1, <1>2, <1>3, <1>4, <1>5 DEF OperationsNext, operationVars, Works, Switch

-----------------------------------------------------------------------------
(* What has happened to a generation is not undone.                        *)

LEMMA EveryStepMovesOn ==
  ASSUME LifecycleTypesOK, [LifecycleNext]_allVars PROVE GenerationsMoveOn
<1>a. TablesTypeOK
  BY DEF LifecycleTypesOK, TypeOK
<1>1. CASE QuietControl \/ \E n \in Notes, v \in Operations, g \in Generations :
                              Excludes(n, v, g) \/ Admits(n, v, g)
  BY <1>1 DEF QuietControl, Excludes, Admits, GenerationsMoveOn
<1>2. ASSUME NEW w \in Workers, Activates(w) PROVE GenerationsMoveOn
  <2>1. operation[w] \in Operations
    BY <1>2 DEF Activates, At, LifecycleTypesOK, TypeOK, WorkersTypeOK
  <2>2. GenerationOf[operation[w]] \in Generations
    BY <2>1, RequestAssumption
  <2> QED
    BY <1>2, <1>a, <2>2
       DEF Activates, ActivatePublication, CanActivate, RowsUnchanged, ActivationRows,
           ReplacedGenerations, OtherActiveGenerations, GenerationsMoveOn, InForce, TablesTypeOK
<1>3. ASSUME NEW g \in Generations, Aborts(g) PROVE GenerationsMoveOn
  BY <1>3, <1>a DEF Aborts, GenerationsMoveOn, InForce, TablesTypeOK
<1>4. ASSUME NEW source \in Generations, NEW target \in Generations, NEW expected,
             Switches(source, target, expected)
      PROVE  GenerationsMoveOn
  <2>1. generation[source] = "ACTIVE" /\ generation[target] # "FAILED"
    BY <1>4 DEF Switches, CanSwitchGeneration, CanTransition, IndexGenerationTransitions
  <2> QED
    BY <1>4, <1>a, <2>1 DEF Switches, SwitchGeneration, GenerationsMoveOn, InForce, TablesTypeOK
<1> QED
  BY <1>1, <1>2, <1>3, <1>4, EveryStepIsControlStep DEF ControlStep

-----------------------------------------------------------------------------
(* The invariant.                                                          *)

LEMMA OperationsInvInitially == OperationsInit => OperationsInv
BY OperationsAssumption
   DEF OperationsInit, LifecycleInitially, MigrationInit, NoMigration, NoRequest, NoEntry,
       OperationsInv, LogIsTrue, CalledFor, MigratingAt, SwitchAction, LogAction, VersionLabels

(* An entry stays true; a new one has to be true when it is written.       *)
LEMMA RecordKeepsLogTrue ==
  ASSUME OperationsTypeOK, LogIsTrue, GenerationsMoveOn, NEW id \in OperationIds,
         NEW action \in LogAction, NEW target \in Generations,
         action \in SwitchAction => generation'[target] \in InForce,
         action = "ABORTED" => generation'[target] = "FAILED",
         Record(id, action, target) \/ UNCHANGED log
  PROVE  LogIsTrue'
<1>1. \A i \in OperationIds :
        log'[i] = log[i] \/ log'[i] = [action |-> action, target |-> target]
  BY DEF Record, OperationsTypeOK
<1>2. \A i \in OperationIds :
        log[i].action \in SwitchAction \cup {"ABORTED"} => log[i].target \in Generations
  BY OperationsAssumption DEF OperationsTypeOK, LogEntry, NoEntry, LogAction
<1> QED
  BY <1>1, <1>2 DEF LogIsTrue, GenerationsMoveOn, InForce

LEMMA UnrecordedKeepsLogTrue ==
  ASSUME OperationsTypeOK, LogIsTrue, GenerationsMoveOn, UNCHANGED log PROVE LogIsTrue'
<1>1. \A i \in OperationIds :
        log[i].action \in SwitchAction \cup {"ABORTED"} => log[i].target \in Generations
  BY OperationsAssumption DEF OperationsTypeOK, LogEntry, NoEntry, LogAction
<1> QED
  BY <1>1 DEF LogIsTrue, GenerationsMoveOn, InForce

(* A worker that a step does not concern is still at work on its call.     *)
LEMMA OthersStayCalled ==
  ASSUME LifecycleTypesOK, OperationsTypeOK, GenerationsMoveOn,
         NEW m \in GenerationWorkers, CalledFor(m),
         migration'[m] = migration[m], request'[m] = request[m]
  PROVE  CalledFor(m)'
<1>1. request[m].begun => request[m].target \in Generations
  BY RequestHeldTyped DEF Request, NoRequest
<1> QED
  BY <1>1 DEF CalledFor, MigratingAt, GenerationsMoveOn, InForce

(* A worker that has nothing to do is called for nothing.                  *)
LEMMA EndedCall ==
  ASSUME NEW m \in GenerationWorkers, request'[m] = NoRequest, MigratingAt(m, "idle")'
  PROVE  CalledFor(m)'
BY DEF CalledFor, MigratingAt, NoRequest, VersionLabels

(* What is at work stays at work on its target, or is done.                *)
LEMMA WorkStaysOnTarget ==
  ASSUME MigrationTypeOK, NEW m \in GenerationWorkers,
         GenerationProgress(m) \/ GenerationDisturb(m)
  PROVE  /\ ~MigratingAt(m, "idle")
         /\ \A k \in GenerationWorkers \ {m} : migration'[k] = migration[k]
         /\ \/ MigratingAt(m, "idle")'
            \/ /\ migration'[m].target = migration[m].target
               /\ migration'[m].at \in {"rebuild"} \cup VersionLabels =>
                    migration[m].at \in {"rebuild"} \cup VersionLabels
<1>e. EndMigration(m) => /\ MigratingAt(m, "idle")'
                         /\ \A k \in GenerationWorkers \ {m} : migration'[k] = migration[k]
  BY DEF EndMigration, MigrationTypeOK, MigratingAt, NoMigration
<1>h. migration[m].at \in {"idle"} \cup ListLabels \cup VersionLabels
  BY MigrationHeldTyped DEF MigrationCall, NoMigration
<1>s. ASSUME NEW v, NEW label \in ListLabels, Strike(m, v, label)
      PROVE  /\ migration'[m].target = migration[m].target /\ migration'[m].at = label
             /\ \A k \in GenerationWorkers \ {m} : migration'[k] = migration[k]
  BY <1>s DEF Strike, MigrationTypeOK
<1>c. ASSUME NEW label, Continue(m, label), ~MigratingAt(m, "idle")
      PROVE  /\ migration'[m].target = migration[m].target
             /\ \A k \in GenerationWorkers \ {m} : migration'[k] = migration[k]
  <2>1. migration[m].target \in Generations /\ migration[m] \in MigrationCall \ {NoMigration}
    BY <1>c, MigrationHeldTyped DEF MigratingAt, NoMigration
  <2> QED
    BY <1>c, <2>1 DEF Continue, MigrationTypeOK, MigrationCall
<1>1. ASSUME NEW v \in Operations, OpenRebuildJob(m, v)
      PROVE  /\ MigratingAt(m, "rebuild")
             /\ \A k \in GenerationWorkers \ {m} : migration'[k] = migration[k]
             /\ MigratingAt(m, "idle")' \/ migration'[m].target = migration[m].target
  <2>1. migration[m] \in [at : ListLabels, target : Generations, version : {None},
                          todo : SUBSET Operations]
    BY <1>1 DEF OpenRebuildJob, MigratingAt, MigrationTypeOK, MigrationCall, NoMigration,
       ListLabels, VersionLabels
  <2>2. ASSUME NEW label, migration' = [migration EXCEPT ![m].at = label, ![m].version = v]
        PROVE  /\ migration'[m].target = migration[m].target
               /\ \A k \in GenerationWorkers \ {m} : migration'[k] = migration[k]
    BY <2>1, <2>2 DEF MigrationTypeOK
  <2> QED
    BY <1>1, <2>2, <1>e DEF OpenRebuildJob
<1>2. ASSUME NEW v \in Operations, CheckPromoted(m, v) \/ CheckRetained(m, v)
      PROVE  /\ migration[m].at \in {"promote", "rollback"}
             /\ \A k \in GenerationWorkers \ {m} : migration'[k] = migration[k]
             /\ \/ MigratingAt(m, "idle")'
                \/ /\ migration'[m].target = migration[m].target
                   /\ migration'[m].at \in {"promote", "rollback"}
  BY <1>2, <1>e, <1>s DEF CheckPromoted, CheckRetained, MigratingAt, ListLabels
<1>3. CASE IndexRebuilt(m) \/ IndexRebuiltRaises(m) \/ MarkRebuilt(m)
  BY <1>3, <1>c, <1>e DEF IndexRebuilt, IndexRebuiltRaises, MarkRebuilt, MigratingAt, VersionLabels
<1>4. CASE VerifyRebuilt(m)
  BY <1>4, <1>s, <1>e DEF VerifyRebuilt, MigratingAt, VersionLabels, ListLabels
<1>5. CASE FailRebuildIndex(m) \/ FinishRebuild(m) \/ Promote(m) \/ Rollback(m) \/ GenerationCrash(m)
  BY <1>5, <1>e DEF FailRebuildIndex, FinishRebuild, Promote, Rollback, CommitSwitch,
     GenerationCrash, MigratingAt
<1> QED
  BY <1>1, <1>2, <1>3, <1>4, <1>5
     DEF GenerationProgress, GenerationDisturb, MigratingAt, VersionLabels

(* Work that changes generations has switched to its target.               *)
LEMMA SwitchedIsInForce ==
  ASSUME LifecycleTypesOK, NEW m \in GenerationWorkers, GenerationProgress(m),
         generation' # generation
  PROVE  generation'[migration[m].target] \in InForce
<1>1. PICK label, expected : label \in ListLabels /\ CommitSwitch(m, label, expected)
  BY DEF GenerationProgress, OpenRebuildJob, CheckPromoted, CheckRetained, IndexRebuilt,
     FailRebuildIndex, MarkRebuilt, VerifyRebuilt, FinishRebuild, Promote, Rollback, ListLabels
<1>2. migration[m].target \in Generations
  BY <1>1, MigrationHeldTyped DEF CommitSwitch, MigratingAt, ListLabels, LifecycleTypesOK
<1> QED
  BY <1>1, <1>2
     DEF CommitSwitch, SwitchGeneration, InForce, LifecycleTypesOK, TypeOK, TablesTypeOK

-----------------------------------------------------------------------------
LEMMA OperationsInvInductive ==
  ASSUME LifecycleTypesOK, OperationsTypeOK, OperationsInv, [OperationsNext]_operationVars
  PROVE  OperationsInv'
<1>g. GenerationsMoveOn
  BY OperationsStepIsLifecycleStep, EveryStepMovesOn
<1>m. MigrationTypeOK
  BY DEF LifecycleTypesOK
<1>l. UNCHANGED log => LogIsTrue'
  BY <1>g, UnrecordedKeepsLogTrue DEF OperationsInv
<1>o. ASSUME NEW m \in GenerationWorkers,
             \A k \in GenerationWorkers \ {m} :
               migration'[k] = migration[k] /\ request'[k] = request[k],
             CalledFor(m)'
      PROVE  \A k \in GenerationWorkers : CalledFor(k)'
  BY <1>o, <1>g, OthersStayCalled DEF OperationsInv
<1>e. ASSUME NEW m \in GenerationWorkers, EndRequest(m)
      PROVE  /\ request'[m] = NoRequest
             /\ \A k \in GenerationWorkers \ {m} : request'[k] = request[k]
  BY <1>e DEF EndRequest, OperationsTypeOK
<1>r. ASSUME NEW m \in GenerationWorkers, request[m].begun, RecordRequest(m),
             request[m].action \in SwitchAction => generation'[request[m].target] \in InForce
      PROVE  LogIsTrue'
  <2>1. request[m] \in Request
    BY <1>r, RequestHeldTyped DEF NoRequest
  <2>2. /\ request[m].id \in OperationIds /\ request[m].action \in LogAction
        /\ request[m].target \in Generations /\ request[m].action # "ABORTED"
    BY <1>r, <2>1 DEF Request, OperationsInv, CalledFor
  <2>3. \/ Record(request[m].id, request[m].action, request[m].target)
        \/ UNCHANGED log
    BY <1>r DEF RecordRequest
  <2> HIDE DEF Record
  <2> QED
    BY <1>r, <1>g, <2>2, <2>3, RecordKeepsLogTrue DEF OperationsInv
<1>1. ASSUME UNCHANGED <<migration, log, request>> PROVE OperationsInv'
  BY <1>1, <1>g, <1>l, OthersStayCalled DEF OperationsInv
<1>2. ASSUME NEW m \in GenerationWorkers, NEW id \in OperationIds, NEW g \in Generations,
             CallRebuild(m, id, g)
      PROVE  OperationsInv'
  <2>1. /\ migration'[m].at = "rebuild" /\ migration'[m].target = g
        /\ \A k \in GenerationWorkers \ {m} : migration'[k] = migration[k]
    BY <1>2, <1>m DEF CallRebuild, StartRebuild, StartMigration, Begin, MigrationTypeOK
  <2>2. /\ request'[m] = [id |-> id, action |-> "REBUILT", target |-> g, begun |-> TRUE]
        /\ \A k \in GenerationWorkers \ {m} : request'[k] = request[k]
    BY <1>2 DEF CallRebuild, Asked, OperationsTypeOK
  <2>3. CalledFor(m)'
    BY <2>1, <2>2 DEF CalledFor, MigratingAt, SwitchAction
  <2> QED
    BY <1>2, <1>l, <1>o, <2>1, <2>2, <2>3 DEF CallRebuild, OperationsInv
<1>3. ASSUME NEW m \in GenerationWorkers, NEW id \in OperationIds, NEW g \in Generations,
             NEW action \in SwitchAction, CallSwitch(m, id, action, g)
      PROVE  OperationsInv'
  <2>1. MigratingAt(m, "idle") /\ UNCHANGED migration
    BY <1>3 DEF CallSwitch, Asked, NoRequest, OperationsInv, CalledFor, allVars
  <2>2. /\ request'[m] = [id |-> id, action |-> action, target |-> g, begun |-> FALSE]
        /\ \A k \in GenerationWorkers \ {m} : request'[k] = request[k]
    BY <1>3 DEF CallSwitch, Asked, OperationsTypeOK
  <2>3. CalledFor(m)'
    BY <2>1, <2>2 DEF CalledFor, MigratingAt, VersionLabels
  <2> QED
    BY <1>3, <1>l, <1>o, <2>1, <2>2, <2>3 DEF CallSwitch, OperationsInv
<1>4. ASSUME NEW m \in GenerationWorkers, BeginSwitch(m) PROVE OperationsInv'
  <2>1. request[m].action \in SwitchAction
    BY <1>4 DEF BeginSwitch, SwitchAction
  <2>2. /\ migration'[m].at \in {"promote", "rollback"}
        /\ migration'[m].target = request[m].target
        /\ \A k \in GenerationWorkers \ {m} : migration'[k] = migration[k]
    BY <1>4, <1>m
       DEF BeginSwitch, StartPromotion, StartRollback, StartMigration, Begin, MigrationTypeOK
  <2>3. request[m] \in Request
    BY <2>1, OperationsAssumption, RequestHeldTyped DEF SwitchAction, LogAction, NoRequest
  <2>4. /\ request'[m] = [request[m] EXCEPT !.begun = TRUE]
        /\ \A k \in GenerationWorkers \ {m} : request'[k] = request[k]
    BY <1>4 DEF BeginSwitch, OperationsTypeOK
  <2>5. /\ request'[m].begun /\ request'[m].action = request[m].action
        /\ request'[m].target = request[m].target
    BY <2>3, <2>4 DEF Request
  <2>6. CalledFor(m)'
    BY <2>1, <2>2, <2>5 DEF CalledFor, MigratingAt, SwitchAction, VersionLabels
  <2> QED
    BY <1>4, <1>l, <1>o, <2>2, <2>4, <2>6 DEF BeginSwitch, OperationsInv
<1>5. ASSUME NEW m \in GenerationWorkers, RefuseSwitch(m) PROVE OperationsInv'
  <2>1. MigratingAt(m, "idle") /\ UNCHANGED migration
    BY <1>5 DEF RefuseSwitch, OperationsInv, CalledFor, allVars
  <2>2. CalledFor(m)'
    BY <1>5, <1>e, <2>1, EndedCall DEF RefuseSwitch, MigratingAt
  <2> QED
    BY <1>5, <1>e, <1>l, <1>o, <2>1, <2>2 DEF RefuseSwitch, OperationsInv
<1>6. ASSUME NEW m \in GenerationWorkers, Works(m) PROVE OperationsInv'
  <2>1. GenerationProgress(m) /\ ~MigratingAt(m, "idle")'
    BY <1>6 DEF Works, GenerationProgressStep
  <2>2. CalledFor(m)'
    BY <1>6, <1>m, <2>1, WorkStaysOnTarget DEF Works, OperationsInv, CalledFor
  <2> QED
    BY <1>6, <1>l, <1>m, <1>o, <2>1, <2>2, WorkStaysOnTarget DEF Works, OperationsInv
<1>7. ASSUME NEW m \in GenerationWorkers, Switch(m) PROVE OperationsInv'
  <2>1. GenerationProgress(m) /\ generation' # generation
    BY <1>7 DEF Switch, GenerationProgressStep
  <2>2. generation'[request[m].target] \in InForce
    BY <1>m, <2>1, SwitchedIsInForce, WorkStaysOnTarget DEF OperationsInv, CalledFor
  <2>3. CalledFor(m)'
    BY <1>7, <1>m, <2>1, <2>2, WorkStaysOnTarget
       DEF Switch, OperationsInv, CalledFor, MigratingAt, VersionLabels
  <2> QED
    BY <1>7, <1>l, <1>m, <1>o, <2>1, <2>3, WorkStaysOnTarget DEF Switch, OperationsInv
<1>8. ASSUME NEW m \in GenerationWorkers, FinishCalledRebuild(m) PROVE OperationsInv'
  <2>1. GenerationProgress(m) /\ EndRequest(m) /\ RecordRequest(m)
    BY <1>8 DEF FinishCalledRebuild, GenerationProgress
  <2>2. request[m].begun /\ request[m].action = "REBUILT"
    BY <1>8 DEF FinishCalledRebuild, FinishRebuild, MigratingAt, OperationsInv, CalledFor
  <2>3. MigratingAt(m, "idle")'
    BY <1>8, <1>m DEF FinishCalledRebuild, FinishRebuild, EndMigration, MigratingAt,
       NoMigration, MigrationTypeOK
  <2>4. CalledFor(m)'
    BY <1>e, <2>1, <2>3, EndedCall
  <2>5. LogIsTrue'
    BY <1>r, <2>1, <2>2 DEF SwitchAction
  <2> QED
    BY <1>e, <1>m, <1>o, <2>1, <2>4, <2>5, WorkStaysOnTarget DEF OperationsInv
<1>9. ASSUME NEW m \in GenerationWorkers, Raises(m) PROVE OperationsInv'
  <2>1. GenerationProgress(m) /\ EndRequest(m) /\ MigratingAt(m, "idle")'
    BY <1>9 DEF Raises, GenerationProgressStep
  <2> QED
    BY <1>9, <1>e, <1>l, <1>m, <1>o, <2>1, EndedCall, WorkStaysOnTarget DEF Raises, OperationsInv
<1>10. ASSUME NEW m \in GenerationWorkers, RecordSwitch(m) PROVE OperationsInv'
  <2>1. /\ request[m].begun /\ MigratingAt(m, "idle") /\ RecordRequest(m) /\ EndRequest(m)
        /\ UNCHANGED <<generation, migration>>
    BY <1>10 DEF RecordSwitch, allVars, vars, tables
  <2>2. LogIsTrue'
    BY <1>r, <2>1 DEF OperationsInv, CalledFor
  <2>3. CalledFor(m)'
    BY <1>e, <2>1, EndedCall DEF MigratingAt
  <2> QED
    BY <1>e, <1>o, <2>1, <2>2, <2>3 DEF OperationsInv
<1>11. ASSUME NEW m \in GenerationWorkers, NEW id \in OperationIds, NEW g \in Generations,
              AbortUnder(m, id, g)
       PROVE  OperationsInv'
  <2>1. generation'[g] = "FAILED"
    BY <1>11 DEF AbortUnder, Abort, allVars, vars, tables, LifecycleTypesOK, TypeOK, TablesTypeOK
  <2>2. Record(id, "ABORTED", g) /\ UNCHANGED <<migration, request>>
    BY <1>11 DEF AbortUnder, Abort, allVars
  <2>3. LogIsTrue'
    <3> HIDE DEF Record
    <3> QED
      BY <1>g, <2>1, <2>2, RecordKeepsLogTrue DEF OperationsInv, SwitchAction, LogAction
  <2> QED
    BY <1>g, <2>2, <2>3, OthersStayCalled DEF OperationsInv
<1>12. ASSUME NEW m \in GenerationWorkers, Disturbed(m) PROVE OperationsInv'
  <2>1. CASE GenerationDisturbStep(m)
    <3>1. GenerationDisturb(m)
      BY <2>1 DEF GenerationDisturbStep
    <3>2. \/ MigratingAt(m, "idle")' /\ EndRequest(m)
          \/ ~MigratingAt(m, "idle")' /\ UNCHANGED request
          \/ UNCHANGED migration /\ EndRequest(m) /\ MigratingAt(m, "idle")
      BY <1>12 DEF Disturbed, allVars
    <3>3. CalledFor(m)' /\ \A k \in GenerationWorkers \ {m} : request'[k] = request[k]
      BY <1>e, <1>m, <3>1, <3>2, EndedCall, WorkStaysOnTarget DEF OperationsInv, CalledFor
    <3> QED
      BY <1>12, <1>l, <1>m, <1>o, <3>1, <3>3, WorkStaysOnTarget DEF Disturbed, OperationsInv
  <2>2. CASE ~GenerationDisturbStep(m)
    <3>1. MigratingAt(m, "idle") /\ EndRequest(m) /\ UNCHANGED <<migration, log>>
      BY <1>12, <2>2 DEF Disturbed, allVars
    <3> QED
      BY <1>e, <1>l, <1>o, <3>1, EndedCall DEF MigratingAt, OperationsInv
  <2> QED
    BY <2>1, <2>2
<1>13. CASE UNCHANGED operationVars
  BY <1>1, <1>13 DEF operationVars, allVars
<1>14. ASSUME NEW w \in Workers, PublishStep(w), UNCHANGED <<log, request>> PROVE OperationsInv'
  BY <1>1, <1>14 DEF PublishStep
<1> QED
  BY <1>2, <1>3, <1>4, <1>5, <1>6, <1>7, <1>8, <1>9, <1>10, <1>11, <1>12, <1>13, <1>14
     DEF OperationsNext

-----------------------------------------------------------------------------
(* What holds of every run of calls under operation ids.                   *)

LEMMA OperationsAlways ==
  OperationsSpec => [](LifecycleTypesOK /\ OperationsTypeOK /\ OperationsInv)
<1>1. OperationsInit => LifecycleTypesOK /\ OperationsTypeOK /\ OperationsInv
  BY LifecycleTypesInitially, OperationsTypesInitially, OperationsInvInitially DEF OperationsInit
<1>2. LifecycleTypesOK /\ OperationsTypeOK /\ OperationsInv /\ [OperationsNext]_operationVars
      => (LifecycleTypesOK /\ OperationsTypeOK /\ OperationsInv)'
  BY OperationsStepIsLifecycleStep, LifecycleTypesInductive, OperationsTypesInductive,
     OperationsInvInductive
<1> QED
  BY <1>1, <1>2, PTL DEF OperationsSpec

(* The log and the calls keep their types.                                 *)
THEOREM OperationsTypesCorrect == OperationsSpec => []OperationsTypeOK
  BY OperationsAlways, PTL

(* Calls under operation ids do nothing the services alone would not do.   *)
THEOREM OperationsImplementLifecycle == OperationsSpec => LifecycleSpec
<1>1. OperationsInit => LifecycleInitially
  BY DEF OperationsInit
<1>2. OperationsTypeOK /\ [OperationsNext]_operationVars => [LifecycleNext]_allVars
  BY OperationsStepIsLifecycleStep
<1> QED
  BY <1>1, <1>2, OperationsTypesCorrect, PTL DEF OperationsSpec, LifecycleSpec

(* The operation log says nothing that has not happened.                   *)
THEOREM OperationLogIsTrue == OperationsSpec => []LogIsTrue
<1>1. OperationsInv => LogIsTrue
  BY DEF OperationsInv
<1> QED
  BY <1>1, OperationsAlways, PTL
=============================================================================
