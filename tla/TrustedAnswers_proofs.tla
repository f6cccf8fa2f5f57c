-------------------------- MODULE TrustedAnswers_proofs --------------------------
(***************************************************************************)
(* Proofs about answering, for any number of calls, requests and questions *)
(* beside publication, deletion, restoration and reconciliation: callers   *)
(* are told what is recorded, and an answer rests on what was published.   *)
(***************************************************************************)
EXTENDS TrustedAnswers, KnowledgeLifecycle_proofs

TrustedStep == TrustedNext \/ Beside(LifecycleCalmDown)

-----------------------------------------------------------------------------
(* What the services beside do to the control tables.                      *)

LEMMA ReconcilerTyped ==
  ASSUME TablesTypeOK, ReconcilerTypeOK, NEW c \in Reconcilers,
         \/ ReconcileProgress(c) \/ ReconcileDisturb(c)
         \/ \E g \in Generations : StartReconcile(c, g)
  PROVE  ReconcilerTypeOK'
<1> DEFINE Row == [at : ReconcileLabels, generation : Generations \cup {None},
                   todo : SUBSET Operations, version : Operations \cup {None}]
<1>1. ASSUME NEW row \in Row, reconciler' = [reconciler EXCEPT ![c] = row]
      PROVE  ReconcilerTypeOK'
  BY <1>1 DEF ReconcilerTypeOK
<1>2. NoReconcile \in Row
  BY DEF NoReconcile, ReconcileLabels
<1>3. reconciler[c] \in Row
  BY DEF ReconcilerTypeOK
<1>4. ASSUME NEW label \in ReconcileLabels, ReconcileOn(c, label) PROVE ReconcilerTypeOK'
  <2>1. [reconciler[c] EXCEPT !.at = label] \in Row
    BY <1>3
  <2> QED
    BY <1>1, <1>4, <2>1 DEF ReconcileOn
<1>5. ASSUME NextFinding(c) \/ EndReconcile(c) PROVE ReconcilerTypeOK'
  BY <1>1, <1>2, <1>4, <1>5 DEF NextFinding, EndReconcile, ReconcileLabels
<1>6. ASSUME NEW g \in Generations, StartReconcile(c, g) PROVE ReconcilerTypeOK'
  <2>1. ListActiveNotes(g) \in SUBSET Operations
    BY DEF ListActiveNotes, Served, IsPublished, TablesTypeOK, NoteRow
  <2>2. [at |-> "vault", generation |-> g, todo |-> ListActiveNotes(g), version |-> None] \in Row
    BY <2>1 DEF ReconcileLabels
  <2> QED
    BY <1>1, <1>6, <2>2 DEF StartReconcile
<1>7. CASE VerifyVault(c)
  <2>1. PICK v \in reconciler[c].todo :
          reconciler' = [reconciler EXCEPT ![c] =
            IF VerifiesFinal(NoteOf[v], v)
            THEN [@ EXCEPT !.at = "index", !.version = v, !.todo = reconciler[c].todo \ {v}]
            ELSE IF reconciler[c].todo \ {v} = {} THEN NoReconcile
                 ELSE [@ EXCEPT !.todo = reconciler[c].todo \ {v}]]
    BY <1>7 DEF VerifyVault
  <2>2. /\ [reconciler[c] EXCEPT !.at = "index", !.version = v,
                                 !.todo = reconciler[c].todo \ {v}] \in Row
        /\ [reconciler[c] EXCEPT !.todo = reconciler[c].todo \ {v}] \in Row
    BY <1>3 DEF ReconcileLabels
  <2> HIDE DEF Row
  <2> QED
    BY <1>1, <1>2, <2>1, <2>2 DEF ReconcilerTypeOK, Row
<1>8. CASE VerifyIndex(c)
  BY <1>4, <1>5, <1>8 DEF VerifyIndex, ReconcileLabels
<1> QED
  BY <1>5, <1>6, <1>7, <1>8
     DEF ReconcileProgress, ReconcileDisturb, RepairVersion, RepairRaises, ReconcileUnreadable,
         ReconcileCrash

(* Of the index, reconciliation and the loss of rows keep the type.        *)
LEMMA IndexStepTyped ==
  ASSUME VectorsTypeOK, TablesTypeOK, ReconcilerTypeOK,
         \/ \E c \in Reconcilers : \/ ReconcileProgress(c) \/ ReconcileDisturb(c)
                                   \/ \E g \in Generations : StartReconcile(c, g)
         \/ \E v \in Operations, g \in Generations : LoseRows(v, g)
  PROVE  VectorsTypeOK' /\ ReconcilerTypeOK'
<1>1. ASSUME NEW v \in Operations, NEW g \in Generations, LoseRows(v, g)
      PROVE  VectorsTypeOK' /\ ReconcilerTypeOK'
  BY <1>1 DEF LoseRows, VectorsTypeOK, VectorStates, ReconcilerTypeOK
<1>2. ASSUME NEW c \in Reconcilers,
             \/ ReconcileProgress(c) \/ ReconcileDisturb(c)
             \/ \E g \in Generations : StartReconcile(c, g)
      PROVE  VectorsTypeOK' /\ ReconcilerTypeOK'
  <2>1. CASE UNCHANGED vectors
    BY <1>2, <2>1, ReconcilerTyped DEF VectorsTypeOK
  <2>2. CASE RepairVersion(c) \/ RepairRaises(c)
    <3> DEFINE v == reconciler[c].version  g == reconciler[c].generation
    <3>1. v \in Operations \cup {None} /\ g \in Generations \cup {None}
      BY DEF ReconcilerTypeOK
    <3>2. CASE v \in Operations /\ g \in Generations
      <4> HIDE DEF v, g
      <4>1. IndexChunks(v, g) \/ IndexChunksPartly(v, g)
        BY <2>2 DEF RepairVersion, RepairRaises, v, g
      <4> QED
        BY <1>2, <3>2, <4>1, ReconcilerTyped, ChunkOperationsTyped
    <3>3. CASE v \notin Operations \/ g \notin Generations
      <4>1. PICK left : vectors' = [vectors EXCEPT ![v][g] = left]
        BY <2>2 DEF RepairVersion, RepairRaises, IndexChunks, IndexChunksPartly
      <4> HIDE DEF v, g
      <4>2. VectorsTypeOK'
        BY <3>3, <4>1 DEF VectorsTypeOK
      <4> QED
        BY <1>2, <4>2, ReconcilerTyped
    <3> QED
      BY <3>2, <3>3
  <2> QED
    BY <1>2, <2>1, <2>2
       DEF ReconcileProgress, ReconcileDisturb, StartReconcile, VerifyVault, VerifyIndex,
           ReconcileUnreadable, ReconcileCrash
<1> QED
  BY <1>1, <1>2

(* A deletion whose purge raises has erased its chunks and ends.           *)
LEMMA FailedPurgeTyped ==
  ASSUME LifecycleTypesOK, NEW s \in NoteWorkers, EraseAndFailPurge(s)
  PROVE  LifecycleTypesOK'
<1>1. /\ TypeOK /\ TrashTypeOK /\ LifecycleTypeOK /\ MigrationTypeOK
      /\ TablesTypeOK /\ VaultTypeOK /\ VectorsTypeOK /\ WorkersTypeOK
  BY DEF LifecycleTypesOK, TypeOK
<1>2. VectorsTypeOK' /\ LifecycleTypeOK'
  BY <1>1, HeldTyped, ChunkOperationsTyped, EndCallTyped DEF EraseAndFailPurge, AtCall
<1>3. UNCHANGED <<tables, vault, workers, calm, trash, migration>>
  BY DEF EraseAndFailPurge, OutsideNotes, tables, vault, workers
<1> QED
  BY <1>1, <1>2, <1>3
     DEF LifecycleTypesOK, TypeOK, TablesTypeOK, VersionRow, JobRow, VaultTypeOK, WorkersTypeOK,
         tables, vault, workers, TrashTypeOK, MigrationTypeOK

(* To the three services a step of the whole is one of theirs, or leaves   *)
(* the control tables alone.                                               *)
LEMMA TrustedStepControl ==
  ASSUME LifecycleTypesOK, ReconcilerTypeOK, [TrustedStep]_trustedVars
  PROVE  LifecycleTypesOK' /\ ReconcilerTypeOK' /\ ControlStep
<1>a. TablesTypeOK /\ VectorsTypeOK
  BY DEF LifecycleTypesOK, TypeOK
<1>1. ASSUME [LifecycleNext]_allVars PROVE LifecycleTypesOK' /\ ControlStep
  BY <1>1, LifecycleTypesInductive, EveryStepIsControlStep
<1>2. ASSUME UNCHANGED reconciler PROVE ReconcilerTypeOK'
  BY <1>2 DEF ReconcilerTypeOK
<1>3. CASE [LifecycleNext]_allVars /\ UNCHANGED reconciler
  BY <1>1, <1>2, <1>3
<1>4. ASSUME NEW s \in NoteWorkers, EraseAndFailPurge(s), UNCHANGED reconciler
      PROVE  LifecycleTypesOK' /\ ReconcilerTypeOK' /\ ControlStep
  <2>1. UNCHANGED <<change, generation, note, version, run, job>>
    BY <1>4 DEF EraseAndFailPurge, OutsideNotes
  <2> QED
    BY <1>2, <1>4, <2>1, FailedPurgeTyped, UnchangedTablesQuietControl DEF ControlStep
<1>5. ASSUME UNCHANGED OutsideIndex,
             \/ \E c \in Reconcilers : \/ ReconcileProgress(c) \/ ReconcileDisturb(c)
                                       \/ \E g \in Generations : StartReconcile(c, g)
             \/ \E v \in Operations, g \in Generations : LoseRows(v, g)
      PROVE  LifecycleTypesOK' /\ ReconcilerTypeOK' /\ ControlStep
  <2>1. VectorsTypeOK' /\ ReconcilerTypeOK'
    BY <1>5, <1>a, IndexStepTyped
  <2>2. UNCHANGED <<tables, vault, workers, calm, trash, lifecycle, migration>>
    BY <1>5 DEF OutsideIndex, tables, vault, workers
  <2>3. LifecycleTypesOK'
    BY <2>1, <2>2
       DEF LifecycleTypesOK, TypeOK, TablesTypeOK, VersionRow, JobRow, VaultTypeOK,
           WorkersTypeOK, tables, vault, workers, TrashTypeOK, LifecycleTypeOK, MigrationTypeOK
  <2>4. UNCHANGED <<change, generation, note, version, run, job>>
    BY <2>2 DEF tables
  <2> QED
    BY <2>1, <2>3, <2>4, UnchangedTablesQuietControl DEF ControlStep
<1>6. CASE LifecycleCalmDown /\ UNCHANGED reconciler
  <2>1. UNCHANGED <<tables, vault, vectors, workers, trash, lifecycle, migration>> /\ calm'
    BY <1>6 DEF LifecycleCalmDown, CalmDown
  <2>2. LifecycleTypesOK'
    BY <2>1
       DEF LifecycleTypesOK, TypeOK, TablesTypeOK, VersionRow, JobRow, VaultTypeOK,
           VectorsTypeOK, WorkersTypeOK, tables, vault, workers, TrashTypeOK, LifecycleTypeOK,
           MigrationTypeOK
  <2>3. UNCHANGED <<change, generation, note, version, run, job>>
    BY <2>1 DEF tables
  <2> QED
    BY <1>2, <1>6, <2>2, <2>3, UnchangedTablesQuietControl DEF ControlStep
<1>7. ASSUME NEW s \in NoteWorkers, RecycledStep(s)
      PROVE  LifecycleTypesOK' /\ ReconcilerTypeOK' /\ ControlStep
  <2>1. \/ NoteProgressStep(s) \/ EraseAndFailPurge(s)
    BY <1>7 DEF RecycledStep, NoteStep, EraseAndPurge, NoteProgressStep, NoteProgress
  <2> QED
    BY <1>3, <1>4, <1>7, <2>1 DEF LifecycleNext, RecycledStep
<1>8. \/ [LifecycleNext]_allVars /\ UNCHANGED reconciler
      \/ \E s \in NoteWorkers : RecycledStep(s)
      \/ \E c \in Reconcilers : ReconcilerRuns(c)
      \/ DriftStep
      \/ LifecycleCalmDown /\ UNCHANGED reconciler
  BY DEF TrustedStep, TrustedNext, trustedVars, reconciledVars, AnsweringStep, AskingStep,
     Beside, BesideReconciling, LifecycleNext
<1> QED
  BY <1>3, <1>5, <1>6, <1>7, <1>8 DEF ReconcilerRuns, DriftStep

(* What has been published stays so, and a generation that has been active *)
(* is never staged again.                                                  *)
KnowledgeLasts ==
  /\ \A v \in Operations :
       run[v].status = "COMPLETED" /\ version[v] \in {"ACTIVE", "SUPERSEDED"} =>
         run'[v].status = "COMPLETED" /\ version'[v] \in {"ACTIVE", "SUPERSEDED"}
  /\ \A g \in Generations : generation[g] # "STAGING" => generation'[g] # "STAGING"

LEMMA ControlStepsLast ==
  ASSUME TypeOK, ControlStep PROVE KnowledgeLasts
<1>a. TablesTypeOK
  BY DEF TypeOK
<1>1. CASE QuietControl
  BY <1>1 DEF QuietControl, KnowledgeLasts
<1>2. ASSUME NEW w \in Workers, Activates(w) PROVE KnowledgeLasts
  <2>1. PICK o \in Operations : Activation(o) /\ ActivatePublication(o, seen[w])
    BY <1>2, ActivationWrites
  <2>2. \A g \in Generations : generation[g] # "STAGING" => generation'[g] # "STAGING"
    BY <2>1, <1>a DEF ActivatePublication, TablesTypeOK
  <2> QED
    BY <2>1, <2>2, <1>a DEF Activation, KnowledgeLasts, TablesTypeOK, RunRow
<1>3. ASSUME NEW n \in Notes, NEW v \in Operations, NEW g \in Generations,
             Excludes(n, v, g) \/ Admits(n, v, g)
      PROVE  KnowledgeLasts
  BY <1>3 DEF Excludes, Admits, KnowledgeLasts
<1>4. ASSUME NEW g \in Generations, Aborts(g) PROVE KnowledgeLasts
  BY <1>4, <1>a DEF Aborts, KnowledgeLasts, TablesTypeOK
<1>5. ASSUME NEW source \in Generations, NEW target \in Generations, NEW expected,
             Switches(source, target, expected)
      PROVE  KnowledgeLasts
  BY <1>5, <1>a DEF Switches, SwitchGeneration, KnowledgeLasts, TablesTypeOK
<1> QED
  BY <1>1, <1>2, <1>3, <1>4, <1>5 DEF ControlStep

-----------------------------------------------------------------------------
(* The invariant, by the parts of the state it is about.                   *)

(* What a call carries is in order.                                        *)
RowInOrder(row) ==
  row.at # "idle" =>
    /\ row.request \in Requests /\ row.told = None
    /\ answerRun[row.request].status # Absent /\ answerRun[row.request].question = row.question
    /\ row.at # "plan" =>
         row.generation \in Generations /\ generation[row.generation] # "STAGING"
    /\ row.at \notin {"plan", "search"} => SuitsScope(row.question, row.found)
    /\ row.at \in {"draft", "write", "complete"} => ArePublished(row.found)
    /\ row.at \in {"write", "complete"} => row.found # {} /\ row.text \in Texts

(* What it was told last is what is recorded.                              *)
RowIsToldTruth(row) ==
  row.told # None =>
    /\ answerRun[row.told.request].result = row.told
    /\ answerRun[row.told.request].question = row.question

(* What a run has ended with is its own and, if an answer, well founded.   *)
ResultInOrder(r) ==
  LET row == answerRun[r] IN
  /\ row.status \in {"ANSWERED", "REFUSED"} => row.result.request = r
  /\ row.status = "ANSWERED" =>
       /\ row.result.cites # {} /\ generation[row.result.generation] # "STAGING"
       /\ ArePublished(row.result.cites) /\ SuitsScope(row.question, row.result.cites)

AnswersInOrder ==
  /\ \A a \in Askers : RowInOrder(asker[a]) /\ RowIsToldTruth(asker[a])
  /\ \A r \in Requests : ResultInOrder(r)

LEMMA InvariantByParts ==
  AnswersInv <=> AnswerTypesOK /\ LifecycleInv /\ AnswersInOrder
<1>1. ToldIsRecorded <=> \A a \in Askers : RowIsToldTruth(asker[a])
  BY DEF ToldIsRecorded, RowIsToldTruth
<1>2. ASSUME NEW a \in Askers PROVE AskerInOrder(a) <=> RowInOrder(asker[a])
  BY DEF AskerInOrder, RowInOrder, AskerAt
<1>3. ResultsAreOwn /\ AnswersCitePublished <=> \A r \in Requests : ResultInOrder(r)
  BY DEF ResultsAreOwn, AnswersCitePublished, ResultInOrder
<1> QED
  BY <1>1, <1>2, <1>3 DEF AnswersInv, AnswersInOrder

(* A step leaves a run alone or takes one that has not ended further.      *)
RunGoesOn(r) ==
  \/ answerRun'[r] = answerRun[r]
  \/ /\ answerRun[r].status \notin {"ANSWERED", "REFUSED"}
     /\ answerRun[r].status # Absent => answerRun'[r].question = answerRun[r].question
     /\ answerRun'[r].status # Absent
     /\ ResultInOrder(r)'

(* It leaves a call alone or leaves it in order.                           *)
CallGoesOn(a) ==
  asker'[a] = asker[a] \/ (RowInOrder(asker[a])' /\ RowIsToldTruth(asker[a])')

AnswersGoOn ==
  /\ AnswersTypeOK' /\ asker' \in [Askers -> AskerRow]
  /\ \A r \in Requests : RunGoesOn(r)
  /\ \A a \in Askers : CallGoesOn(a)

LEMMA AnswersStayInOrder ==
  ASSUME AnswerTypesOK, AnswersInOrder, KnowledgeLasts, AnswersGoOn
  PROVE  AnswersInOrder'
<1>a. /\ answerRun \in [Requests -> AnswerRow \cup {NoRun}]
      /\ asker \in [Askers -> AskerRow]
  BY DEF AnswerTypesOK, AnswersTypeOK
<1>1. ASSUME NEW vs \in SUBSET Operations, ArePublished(vs) PROVE ArePublished(vs)'
  BY <1>1 DEF ArePublished, KnowledgeLasts
<1>2. ASSUME NEW r \in Requests PROVE ResultInOrder(r)'
  <2>1. CASE answerRun'[r] = answerRun[r]
    <3>1. CASE answerRun[r].status = "ANSWERED"
      <4>1. answerRun[r].result \in Answer
        BY <1>a, <3>1 DEF AnswerRow, NoRun, Absent
      <4>2. answerRun[r].result.cites \in SUBSET Operations
            /\ answerRun[r].result.generation \in Generations
        BY <4>1 DEF Answer
      <4> QED
        BY <1>1, <2>1, <3>1, <4>2
           DEF AnswersInOrder, ResultInOrder, KnowledgeLasts, SuitsScope
    <3>2. CASE answerRun[r].status # "ANSWERED"
      BY <2>1, <3>2 DEF AnswersInOrder, ResultInOrder
    <3> QED
      BY <3>1, <3>2
  <2> QED
    BY <2>1 DEF AnswersGoOn, RunGoesOn
<1>3. ASSUME NEW a \in Askers, asker'[a] = asker[a]
      PROVE  RowInOrder(asker[a])'
  <2>1. CASE asker[a].at # "idle"
    <3>1. RowInOrder(asker[a])
      BY DEF AnswersInOrder
    <3>2. asker[a].request \in Requests
      BY <2>1, <3>1 DEF RowInOrder
    <3>3. answerRun'[asker[a].request].status # Absent
          /\ answerRun'[asker[a].request].question = answerRun[asker[a].request].question
      BY <2>1, <3>1, <3>2 DEF AnswersGoOn, RunGoesOn, RowInOrder
    <3>4. asker[a].found \in SUBSET Operations
      BY <1>a DEF AskerRow
    <3> QED
      BY <1>1, <1>3, <2>1, <3>1, <3>3, <3>4 DEF RowInOrder, SuitsScope, KnowledgeLasts
  <2> QED
    BY <1>3, <2>1 DEF RowInOrder
<1>4. ASSUME NEW a \in Askers, asker'[a] = asker[a]
      PROVE  RowIsToldTruth(asker[a])'
  <2>1. CASE asker[a].told # None
    <3>1. RowIsToldTruth(asker[a])
      BY DEF AnswersInOrder
    <3>2. asker[a].told \in Answer \cup Refusal
      BY <1>a, <2>1 DEF AskerRow
    <3>3. asker[a].told.request \in Requests
      BY <3>2 DEF Answer, Refusal
    <3>4. answerRun[asker[a].told.request].result # None
      BY <2>1, <3>1 DEF RowIsToldTruth
    <3>5. answerRun[asker[a].told.request].status \in {"ANSWERED", "REFUSED"}
      BY <1>a, <3>3, <3>4 DEF AnswerRow, NoRun
    <3>6. answerRun'[asker[a].told.request] = answerRun[asker[a].told.request]
      BY <3>3, <3>5 DEF AnswersGoOn, RunGoesOn
    <3> QED
      BY <1>4, <3>1, <3>6 DEF RowIsToldTruth
  <2> QED
    BY <1>4, <2>1 DEF RowIsToldTruth
<1> QED
  BY <1>2, <1>3, <1>4 DEF AnswersInOrder, AnswersGoOn, CallGoesOn

-----------------------------------------------------------------------------
(* One step of a call after the other.                                     *)

(* A call that moves on without writing to its run.                        *)
LEMMA CallMovesOn ==
  ASSUME AnswerTypesOK, NEW a \in Askers, NEW row \in AskerRow,
         asker' = [asker EXCEPT ![a] = row], UNCHANGED <<answerRun, generation, run, version>>,
         stored' \subseteq Answer, leftover' \in BOOLEAN,
         RowInOrder(row), RowIsToldTruth(row)
  PROVE  AnswersGoOn
<1>1. asker'[a] = row /\ \A b \in Askers \ {a} : asker'[b] = asker[b]
  BY DEF AnswerTypesOK
<1>2. RowInOrder(asker[a])' /\ RowIsToldTruth(asker[a])'
  BY <1>1 DEF RowInOrder, RowIsToldTruth, SuitsScope, ArePublished
<1>3. asker' \in [Askers -> AskerRow]
  BY DEF AnswerTypesOK
<1>4. AnswersTypeOK'
  BY DEF AnswerTypesOK, AnswersTypeOK
<1> QED
  BY <1>1, <1>2, <1>3, <1>4 DEF AnswersGoOn, RunGoesOn, CallGoesOn

LEMMA SilentIsInOrder ==
  Silent \in AskerRow /\ RowInOrder(Silent) /\ RowIsToldTruth(Silent)
BY DEF Silent, AskerRow, AskerLabels, RowInOrder, RowIsToldTruth

(* A call that begins or takes up the run of its request.                  *)
LEMMA CallIsMade ==
  ASSUME AnswerTypesOK, AnswersInOrder,
         NEW a \in Askers, NEW r \in Requests, NEW q \in Questions, Ask(a, r, q),
         UNCHANGED <<generation, run, version>>
  PROVE  AnswersGoOn
<1> DEFINE called == [Silent EXCEPT !.at = "plan", !.request = r, !.question = q]
<1>a. /\ AnswersTypeOK /\ answerRun \in [Requests -> AnswerRow \cup {NoRun}]
      /\ asker \in [Askers -> AskerRow]
  BY DEF AnswerTypesOK, AnswersTypeOK
<1>1. called \in AskerRow
  BY DEF Silent, AskerRow, AskerLabels
<1>2. called.at = "plan" /\ called.request = r /\ called.question = q /\ called.told = None
  BY DEF Silent
<1>3. CASE BeginAnswer(a, r, q)
  <2>1. answerRun' = [answerRun EXCEPT ![r] =
          [status |-> "IN_PROGRESS", question |-> q, result |-> None]]
    BY <1>3 DEF BeginAnswer, AddAnswerRun
  <2>2. answerRun[r].status = Absent
    BY <1>3 DEF BeginAnswer
  <2>3. [status |-> "IN_PROGRESS", question |-> q, result |-> None] \in AnswerRow
    BY DEF AnswerRow
  <2>4. AnswersTypeOK'
    BY <1>3, <1>a, <2>1, <2>3 DEF BeginAnswer, AnswersTypeOK
  <2>5. answerRun'[r].status = "IN_PROGRESS" /\ answerRun'[r].question = q
        /\ \A p \in Requests \ {r} : answerRun'[p] = answerRun[p]
    BY <1>a, <2>1
  <2>6. \A p \in Requests : RunGoesOn(p)
    BY <2>2, <2>5 DEF RunGoesOn, ResultInOrder, Absent
  <2>7. asker' = [asker EXCEPT ![a] = called]
    BY <1>3 DEF BeginAnswer, Called
  <2> HIDE DEF called
  <2>8. RowInOrder(asker[a])' /\ RowIsToldTruth(asker[a])'
    BY <1>a, <1>2, <2>5, <2>7 DEF RowInOrder, RowIsToldTruth, Absent
  <2> QED
    BY <1>1, <1>a, <2>4, <2>6, <2>7, <2>8 DEF AnswersGoOn, CallGoesOn
<1>4. CASE TakeUpAnswer(a, r, q)
  <2>1. asker' = [asker EXCEPT ![a] = called] /\ UNCHANGED answers
        /\ answerRun[r].status = "IN_PROGRESS" /\ answerRun[r].question = q
    BY <1>4 DEF TakeUpAnswer, Called
  <2> HIDE DEF called
  <2>2. RowInOrder(called) /\ RowIsToldTruth(called)
    BY <1>2, <2>1 DEF RowInOrder, RowIsToldTruth, Absent
  <2> QED
    BY <1>1, <1>a, <2>1, <2>2, CallMovesOn DEF answers, AnswersTypeOK
<1>5. CASE Replay(a, r, q)
  <2> DEFINE row == [Silent EXCEPT !.question = q, !.told = answerRun[r].result]
  <2>1. /\ asker' = [asker EXCEPT ![a] = row] /\ UNCHANGED answers
        /\ answerRun[r].status \in {"ANSWERED", "REFUSED"} /\ answerRun[r].question = q
    BY <1>5 DEF Replay
  <2>2. answerRun[r].result \in Answer \cup Refusal /\ answerRun[r].result.request = r
    BY <1>a, <2>1 DEF AnswerRow, NoRun, Absent, AnswersInOrder, ResultInOrder
  <2>3. row \in AskerRow
    BY <2>2 DEF Silent, AskerRow, AskerLabels
  <2>4. RowInOrder(row) /\ RowIsToldTruth(row)
    BY <2>1, <2>2 DEF Silent, RowInOrder, RowIsToldTruth
  <2> HIDE DEF row
  <2> QED
    BY <1>a, <2>1, <2>3, <2>4, CallMovesOn DEF answers, AnswersTypeOK
<1> QED
  BY <1>3, <1>4, <1>5 DEF Ask

(* A version that is current has been published.                           *)
LEMMA CurrentIsPublished ==
  ASSUME LifecycleInv, NEW vs \in SUBSET Operations, NEW g,
         \A v \in vs : IsCurrent(v, g)
  PROVE  ArePublished(vs)
BY RequestAssumption
   DEF ArePublished, IsCurrent, ResolveCurrent, LifecycleInv, PointersAreActivated

(* A call on its way to a draft.                                           *)
LEMMA CallSearches ==
  ASSUME AnswerTypesOK, LifecycleInv, AnswersInOrder, NEW a \in Askers,
         \/ ReadActiveGeneration(a) \/ Search(a) \/ FilterCurrent(a) \/ ResolveEvidence(a),
         UNCHANGED <<generation, run, version>>
  PROVE  AnswersGoOn
<1>a. /\ stored' \subseteq Answer /\ leftover' \in BOOLEAN /\ UNCHANGED answerRun
      /\ asker[a] \in AskerRow
  BY DEF AnswerTypesOK, AnswersTypeOK, ReadActiveGeneration, Search, FilterCurrent,
         ResolveEvidence, answers
<1>b. RowInOrder(asker[a])
  BY DEF AnswersInOrder
<1>1. CASE ReadActiveGeneration(a)
  <2>1. PICK g \in Generations :
          /\ generation[g] = "ACTIVE"
          /\ asker' = [asker EXCEPT ![a] = [asker[a] EXCEPT !.at = "search", !.generation = g]]
    BY <1>1 DEF ReadActiveGeneration, ActiveGenerations
  <2> DEFINE row == [asker[a] EXCEPT !.at = "search", !.generation = g]
  <2>2. row \in AskerRow
    BY <1>a DEF AskerRow, AskerLabels
  <2>3. RowInOrder(row) /\ RowIsToldTruth(row)
    BY <1>1, <1>a, <1>b, <2>1
       DEF ReadActiveGeneration, AskerAt, RowInOrder, RowIsToldTruth, AskerRow
  <2> HIDE DEF row
  <2> QED
    BY <1>a, <2>1, <2>2, <2>3, CallMovesOn DEF row
<1>2. ASSUME NEW label \in {"filter", "resolve", "draft"}, NEW vs \in SUBSET Operations,
             AdvanceWith(a, label, vs), asker[a].at \notin {"idle", "plan"},
             SuitsScope(asker[a].question, vs), label = "draft" => ArePublished(vs)
      PROVE  AnswersGoOn
  <2> DEFINE row == [asker[a] EXCEPT !.at = label, !.found = vs]
  <2>1. row \in AskerRow
    BY <1>a DEF AskerRow, AskerLabels
  <2>2. RowInOrder(row) /\ RowIsToldTruth(row)
    BY <1>2, <1>a, <1>b DEF RowInOrder, RowIsToldTruth, AskerRow
  <2>3. asker' = [asker EXCEPT ![a] = row]
    BY <1>2 DEF AdvanceWith
  <2> HIDE DEF row
  <2> QED
    BY <1>a, <2>1, <2>2, <2>3, CallMovesOn
<1>3. CASE Search(a)
  <2>1. PICK scope \in PlannedScopes(asker[a].question) :
          \E hits \in HybridSearch(asker[a].generation, AllowedStatuses(scope)) :
            AdvanceWith(a, "filter", hits)
    BY <1>3 DEF Search
  <2>2. PICK hits \in HybridSearch(asker[a].generation, AllowedStatuses(scope)) :
          AdvanceWith(a, "filter", hits)
    BY <2>1
  <2>3. hits \in SUBSET Operations
    BY DEF HybridSearch
  <2>4. ScopeOf[asker[a].question] = "general" => scope = "general"
    BY DEF PlannedScopes
  <2>5. SuitsScope(asker[a].question, hits)
    BY <2>4 DEF SuitsScope, HybridSearch, PassesFilter, AllowedStatuses
  <2> QED
    BY <1>2, <1>3, <2>2, <2>3, <2>5 DEF Search, AskerAt
<1>4. CASE FilterCurrent(a)
  <2> DEFINE current == {v \in asker[a].found : IsCurrent(v, asker[a].generation)}
  <2>1. asker[a].found \in SUBSET Operations /\ current \subseteq asker[a].found
    BY <1>a DEF AskerRow
  <2>2. AdvanceWith(a, "resolve", current) /\ asker[a].at = "filter"
    BY <1>4 DEF FilterCurrent, AskerAt
  <2> HIDE DEF current
  <2>3. SuitsScope(asker[a].question, current)
    BY <1>b, <2>1, <2>2 DEF RowInOrder, SuitsScope
  <2> QED
    BY <1>2, <2>1, <2>2, <2>3
<1>5. CASE ResolveEvidence(a)
  <2>1. PICK found \in SUBSET Resolvable(a) : AdvanceWith(a, "draft", found)
    BY <1>5 DEF ResolveEvidence
  <2>2. asker[a].found \in SUBSET Operations /\ found \subseteq asker[a].found
        /\ \A v \in found : IsCurrent(v, asker[a].generation)
    BY <1>a DEF AskerRow, Resolvable
  <2>3. asker[a].at = "resolve"
    BY <1>5 DEF ResolveEvidence, AskerAt
  <2>4. SuitsScope(asker[a].question, found)
    BY <1>b, <2>2, <2>3 DEF RowInOrder, SuitsScope
  <2>5. ArePublished(found)
    BY <2>2, CurrentIsPublished
  <2> QED
    BY <1>2, <2>1, <2>2, <2>3, <2>4, <2>5
<1> QED
  BY <1>1, <1>3, <1>4, <1>5

(* A call that has its evidence writes what it will tell.                  *)
LEMMA CallDrafts ==
  ASSUME AnswerTypesOK, AnswersInOrder, NEW a \in Askers,
         DraftAnswer(a) \/ ReplaceTemporary(a), UNCHANGED <<generation, run, version>>
  PROVE  AnswersGoOn
<1>a. /\ AnswersTypeOK /\ asker[a] \in AskerRow /\ stored \subseteq Answer /\ leftover \in BOOLEAN
  BY DEF AnswerTypesOK, AnswersTypeOK
<1>b. RowInOrder(asker[a])
  BY DEF AnswersInOrder
<1>1. CASE DraftAnswer(a)
  <2>1. PICK draft \in Drafts(a) :
          asker' = [asker EXCEPT ![a].at = PutLabel(Rendered(a, draft)),
                                 ![a].found = draft.cites, ![a].text = draft.text]
    BY <1>1 DEF DraftAnswer
  <2>2. PICK label \in {"write", "complete"} : PutLabel(Rendered(a, draft)) = label
    BY DEF PutLabel
  <2>3. /\ draft.cites \subseteq asker[a].found /\ draft.cites # {} /\ draft.text \in Texts
        /\ draft.cites \in SUBSET Operations
    BY DEF Drafts, CitesEvidence, MaySupport
  <2> DEFINE row == [asker[a] EXCEPT !.at = label, !.found = draft.cites, !.text = draft.text]
  <2>4. row \in AskerRow
    BY <1>a, <2>3 DEF AskerRow, AskerLabels
  <2>5. asker[a].at = "draft"
    BY <1>1 DEF DraftAnswer, AskerAt
  <2>6. RowInOrder(row) /\ RowIsToldTruth(row)
    BY <1>a, <1>b, <2>3, <2>5
       DEF RowInOrder, RowIsToldTruth, AskerRow, SuitsScope, ArePublished
  <2>7. asker' = [asker EXCEPT ![a] = row]
    BY <2>1, <2>2
  <2> HIDE DEF row
  <2> QED
    BY <1>1, <1>a, <2>4, <2>6, <2>7, CallMovesOn DEF DraftAnswer, answers
<1>2. CASE ReplaceTemporary(a)
  <2> DEFINE row == [asker[a] EXCEPT !.at = "complete"]
  <2>1. row \in AskerRow
    BY <1>a DEF AskerRow, AskerLabels
  <2>2. asker[a].at = "write"
    BY <1>2 DEF ReplaceTemporary, AskerAt
  <2>3. RowInOrder(row) /\ RowIsToldTruth(row)
    BY <1>a, <1>b, <2>2 DEF RowInOrder, RowIsToldTruth, AskerRow
  <2>4. Drafted(a) \in Answer
    BY <1>a, <1>b, <2>2 DEF Drafted, Rendered, Answer, RowInOrder, AskerRow
  <2>5. asker' = [asker EXCEPT ![a] = row]
    BY <1>2 DEF ReplaceTemporary, Advance
  <2> HIDE DEF row
  <2> QED
    BY <1>2, <1>a, <2>1, <2>3, <2>4, <2>5, CallMovesOn DEF ReplaceTemporary
<1> QED
  BY <1>1, <1>2

(* A call that ends the run of its request is told what it has recorded.   *)
LEMMA CallFinishes ==
  ASSUME AnswerTypesOK, AnswersInOrder, NEW a \in Askers, NEW status, NEW result,
         asker[a].at # "idle", CanFinish(asker[a].request, status),
         Finish(asker[a].request, status, result), Tell(a, result),
         result.request = asker[a].request, result \in Answer \cup Refusal,
         \/ status = "REFUSED" /\ result \in Refusal
         \/ /\ status = "ANSWERED" /\ result \in Answer /\ result.cites # {}
            /\ generation[result.generation] # "STAGING" /\ ArePublished(result.cites)
            /\ SuitsScope(asker[a].question, result.cites),
         UNCHANGED <<stored, leftover, generation, run, version>>
  PROVE  AnswersGoOn
<1> DEFINE row == [Silent EXCEPT !.told = result,
                                 !.question = IF result = None THEN None ELSE asker[a].question]
<1>a. /\ AnswersTypeOK /\ answerRun \in [Requests -> AnswerRow \cup {NoRun}]
      /\ asker \in [Askers -> AskerRow] /\ asker[a] \in AskerRow
  BY DEF AnswerTypesOK, AnswersTypeOK
<1>b. RowInOrder(asker[a])
  BY DEF AnswersInOrder
<1>r. PICK r \in Requests : r = asker[a].request
  BY <1>b DEF RowInOrder
<1>1. answerRun[r].question = asker[a].question
      /\ answerRun[r].status = "IN_PROGRESS"
  BY <1>b, <1>r DEF RowInOrder, CanFinish, CanTransition, AnswerRunTransitions
<1>2. answerRun[r] \in [status : {"IN_PROGRESS"}, question : Questions, result : {None}]
  BY <1>1, <1>a DEF AnswerRow, NoRun, Absent
<1> DEFINE ended == [answerRun[r] EXCEPT !.status = status, !.result = result]
<1>3. /\ ended \in AnswerRow /\ ended.status = status /\ ended.result = result
      /\ ended.question = asker[a].question
  BY <1>1, <1>2 DEF AnswerRow
<1>4. answerRun' = [answerRun EXCEPT ![r] = ended]
  BY <1>r DEF Finish
<1>5. row \in AskerRow
  BY <1>a DEF Silent, AskerRow, AskerLabels
<1>6. row.at = "idle" /\ row.told = result
      /\ (result # None => row.question = asker[a].question)
  BY DEF Silent
<1>7. asker' = [asker EXCEPT ![a] = row]
  BY DEF Tell
<1> HIDE DEF row, ended
<1>8. answerRun'[r] = ended /\ \A p \in Requests \ {r} : answerRun'[p] = answerRun[p]
  BY <1>1, <1>4, <1>a
<1>9. ResultInOrder(r)'
  BY <1>3, <1>8, <1>r DEF ResultInOrder, SuitsScope, ArePublished
<1>10. \A p \in Requests : RunGoesOn(p)
  BY <1>1, <1>3, <1>8, <1>9 DEF RunGoesOn, Absent
<1>11. RowInOrder(asker[a])' /\ RowIsToldTruth(asker[a])'
  BY <1>3, <1>6, <1>7, <1>8, <1>a, <1>r DEF RowInOrder, RowIsToldTruth
<1>12. AnswersTypeOK'
  BY <1>a, <1>1, <1>3, <1>4 DEF AnswersTypeOK
<1> QED
  BY <1>5, <1>7, <1>10, <1>11, <1>12, <1>a DEF AnswersGoOn, CallGoesOn

LEMMA CallEnds ==
  ASSUME AnswerTypesOK, AnswersInOrder, NEW a \in Askers,
         CompleteAnswer(a) \/ Refuse(a) \/ AbortAnswer(a), UNCHANGED <<generation, run, version>>
  PROVE  AnswersGoOn
<1>a. /\ asker[a] \in AskerRow /\ stored \subseteq Answer /\ leftover \in BOOLEAN
  BY DEF AnswerTypesOK, AnswersTypeOK
<1>b. RowInOrder(asker[a])
  BY DEF AnswersInOrder
<1>1. ASSUME Leave(a), UNCHANGED <<answerRun, stored>>, leftover' \in BOOLEAN PROVE AnswersGoOn
  BY <1>1, <1>a, SilentIsInOrder, CallMovesOn DEF Leave
<1>2. CASE CompleteAnswer(a)
  <2>1. asker[a].at = "complete"
    BY <1>2 DEF CompleteAnswer, AskerAt
  <2>2. /\ asker[a].request \in Requests /\ asker[a].generation \in Generations
        /\ generation[asker[a].generation] # "STAGING" /\ asker[a].text \in Texts
        /\ asker[a].found # {} /\ ArePublished(asker[a].found)
        /\ SuitsScope(asker[a].question, asker[a].found)
    BY <1>b, <2>1 DEF RowInOrder
  <2>3. /\ Drafted(a) \in Answer /\ Drafted(a).request = asker[a].request
        /\ Drafted(a).cites = asker[a].found /\ Drafted(a).generation = asker[a].generation
    BY <1>a, <2>2 DEF Drafted, Rendered, Answer, AskerRow
  <2>4. CASE CanFinish(asker[a].request, "ANSWERED")
    <3>1. Finish(asker[a].request, "ANSWERED", Drafted(a)) /\ Tell(a, Drafted(a))
          /\ UNCHANGED <<stored, leftover>>
      BY <1>2, <2>4 DEF CompleteAnswer
    <3> QED
      BY <2>1, <2>2, <2>3, <2>4, <3>1, CallFinishes
  <2>5. CASE ~CanFinish(asker[a].request, "ANSWERED")
    BY <1>1, <1>2, <1>a, <2>5 DEF CompleteAnswer
  <2> QED
    BY <2>4, <2>5
<1>3. CASE Refuse(a)
  <2> DEFINE refusal == [request |-> asker[a].request, reason |-> RefusalAt[asker[a].at]]
  <2>1. asker[a].at \in {"plan", "search", "filter", "resolve", "draft"}
    BY <1>3 DEF Refuse, RefusalAt
  <2>2. RefusalAt[asker[a].at] \in RefusalCode
    BY <2>1 DEF RefusalAt, RefusalCode
  <2>3. asker[a].request \in Requests
    BY <1>b, <2>1 DEF RowInOrder
  <2>4. refusal \in Refusal /\ refusal.request = asker[a].request
    BY <2>2, <2>3 DEF Refusal
  <2>5. IF CanFinish(asker[a].request, "REFUSED")
        THEN Finish(asker[a].request, "REFUSED", refusal) /\ Tell(a, refusal)
        ELSE UNCHANGED answerRun /\ Leave(a)
    BY <1>3 DEF Refuse
  <2>6. UNCHANGED <<stored, leftover>>
    BY <1>3 DEF Refuse
  <2> HIDE DEF refusal
  <2> QED
    BY <1>1, <1>a, <2>1, <2>4, <2>5, <2>6, CallFinishes
<1>4. CASE AbortAnswer(a)
  BY <1>1, <1>4, <1>a DEF AbortAnswer
<1> QED
  BY <1>2, <1>3, <1>4

(* The other steps leave calls and runs alone; a deletion purges answers.  *)
LEMMA OthersLeaveCalls ==
  ASSUME AnswerTypesOK, UNCHANGED <<answerRun, asker, leftover>>, stored' \subseteq stored
  PROVE  AnswersGoOn
BY DEF AnswerTypesOK, AnswersTypeOK, AnswersGoOn, RunGoesOn, CallGoesOn

LEMMA AnswersGoOnAlways ==
  ASSUME AnswerTypesOK, LifecycleInv, AnswersInOrder, [TrustedStep]_trustedVars
  PROVE  AnswersGoOn
<1>1. ASSUME NEW a \in Askers, AnsweringStep(a) PROVE AnswersGoOn
  <2>1. AnswerStep(a) /\ UNCHANGED <<generation, run, version>>
    BY <1>1 DEF AnsweringStep, reconciledVars, allVars, vars, tables
  <2> QED
    BY <2>1, CallSearches, CallDrafts, CallEnds DEF AnswerStep
<1>2. ASSUME NEW a \in Askers, AbortAnswer(a), UNCHANGED reconciledVars PROVE AnswersGoOn
  BY <1>2, CallEnds DEF reconciledVars, allVars, vars, tables
<1>3. ASSUME NEW a \in Askers, NEW r \in Requests, NEW q \in Questions, AskingStep(a, r, q)
      PROVE  AnswersGoOn
  BY <1>3, CallIsMade DEF AskingStep, reconciledVars, allVars, vars, tables
<1>4. ASSUME NEW s \in NoteWorkers, RecycledStep(s) PROVE AnswersGoOn
  <2>1. UNCHANGED <<answerRun, asker, leftover>> /\ stored' \subseteq stored
    BY <1>4 DEF RecycledStep, NoteStep, EraseAndPurge, EraseAndFailPurge, Purge, PurgePartly, answers
  <2> QED
    BY <2>1, OthersLeaveCalls
<1>5. CASE UNCHANGED <<answers, asker>>
  BY <1>5, OthersLeaveCalls DEF answers
<1> QED
  BY <1>1, <1>2, <1>3, <1>4, <1>5
     DEF TrustedStep, TrustedNext, trustedVars, Beside, BesideReconciling

-----------------------------------------------------------------------------
(* The invariant holds initially and is kept, also by the step that ends   *)
(* the disturbances, which a fair behaviour may take.                      *)
LEMMA AnswersInvInitially == AnswersInitially => AnswersInv
<1> SUFFICES ASSUME AnswersInitially PROVE AnswersInv
  OBVIOUS
<1>1. ReconcilerTypeOK
  BY DEF AnswersInitially, ReconcilerInit, ReconcilerTypeOK, NoReconcile, ReconcileLabels
<1>2. AnswersTypeOK
  BY DEF AnswersInitially, AnswersInit, AnswersTypeOK
<1>3. asker \in [Askers -> AskerRow] /\ \A a \in Askers : asker[a] = Silent
  BY SilentIsInOrder DEF AnswersInitially
<1>4. AnswersInOrder
  BY <1>3, SilentIsInOrder
     DEF AnswersInitially, AnswersInit, NoRun, Absent, AnswersInOrder, ResultInOrder
<1> QED
  BY <1>1, <1>2, <1>3, <1>4, LifecycleTypesInitially, LifecycleInvInitially, InvariantByParts
     DEF AnswersInitially, AnswerTypesOK

LEMMA AnswersInvInductive == AnswersInv /\ [TrustedStep]_trustedVars => AnswersInv'
<1> SUFFICES ASSUME AnswersInv, [TrustedStep]_trustedVars PROVE AnswersInv'
  OBVIOUS
<1>1. AnswerTypesOK /\ LifecycleInv /\ AnswersInOrder
  BY InvariantByParts
<1>2. LifecycleTypesOK' /\ ReconcilerTypeOK' /\ ControlStep
  BY <1>1, TrustedStepControl DEF AnswerTypesOK
<1>3. LifecycleInv' /\ KnowledgeLasts
  BY <1>1, <1>2, ControlStepKeepsInv, ControlStepsLast DEF AnswerTypesOK, LifecycleTypesOK
<1>4. AnswersGoOn
  BY <1>1, AnswersGoOnAlways
<1>5. AnswersInOrder'
  BY <1>1, <1>3, <1>4, AnswersStayInOrder
<1>6. AnswerTypesOK'
  BY <1>2, <1>4 DEF AnswerTypesOK, AnswersGoOn
<1>7. (AnswerTypesOK /\ LifecycleInv /\ AnswersInOrder => AnswersInv)'
  BY InvariantByParts, PTL
<1> QED
  BY <1>3, <1>5, <1>6, <1>7

(* Answering beside publication, deletion, restoration and reconciliation, *)
(* whichever calls overlap, are repeated or are cut off.                   *)
THEOREM AnswersCorrect == AnswersInitially /\ [][TrustedStep]_trustedVars => []AnswersInv
  BY AnswersInvInitially, AnswersInvInductive, PTL

(* The variables of the composition keep their types.                      *)
THEOREM AnswerTypesCorrect ==
  AnswersInitially /\ [][TrustedStep]_trustedVars => []AnswerTypesOK
<1>1. AnswersInv => AnswerTypesOK
  BY DEF AnswersInv
<1> QED
  BY <1>1, AnswersCorrect, PTL

(* Every caller is told what the run of its operation id records, for the  *)
(* question it asked (service.py _begin, _replay).                         *)
THEOREM CallersAreToldTheRecord ==
  AnswersInitially /\ [][TrustedStep]_trustedVars => []ToldIsRecorded
<1>1. AnswersInv => ToldIsRecorded
  BY DEF AnswersInv
<1> QED
  BY <1>1, AnswersCorrect, PTL

(* Every recorded answer cites what completed publications switched to, on *)
(* a generation that has been active, and suits the scope of its question. *)
THEOREM AnswersRestOnPublications ==
  AnswersInitially /\ [][TrustedStep]_trustedVars => []AnswersCitePublished
<1>1. AnswersInv => AnswersCitePublished
  BY DEF AnswersInv
<1> QED
  BY <1>1, AnswersCorrect, PTL

(* The same of the specification that TLC checks, and of the fair one.     *)
THEOREM TrustedSpecCorrect == TrustedSpec \/ FairTrustedSpec => []AnswersInv
<1>1. [TrustedNext]_trustedVars => [TrustedStep]_trustedVars
  BY DEF TrustedStep
<1>2. [TrustedNext \/ Beside(LifecycleCalmDown)]_trustedVars => [TrustedStep]_trustedVars
  BY DEF TrustedStep
<1> QED
  BY <1>1, <1>2, AnswersCorrect, PTL DEF TrustedSpec, FairTrustedSpec

-----------------------------------------------------------------------------
(* What answering and reconciliation leave as it was.                      *)

(* Reconciliation, answering and purges that fail change nothing that a    *)
(* reader is promised: beside them too, the services present a knowledge   *)
(* base that changes by one switch, withdrawal or return at a time.        *)
THEOREM TrustedServesAtomically ==
  AnswersInitially /\ [][TrustedStep]_trustedVars => ImplementsKnowledgeServing
<1>1. AnswersInitially => Serving!Init
  BY DEF AnswersInitially, LifecycleInitially, Init, TablesInit, Serving!Init, NoNote, Absent
<1>2. AnswersInv /\ [TrustedStep]_trustedVars => [Serving!Next]_ReaderView
  <2> SUFFICES ASSUME AnswersInv, [TrustedStep]_trustedVars
               PROVE  Serving!Next \/ UNCHANGED ReaderView
    OBVIOUS
  <2>1. TypeOK /\ LifecycleInv /\ ControlStep
    BY InvariantByParts, TrustedStepControl DEF AnswerTypesOK, LifecycleTypesOK
  <2> QED
    BY <2>1, ActivationSwitches, ExclusionWithdraws, AdmissionPutsBack, OtherStepsStutter
       DEF ControlStep
<1> QED
  BY <1>1, <1>2, AnswersCorrect, PTL DEF ImplementsKnowledgeServing, Serving!Spec, ReaderView

(* Each change is activated by one publication, with answering and         *)
(* reconciliation beside (publication_repository.py activate_publication). *)
THEOREM TrustedChangesAreActivatedOnce ==
  AnswersInitially /\ [][TrustedStep]_trustedVars => []ChangeActivatedOnce
<1>1. AnswersInitially => ActiveChangeHasOneRun
  BY RequestAssumption
     DEF AnswersInitially, LifecycleInitially, Init, TablesInit, ActiveChangeHasOneRun, Absent
<1>2. AnswersInv => TypeOK /\ LifecycleInv /\ LifecycleTypesOK /\ ReconcilerTypeOK
  BY InvariantByParts DEF AnswerTypesOK, LifecycleTypesOK
<1>3. AnswersInv /\ ActiveChangeHasOneRun /\ [TrustedStep]_trustedVars => ActiveChangeHasOneRun'
  BY <1>2, TrustedStepControl, ControlStepKeepsOneRun
<1>4. AnswersInv /\ ActiveChangeHasOneRun => ChangeActivatedOnce
  BY <1>2, OneRunIsCounted DEF LifecycleInv, CompletedChangeIsActive
<1> QED
  BY <1>1, <1>3, <1>4, AnswersCorrect, PTL
===============================================================================
