---------------------------- MODULE TrustedAnswers ----------------------------
(***************************************************************************)
(* The answer service (answer/service.py) beside publication, deletion and *)
(* restoration of the notes it cites.  An asker is one call: it begins or  *)
(* takes over the run of its operation id, plans, reads the active         *)
(* generation, searches its collection, keeps the hits that are current,   *)
(* resolves them once more, has an answer drafted and verified, stores it  *)
(* and completes the run.  A unit of work, and a call of the index or the  *)
(* snapshot store, is one step.                                            *)
(***************************************************************************)
EXTENDS Reconciliation, AnswerRepository

CONSTANTS
  Askers,
  ScopeOf,       \* the scope each question is asked in
  QualityOf,     \* status of the chunks of each version, one for them all
  MinEvidence,
  DiesWriting    \* a process may die while it writes an answer

ASSUME AnswerAssumption ==
  /\ ScopeOf \in [Questions -> {"auto", "general", "personal"}]
  /\ QualityOf \in [Operations -> {"VERIFIED", "USER_ASSERTED", "OPINION"}]
  /\ MinEvidence \in Nat \ {0}
  /\ DiesWriting \in BOOLEAN

VARIABLE asker   \* where each call stands, what it carries, what it was told last

trustedVars == <<reconciledVars, answers, asker>>

AskerLabels == {"idle", "plan", "search", "filter", "resolve", "draft", "write", "complete"}

(* found: the hits, then the current ones, the evidence, the cited.        *)
AskerRow ==
  [at : AskerLabels, request : Requests \cup {None}, question : Questions \cup {None},
   generation : Generations \cup {None}, found : SUBSET Operations,
   text : Texts \cup {None}, told : Answer \cup Refusal \cup {None}]

Silent ==
  [at |-> "idle", request |-> None, question |-> None, generation |-> None,
   found |-> {}, text |-> None, told |-> None]

AnswerTypesOK ==
  /\ LifecycleTypesOK /\ ReconcilerTypeOK /\ AnswersTypeOK
  /\ asker \in [Askers -> AskerRow]

AnswersInitially ==
  LifecycleInitially /\ ReconcilerInit /\ AnswersInit /\ asker = [a \in Askers |-> Silent]

-----------------------------------------------------------------------------
AskerAt(a, label) == asker[a].at = label

Advance(a, label) == asker' = [asker EXCEPT ![a].at = label]

AdvanceWith(a, label, versions) ==
  asker' = [asker EXCEPT ![a].at = label, ![a].found = versions]

(* The call ends with this result, or with an error.                       *)
Tell(a, result) ==
  asker' = [asker EXCEPT ![a] =
    [Silent EXCEPT !.told = result,
                   !.question = IF result = None THEN None ELSE asker[a].question]]

Leave(a) == asker' = [asker EXCEPT ![a] = Silent]

-----------------------------------------------------------------------------
(* _begin and _replay.                                                     *)

Called(a, r, q) ==
  asker' = [asker EXCEPT ![a] = [Silent EXCEPT !.at = "plan", !.request = r, !.question = q]]

BeginAnswer(a, r, q) ==
  /\ AskerAt(a, "idle") /\ answerRun[r].status = Absent
  /\ AddAnswerRun(r, q) /\ Called(a, r, q)
  /\ UNCHANGED <<stored, leftover>>

\* mutant: only a run that has ended is taken up
TakeUpNothing(a, r, q) ==
  /\ AskerAt(a, "idle") /\ answerRun[r].status = "IN_PROGRESS" /\ Leave(a)
  /\ UNCHANGED answers

(* A run that is in progress is executed again, whoever else executes it.  *)
TakeUpAnswer(a, r, q) ==
  /\ AskerAt(a, "idle") /\ answerRun[r].status = "IN_PROGRESS" /\ answerRun[r].question = q
  /\ Called(a, r, q)
  /\ UNCHANGED answers

(* An answer that has been purged cannot be replayed.                      *)
Replay(a, r, q) ==
  /\ AskerAt(a, "idle") /\ answerRun[r].status \in {"ANSWERED", "REFUSED"}
  /\ answerRun[r].question = q
  /\ answerRun[r].status = "ANSWERED" => answerRun[r].result \in stored
  /\ asker' = [asker EXCEPT ![a] =
       [Silent EXCEPT !.question = q, !.told = answerRun[r].result]]
  /\ UNCHANGED answers

-----------------------------------------------------------------------------
(* stream: what may be answered.                                           *)

(* plan: the planner chooses the scope of a question that leaves it open.  *)
PlannedScopes(q) == IF ScopeOf[q] = "auto" THEN {"general", "personal"} ELSE {ScopeOf[q]}

(* retrieval_query_for_plan: opinions only if the plan asks for them, which *)
(* it may.                                                                 *)
AllowedStatuses(scope) ==
  IF scope = "general" THEN {"VERIFIED"} ELSE {"VERIFIED", "USER_ASSERTED", "OPINION"}

ReadActiveGeneration(a) ==
  /\ AskerAt(a, "plan")
  /\ \E g \in ActiveGenerations :
       asker' = [asker EXCEPT ![a].at = "search", ![a].generation = g]
  /\ UNCHANGED answers

(* milvus_filter_expression: of the terms, the status is told apart.       *)
PassesFilter(v, statuses) == QualityOf[v] \in statuses

(* hybrid_search: some of the versions that have a chunk in the collection *)
(* of g and pass the filter.                                               *)
HybridSearch(g, statuses) ==
  SUBSET {v \in Operations : vectors[v][g] # "none" /\ PassesFilter(v, statuses)}

(* Reranking and the cut to top_k choose among the hits, as the search did. *)
Search(a) ==
  /\ AskerAt(a, "search")
  /\ \E scope \in PlannedScopes(asker[a].question) :
       \E hits \in HybridSearch(asker[a].generation, AllowedStatuses(scope)) :
         AdvanceWith(a, "filter", hits)
  /\ UNCHANGED answers

IsCurrent(v, g) == ResolveCurrent(NoteOf[v]) = v /\ note[NoteOf[v]].generation = g

FilterCurrent(a) ==
  /\ AskerAt(a, "filter")
  /\ AdvanceWith(a, "resolve", {v \in asker[a].found : IsCurrent(v, asker[a].generation)})
  /\ UNCHANGED answers

(* The hits that are still current, and whose snapshots can be read.       *)
Resolvable(a) ==
  {v \in asker[a].found : IsCurrent(v, asker[a].generation) /\ version[v] = "ACTIVE"}

ResolveEvidence(a) ==
  /\ AskerAt(a, "resolve")
  /\ \E evidence \in SUBSET Resolvable(a) :
       Cardinality(evidence) >= MinEvidence /\ AdvanceWith(a, "draft", evidence)
  /\ UNCHANGED answers

\* mutant: citations are not compared with the evidence
CitesAnything(cited, evidence) == TRUE

(* validate_citation_closed_set: the generator may cite whatever it likes. *)
CitesEvidence(cited, evidence) == cited \subseteq evidence

(* verify and validate_semantic_support: the verifier finds support among  *)
(* what is cited.                                                          *)
MaySupport(cited) == \E supporting \in SUBSET cited : supporting # {}

(* generate: the drafts that can pass both.                                *)
Drafts(a) ==
  [cites : {cited \in SUBSET Operations :
              CitesEvidence(cited, asker[a].found) /\ MaySupport(cited)},
   text : Texts]

(* render_verified_answer, for the run and its generation.                 *)
Rendered(a, draft) ==
  [request |-> asker[a].request, text |-> draft.text, cites |-> draft.cites,
   generation |-> asker[a].generation]

Drafted(a) == Rendered(a, [cites |-> asker[a].found, text |-> asker[a].text])

(* put: an answer that is there already, or a temporary file.              *)
PutLabel(answer) == IF answer \in stored THEN "complete" ELSE "write"

DraftAnswer(a) ==
  /\ AskerAt(a, "draft")
  /\ \E draft \in Drafts(a) :
       asker' = [asker EXCEPT ![a].at = PutLabel(Rendered(a, draft)),
                              ![a].found = draft.cites, ![a].text = draft.text]
  /\ UNCHANGED answers

ReplaceTemporary(a) ==
  /\ AskerAt(a, "write")
  /\ stored' = stored \cup {Drafted(a)}
  /\ Advance(a, "complete")
  /\ UNCHANGED <<answerRun, leftover>>

(* complete_answer; a call that another one has overtaken raises.          *)
CompleteAnswer(a) ==
  LET r == asker[a].request IN
  /\ AskerAt(a, "complete")
  /\ IF CanFinish(r, "ANSWERED")
     THEN Finish(r, "ANSWERED", Drafted(a)) /\ Tell(a, Drafted(a))
     ELSE UNCHANGED answerRun /\ Leave(a)
  /\ UNCHANGED <<stored, leftover>>

-----------------------------------------------------------------------------
(* stream: what is refused, at every point where something is missing.     *)

RefusalAt ==
  [label \in {"plan", "search", "filter", "resolve", "draft"} |->
    IF label = "draft" THEN "CITATION_VALIDATION_FAILED" ELSE "NO_TRUSTED_EVIDENCE"]

(* _refuse                                                                 *)
Refuse(a) ==
  LET r == asker[a].request
      refusal == [request |-> r, reason |-> RefusalAt[asker[a].at]]
  IN  /\ asker[a].at \in DOMAIN RefusalAt
      /\ IF CanFinish(r, "REFUSED")
         THEN Finish(r, "REFUSED", refusal) /\ Tell(a, refusal)
         ELSE UNCHANGED answerRun /\ Leave(a)
      /\ UNCHANGED <<stored, leftover>>

(* The client goes away, the process dies or a step raises.  A temporary   *)
(* file is removed unless the process died.                                *)
AbortAnswer(a) ==
  /\ ~calm /\ ~AskerAt(a, "idle")
  /\ Leave(a)
  /\ leftover' \in IF AskerAt(a, "write") /\ DiesWriting THEN {leftover, TRUE} ELSE {leftover}
  /\ UNCHANGED <<answerRun, stored>>

AnswerStep(a) ==
  \/ ReadActiveGeneration(a) \/ Search(a) \/ FilterCurrent(a) \/ ResolveEvidence(a)
  \/ DraftAnswer(a) \/ ReplaceTemporary(a) \/ CompleteAnswer(a) \/ Refuse(a)

Ask(a, r, q) == BeginAnswer(a, r, q) \/ TakeUpAnswer(a, r, q) \/ Replay(a, r, q)

-----------------------------------------------------------------------------
(* Deletion with the answers that it invalidates.  _invalidate_answers     *)
(* follows the erasure of the chunks; no other process can tell them apart.*)

TemporaryFile == leftover \/ \E a \in Askers : AskerAt(a, "write")

EraseAndPurge(s) ==
  /\ ~TemporaryFile /\ EraseVectors(s) /\ UNCHANGED OutsideNotes
  /\ Purge(lifecycle[s].version)
  /\ UNCHANGED <<answerRun, leftover, asker>>

(* The purge raises on a file that is not an answer, and so does the call. *)
EraseAndFailPurge(s) ==
  /\ TemporaryFile /\ AtCall(s, "erase")
  /\ DeleteChunks(lifecycle[s].version, lifecycle[s].generation)
  /\ EndCall(s)
  /\ PurgePartly(lifecycle[s].version)
  /\ UNCHANGED <<note, job, final, trash, OutsideNotes, answerRun, leftover, asker>>

NoteStep(s) ==
  \/ ~AtCall(s, "erase") /\ NoteProgressStep(s) /\ UNCHANGED <<answers, asker>>
  \/ EraseAndPurge(s) \/ EraseAndFailPurge(s)

-----------------------------------------------------------------------------
AnsweringStep(a) == AnswerStep(a) /\ UNCHANGED reconciledVars
AskingStep(a, r, q) == Ask(a, r, q) /\ UNCHANGED reconciledVars
RecycledStep(s) == NoteStep(s) /\ UNCHANGED reconciler

Beside(A) == A /\ UNCHANGED <<reconciler, answers, asker>>
BesideReconciling(A) == A /\ UNCHANGED <<answers, asker>>

TrustedNext ==
  \/ \E a \in Askers : AnsweringStep(a) \/ (AbortAnswer(a) /\ UNCHANGED reconciledVars)
  \/ \E a \in Askers, r \in Requests, q \in Questions : AskingStep(a, r, q)
  \/ \E s \in NoteWorkers : RecycledStep(s) \/ Beside(NoteDisturbStep(s))
  \/ \E s \in NoteWorkers, n \in Notes : Beside(NoteCallStep(s, n))
  \/ \E w \in Workers : Beside(PublishStep(w))
  \/ \E c \in Reconcilers : BesideReconciling(ReconcilerRuns(c))
  \/ BesideReconciling(DriftStep)

TrustedSpec == AnswersInitially /\ [][TrustedNext]_trustedVars

(* Calls keep running and are made again until they have been answered.    *)
(* Nobody need delete or restore a live note, but what has been begun is   *)
(* repeated until it is done; the reconcile command is run again and       *)
(* again.                                                                  *)
TrustedFairness ==
  /\ \A a \in Askers : WF_trustedVars(AnsweringStep(a))
  /\ \A r \in Requests, q \in Questions :
       SF_trustedVars(\E a \in Askers : AskingStep(a, r, q))
  /\ \A s \in NoteWorkers : WF_trustedVars(RecycledStep(s))
  /\ \A s \in NoteWorkers, n \in Notes :
       /\ SF_trustedVars(Beside(~IsLive(n) /\ DeleteNote(s, n) /\ UNCHANGED OutsideNotes))
       /\ SF_trustedVars(Beside(~IsLive(n) /\ RestoreCall(s, n) /\ UNCHANGED OutsideNotes))
  /\ \A c \in Reconcilers : WF_trustedVars(BesideReconciling(ReconcilerRuns(c)))

FairTrustedSpec ==
  AnswersInitially /\ [][TrustedNext \/ Beside(LifecycleCalmDown)]_trustedVars /\ TrustedFairness

-----------------------------------------------------------------------------
(* Properties.                                                             *)

(* Whatever calls with one operation id overlap, are repeated or are       *)
(* aborted, a caller is told what the run records, for the question that   *)
(* it asked, and nothing else (service.py _begin, _replay, answer_         *)
(* repository.py _finish).                                                 *)
ToldIsRecorded ==
  \A a \in Askers : asker[a].told # None =>
    LET row == answerRun[asker[a].told.request] IN
    /\ row.result = asker[a].told
    /\ row.question = asker[a].question

(* Of verified claims alone, if the question is of general scope.          *)
SuitsScope(q, versions) ==
  ScopeOf[q] = "general" => \A v \in versions : QualityOf[v] = "VERIFIED"

(* Switched to by a completed publication.                                 *)
ArePublished(versions) ==
  \A v \in versions : run[v].status = "COMPLETED" /\ version[v] \in {"ACTIVE", "SUPERSEDED"}

(* An answer rests on what was published: whatever the models said and     *)
(* whatever was published or deleted meanwhile, it cites something, and    *)
(* each version it cites was switched to by a completed publication to a   *)
(* generation that has been active; a question of general scope rests on   *)
(* verified claims alone (evidence.py resolve, retrieval.py retrieve,      *)
(* verification.py, planning.py).                                          *)
AnswersCitePublished ==
  \A r \in Requests : answerRun[r].status = "ANSWERED" =>
    LET answer == answerRun[r].result IN
    /\ answer.cites # {} /\ generation[answer.generation] # "STAGING"
    /\ ArePublished(answer.cites) /\ SuitsScope(answerRun[r].question, answer.cites)

(* What a call carries, at every point of it: the run it is made for, a    *)
(* generation that has been active, hits of the quality that its question  *)
(* asks for and, once they are resolved, of completed publications.        *)
AskerInOrder(a) ==
  LET row == asker[a] IN
  ~AskerAt(a, "idle") =>
    /\ row.request \in Requests /\ row.told = None
    /\ answerRun[row.request].status # Absent /\ answerRun[row.request].question = row.question
    /\ ~AskerAt(a, "plan") =>
         row.generation \in Generations /\ generation[row.generation] # "STAGING"
    /\ row.at \notin {"plan", "search"} => SuitsScope(row.question, row.found)
    /\ row.at \in {"draft", "write", "complete"} => ArePublished(row.found)
    /\ row.at \in {"write", "complete"} => row.found # {} /\ row.text \in Texts

ResultsAreOwn ==
  \A r \in Requests :
    answerRun[r].status \in {"ANSWERED", "REFUSED"} => answerRun[r].result.request = r

(* The inductive invariant of answering, beside that of the services that  *)
(* change the knowledge meanwhile.                                         *)
AnswersInv ==
  /\ AnswerTypesOK /\ LifecycleInv
  /\ \A a \in Askers : AskerInOrder(a)
  /\ ResultsAreOwn /\ ToldIsRecorded /\ AnswersCitePublished

(* A request whose call was aborted does not stay IN_PROGRESS: asked       *)
(* again, it is answered or refused (service.py _replay).                  *)
RequestsEnd ==
  \A r \in Requests :
    (calm /\ answerRun[r].status = "IN_PROGRESS")
      ~> answerRun[r].status \in {"ANSWERED", "REFUSED"}
===============================================================================
