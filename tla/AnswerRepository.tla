--------------------------- MODULE AnswerRepository ---------------------------
(***************************************************************************)
(* The hash-only records of answered questions                             *)
(* (persistence/answer_repository.py) and the private store of the         *)
(* answers themselves (answer/snapshot_store.py).  An operation id names   *)
(* its run; an answer is named by what it says, whom it cites and the run  *)
(* it was made for, which is what its hash is taken of.                    *)
(***************************************************************************)
EXTENDS PublicationRequests, StateTransitions

CONSTANTS
  Requests,    \* operation ids of answer requests
  Questions,   \* what may be asked under them
  Texts        \* wordings that a model may give an answer

VARIABLES
  answerRun,   \* the run of each operation id
  stored,      \* answers in the snapshot store
  leftover     \* a temporary file of a process that died is in the store

answers == <<answerRun, stored, leftover>>

(* One code stands for all that are given before there is evidence, one    *)
(* for all that are given after.                                           *)
RefusalCode == {"NO_TRUSTED_EVIDENCE", "CITATION_VALIDATION_FAILED"}

(* AnsweredResult and RefusedResult                                        *)
Answer ==
  [request : Requests, text : Texts, cites : SUBSET Operations, generation : Generations]
Refusal == [request : Requests, reason : RefusalCode]

AnswerRow ==
  [status : {"ANSWERED"}, question : Questions, result : Answer]
    \cup [status : {"REFUSED"}, question : Questions, result : Refusal]
    \cup [status : {"IN_PROGRESS"}, question : Questions, result : {None}]

NoRun == [status |-> Absent, question |-> None, result |-> None]

AnswersTypeOK ==
  /\ answerRun \in [Requests -> AnswerRow \cup {NoRun}]
  /\ stored \subseteq Answer
  /\ leftover \in BOOLEAN

AnswersInit ==
  /\ answerRun = [r \in Requests |-> NoRun]
  /\ stored = {}
  /\ leftover = FALSE

-----------------------------------------------------------------------------
(* add_run                                                                 *)
AddAnswerRun(r, q) ==
  answerRun' = [answerRun EXCEPT ![r] =
    [status |-> "IN_PROGRESS", question |-> q, result |-> None]]

\* mutant: the revision is not compared
CanFinishAgain(r, status) == answerRun[r].status # Absent

(* A run changes once, from its first revision, so comparing the revision  *)
(* is the same as asking whether it is still in progress.                  *)
CanFinish(r, status) == CanTransition(AnswerRunTransitions, answerRun[r].status, status)

\* mutant: the run is closed without what it ended with
FinishBlank(r, status, result) == answerRun' = [answerRun EXCEPT ![r].status = status]

(* complete_answer and refuse                                              *)
Finish(r, status, result) ==
  answerRun' = [answerRun EXCEPT ![r].status = status, ![r].result = result]

-----------------------------------------------------------------------------
Citing(v) == {s \in stored : v \in s.cites}

(* purge_by_chunk_ids, for the chunks of one version.                      *)
Purge(v) == stored' = stored \ Citing(v)

(* It meets the temporary file of an answer before it has seen them all.   *)
PurgePartly(v) == \E purged \in SUBSET Citing(v) : stored' = stored \ purged
=============================================================================
