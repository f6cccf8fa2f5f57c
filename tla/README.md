# A formal model of the trustworthy personal knowledge assistant

This directory holds TLA+ models of the assistant in `src/`, the TLC
configurations that check them on small instances, and TLAPS proofs of the
central properties for instances of any size. Every definition that stands for
code is listed in `PROJECT.json` under `map` with the lines it stands for.

## 1. The system

A private knowledge base is kept in four stores that no transaction spans: an
Obsidian vault of Markdown files, a SQLite control database, a vector database
(one collection per *index generation*) and private snapshot directories.
Knowledge moves through five layers.

| Layer | State it keeps | Operations | Hard part |
|---|---|---|---|
| L2 ingestion (`ingestion/`) | sources, source versions, blocks, ingestion runs and items | scan, plan, apply one item, reconcile a run | runs frozen at planning time and applied later; crash leaves a run or an item half-way; files change meanwhile; idempotency leases |
| L3 governance (`governance/`) | governance runs and items, claims, evidence, checks, review requests, knowledge changes | extract, search, fetch, verify, decide, review | calls of models and of the web that fail at any point; resuming without doing twice; claims shared by changes |
| L4 publication (`publication/`) | notes, curated versions, publication runs, index jobs, index generations, vault files, vector rows | publish, delete and restore a note, rebuild, promote, roll back and abort a generation, reconcile, retrieve | sagas over three stores, several callers, no lock shared between services |
| L5 answering (`answer/`, `api/`) | answer runs, answer snapshots | plan, retrieve, generate, verify citations, record; stream to a client | the knowledge changes while an answer is produced; deletion purges snapshots |
| Foundations (`persistence/`, `domain/`, `llm/`, `config/`) | audit log, idempotency records | unit of work, compare-and-set, transitions, model calls | revisions compared with what was read earlier |

The layers call downwards and share the database. The pieces of L4 interact
most closely: `PublicationRunner`, `NoteLifecycleService` and
`GenerationLifecycleService` are different objects, possibly in different
processes, that read and write the same notes, jobs and generations, the same
vault paths and the same collections. What stands between them is the
repository's comparison of revisions inside a savepoint, the vault's comparison
of content hashes, and the rule that a vector row is visible only when it
belongs to the note's current version and generation
(`resolve_current_versions`).

What makes each component correct:

* **Publication**: a reader sees the old version or the new one, never a mix or
  a half-published one; whatever crashed, a rerun of the operation id completes
  it; a change is activated exactly once; the old version stays available; a
  person's edit is not lost.
* **Note lifecycle**: a deleted note leaves recall before anything of it is
  erased; a confirmed deletion left no chunk and can be undone; both can be
  rerun to completion.
* **Generation lifecycle**: one generation is ACTIVE; every live note is served
  from it, with all of its chunks; what a rollback needs is kept.
* **Ingestion**: one active run per vault; a plan is frozen once and stays
  applicable however late it is applied; an item is settled once and announces at
  most one change, which follows on the version current until then; what is
  current has passed the parser and the safety scan; a crash does not block the
  vault.
* **Governance**: a change is cleared for publication only when it has been judged
  as a whole and no review of it is open; a verdict has its evidence on record,
  also when two changes share a claim; no change is lost in VALIDATING.
* **Answering**: one result per operation id, and callers are told that one; an
  answer cites only what has been published, of the quality its scope asks for; a
  request that was interrupted ends when it is asked again; the purge of answers
  does not keep a deletion from completing.
* **Reconciliation**: a served note whose rows were lost gets them back, and
  nothing else is touched.
* **Operation log**: what it says has happened, although a switch and its entry are
  two transactions.

`PROJECT.json` lists every component with its status, and every hazard at its
line with the properties that cover it, or why none does.

## 2. The modules

```
PublicationRequests      identities, and what an operation id is bound to
  |- PublicationRepository   tables and writes of a publication   (uses StateTransitions)
  |    |- LifecycleRepository    deletion, restoration, generation switch
  |- AtomicVaultPublisher    staging, final and archived files
  |    |- VaultRecycling         the trash
  |- GenerationIndexer       vector rows per version and generation
PublicationRunner        the publish saga: N workers, faults, crashes, manual edits
NoteLifecycle            delete and restore, step by step
GenerationLifecycle      rebuild, promote, rollback, abort, step by step
KnowledgeLifecycle       the three of them over one set of stores
AtomicPublication        what a reader is promised by publication alone
KnowledgeServing         what a reader is promised by all three services
GenerationOperations     generation calls under operation ids, and the operation log
Reconciliation           the reconcile command beside the three services
IngestionPlanner         what a scan says about the known sources (pure)
  |- SourceRepository        sources, versions, places in the vault (uses StateTransitions)
  |- IngestionRepository     runs, items, announced changes           (uses StateTransitions)
       |- IngestionService       apply_item: one item, one unit of work
IngestionRunner          the scan of a vault: callers, edits, faults, crashes
IngestionLedger          what consumers of the announced changes are promised
EvidencePackBuilder      which fetched pages are put before the verifier (pure)
  |- QualityPolicy           what a claim's findings amount to (pure)
       |- KnowledgeRepository    claims, origins, evidence, checks     (uses StateTransitions)
            |- GovernanceRepository  runs, items, reviews, changes      (uses StateTransitions)
GovernanceRunner         governance: processes, reviewer, faults, crashes, publication
KnowledgeChanges         what governance promises of a change
AnswerRepository         answer runs and the snapshot store           (uses StateTransitions)
TrustedAnswers           the answer service over Reconciliation, and the purge by a deletion
MC*                      finite instances
*_proofs                 theorems and their proofs
```

The repositories, the vault and the indexer are modules of operators over shared
variables; the actors' modules turn them into actions. This is the division of
the code: `PublicationRepository.activate_publication` is an operator,
`PublicationRunner._activate` is three actions (`VerifyActivation`,
`ReadActivationRows`, `Activate`), because the code verifies the file before it
opens the unit of work, reads the rows and their revisions, and commits against
those revisions.

**Granularity.** One unit of work is one step: its writes happen in one savepoint
and revisions are compared in it. Reads that precede the savepoint of
`activate_publication` are a step of their own. One call to the vault or to the
index is one step, except that the check of the vault's `publish` and its
`os.replace` are two (a person may save the file between them) and that an upsert
or a deletion of vectors may stop half-way (`IndexChunksPartly`,
`DeleteChunksPartly`). What a worker remembers between two of its steps is
explicit (`seen` in `PublicationRunner`, `lifecycle` and `migration` in the other
two), so that acting on something stale is part of the model.

**Data.** Content is the operation that produced it: a version, its artifact, its
hash and its chunk set are all named by the operation id, since the planner and
renderer are deterministic. A file is a version, nothing, or `ManualContent`. The
vectors of a version in a generation are `none`, `partial` or `complete`. A
revision is represented by the row it guards: rows are compared for equality.
That is coarser than a counter where a row returns to an earlier value between the
two reads (a note deleted and restored, a generation switched away and back): the
code refuses the write then, the model allows it, so the model has every behaviour
of the code there and a few more.

**PublicationRunner.** `tables` are the six status columns; `pc`, `operation` and
`seen` are one call of `publish` per worker. Actions follow the loop of `publish`:
the run's status selects the phase, each phase ends by committing the run's next
status and reloading the context. `Fail` is the `except` branch, `ResumeFailed`
chooses the state to resume from the artifacts that still verify. `Fault` makes a
step raise before it has an effect, at the points `FaultPoints` allows; `Crash`
forgets a worker. `calm` is an auxiliary variable: once it is TRUE no fault or
crash happens, which is how the liveness properties say "if things stop failing".

**NoteLifecycle.** A call is `lifecycle[s]`, the label of the next step and the
version, generation and job status loaded last. `delete` is `DeleteNote`,
`ExcludeNote` (the soft delete), `ReloadExcluded`, `RecycleFile`, `EraseVectors`,
`ConfirmDeletion`; `restore` is `RestoreCall` and, depending on what it found, the
verification and reindexing of a live note or `ReopenIndex`, `IndexRestored`,
`MarkRestored`, `ReturnFile` and `AdmitNote`, with a reload after each commit.

**GenerationLifecycle.** A call is `migration[m]`: the target, the version being
worked on and the versions still to do, listed when the call began. `rebuild`
opens a job, indexes, marks and verifies each of them; `promote` and `rollback`
check each and then switch everything in one unit of work (`CommitSwitch`).

**KnowledgeLifecycle** adds no behaviour: its next-state relation interleaves the
steps of the three services, each with the others' private variables unchanged.

**IngestionRunner.** `sources` are the source rows with their location (written
together, moved together, deleted together); `runs`, `items` and `changes` the
ledger. The file at each path of the vault and its identity (the file key, kept
by a rename and lost by an editor that saves by replacing) are `vault`, edited at
any moment. A caller's `call` is one execution of the workflow's graph: `BeginRun`
(unit of work), `ListInventory` (reads the run, lists the files), one
`CaptureFile` or `CaptureFailure` per file, `LoadKnownSources` (a read, and the
planner), `SavePlanRun` (unit of work, which looks at the run again),
`ListPendingItems`, then for each item a preparation outside the unit of work
(`PrepareItem`, `FailToPrepareItem`) and the unit of work that settles it
(`ApplyPreparedItem`, `MarkItemFailed`), and `ReconcileRun`. The file is read
twice, for the plan and for the item, and the known sources between: what the plan
says may be old when it is applied, which is what the properties are about.
`Raise` is the way out through `fail_planning_run`. A version is named by its
content, unique within a source; an item is the plan item it was made from; what
parsing and the safety scan may make of a content is the constant `Preparation`.
A resumed graph may start at a later node than the inventory, but the nodes it
skips would find their work done and write nothing, so every call of the model
starts there. The idempotency record of an item is written in the item's own unit
of work and shares its fate.

**GenerationOperations** puts a caller in front of `GenerationLifecycle`.
`request[m]` is what a worker was called for and under which id, `log` the latest
entry of each id, which is all that `_replay` and `_append_audit` read. A call of
`promote` or `rollback` is `CallSwitch` (the log is read), `BeginSwitch` (the
notes are listed), the checks (`Works`), `Switch` and `RecordSwitch`. The last two
are two steps because the code commits twice: `promote_index_generation` runs
inside `begin_nested` with no transaction around it that has begun, and SQLite
commits when its outermost savepoint is released, so the entry appended afterwards
belongs to the next transaction. `rebuild` and `abort` write nothing inside a
savepoint that matters, and end with their entry. Every call that ends without
changing anything is `Raises`.

**GovernanceRunner.** `knowledge` (claims, evidence) and `ledger` (changes, runs,
items, reviews) are the tables; `call[w]` is one execution of `run_change`, with
the claims still to evaluate and the check each had when it was extracted, which
decides between `CompleteReusedClaim` and `DecideClaim` however late. `BeginRun`,
`PersistExtraction`, `DecideClaim`, `Reconcile`, `FailRun`, `FailItem` and
`Decide` (the reviewer) are one unit of work each. A claim is a fingerprint and an
incarnation, since a fingerprint whose claim is terminal is proposed anew. What
search and fetch return, and what the verifier says of it, is any choice the code
admits: `Materials` are the pages of the supporting and the challenging search,
`PackOf` orders and cuts them as `EvidencePackBuilder.build` does, `Evaluate` is the
policy. `Publish` is publication as the consumer: it takes over the claims that
`curation_claims` selects.

**TrustedAnswers.** An asker is one call of `stream`; `asker[a]` holds the
generation read before the search, the hits that are left and the draft. The search
may return any subset of what the collection holds and the filter admits, the
generator may cite anything, the verifier may accept anything that is cited: what
makes the answer trustworthy is only what the code compares. `Refuse` is possible
wherever the code refuses, `AbortAnswer` anywhere. Writing a snapshot is two steps,
since its temporary file is what makes a concurrent purge raise
(`EraseAndFailPurge`).

**Reconciliation.** `reconciler[c]` is one run of the command with the versions it
listed. It rereads nothing: a version is repaired although its note may have been
replaced or deleted after the listing. `LoseRows` is the drift it exists for.

### Where the models are narrower than the code

* `MaxAttempts` saturates the attempt counter; nothing reads it but the guard of
  a retry, which has no limit in the code.
* In `KnowledgeLifecycle` publication steps do not fail (they do in
  `PublicationRunner`), and no operation is begun on the path of a deleted note,
  where the code would create a second note with that path.
* In ingestion, `retry_item` (no caller in the code) and the status ABANDONED
  (nothing sets it) are left out, as are blocks, structural differences and
  snapshots, which are written beside a version and decide nothing. A call for a
  run that has ended returns its report and is not made. Changes stay RECEIVED
  there: `GovernanceRunner` starts from such changes, and `PublicationRunner` from
  changes that governance has cleared.
* In `GovernanceRunner`, publication is one step (`PublicationRunner` is where its
  steps are), scores are the bands the policy compares them with, the relations
  between claims, which nothing reads, are left out, and so is QUARANTINED, which
  no verdict of the policy leads to.
* In `TrustedAnswers`, two refusal codes stand for all that are given before and
  after there is evidence; a deletion erases chunks and purges snapshots in one
  step, between which nothing that the properties see can happen; the requested
  version of a question is left out. The chunks of a version have one quality
  (`QualityOf`): in the code each chunk has that of its weakest claim, and a version
  of mixed quality, found by those of its chunks that pass the filter, is left out.
* The `reconcile` command is run with repair; rows that belong to no expected chunk
  do not arise, so their removal is left out.
* Of the operation log, the entries of generation calls are modelled; notes and
  ingestion write entries that nothing reads. The hash chain is left out: an entry
  that does not fit it raises, and entries of one id are appended one by one.
* The replay of a recorded switch writes nothing, so it is no step.
* `abort` does not erase vectors in the code either; the collection is left.

## 3. The runs

| Run | Instance | Shows |
|---|---|---|
| PublicationSerial | 1 worker, 2 versions of a note, faults everywhere but between staging a file and recording it, crashes, manual edits | files: `IndexedBeforeVault`, `FinalFileAccountedFor`, `SupersededIsArchived`, `SwitchedFileIsInPlace`, and the inductive invariant `FilesInv`, which contains `OrderInv`; `RerunsComplete` |
| PublicationConcurrent | 2 workers, both called for one operation and one also for the next version, faults and crashes everywhere | `ServedIsPublished`, `ActiveVersionIsServed`, `CompletionIsFinal`, refinement of `AtomicPublication`, and the inductive invariant `PublicationInv` |
| LifecycleServices | 2 versions of a note, 2 generations, one publisher, one deleter/restorer, one generation worker | `ServedIsInIndex`, `DeletedIsErasedAndKept`, `RetainedForRollback`, refinement of `KnowledgeServing`, and the inductive invariant `ErasureInv`, which contains `LifecycleInv` |
| LifecycleGenerations | 2 publishers, 3 operations on 2 notes and 2 generations, two for one change, one generation worker, every call under one operation id | `LogIsTrue`, `LiveNotesOnActiveGeneration`, `ServedJobIsActive`, `OneActiveGeneration`, `ChangeActivatedOnce` |
| IngestionScan | 1 caller, 2 runs, a vault of 2 paths, 2 file keys and 2 contents (one is quarantined), 1 edit; 3 sources; faults and crashes anywhere | `PlanStaysApplicable`, `AppliedItemsHold` |
| IngestionHistory | 1 caller, 3 runs, 1 path, 2 edits; one content is judged differently from scan to scan; failures until calm | `CurrentIsScreened`, `RunsEnd` |
| IngestionConcurrent | 2 callers on the same run or on different ones, 1 path, 1 edit | the inductive invariant `ScanInv`, which contains `IngestionInv`; refinement of `IngestionLedger` |
| Governance | 3 changes (two created, one deletes what the first created) with 2 fingerprints, one of them shared, the other high-risk; 2 processes, one page that supports or contradicts, a reviewer; failures and crashes anywhere | `PublishIntentIsDecided`, `RunAndChangeAgree`, `VerifiedIsSupported`, and the inductive invariant `GovernanceInv` |
| GovernanceLiveness | the two created changes, failures until calm | refinement of `KnowledgeChanges`, `ContentRunsEnd` |
| Answers | 2 askers under one operation id with 2 questions of different scope, 2 wordings; 2 versions of a note of different quality being published | `ToldIsRecorded`, `AnswersCitePublished`, and the inductive invariant `AnswersInv` |
| AnswersLiveness | 1 note published, deleted, restored, asked about and reconciled, with failures and lost rows until calm | `RestorationsComplete`, `RequestsEnd`, `DriftIsRepaired` |
| GovernanceReviewBypass | two content changes whose versions both state one high-risk public fact, 2 processes, one page | violates `HighRiskIsApproved` (below) |

Bounds. Two versions of one note are enough for a replacement and its archive
copy, and two workers for every race the code has between two calls, since what
they contend for is one row or one file. Two generations give a source and a
target, and a rollback to the source. Three operations let one change be carried
by two of them while another updates the same note. Every fault and crash may
happen any number of times. LifecycleServices has one caller of each of the three
services, which is what `ErasureInv` holds for (`OneCallEach`), and interleaves them
without restriction.

Ingestion: two paths and two keys let a file move onto the place of another that
was removed, and make keys and contents ambiguous; the initial vault is any. The
edits are bounded by `MaxEdits`, the runs by their number. One edit turns any
vault into one a rename or a save away, in the middle of a scan or between two;
two edits and three runs bring a path back to an earlier content, with one scan
for each. Sources are as many as the runs can create. Where ids
are interchangeable model values states are identified up to permutation; the
liveness run has numbers for ids and generates them in order
(`IdsInOrder`, an action constraint that loses no behaviour but renamings). These
runs and those of governance switch deadlock checking off, since the system stops when the run ids are used
up and every change is settled. `IdsInOrder` is the only bound that is not a size.

Governance: two processes called for one change, one of which goes on with the
others, give every overlap of two calls; two changes that share a claim and differ
in another give the reuse of a claim, its joint evaluation and a change with two
items; two incarnations let an outdated claim be proposed again. One page is enough
for support, contradiction, both (from the two searches) and none. Answers: with
one operation id the two askers always meet; two questions tell a conflicting reuse
of it from a replay; two versions let the source of an answer be replaced at any
point. In AnswersLiveness one asker is enough, since what it waits for is a purge
or itself. One operation id in LifecycleGenerations is used for every call, which
is the worst reuse there is; another id would only add entries that no call under
this one reads.

### What disagrees with the documentation

The run **GovernanceReviewBypass** ends in a violation, of a sentence of the L3
design (quoted in `PROJECT.json`): a high-risk claim, even a VERIFIED one, waits for a
person. In the trace ch1 finds the fact VERIFIED and asks for its review; ch2 extracts
the same claim, which has left PROPOSED, so its item is settled with the check of ch1
and no review (`_complete_reused_claim`); ch2 is reconciled to PUBLISH_INTENT while
the review is PENDING, and `curation_claims` would publish the claim, since it selects
by status alone. The reuse is the only way there: with `CompleteReusedClaim`
disabled TLC finds no violation in the 8 331 states of the instance. The property is
about content changes: a deletion may be cleared before another change proposes a
claim of the same version, and publishes nothing of its own.

Three more were found while modelling and are visible with an instance or a property
changed as said:

* A fault after the staging file is written and before the unit of work that records
  it (`publication/runner.py:427`; `RerunsComplete` with faults at every point).
  `_resume_failed` finds the file and resumes at VAULT_STAGED, skipping the step
  that takes the version from DRAFT to STAGING; the activation refuses the version
  on every rerun.
* `restore_note` does not look at the ACTIVE generation
  (`publication_repository.py:266`; `LiveNotesOnActiveGeneration` with a
  `NoteWorker`): a note deleted before a promotion comes back live on the
  superseded one, after which every promotion and rollback is refused.
* A note goes from a to b, which is quarantined, and back to a
  (`ingestion/planner.py:133`; `RunsEnd` without its exception). The planner compares
  the file with the latest version, b, and plans UPDATED;
  `_apply_existing_content` finds a current already and raises, on every call. The
  run stays APPLYING and no other run of the vault can begin.

More of the same kind, in publication, note lifecycle and ingestion:

* `publish` in the vault compares the hash of the final file and then replaces
  it; an edit saved between the two is overwritten.
* `mark_index_job_indexed` is called only while the job is INDEXING, but the run
  moves to INDEX_VERIFIED regardless: after a failure of another call for the
  operation the file reaches the vault with a FAILED job.
* With two workers on one note the file may be replaced between `_activate`'s
  verification and its unit of work (`SwitchedFileIsInPlace` fails).
* A note deleted while its next version already lies at the final path can never
  be recycled (`vault.py:199`); a promotion between the vault publication and the
  activation leaves that run without a way to complete.
* `delete` recycles the file and erases the vectors from what it loaded: when
  another call finished the deletion and the note was restored meanwhile, a live
  note loses them.
* A call that is about to index a version, the second of two publications of one
  operation or of two rebuilds of one generation, puts its chunks back when they have
  meanwhile been activated or switched to, and erased (`DeletedIsErasedAndKept` with
  two publishers called for one operation, or with two generation workers).
* Content that goes a, b (quarantined), a and b again is planned UNCHANGED the last
  time and its item SKIPPED, while a stays current.
* The command line never passes the id of an unfinished run, and nothing marks a run
  ABANDONED, though `2026-07-28-l2-ingestion-recovery-design.md:408` does so when
  checkpoints are lost: a vault whose run was interrupted then refuses every later
  run.

In governance:

* A page that both searches return enters the pack twice; judged with one stance
  twice, it violates the unique key of the evidence table and its item fails
  (`RefuseEvidence`). Two changes that evaluate one PROPOSED claim at once meet the
  same key: the later one's item fails.
* A MOVED or DELETED change whose call died between its two units of work stays
  VALIDATING for good: called again, `transition_run` refuses EVALUATING to
  EVALUATING. `ContentRunsEnd` is about the other changes.
* A late second call whose extraction finds the run ended fails the change
  (`_fail_run`), although it was already cleared for publication.
* A review that is answered before the run is reconciled leaves a change in
  REVIEW_REQUIRED with nothing left to answer.
* Of two processes deciding one claim, the first sets the status and the second the
  current check.
* A deletion outdates the claims of the note also where another note's changes share
  them, unlike the L3 design (`:438-441`, `:717`); claims still PROPOSED then are
  judged and verified afterwards. An UPDATED change never outdates the claims of the
  version it replaces.
* A call that dies after the extraction was stored cannot continue: called again, it
  extracts, is refused by `_persist_extraction` and fails the run, where the L3
  design (`:656-657`) resumes it.

In answering and reconciliation:

* A snapshot stored after the purge of a deletion survives it, with text of the note
  that was deleted; the purge covers the current version's chunks only.
* The temporary file of an answer makes a purge, and the deletion, raise. A file
  left behind by a process that died (`DiesWriting`) does so on every later
  deletion.
* A run replayed while IN_PROGRESS is executed a second time; the call that finishes
  second raises. An answer may be committed after its sources were replaced or
  deleted.
* A reconciler that verified a note's file before its deletion indexes its chunks
  again after the erasure; only the current-version filter hides them. A served note
  whose file was edited by hand is BLOCKED and its rows are not repaired.

In generation calls:

* A crash between a switch and its entry leaves a promotion that is done and not
  recorded; the call repeated is refused, since the target is no longer STAGING.
* A switch under an id that belongs to another generation is committed, and its
  caller told that it failed.
* The command line's default id, `generation:rollback:<id>` (`cli.py:232`), lets a
  generation be rolled back to once: the second time the entry is found and no longer
  matches the state.

### Fairness

`FairSpec`: weak fairness of a worker's `Progress`, since a call that has started
keeps running, and strong fairness of `ResumePublication`, an operator who reruns
what is unfinished; the documents make rerunning the operation id the recovery
procedure. Strong fairness is needed because a worker that is busy with
another call is not enabled to take this one. `FairSpec` of
`IngestionRunner` is weak fairness of a caller's `Step` and strong fairness of
calling an active run again, which `run_ingestion_workflow` offers through its
`run_id` (the command line does not use it, see above): `RunsEnd` says what
calling again achieves. `FairSpec` of `GovernanceRunner` is the same for `Step` and
`Recall`, a call of `run_governance_workflow` with the change's id. `FairTrustedSpec`
has weak fairness of an asker's steps and of the reconcile command, which an operator
runs again and again, and strong fairness of asking a question again and of
repeating, for a note that is not live, its deletion and its restoration: nobody need
delete a live note, and publication may stop at any point. No fairness is put on
faults, crashes, edits, the reviewer or calming down: the liveness properties assume
`calm`.

## 4. The proofs

For any numbers of operations, changes, notes, generations and workers, under
the assumptions on the constants in `PublicationRequests`, `AtomicVaultPublisher`,
`PublicationRepository` and `PublicationRunner` (an operation is bound to one
change, note and generation; NULL and manual content are none of them).

`PublicationRunner_proofs`:

* `TypeCorrect`: `Spec => []TypeOK`, one step per action.
* `PublicationCorrect`: `Spec => []PublicationInv`. That what is served is
  published is not inductive alone: nothing in it says that a version is ACTIVE
  only when its run has completed, so a failing worker could reopen a served run.
  The strengthening ties the version, the run, the job and the change of an
  operation together (`CompletedIsActivated`), gives an ACTIVE change a unique
  completed run (`ActiveChangeHasOneRun`), and ties the job and the program
  counter to the index (`IndexedIsProbed`). The proof splits into steps that
  write no table the invariant mentions and the few that do; the activation is
  the one that needs all of it.
* `ServedContentIsPublished`, `ActiveVersionsAreServed`, `GenerationIsUnique`,
  `ChangesAreActivatedOnce` follow from it (the last by a cardinality argument),
  `CompletedRunsAreFinal` is the action property, and `PublicationIsAtomic` the
  refinement of `AtomicPublication`.

`KnowledgeLifecycle_proofs` does the same for the composition. `LifecycleInv` is
weaker per operation, because deletion and promotion write jobs of completed
runs, and keeps what survives: a note, deleted or not, points to an ACTIVE
version of its own whose run is completed (`PointersAreActivated`), so that a
restoration may put it back by looking at the note and the job only. Proved are
`LifecycleTypesCorrect`, `LifecycleCorrect`, `ServedJobsAreActive`,
`LifecycleGenerationIsUnique` and `LifecycleServesAtomically`, the refinement of
`KnowledgeServing`. Steps are classified as those that leave the control tables
alone, those that move only jobs no served note resolves to, and the five kinds that
switch something.

It goes on with two properties that the runs check of generation calls:

* `LifecycleChangesAreActivatedOnce`: `[]ChangeActivatedOnce` of the composition; a
  completion survives every service, so that the change of a completed run is ACTIVE
  and no second run can find it in PUBLISH_INTENT.
* `OnlyRestorationsStrandNotes`: a step after which a served note is no longer on the
  ACTIVE generation, although all were, is the restoration of a deleted note. This is
  the disagreement described above turned round: nothing else does it, because a first
  publication and a switch look for live notes elsewhere and an abort takes a STAGING
  generation only. `ServedNotesAreOnActive` follows where `NoteWorkers = {}`.

and with the index and the trash, under `OneCallEach`: an operation is published by one
call at a time (`OneCallPerOperation`), one deletion or restoration and one generation
call are made at a time, and the three kinds run beside each other.
Each of the three assumptions is needed: without the first or the third a late call
indexes again what a deletion has erased, without the second a late deletion erases
what a restoration has brought back (see section 3).

* `ErasureCorrect`: `OneCallEach => (LifecycleSpec => []ErasureInv)`. None of the three
  properties is inductive. That a served note is complete in the index needs
  `IndexKept`: chunks are complete wherever a job is INDEXED or ACTIVE_INDEXED, and also
  where it is DELETE_PENDING in a generation the note does not point to. The same status
  means an erasure under way on the row the note points to, and a retained copy on any
  other; a switch turns the one kind of row into the other, so both have to be carried.
  `NoteCallHolds`, `GenerationCallHolds` and `PublishCallHolds` say what a call relies on
  between two of its steps: a deletion works on the row the deleted note points to,
  and behind the recycled file; a rebuild works on completed versions in a generation
  nobody is served from; what a publication indexes is not completed.
* Every step is then of one of three kinds. It is *beside* what notes point to
  (`StaysBeside`: publication before its activation, rebuild, abort); or it moves pointers and
  writes no chunk, from one complete row to another, of notes that are not deleted
  (`PointersMove`: activation and switch); or it writes the single row that its call works
  on (`OneRow`: deletion and restoration). A few lemmas per kind say what it keeps of the
  index, of the trash and of the calls of the others.
* `ServedNotesAreInIndex`, `DeletionsEraseAndKeep` and `RollbacksFindTheirChunks` follow.

`PublicationFiles_proofs` does the same for the files of one publication, with manual
edits, faults and crashes anywhere (`Spec` of `PublicationRunner`):

* `IndexComesFirst`: `OneCallPerOperation => (Spec => []IndexedBeforeVault)`. `OrderInv`
  adds that the job of a run is as far as its status says (`JobKeepsUp`), and that what a
  call has read of its run still holds when it acts on it (`CallAgrees`). A run that is
  resumed because its file is already in place therefore has its job INDEXED. With
  two calls for one operation this fails, see above.
* `FilesCorrect`: `OneCallPerNote => (Spec => []FilesInv)`, with
  `FinalFilesAreAccountedFor`, `SupersededVersionsAreArchived` and the action property
  `SwitchedFilesAreInPlace` as consequences. The strengthening: where the next version
  lies at the final path, the current one is in the archive, however often the run was
  interrupted since; and a call that has verified the file finds it there, or a person's
  edit, when it switches. The proof separates what a step does to its own operation and
  note (`KeepsOrder`, `NextIsBacked`) from the rest, which it leaves alone because no
  other call is about them.

`IngestionRunner_proofs`, under `NoneAssumption` and `IngestionAssumption` (scopes
are sets of paths, every content has some outcome of preparation):

* `IngestionCorrect`: `Spec => []IngestionInv`, and `IngestionTypesCorrect` from
  it. That types hold is not inductive alone: applying an item needs the item a
  caller holds to be in the plan of its run, however long ago it was listed
  (`CallsHoldPlannedItems`), and that a plan, once frozen, is not replaced, because
  only a PLANNING run has an empty one (`OnlyApplyingRunsHavePending`).
* `LedgerImplemented`: `Spec => ImplementsIngestionLedger`. The argument has two
  halves. `ItemSettled` looks at `apply_item` alone: each of its eight ways
  either leaves the served versions as they were, or succeeds with one change that
  is based on the version served and says what is served next. `StepsOfTables`
  reduces every step of the system to five effects on the tables, or none, and the
  invariant and the refinement are then proved per effect; that a change is new
  comes from `ChangesComeFromItems`.

`IngestionPlans_proofs` goes on from there to what scans do to the sources, with
`ScanInv` (`ScansCorrect`: `Spec => []ScanInv`):

* `PlansStayApplicable` and `AppliedItemsLast`. `PlanIsSound` and the lemmas before
  it look at the planner alone: it matches places and sources one to one, so that its
  items name each source and each path once and every item can be applied to the
  sources it was made from (`Awaits`). That this still holds when the plan is saved,
  and when its last item is applied, is `PlansAreSound`: one run of the vault is active
  at a time, so no other plan is applied between, and an item of the plan itself takes
  nothing that another one of it awaits.
* `CurrentVersionsAreScreened`. A version is READY only if the parser and the safety
  scan may let its content through, and a caller that died, was overtaken or is late
  carries only outcomes its document may have (`PreparationsAreTrue`). The lemmas from
  `ScreenedRow` on look at the four writes of a source row, the step lemmas at who
  makes them.

`GenerationOperations_proofs` rests on `KnowledgeLifecycle_proofs`:

* `OperationsImplementLifecycle`: `OperationsSpec => LifecycleSpec`, so that what is
  proved of `LifecycleSpec` holds of calls under operation ids; it needs that a
  request names a generation (`OperationsTypesCorrect`).
* `OperationLogIsTrue`: `OperationsSpec => []LogIsTrue`. `CalledFor` ties a worker's
  request to what it is at work on, and says that a promotion or rollback whose work
  is over and whose entry is still to be written has switched to its target.
  `EveryStepMovesOn` shows that no step of any service takes a generation that was
  switched to back to STAGING or FAILED, or one that was aborted out of FAILED, so
  that an entry that was true stays true.

`GovernanceRunner_proofs`, for any drafts, pages, processes and failures:

* `VerdictsNeedAuthority`: whatever is found, `Evaluate` verifies or rejects a claim on
  its facts only with a page of an authoritative tier that says so.
* `GovernanceCorrect`: `GovernanceInv` holds with and without failures that cease. The
  three properties (`ClearedChangesAreDecided`, `RunsAndChangesAgree`,
  `VerdictsHaveEvidence`) hold because one call examines a change (`OneExaminer`): the
  extraction is stored once, the call that stored it is the only one with claims to
  evaluate, and its pending claims are exactly the items nobody has settled
  (`CallInOrder`). A late call fails or completes nothing behind its back.
* `GovernanceKeepsItsPromise`: the refinement of `KnowledgeChanges`, with the pending
  reviews of a change as its open questions.

`TrustedAnswers_proofs` rests on `KnowledgeLifecycle_proofs`:

* `AnswersCorrect`: `AnswersInv` holds of answering beside publication, deletion,
  restoration and reconciliation, before and after failures cease
  (`TrustedSpecCorrect` says it of the two specifications that TLC checks, and
  `AnswerTypesCorrect` is part of it). The control tables change only by steps of
  `KnowledgeLifecycle`, and `KnowledgeLasts` says what of them lasts: a completed
  run stays completed, a version that was switched to stays ACTIVE or SUPERSEDED, a
  generation that left STAGING does not return. So what an asker read before its
  search and resolved after it still holds when its answer is stored
  (`AskerInOrder`), however much was published or deleted meanwhile.
* `AnswersRestOnPublications` and `CallersAreToldTheRecord` follow from it.
* `TrustedServesAtomically` and `TrustedChangesAreActivatedOnce`: since the control
  tables change only so, the refinement of `KnowledgeServing` and the one activation of
  each change, which the runs check of the three services, hold with reconciliation,
  answering and purges that fail beside them too.

Every safety invariant and every action property that a passing run checks is stated by
a theorem. The hypotheses that some of them carry (`OneCallPerOperation`,
`OneCallPerNote`, `OneCallEach`, `NoteWorkers = {}`) are about how the services are
called; the code does not enforce them, and section 3 gives the behaviours that break
the properties where calls overlap. Model-checked only: the liveness properties
(`RerunsComplete`, `RunsEnd`, `ContentRunsEnd`, `RestorationsComplete`, `RequestsEnd`,
`DriftIsRepaired`), since fairness and ENABLED are beyond the proof system.

## 5. The plan

Modelled, checked and in part proved: publication, deletion and restoration,
generations with their operation log, ingestion, governance, answering and
reconciliation. Next, in this order:

1. Proofs about reconciliation: that it writes only rows of versions that were current
   when it listed them, and what of `ErasureInv` survives it.
2. `OneCallEach` per note instead of for all notes, which needs calls that are
   assigned to notes.
3. Paths: a deleted note's path taken by a new note, met by the restoration.
4. The structural difference of two versions, as a function of two lists of blocks.

Not modelled, and why:

* Markdown parsing, path normalisation, pattern screens, rendering, chunking, ranking
  and metrics: data algorithms on text and numbers without protocol state. The models
  use what they guarantee (the same content gives the same hash and chunk ids).
* The clients of models, of the web and of the vector database, beyond the results
  that their callers distinguish; the LLM gateway's retries around one external call.
* The HTTP API: routing and streaming around one call of the answer service, whose
  disconnection is `AbortAnswer`.
* Idempotency leases: `apply_item` takes and completes one in the transaction of the
  item, so no call ever finds a live lease; its outcome is the item's.
* Configuration, command lines, evaluation, migrations: no state of their own. The
  uniqueness constraints of the schema are guards of the repositories' modules.
