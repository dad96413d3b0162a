# A TLA+ model of ReDBox Portal's durable integrations

ReDBox Portal is a Sails application that keeps research-data records in MongoDB, runs configured
hooks when they are saved, and talks to other systems: Figshare, harvesters, a job queue, DOI and
RAiD services. Most of the repository is request handling, forms and user interface. The part in which
several processes work on shared durable state, and in which a missed step loses somebody's data, is the
queued Figshare synchronisation (`src/packages/redbox-core/src/services/figshare-v2/`), the part of the
Mongo storage and record services it depends on, the harvest runs and the job queue under them. This
project models those, in the order of the plan below.

## Inventory

### Queued Figshare synchronisation

| part | state it keeps | operations | interacts with |
| --- | --- | --- | --- |
| Source intent (`MongoStorageService`, `RecordsService`, `source-intent.ts`) | `record.figshareSyncIntent`: generation, pending, readiness, the merged saves | merge a save into the intent, ready it, abandon it, promote stale ones, acknowledge | written by every save; read by the dispatcher, the wake-up and the worker |
| Synchronisation document (`sync-store.ts`) | one `figsharesync` document per record: import mark, three kinds of work (`sync`, `cleanup`, `observe`) with requested/processed/dueAt, lease, revision, outcome | `importSource`, `claim`, `renew`, `change` (a compare-and-set loop), `release`, `due`, `dispatchClaim` | shared by all processes |
| Worker (`worker.ts`) | a snapshot of the work it claimed, a heartbeat, the document of its last checkpoint | `runFigshareWorker`: sync, cleanup, observation, error handling | checkpoints through the lease; re-reads the record; Figshare's API |
| Remote protocol (`worker.ts`, `identity.ts`, `http.ts`, `execution.ts`) | persisted operation evidence: `create`, `publish` | create with a token in the title and recover by it; publish once per content | Figshare may execute a request after the worker gave up on it |
| Managed assets (`managed-assets.ts`, `embargo.ts`) | receipts of files the record owns remotely | stage, initialise, upload, complete, replace, delete | Figshare's file API, the datastream |
| Administration (`admin.ts`) | takes the same lease | link, relink, resume, abandon-create, reset-publish, bind-file, resume-upload, migrate | verifies remotely before it locks, re-checks under the lock |
| Dispatcher (`dispatchFigshare`) | none of its own | recover stale intents, import ready ones, send jobs for due work | a recurring Agenda job |

What is hard: saves overlap each other and the import of earlier saves; the process may stop at any point
between two Mongo updates or between a remote request and its checkpoint; queue jobs are lost, repeated and
late; a worker can outlive its lease; decisions are taken on documents read some steps earlier. What makes
it correct: a written save is never lost and never imported early; a request that arrives during a run is
not swallowed by it; no save is reported as synchronised from an older record; whatever is owed is carried on or visibly given up;
one record has one article; an uncertain remote request is never repeated.

### Harvest runs

`HarvestRunService` keeps a run per source run, a chunk row per attempt at a chunk, one event per processed
record, and counters in chunks and runs. A chunk is submitted over HTTP, recognised by content hash, resumed
from its events after a failure, and taken over when its row is stale. Hard: two submissions of one chunk at
the same time, a slow attempt that was declared stale and goes on, a stop between the chunk's completion and
the run's counters, a rollback that fails. Correct: a record of a chunk is processed once, and a run's
counters are the sum of its processed chunks.

### Job queue

`AgendaQueueService` starts Agenda on MongoDB or on SQS, schedules the configured recurring jobs and moves
completed jobs to a history collection. `agenda-sqs-backend` maps Agenda's repository to SQS: a received
message of another job's name is buffered in memory while its visibility timeout runs. `agenda-patched`
holds a patch to Agenda's processor that adds a watchdog. Hard: a buffered message becomes visible again and
is delivered twice; a job is rescheduled while the archiver moves it.

### Everything else

Records and hooks, users, branding, translations, vocabularies, named queries, reports, workspaces, DOI,
RAiD, ONI and RDMP integrations, Solr indexing, e-mail, triggers, forms and their Angular applications. Each
is listed in `PROJECT.json` with the reason it is not modelled: for most, its state changes are single
database updates in answer to one request, or it is a user interface or generated code.

## Plan

The order is that of what a mistake costs: first what may lose a save, then what may leave a record behind,
then what cannot be taken back at Figshare, then the other components with durable state.

1. `SourceIntent` with its proofs (done): the intent in the record and its import.
2. `SyncWork` (done): the work ledger, leases, jobs and the reported outcome.
3. `FigshareRemote` (done): creation, content and publication with their evidence, with its types and four theorems.
4. `SyncStore` (done): `change` as the compare-and-set loop it is, shown to implement the atomic document
   `SyncDocument`, by TLC and by proof. `SyncWork`, `FigshareRemote` and `ManagedAssets` take the atomic
   document for granted.
5. `HarvestRuns` (done for tracked chunks): concurrent and resumed submissions, stale takeover, events, rollback,
   run counters.
6. `ManagedAssets` (done for hosted files and URL links): upload and deletion receipts, interrupted uploads, the operator's
   bind-file and resume-upload.
7. `RecordWrites` (done for updates): saves and background writes of one record, composed with its intent and ledger.
8. Left: `cleanupProjection` and embargo in `ManagedAssets`; link, relink and migrate; `JobQueue`
   (the SQS repository's buffer with its visibility timeouts, the move of completed jobs to the history); RAiD
   mint retries.

Runs stay small: two of whatever competes, one or two failures, and one run per question. Every safety property
that a run expects to hold is proved, some under a hypothesis that the section on proofs states; theorems come next for what 8 adds.

## Modules

| module | what it is |
| --- | --- |
| `SourceIntent` | the intent protocol of one record: overlapping saves, their hooks, importers, stale recovery |
| `MCSourceIntent` | its instance for TLC |
| `SourceIntentProofs` | its theorems, proved for any saves, kinds of work and importers |
| `SyncWork` | the work ledger of one document: imports, jobs, workers with leases, an operator |
| `MCSyncWork` | its instance for TLC |
| `FigshareRemote` | what a run does at Figshare: one article, its content, its publications, an operator's repairs |
| `MCFigshareRemote` | its instance for TLC |
| `SyncDocument` | what the store promises: one document, each call atomic, holders with leases |
| `SyncStore` | the store as it is: revisions, retries, a clock, heartbeats under way; implements `SyncDocument` |
| `MCSyncStore` | its instance for TLC |
| `HarvestRuns` | tracked harvest chunks: attempts, events, records, run counters |
| `MCHarvestRuns` | its instance for TLC |
| `ManagedAssets` | the hosted files of one article: receipts, uploads, deletions, an operator |
| `MCManagedAssets` | its instance for TLC |
| `RecordWrites` | who writes a record, over what: ordinary saves and the worker's conditional writes |
| `MCRecordWrites` | its instance for TLC |
| `FigshareCreationProofs` | types, and that a record has one article, proved for any constants |
| `FigsharePublicationProofs` | that the same content is not submitted again, and that what was observed is public, and what was checkpointed is at the article, while updates come in time |
| `SyncStoreProofs` | types, real contention, and that the store implements the document, proved for any constants |
| `SyncWorkProofs` | types, that no request is swallowed, that what the ledger has settled is current |
| `RecordWritesProofs` | types, that background writes keep the record and transitions wait for saves |
| `HarvestRunsProofs` | types, that a completed run is clean, and the attempts, events, counters and stored records of timely attempts |
| `ManagedAssetsProofs` | types, one file and one uploader for a content, deselected deletions, a mirrored record |

### SourceIntent

One member of `Saves` is one call of `RecordsService.create` or `updateMeta`. `Persist` is the Mongo update
that writes the record together with its intent (`MongoStorageService.create` and `updateMeta`), which bumps
the generation and merges the save into the saves that are not imported yet. A save with synchronous hooks is
`initialising` until `FinishSave` (hooks succeeded, `readyFigshareIntent`), `FailSave` (the `finally` block
abandons it), `FailSaveUnabandoned` (the abandoning update fails, and `RecordsService.abandonFigshareIntent`
swallows the error) or `InterruptSave` (the process stops). `RecoverStale` promotes the saves older than an
hour; `Age` is the passing of that hour. An importer reads a record (`ReadRecord`), imports what it read
(`ImportSource`) and acknowledges that generation (`Acknowledge`), with anything in between.

The intent's `saves` list is a set (the code gives each save a fresh token) and the ready ones among them a
subset; the union of their policies is reduced to the kinds of work they ask for. `savedAt` and `imported`
are history and guard nothing.

### SyncWork

The state is the document (`requested`, `processed`, `due`, `sourceGeneration`, `importedGeneration`,
`status`, `error`, the lease, whether an article is bound), the record's intent reduced to a generation and a
readiness, the undelivered jobs, and per worker the run it executes: a program counter, the generation and
the work it saw when it claimed, and the kind of work an error would be attributed to. One action per
checkpoint of `runFigshareWorker`, in its order; reads of the record before the checkpoint they guard are
part of that action when nothing that changes the outcome lies between, and actions of their own where the
code acts on something stale (`ObserveArticle`, `ConfirmObserve`, `Transition`).

`due` is the set of kinds whose `dueAt` is not null. Whether a deadline has been reached when the code looks
is a nondeterministic choice, so a claim, or the test `due(kind)` during a run, may go either way; this adds
behaviours and removes none. A lease is live until `ExpireLease` (nobody renews it) or `LoseLease` (its
worker is stalled). An error's message is its category. `requested` and the generation are bounded, and the
bounds are in the guards.

`Decide` stands for the part of the sync between binding and `finish`: what the run sends to Figshare there changes
nothing in the ledger, and the run goes on to finish if its record was current at the last look. `finishedContent` is
history, the content of the run whose finish was accepted last. It is the ledger's view and not Figshare's: an update is
sent before the finish and outside the lease, and may be skipped or come late, which is in `FigshareRemote`.

### FigshareRemote

The other side of a run: the document's evidence of a creation (`create`) and of a publication (`publish`),
the checkpoint of the metadata (`synced`), the bound article, and Figshare itself (`articles`, `inflight`).
Each mutation is sent in one step (`SendCreate`, `SendUpdate`, `SendPublish`, with the transport's guard),
performed in another (`Perform`, with or without an answer), and reported in a third, so a lease can be lost,
a process stop, or a save arrive in between. When a run is over its unanswered requests are withdrawn, except
those of a type in `Late`, which Figshare may still perform. Figshare's side (`Perform`, `Refuse`, `Review`,
`SubmitByHand`) is external: it is modelled from what the code reads back. A curated publication locks the
article until the curator publishes or returns it. An operator verifies against Figshare before the lock
(`VerifyAbandon`, `VerifyReset`) and changes the document after it, if the evidence is still the same.

`publish.id` numbers the submissions, where the code compares `submittedAt`; the hash of the checkpoints is
the generation last synchronised. `abandoned`, `submissions` and `settled` are history.
Reads of Figshare's listing are taken to be current.

### SyncDocument and SyncStore

`SyncDocument` says what callers rely on: the document is created once, every request, report, take-over and
release happens at one instant, and a holder's change happens only while it is the owner. `SyncStore` has the
code's steps instead: `Initialise` is the upsert that ignores a duplicate key; `Read` and `Write` are the two
halves of a round of `change`, with everybody else in between; `Claim` is a worker's claim or the operator's
lock, `SendRenew` and `Renew` the two ends of a heartbeat, `DispatchClaim` the dispatcher's update, and `Tick`
the clock. The refinement mapping forgets revisions, snapshots and times and takes `lapsed` for
`doc.until <= now`.

The change itself is reduced to two kinds: adding a request (imports, requests, the operator's commands) and
reporting the requests a run found at its claim. A call makes one change. The lease is tested in `Read`; the
filter tests it again with a later reading of the clock, which can only refuse more; the model keeps the
earlier one. `assertOwner` and the abort flag are in `SyncWork`.

### HarvestRuns

The tables of one run: the run's row, the attempts of each chunk in order, the events of each chunk in order
of their creation, and the records. A submission reads the attempts of its chunk (`Submit`), and every storage
call after that is a step of its own, so another submission of the same chunk, a stop or a refused call may come
between any two: `MarkStale`, `ListCheckpointedChunkEvents`, `CreateAttempt` (under the unique index on the
attempt), `FindExisting` (one read before the first record), then per record `ProcessTrackedRecord`,
`PersistTrackedEvents` or `PersistRefused` with `Rollback`, and at the end `FinishChunk`,
`UpdateRunAfterChunk` or `FailChunk`. `Effects` is `processTrackedRecord`: every rejection, every operation and
update strategy, with the existing records as they were read and the record as it is when it is updated.

An operation on a record fails in one of two ways (`ProcessTrackedRecord`): it is refused before its write, or the record
service writes and then answers with a failure, as after a failed synchronous hook or second write
(`RecordsService.ts:864`, `569`, `1142`). The harvest reports both as failed and has nothing to undo, so the second
leaves its write behind; `failedWrites` counts those for each record of a chunk and is history.

A record's value is the sequence of chunks whose data it holds: a replacement is one chunk, a merge appends.
Merging is modelled as concatenation, which is what it does with arrays, and what makes a repetition visible:
`StoredIsReported` compares how often a record holds a chunk's data with how often it did before the run. Records
have an oid that nobody else has; `StoreAssumption` says so of those stored before the run, and that an oid generated
during the run is not one of theirs.
The counters stored in the attempt's row are left out (nothing reads them to decide); a refused write of them is
in `PersistTrackedEvents`. `fate` is history: the step an attempt stopped at. `ProcessingChunkStale` lets
an attempt grow old when nobody works on it; with `SlowAttempts` also when somebody does.

### ManagedAssets

A key is the content of one attachment (the code's hash of file, digest and size) or a URL (a member of `Links`, which
is mirrored only when no attachment is selected), a receipt is what the document
says of it, and `files` what Figshare has. `Gate` is the worker's look at pending files, the others are the
steps of `mirrorManagedAssets` up to the next checkpoint or request. A request is sent under the guard
(`SendCreate`, `SendParts`, `SendComplete`, `SendDelete`) and takes effect later, when its worker may have lost the
lease (`Lapse`) and a successor may be at work. A worker without a request under way that loses its lease does
nothing more that counts. `Save` selects other attachments at any time. `ResolveReceipt` is bind-file or
resume-upload of an operator who, as the administration guide asks, has paused processing; its verification and its
change are one step. The two calls of `mirrorManagedAssets` in a run that resumes an upload are one, the parts of an
upload are one request, and errors are retried without a limit of attempts. Links made without a receipt, references to hosted files,
the fingerprint shortcut, pending files of other uploaders, and the local side (`cleanupProjection`, staging) are left
out. `late` is history.

### RecordWrites

One record and everybody who writes it. A save is a form that was loaded (`Open`), a request that reads the record again
for all but the metadata (`Submit`, `RecordController.updateInternal`), the primary write with the merge of its intent
(`Write`), its synchronous hooks (`FailHooks`, `StopSave`), the second write (`PersistSecondary`) and `ReadyIntent`. Both
writes replace the whole record whatever its version. The worker's run is that of `SyncWork`, with what it writes in
the record: the article's fields (`Project`), links in place of attachments (`Cleanup`), and the workflow transition with
its hooks and second write (`Transition`, `TransitionSecondary`). Each is decided on a read (`Fetch`, `Observe`) and holds
only if the version is still that of the read (`Matches`), otherwise the read is repeated or the run waits. The
lease is looked at before a write, not by it, so a worker that lost it still writes.

The record is reduced to what the writers set: the text of the save, the worker's fields, the attachments and the
workflow's stage. `current` stands for version numbers: the workers whose last read is of the version that is stored.
The import is one step with the start of a run and the document's changes are atomic, as `SourceIntent` and `SyncStore`
show; the article is there and public, its files are hosted, remote calls succeed, due times pass at once, and
policies stay eligible. Hooks do not outlast `STALE_INITIALISING_MS` (`worker.ts:52` says the same).

What `LastSaveIsMirrored` supposes shows what is not repaired. A save whose hooks ask for no sync puts back the fields
and attachments it read, and nothing brings the worker's back. A run cut off between finishing a sync and scheduling its
observation, or between finishing the observation and its write-back, leaves them missing (`cut`), and so does a
transition whose hooks fail, which is reported as needing repair. The first write of a transition may hold and the second
meet a newer save: the next observation finds the stage reached, and what the hooks changed is gone (`WriteSnapshot`).

## Runs

| run | instance | question |
| --- | --- | --- |
| `intent` | 2 saves, 1 kind, 2 importers | Is every written save carried to the document in the end, none before it is settled, none twice? |
| `work_safety` | 2 workers, 2 generations, 2 requests, 1 stop | Can a run swallow a newer request, or report a newer save as done, also when it outlived its lease? |
| `work_operator` | 1 worker, an operator, all kinds of work | The same for requests of cleanup, observation and an operator's resume. |
| `work_liveness` | 2 workers, transient errors | Does scheduling alone bring every owed sync back to a worker, and does it finish or get given up if the remote service co-operates? |
| `remote_create` | 2 workers, an operator, late creations, 2 creations | Can a lost answer, a late creation or a takeover give a record a second article? |
| `remote_publish` | 1 worker, an operator, a curator, publications by hand, late publications, 2 saves, 2 submissions | Is content submitted twice, a publication taken for done when it is not, or an update checkpointed that was not made? |
| `sync_store` | 2 importers of different brands, a worker, an operator, 2 rounds, leases of 2, time to 3 | Does every call take effect once, at one instant, and never for a holder that was replaced? |
| `harvest` | 2 submissions, a chunk of two records and a final one of one, 3 attempts, 2 faults | Is every record applied and reported once, and every chunk counted as reported? |
| `managed` | 2 workers, 2 contents, a URL, 3 files, 2 saves, 2 faults | Can a file be uploaded twice, deleted wrongly or left behind; is every sync settled? |
| `record_writes` | 2 saves with hooks, 2 workers, 1 lost lease, 2 rounds | Do background writes ever undo a save or one another; does the last save's sync bring back what the save undid? |
| `harvest_slow`, `managed_interrupted` | as `harvest` and `managed`, smaller | Claims of the documentation that the code does not meet; see the findings. |

The bounds are chosen so that the interesting meetings happen: two saves and two importers are the least with a late
import of an older one, and the safety properties of `intent` are proved for any number; two workers are the least
with a successor; two generations and two requests the least with a newer request during a run; one stop is enough
for each of a crash, a lost lease and a lost job, which recover independently. `work_safety` has no errors, which the
other runs have: `MaxAttempts` is 2 in `work_liveness`, so that an error can be retried and be
terminal. Two creations and two submissions are the least with a wrong second one; `MaxVersion` 2 lets somebody
else's publication come before or after the run's own. Two rounds are the least with a retried change, and the third
instant of `sync_store` lets a heartbeat arrive after its lease ran out. The chunks of `harvest` are a replacing
and a merging upsert and a deletion, of records that exist and one that does not (`MCStore`); three attempts and two
faults let a retry of a retry succeed after two failures of any kind. In `managed` three files leave room for a
second one of a content, and two saves for a content that is deselected and selected again. In `record_writes` two
saves are the least with a form older than another save, two workers the least with a write after a lost lease, and two
rounds (of the code's three) the least with a repeated and a given-up write. Deadlock is not checked: a
record that nobody saves any more, or a source that has sent everything, is at rest.

### Fairness

`SourceIntent!FairSpec`: the dispatcher is a recurring job, so recovery and reading go on (weak fairness); an
importer may be stopped any number of times, and a retried import is assumed to get through (strong fairness).
Nothing is assumed of saves.

`SyncWork!ScheduledSpec`: jobs are sent while something is scheduled, taken, and runs go on until they
release; abandoned leases expire; a claim that is possible again and again is made. `OwedSyncSettles` supposes in
addition (`Cooperation`, in front of the property) that
saves settle and are imported, and that a remote service asked again and again lets each step of a sync
through. Neither assumes that anybody saves or resumes. There is no operator in the liveness instances: a
command that locks the document over and over can keep workers out.

`HarvestRuns!FairSpec`: a request that runs goes on, and the source sends each chunk again and again (the guide asks
it to retry); the faults are bounded.

`ManagedAssets!FairSpec`: runs go on, due work is claimed, and Figshare finishes what was completed. `OperatedSpec`
adds an operator who resolves a receipt that can be resolved again and again; `MirrorSettles` is about that.

`RecordWrites!FairSpec`: a save that has begun its writes ends or is recovered, jobs are delivered while something is
due, and runs go on. Nobody has to save, and no particular outcome of a run is assumed.

## Findings

* `harvest_slow`: an attempt is declared stale by its age and its row is marked by id (`HarvestRunService.ts:1474`);
  its submission, if it is only slow, finishes beside its successor, and the chunk is counted twice.
* `managed_interrupted`: a worker that stops between the checkpoint `completing` (`managed-assets.ts:105`) and the
  completion request leaves an upload that the gate (`worker.ts:342`) neither reports nor lets pass: the sync waits
  for ever.

Further disagreements that the models show, for which no run is kept:

* The content update of a worker that lost its lease can take effect after its successor's (`worker.ts:211`). An update
  leaves no evidence that a run could reconcile and none is due, so the article keeps the older content although the
  document's checkpoint and its processed request say otherwise, until the record is saved again; against
  `Figshare-Queued-Synchronisation.md:65`, "the successor reconciles persisted operation evidence" (`SendUpdate`
  and `Perform`: `CheckpointIsAtFigshare` is false with two workers and `"update"` in `Late`).
* A newer save between the receipt `initialising` (`managed-assets.ts:85`) and the guard of the request that follows
  it leaves a receipt for which nothing was ever sent; the next run needs repair, and as there is no file neither
  bind-file nor resume-upload can do it (`Initialise`, `SendCreate`; the first case of `Stranded`). The same holds of a
  URL whose creation was answered to nobody (`managed-assets.ts:141`): its receipt has no digest to be found by.
* Importing a save whose hooks requested no sync turns `failed` into `queued` and deletes the error although the owed
  sync stays unscheduled (`sync-store.ts:71`), against `Figshare-Queued-Synchronisation.md:75`, "a terminal failure of
  unfinished source synchronisation remains visible" (`ImportGeneration` of `SyncWork`).
* The test for a newer sync before a workflow transition uses the document of an earlier checkpoint together with a
  newer read of the record (`worker.ts:427-430`), so a save imported in between is seen in neither (`ConfirmObserve`,
  `Transition`), against line 77 of the same page.
* Whether metadata changed is known to one run only (`worker.ts:360`); a run that updates a public article and stops
  before it publishes leaves the change unpublished (`SkipEqual`, `NeedsPublish`).
* An article that is locked between `worker.ts:337` and `runtime.ts:103` is not updated, and the sync is finished all
  the same (`SkipLocked`, `FinishSync`).
* A chunk may be acknowledged as a duplicate of one whose submission then fails to count it and marks it failed
  (`HarvestRunService.ts:1462` and `1572`; `Refused` at the count, `FailChunk`). A stop between the two writes leaves a
  processed chunk that the run never counts, which `RunCountsReported` states as its exception. A create that is
  retried after a stop finds its own record and reports a failure, and a merge is applied again; a record that was
  written and then answered with a failure is reported failed, and merged again if that report is refused (the
  exceptions of `StoredIsReported`). Two chunks that name the same new harvest id may create two records, as there is no unique
  index on it (`NoSecondRecord` is for ids one record names).

The models contain more steps on which a comment promises more than the code does, and for which there is no
run. A save that failed is imported in the end if the update that abandons it fails (`RecordsService.ts:674`
against `worker.ts:52`; `FailSaveUnabandoned`, `RecoverStale`). A failing observation replaces the terminal
failure of an owed sync (`worker.ts:460` against `worker.ts:148`; `FailRun`). A run that stops between finishing
the sync and scheduling the observation leaves the document `running` with nothing scheduled (`worker.ts:377`;
`FinishSync`, `RequestObservation`). A publication request
still in flight can take effect after a newer save superseded it, which `worker.ts:328` takes one read to
exclude (`Supersede`, `Perform`).

## Proofs

Each module of theorems begins with the inductive invariant that they rest on.

`SourceIntentProofs` proves six theorems from the definition of `Spec` alone (there are no assumptions on
the constants). Its inductive invariant `IndInv` strengthens the properties by four parts:
readiness and pending agree with the merged saves; the document's generations never exceed the record's;
whatever was written up to the imported generation has been requested; and a snapshot an importer holds
carries every live save up to its generation that is not requested yet. The last two are what makes
`SavesAreCarried` inductive: without them an acknowledgement could drop a save whose import was skipped. There
is one lemma per action, and `NextIndInv` combines them.

`ImportsAreMonotone` is an action property and follows from one lemma about `ImportGeneration`.

`FigshareRemote` has two modules of theorems, for every number of workers, operators, saves and requests and
every setting; of its assumptions they use only that `Nobody` is not a worker.

`FigshareCreationProofs` proves `OneArticle`. By itself it is not inductive: a creation in flight adds an
article whatever the document says by then. `CreationsAccounted` counts the articles, the creations in flight and
the one the holder of the lease is about to send, and bounds the sum by the creations abandoned plus one if there
is evidence. Writing the evidence makes room for one, sending and performing move it from one term to the next,
the guard's refusal takes it out before the evidence goes, and an operator abandons only while nobody holds the
lease. A step that does none of this satisfies one lemma, `QuietStep`.

It also proves the types. They need to know that there is an article wherever a step reads one: nothing is sent to an
article, checkpointed of it or submitted before it is bound (`BoundFirst`), a run beyond its creation is at the bound
article, and nobody else binds one while a holder of the lease creates it (`RunInv`).

`FigsharePublicationProofs` proves `NeverResubmitted`. What it adds: the evidence is that of the last
submission and is marked observed only when that is settled (`EvidenceIsLatest`); a submission without evidence
that is not settled is of an older save than the record and than the run that holds the lease
(`SupersededAreOlder`); and no holder is past its reconciliation while a publication is outstanding
(`Reconciled`), which is why the evidence that `StartPublish` overwrites is settled.

It also proves `ObservedIsPublic`, and shows what it depends on. It does not hold in general: when a run loses its lease
while its content update is under way, the update can take effect after its successor's and put the older content into the
version that is published (the hazard at `worker.ts:211`; TLC finds it with two workers). `ObservedInTime` therefore
supposes `UpdatesInTime`, that while a run holds the lease the updates in flight bring that run's content, and nothing of the
number of workers or of what else takes effect late. The code does not guarantee it, and the findings say
what happens without; `remote_publish` has one worker whose updates end with its runs, so that it holds there. `CheckpointInTime` is `CheckpointIsAtFigshare` under the same hypothesis. Under the hypothesis the updates in flight bring what the article has or newer
(`UpdatesAhead`); the article has what was checkpointed and submitted, and is public with it once a version is out that the
submission did not know of (`ArticleCovers`); and so it is for what a run has sent and seen (`RunCovered`).

`SyncStoreProofs` proves the types, `ContentionIsReal` and the refinement `Spec => Promise!Spec`, for any clients,
lease, rounds and time, from the assumptions that the kinds of clients are disjoint and that the two special values are
not something else. A change that is about to write has a snapshot whose revision is the document's only if
the snapshot is the document (`Fresh`, of the inductive invariant `IndInv`): revisions only grow, and each write makes a
new one. That is why a matching write acts as one atomic step on the present document and, for a holder, why it still
owns it. `Contended` bounds the lost rounds by the revisions that passed. `StartedIsRequested` makes handled work
requested. Each step of the store is then shown to be a step of the document or a stutter.

`SyncWorkProofs` proves that no request is swallowed and that what the ledger has settled is current. A
finished sync must be known to cover the newest generation that asked for one, and the model knows it by a chain:
no content and no requested generation is newer than the record (`GenerationsAreSaved`); the snapshot of a run counts no
request the document does not have (`SnapshotsAreOld`); while nobody has replaced a run, nothing is processed that it does
not know of, and a kind requested since its claim is due (`HolderKnows`); and a run that has decided to finish its sync has
read the content of the newest request, unless a newer request is there (`DecidedCovers`). A
worker without the lease may hold anything old, since none of its checkpoints is accepted; that is the case a test hardly
reaches.

`RecordWritesProofs` needs little more than the types. `SyncIsFirst` says that a run past its sync has no
sync left to do, `CurrentReads` that a worker in `current` has read the record as it is stored: every write takes all other
workers out of `current`, which is the version filter of the conditional update.

`HarvestRunsProofs` uses of the constants that the chunks are a non-empty finite set of finite sequences of records and,
for what is stored, that the store before the run is finite and its oids are unique. The types and `CompletedIsClean`
hold for every setting: the update that counts a failed record in also takes the status off `completed`, in the same
step. The other theorems suppose `~SlowAttempts`, that no attempt outlives the time-out that declares it stale. The hypothesis is not
spare: `harvest_slow` is the counterexample without it. `IndInv` then says that only the last attempt at a chunk may
stand (`OnlyLastStands`), a counted chunk has a processed attempt (`CountedIsProcessed`), events are in the order of
the chunk's records without a gap, over all attempts (`EventsInOrder`), a chunk has one submission at work
(`HoldersAreAlone`), and what a submission has read is still so (`Holds`, `Awaits`). `RunCounts` adds `CountsReported`, the counters
as cardinalities of the events of counted chunks, with `ProcessedIsAccounted`: a processed chunk is counted, or its
submission is about to count it, or stopped in between.

What the records hold (`ReportedStored`, `StoredReported`, `OneRecord`) needs an invariant of its own beside `IndInv`,
`RecordsInv`. It is about records whose harvest id no other record of the run names; of others the code promises
nothing. An oid stays with one harvest id (`Names`), so that a step can only touch the copies of the record it is at.
A chunk is compared with the store once, before its first record, and applied later: `FoundIsCurrent` says that what was
read of the records still ahead is what is stored, since nobody else works on the chunk and its own steps touch other
oids. `OutcomeIsStored` says of the record a submission has applied, and not yet reported, that it is stored as the
outcome says, and that what a rollback would put back was there before and holds the chunk's data no more often than
its excuses account for. `RecordFits` is the three properties for one record. An attempt that
stops between a record and its event, or cannot undo it, is from then on in `Unreported`, and a write that was answered with a
failure in `failedWrites`; both only grow (`ExcusesStay`) and take over the excuse that the record was under way. That a second record is never created for an id follows from
`FoundIsCurrent` and the test for an existing one; what an attempt created before it stopped is found by the next.

`ManagedAssetsProofs` has a state part and a part for each worker. The receipts name the files (`ReceiptsNameFiles`: from its
binding to its deletion a file is its content's receipt's), files are unique, and a settled document has mirrored the
selection (`DoneIsSettled`). Of each worker (`RunInv`): an initialisation that may still reach Figshare is of a content
without a file; a worker is at its receipt's file or at one that was deleted since it lost the lease; an upload somebody
is at is not approved for another; its selection is the record's unless the record was saved since; and what the holder has
behind it is mirrored. `Apart` says that no two workers initialise one content or upload to one file. What a step does to
the workers that do not take it is proved once (`OthersKeep`), from what all steps have in common (`Frame`): files change
forward only, a receipt changes only under the lease of the worker that steps, or when nobody holds it. Each action then
shows its `Frame` and the invariant of its own worker. `DeletesDeselected` follows from the guard because the holder's
selection is the record's when the generations agree. Nothing is assumed of the number of files: when Figshare gives no more
numbers, nothing is created.

TLC checked each inductive invariant on the instances of the runs before it was proved (an instance that extends the
module of theorems in place of the model can be checked as it is; only `Shape` and `Types` of `FigshareCreationProofs`
need replacing by the parts of them that TLC can evaluate). They are not listed as properties of the runs, as the
theorems are about more.

Model-checked only is what concerns the end of a behaviour: `SavesAreEventuallyRequested`, `OwedSyncIsAttempted`,
`OwedSyncSettles`, `EveryChunkIsProcessed`, `MirrorSettles` and `LastSaveIsMirrored`. Liveness needs fairness and ENABLED,
which the prover does not handle. The properties of `harvest_slow` and `managed_interrupted` do not hold.

## Not modelled

`PROJECT.json` lists every component with its reason. Of the durable integrations these remain: embargo and
the replacement of local attachments; link, relink and migrate; the Agenda queue's history and SQS repository; RAiD mint
retries; the legacy harvest endpoints. The rest of the repository answers one request with one database update, renders, maps
or validates data, or is a user interface or generated code: there is no protocol to check, and the values are too deep
for a bounded comparison with a reference definition to say more than its unit tests.
