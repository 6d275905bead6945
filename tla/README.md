# A TLA+ verification of the ingestion core of Photo Organizer

Photo Organizer keeps a library of photographs: a FastAPI backend over
PostgreSQL and a file system vault, a helper process on Windows machines that
hold sources, an iCloud downloader, and a web interface. What can go wrong in a
way a test would hardly reach is how files get *into* the library: they come in
pieces, over a network, through several processes that share rows, files and
background threads, and the process may stop after any step. This directory
models that core, and the background work on the library that has the same shape,
checks it with TLC on small instances, and proves the safety properties of every
module with TLAPS for instances of every size.

Paths below are relative to `backend/app/services` unless they say otherwise.

## The system

| part | state | operations | interacts with |
|---|---|---|---|
| acquisition runs (`source_acquisition/service.py`) | run and item rows, the run's receiving directory | plan, create child, activate | receiving, workflow |
| durable receiving (`source_acquisition/receiving.py`) | item offset and state, run counters, partial and ready files | chunk, completion, failure, cleanup | helper operations (same requests), file system |
| helper operations (`windows_helper/operations.py`) | operation rows with a deadline | create, claim, sweep, complete, fail, attest | receiving, workflow, helper process |
| helper pairing and credentials (`windows_helper/service.py`) | authorizations, credentials, access nodes | pair, rotate, revoke, authenticate | every helper request |
| Windows Source workflow (`windows_helper/source_workflow.py`, `source_acquisition/workflow.py`) | workflow, page, candidate and child rows; one worker thread per workflow | create, approve, resume, advance, reset at startup | operations, acquisition runs, bridge |
| acquisition bridge (`source_acquisition/service.py:668-1435`) | bridge columns of a run, provenance links of its items | plan, execute, bind, finalize, reset at startup | Source Intake by a call and two callbacks |
| Source Intake (`admin/source_intake_execution_service.py`) | intake rows, one thread per run | start, explicit start, stop, reset at startup | pipeline, bridge, start lock |
| ingestion pipeline (`ingestion/pipeline_orchestrator.py`) | drop zone, pipeline context | stage, batches, cleaning, reports | vault, asset rows |
| vault and persistence (`ingestion/storage_manager.py`, `persistence/asset_repository.py`) | vault files, asset and provenance rows | copy, insert, remove a failed copy | pipeline |
| guardrail and dispatch (`admin/ingestion_operation_guardrail_service.py`, `admin/run_ingestion_dispatch_service.py`) | an advisory lock | serialise starts | Source Intake, iCloud, cleanup |
| iCloud staging cleanup (`admin/icloud_staging_cleanup_execution_service.py`) | a row, a report and a thread per cleanup; staging files | dry run, execution, repair, reset at startup | guardrail, vault and asset rows, loop |
| iCloud internal loop (`icloud_acquisition/internal_loop_orchestrator.py`) | run, batch and resource rows | start, pause, continue, recover | acquisition, intake of a batch, cleanup |
| iCloud historical routine (`icloud_historical_routine_service.py`) | prepared set, inventory ledger, import run and chunk rows, a thread per run | prepare, start, resume, poll, recover | acquisition, intake of a batch, dispatch |
| background jobs (`face/`, `duplicates/`, `previews/`, `location/`) | a run row and a thread each | start, stop, reset at startup | library rows |
| source profiles, endpoints, NAS (`source_identity/`, `nas_registration/`) | attempts, endpoints, profiles | create, enrol, select | workflow, intake |
| library (`duplicates/`, `identity/`, `albums/`, `collections/`, `events/`, `photos/`, `metadata/`, `places/`) | membership and decision rows | one transaction per request | |

What makes it hard, and where it bites, is listed line by line under
`hazards` in `PROJECT.json`: chunk requests that cross their own retries;
a file and its row written in two steps with a stop in between; locks that
are held for one transaction of several; rows read by one statement and written
by primary key in another; rows that a session reads once and then believes
(SQLAlchemy does not refresh an object of its identity map, not even for
`SELECT ... FOR UPDATE`); threads that end between the last status they wrote
and the next request that looks; startup code that repairs what a stop left.

For each part, what makes it correct:

* receiving: the database never claims bytes that are not in a file; an
  acknowledged byte is never lost or replaced; a ready item is the verified file
  and stays it; counters and run state are those of the items.
* operations: at most one live operation per item; a result, once completed, stays.
* Source Intake: one generic run at a time; whoever shares the drop zone, a final status that tells the truth;
  every run ends; a stop cuts between batches.
* bridge: completed only with every item linked to an observation in the library;
  never stuck in running; an end that is final; a run that can be started again
  has left nothing behind; no file observed twice.
* workflow: children in order, none skipped or counted twice, every approved
  workflow resumable after a restart.
* vault: an asset row has its file, a file without a row can be taken up again, and
  no file leaves the drop zone unaccounted for.
* background runs: an ended run stays ended, and no item falls between two runs.
* duplicate lineage: at most one canonical asset in a group, and every asset outside of
  one is canonical, so that no photo disappears from the views.
* staging cleanup: only files whose content the vault keeps are removed, only as they
  were shown to the user, and once per preview.
* iCloud loop and import: a batch or a run is called completed only when all of it is in
  the library; nothing that was imported is downloaded again; nothing stays running with
  nobody on it.

## Modules

| module | what it is |
|---|---|
| `DurableReceiving` | activation, acquire operations, chunks, completion, failure and cleanup of one run |
| `AcquisitionPromise` | what a run promises its callers: bytes are appended, items published once and as received |
| `DurableReceivingInvariant` | the inductive invariant `IInv` |
| `DurableReceivingProofs` | its types, its row locks, `IInv`, the byte counter, and that it implements `AcquisitionPromise` |
| `SourceIntake` | intake rows, drop zone, background threads, stop requests, restart |
| `AcquisitionBridge` | the bridge, composed with `SourceIntake` (EXTENDS) |
| `AcquisitionBridgeProofs` | proofs about `SourceIntake`, then about the bridge |
| `IngestionVault`, `IngestionVaultProofs` | one run of the pipeline: batches, vault, asset and provenance rows, drop zone; proofs |
| `WindowsSourceWorkflow`, `WindowsSourceWorkflowProofs` | the parent workflow, its pages, children and thread, requests and polls; proofs |
| `BackgroundRuns`, `BackgroundRunsProofs` | faces, previews, geocoding ("sweep") and duplicate processing ("workset"); proofs |
| `DuplicateLineage`, `DuplicateLineageProofs` | groups, canonical and hidden assets under every transaction that changes them; proofs |
| `StagingCleanup` | dry runs and executions of the cleanup, their threads and reports |
| `IcloudLoop` | the internal loop, composed with `StagingCleanup` (EXTENDS) |
| `IcloudLoopProofs` | proofs about `StagingCleanup`, then about the loop |
| `IcloudImport`, `IcloudImportProofs` | the import of a prepared iCloud set: worker, polls, resume, dispatch; proofs |
| `MC...` | the instances TLC checks |

### DurableReceiving

The rows of one run, its items and its operations; the partial and ready file of
each item and whether they are two names of one inode; the requests in flight
(`Handlers`) with the place each has reached (`pc`) and what it holds (`job`).
A request is one action per step that another process, or a stop, can see: the
admission (`_load_bound` without a lock), the write and fsync, the commit; the
hard link, the unlink of the partial name, the commit of the ready item, the
confirmation of the lease, the completion of the operation. The row locks of a
request are the set of steps at which it holds them (`RunFree`, `ItemFree`,
`OpFree`). `Abandon` is every way a request ends early: an exception, a rollback, a
lost connection, a stop of the server. It drops what is uncommitted in the
database and leaves the files.

A digest is the content it was computed from; chunks are contents of 1 to
`MaxChunk` units; the helper is any client that holds an operation and may
send any chunk, completion or failure at any time and repeat it. Time is the
action `DeadlinePasses`. Files of size 0 never reach a run (the protocol
asks for at least one byte), so `Size` is positive. The row locks of an item and
its run are taken in one step; that cleanup takes them in the other order can
only end one of two transactions, which is `Abandon`. Power loss that drops
an unsynced directory entry is not modelled. `acked` is a history variable: the bytes
the client was told are durable.

The model takes the path of the admin API when it creates an operation. The
Windows workflow creates it from rows it has held since an earlier statement; that
difference is not modelled.

### SourceIntake

A generic start takes the start lock, finds no active row, inserts its
own and starts a thread (`BeginStart`, `InsertGeneric`, `StartLocked`). The explicit start, which the
bridge calls, does the same without the lock, and asks its caller to accept the row before the thread
starts (`BeginExplicit`, `InsertTrusted`, `CreatedAccepted` or `CreatedRaises`, `StartThread`). So only
generic runs exclude each other (`OneGenericJob`); that two threads never work on the one drop
zone, as the documents say (`OneJob`), is false, and `MCSingleIntake` shows how. Every property of
this module is stated and proved with both starts. The thread
stages the files, ingests batches and writes the final status (`CollectInput`,
`StageFiles`, `IngestBatch`, `CleanBatch`, `EndLoop`, `FailStage`,
`ReportStatus`, `EndJob`). A stop request is two steps, the query and the write by
primary key (`BeginStop`, `EndStop`). `Restart` is the end of the process followed by
`_reset_stale_runs`. What ingestion does to a file is abstracted to three results:
observed (a provenance row), failed (counted and moved out of the drop zone), or
neither, which is an insert that loses a race. An observation is `original` when
the thread that ingests a copy is the one that made it; a copy another run left in the
drop zone is ingested under its drop zone path. I/O errors while the drop
zone is cleaned, and the loss of the database alone, are left out.

### AcquisitionBridge

The requests plan without a lock (`PlanBridge` keeps the snapshot in `plan`), compare
and mark under the row lock (`MarkRunning`, `CompleteByReuse`, `RefusePlan`), and
call the explicit start, whose steps are `CheckActive`, `InsertExplicit`,
`BindIntake`, `BindFails` and the start of the thread; `UndoMark` and `FailLaunch` are its two
`except` branches. The thread's callback is `FinalizeComplete`, `FinalizeFailed` or
`FinalizeNothing`. `RestartBridge` is both resets in the order of `main.py:138-139`.
A behaviour is in one of several `Settings`, chosen in the initial state and kept in
the variable `setting`: which run holds which file (`runOf`), from which source path and content a
file was acquired (`lineage`), and which requests have a session that
already holds a run row (`holding`): their comparison sees the old row. The prior items of a
file are those of its lineage in earlier runs; the observation of one is reused only
if the completed bridge that made it anchors it (`Anchored`), and a plan that finds two is
refused. That the vault copy of a reused observation verifies is assumed. Generic starts
are not part of this composition; an intake of another source meets a bridge as the intake
of another run does.

### IngestionVault

One run of the pipeline over the drop zone: a batch is hashed and deduplicated
(`SelectBatch`), copied to the vault (`Storing`, `BeginCopy`, `EndCopy`, `CopyFails`),
persisted (`PersistExisting`, `InsertAsset` and its failures, then the removal of the vault
copies of failed inserts), cleaned (`Clean`) and its failures moved
(`MoveFailed`). The run may stop after any step (`StopRun`), which leaves torn copies
and copies without a row. An insert that violates a constraint (`InsertSkipped`, the
`IntegrityError` branch of `persist_copied_files`) counts its file as existing: it leaves the drop
zone with neither a provenance row nor a failure, and only its vault copy stays. `NothingDropped` says
exactly this much. One run works at a time: generic runs do exclude each other (`OneGenericJob` of
`SourceIntake`), but an explicit run may work beside one, and of it the model has only the asset
row that it commits first. A vault path stands for a content; that two extensions of one content
have two paths is left out. `doubtful` is a history variable: contents whose insert was
committed and reported an error.

### WindowsSourceWorkflow

The parent row, its pages and candidates, its children, and of each child's run and bridge
only what the workflow reads of them; `DurableReceiving` and `AcquisitionBridge` are the
detail. The worker is one thread at a time; an action is one transaction of a
round of its loop. A request first reads the parent without a lock and works with that
object later (`seen`), as SQLAlchemy does. The legacy path of `ui_facade.advance_workflow` for
a workflow without a parent row, and the status texts, are left out.

### BackgroundRuns

One module for four services, which differ in how a run gets its work, in what a stop
request writes and in whether the thread reads the flag again. A sweep looks for
pending items when a stage begins. A workset is frozen by creation time when the run is
created, and can also be run by a script in a process of its own. An item's
`created_at_utc` is the beginning of its transaction, which commits later. What a
stage does to an item is success or failure.

### DuplicateLineage

Every transaction that writes groups, canonical flags or visibility: the match of one
asset, merge, canonical choice, removal, hiding and the rebuild of all groups. A
transaction reads into its session (`view`), computes, and writes the columns it
changed (`Commit`). Any number of them overlap, as background threads and requests do. The
code takes no lock on a group, and two transactions that write one group without having seen
each other can leave two canonical assets in it: the history variable `clashed` records the first
time that a session writes a row, or into a group, that another has changed since it was read
(`Clashes`), and the properties speak of the time before. `Similar` and `Quality` are constants. Rejected pairs, which none of
these transactions reads, are left out.

### StagingCleanup

A start checks and inserts under the lock for starts (`CheckStart`, `Insert`); its
thread plans (`PlanDryRun`, `PlanExecution`, `PlanRefused`), looks at each file once
more (`Revalidate`), removes it (`Unlink`, `UnlinkFails`) and writes report and row
(`FinalReport`, `Finish`). Rows are repaired from reports by a poll (`Reconcile`) and at
startup (`Restart`). The user, acquisition, Source Intake and the disk change files,
vault and evidence meanwhile. A plan is read in one step; reasons are kept by category.

### IcloudLoop

The run, its latest batch and the thread on it, on top of the rows and threads of
`StagingCleanup`, in which the loop is one of two callers. Acquisition, the plan of a batch and
the intake are choices over their outcomes. A pause and a continuation, also the
recovery when the preview was consumed or has expired, follow the branches of the code.
One run; nobody continues a run that is worked on; while the thread of a cleanup works, the
loop and the user's requests wait (`Cleaning`), but files change and processes stop; and
nothing is followed once the run is over (`Over`).

### IcloudImport

The rows of import runs and chunks, the prepared candidates, the ledger, the staging
folder, one worker thread per run, and the page: each poll looks for abandoned
chunks (`FindStale`) and writes what it has decided in a later step (`Recover`); a dispatch
reads (`Choose`) and then resumes or starts (`Resume`, `Discard`, `InsertRun`, `Launch`). The
worker takes a chunk through listing, lease, download, ledger, intake,
candidate states, cleanup, counts; a commit lies between any two. `Restart` ends threads and
marks child rows, and the registry of workers is empty after it. A candidate has one
file. Left out: the preparation of a set, the advance route that no page calls, cleanup
recovery that no route calls, ambiguous identities; the time after which a chunk counts as
stale is left open. `Candidates` are those that a run selects: for the page, which sends no
target, the whole prepared set; for a dispatch with a smaller target its first ones, and
"completed" then speaks of these.

## What is checked

Each property has a mutant in `PROJECT.json`: a plausible bug of one definition
under which TLC finds the property violated.

| run | instance | states | shows |
|---|---|---|---|
| `receiving_one_item` | 1 item of 3 units, 2 byte values, chunks of 1 to 3, 2 operations, 2 requests | 283,000 | files and rows of an item agree (`DatabaseNeverAhead`, `AckedBytesKept`, `ReadyIsVerified`, `CountsCommittedBytes`, `ItemNeverBackward`); every behaviour is one of `AcquisitionPromise` (`KeepsPromise`) |
| `receiving_two_items` | 2 items of 1 unit, 2 operations, 2 requests | 743,000 | `RunSummarisesItems`, `OneLiveOperation`, `OnlyActiveRunsReceive` while one item fails and the other is in flight |
| `source_intake` | 2 requests, 2 runs, generic or explicit, 1 file each | 463,000 | `OneGenericJob`; with two threads on one drop zone too `CompletedProcessedAll`, `StopEndsBetweenBatches`, and `EveryRunEnds` under the fairness of a running thread |
| `acquisition_bridge` | every setting of: r1 with file a; r2 with c, which may be a seen again, and d; 2 requests, 2 intakes; sessions that hold r1's row or read it again | 2,518,000 | `CompletedIsLinked`, `RunningHasOwner`, `NotStartedIsClean`, `BridgeEndIsFinal`; `ObservedOnce` survives the stale row |
| `windows_workflow` | 3 files, children of 2, 2 pages, 2 requests, 1 fault, a page that polls | 360,000 | `ProposalIsWhole`, `OneRunPerChild`, `ChildrenInOrder`, `CompletedCountsAll`, `EveryFileOnce`, `CompletedChildKept`; `ApprovedRunEnds` under fairness |
| `ingestion_vault` | 4 files, 2 contents, 1 unusable, batches of 2, 2 faults or skipped inserts | 213,000 | `KnownIsKept`, `NothingDropped` over repeated runs |
| `background_runs` | 2 items, both kinds, 2 stages, 2 runs, 1 fault | 2,020,000 | `ProcessedOrPending` for worksets, `SweepEndIsFinal` for sweeps |
| `duplicate_lineage` | 2 similar assets, 2 groups, 2 sessions, up to a clash | 78,000 | `AtMostOneCanonical`, `StandaloneIsCanonical` |
| `staging_cleanup` | 2 files, 2 contents, 2 callers, 3 cleanups, 1 change, 1 fault | 654,000 | `NothingLost`, `AuthorizedOnce`, `RemovesWhatWasShown`, `CompletedRemovedAll` |
| `icloud_loop` | 2 files, batches of 2, a limit of 2 or 3, 4 cleanups, 1 change or fault | 2,142,000 | `CompletedBatchIsSafe` |
| `icloud_import` | 3 candidates in 2 chunks, 1 import run, 2 requests, 1 fault | 1,649,000 | `CompletedImportedAll`, `ImportedOnce` |
| `loop_recovery` | as `icloud_loop` | violation | a run that recovers after its cleanup stays running with nobody on it |

The last one is a disagreement between the code and a document; `findings` in
`PROJECT.json` quotes the sentence with its line.

### Configurations to run by hand

These are not among the runs. The first eleven show, by a counterexample, that the code
does something a document, a message or a reader would not expect; the last two show a
liveness property and that its fairness is needed.

| configuration (module) | what it shows |
|---|---|
| `MCLostOperation` (`MCReceivingOneItem`) | an item in `verifying` whose operation is lost can be given no other |
| `MCCompletedResult` (`MCReceivingOneItem`) | the sweep overwrites a completed operation |
| `MCStopRequest` (`MCSourceIntake`) | a stop request that the final status overtook makes the run active for good |
| `MCSingleIntake` (`MCSourceIntake`) | an explicit start that asked before a generic one inserted its row: two threads on one drop zone (`OneJob`) |
| `MCCompletedBridge` (`MCAcquisitionBridge`) | a worker that holds the run's row starts a completed bridge again |
| `MCLostAnswer` (`MCIngestionVault`) | an insert that is committed and reports an error loses its vault copy |
| `MCStopHeeded` (`MCBackgroundRuns`) | the thread of a sweep begins an item after the stop flag is committed: its session keeps the row it read |
| `MCOneCanonical` (`MCDuplicateLineage`) | duplicate processing takes a canonical asset out of a group that a user merged, and the group is left without one |
| `MCLoopPaused` (`MCIcloudLoop`) | a run that the page started and that pauses for a review cannot be continued |
| `MCImportRetried` (`MCIcloudImport`) | a stop between the ledger's commit and the chunk's counts: the retry ends the chunk "failed" with the message that nothing was imported, and no handler leads out of the state in which the run stops |
| `MCImportRuns` (`MCIcloudImport`) | two dispatches start two import runs of one prepared set |
| `MCImportRecovers` (`MCIcloudImport`) | passes: with one request and two faults no chunk stays running (`NoChunkRunsForever`), and the type invariant |
| `MCWorkflowUnwatched` (`MCWindowsSourceWorkflow`) | without a page that polls, an approved workflow may stand still: a resume that finds the old thread about to return starts no other |

Seen while modelling, and not stated as properties: a poll that decided on a recovery, and
is then overtaken by another poll's recovery, a resume and a whole chunk, writes its recovery
over the completed chunk; and after a stop between the unlink and the commit of `Discard`
every later resume is refused.

Bounds. Two requests are enough for every property that relates two of them, and
a third would only repeat the part of one of the two, since no handler waits for
another except at a lock. An item of three units with chunks of one to three lets the
file be ahead of the offset by every amount from none to all, and lets a retry overlap a
written chunk; two byte values tell a wrong byte from a right one. Two operations
are one loss and one replacement. One file of each of two intakes is enough
for the loop to iterate over batches of one: a thread that finds the copy of the other in the drop
zone has two to process. Two intakes are the current run
and the one before or beside it. Rows are never reused: `MaxIntakes`, `MaxRuns`, `Ops` and `MaxChunk` bound them.

`MaxFaults`, `MaxChanges` and `MaxDisturbances` bound what comes from outside: restarts,
threads that die, copies and commits that fail, files that change. One such event at any
step meets every handler in every state it leaves; the vault takes two, so that the
run that cleans up after a failure fails too. Two files, or three candidates
in two chunks, are the least for which a batch or a chunk is first, last, or partly done;
two contents the least for which a file is wrong. Three files in children of two give
the workflow a full child and a partial one; entries that are not eligible and a page past the
entry limit do not occur in its instance. Two assets make a group that can be joined, left,
dissolved and rebuilt while another session holds any earlier state of it; three with two sessions
are out of TLC's reach, and the theorems do not need them. The constraint of `duplicate_lineage` cuts
what follows a clash, of which its properties say nothing.

Deadlock. The receiving runs do not check it: an activation that made its
directory and stopped before its commit is refused ever after
(`receiving_path_conflict`), so a run really may stop. The intake and bridge runs do
check it; they never stop because the process can always restart. The vault
and the lineage do too: a run can always begin. The runs with bounded rows or faults (`windows_workflow`, `background_runs`, `staging_cleanup`,
the iCloud runs) do not: they stop when the bound is used up and the last run has ended.

Symmetry is used over interchangeable requests, operations, bytes and items, in
runs without liveness, and over the sessions of `duplicate_lineage`; `KeepsPromise` is a safety property, and its
abstract state mentions only permuted values. `source_intake` and `windows_workflow` have
none. The symmetry of
`ingestion_vault` swaps two files of one content, that of `icloud_import` the two candidates
of the first chunk.

Fairness. `FairIntakeSpec` asks that a started thread runs on: a Python thread is
scheduled as long as its process lives, and a pipeline stage that hangs is outside
the model. Restarts may still come at any time and end it. Nothing is asked of
requests. `FairRequestSpec`, under which the stop request is refuted, adds
that a request which has read or inserted a row reaches its next statement, so that
the counterexample is not one in which a request merely stopped.
`WorkSpec` of the workflow asks the same of its thread, and that the helper answers, which it does
whenever it is connected; `PolledSpec` adds the poll of the page. `ImportSpec` asks
that worker threads run on, that the page polls (every three seconds,
`IcloudRunWorkflowPanel`), that requests end, and that another operation is over some day.

## What is proved

Every invariant and every action property of the passing runs is stated by a theorem, for every set
of items, files, requests and rows and every bound, with the hypotheses named below.

| component | theorems | module |
|---|---|---|
| receiving | `TypeCorrect`, `InvariantCorrect` (`IInv`); from `IInv` `DatabaseNeverAhead`, `AckedBytesKept`, `ReadyIsVerified`, `OneInode`, `OneLiveOperation`, `RunSummarisesItems`, `CountsCommittedBytes`; from `IInv` and a step `ReadyForever`, `ItemNeverBackward`, `OnlyActiveRunsReceive`; `ReceivingKeepsPromise` (`Spec => Promise!Spec`) | `DurableReceivingProofs` |
| Source Intake | `IntakeTypeCorrect`, `IntakeInvariant`, `OneGenericJobCorrect`, `CompletedProcessedAllCorrect`, `StopEndsBetweenBatchesCorrect` | `AcquisitionBridgeProofs` |
| bridge | `BridgeTypeCorrect`, `BridgeInvariant`, `ObservedOnceCorrect`, `CompletedIsLinkedCorrect`, `RunningHasOwnerCorrect`, `NotStartedIsCleanCorrect`, `BridgeEndIsFinalCorrect` | `AcquisitionBridgeProofs` |
| vault | `VaultInvariant`, `KnownIsKeptCorrect`, `NothingDroppedCorrect` | `IngestionVaultProofs` |
| workflow | `WorkflowInvariant`, `ProposalIsWholeCorrect`, `OneRunPerChildCorrect`, `ChildrenInOrderCorrect`, `CompletedCountsAllCorrect`, `EveryFileOnceCorrect`, `CompletedChildKeptCorrect` | `WindowsSourceWorkflowProofs` |
| background runs | `BackgroundInvariant`, `ProcessedOrPendingCorrect`, `SweepEndIsFinalCorrect` | `BackgroundRunsProofs` |
| duplicate lineage | `AtMostOneCanonicalCorrect`, `StandaloneIsCanonicalCorrect` | `DuplicateLineageProofs` |
| staging cleanup | `TypeCorrect`, `NothingIsLost`, `OneExecutionPerPreview`, `OnlyWhatWasShown`, `CompletedIsWhole` | `IcloudLoopProofs` |
| iCloud loop | `LoopInvariant`, `CompletedBatchIsSafeCorrect`, `LoopLosesNothing` | `IcloudLoopProofs` |
| iCloud import | `ImportTypeCorrect`, `ImportInvariant`, `OneRunInvariant`, `CompletedImportedAllCorrect`, `ImportedOnceCorrect` | `IcloudImportProofs` |

Assumptions. The theorems rest on the named assumptions of the modules, which TLC evaluates on every
run. They say that bounds, sizes and batch sizes are numbers of the right range, that `None` and
its like are none of the values they stand apart from, and that the files, items and candidates of one
job are finitely many. `ChunksAssumption` says that the chunks of a prepared set are disjoint,
as slices of one ordered list are; `LoopAssumption` that a cleanup is started by the loop
or by the user. Some theorems say less than always: `NotStartedIsClean` and `BridgeEndIsFinal` say of
themselves that no session holds the row; `CompletedImportedAll` and `ImportedOnce` are proved
as long as the set has one run (`Alone`); the two of duplicate lineage, for any number of overlapping
sessions, until one has written over a change it has not seen. What lies outside is shown by
`MCCompletedBridge` and `MCImportRuns`.

### Receiving

None of the properties is inductive by itself. That an acknowledged byte stays in the file
depends on what the next write finds there, hence on what a request in flight has
written and not committed, hence on nobody else being between the same two steps. `IInv`
says it in that order:

1. `LocksExclusive`: two requests never hold the same row. It follows from `RunFree`,
   `ItemFree` and `OpFree` alone.
2. `OperationsBound`, `HandlersBound`: an operation keeps its item, an item that has an
   operation is not pending, an admitted request has an operation and its item.
3. `ItemConsistent`: the offset fits the state; unless a failed run was cleaned, the file
   reaches the offset; a ready file is complete; two names mean one inode; acknowledged
   positions lie below the offset and hold their byte.
4. `HandlersConsistent`: what a request relies on at each step. A written chunk is the tail
   of the partial file (`ChunkWritten`), a linked file belongs to a verifying item, a
   request that creates an operation has an item that can take it.
5. `RunConsistent`: run state and counters.

The proof has a lemma per group of actions. Each shows first that the other requests
keep what they hold (`OthersConsistent`, by the locks), then the conjuncts the
action itself can disturb. The type invariant is proved apart, since every other
proof uses it.

`CountsCommittedBytes` relates a counter to a sum over all items, which the community modules define
by a fold. Induction over sets is out of the prover's reach, so the three facts that are needed (the sum is
a natural number, an item can be taken out, equal summands give equal sums) are shown of a
counterexample of least cardinality, which the well-foundedness of the numbers provides.

The refinement maps what an item answers for to `received`: the prefix of its file that the
offset covers, or nothing when its run has failed and it is not ready. `AnsweredAll` turns
`IInv` into that: the length is the offset and the bytes are those of the file. `FilesKept`
then says that no step changes a byte below the offset of such an item, so a step that
leaves the rows alone is a stutter (`SilentStep`), and the other five kinds of step are
each one step of the promise. That the run completes with its last item is
`RunSummarisesItems` of the next state.

### Source Intake

`IntakeInv` adds four parts to the types. `RowsInOrder`: rows have consecutive ids, and what has
no row has no traces. `StartsApart`: one request at a time is inside the start lock, it has found no
live generic thread or owns the only one, and a live thread has an active row; hence `OneGenericJob`.
`ThreadKnows`: what a thread believes of the drop zone, and what has been observed under its run, stays
true whatever another thread does there, since only the thread that made a copy can observe it as
original. `RowKnows`: what a completed row leaves behind. The other two properties
are what this says at the end of a thread. For every number of requests and rows, either kind of
start, every set of files, every size of a batch, and restarts at any time.

### The bridge

`BridgeInv` is stated over the composition, so the steps of `SourceIntake` are proved to keep it
once more. `RowsInUse`: an intake that has no row is named nowhere. `RequestKnows`: what the
snapshot of a request is still worth at each step, above all that the intake it has inserted is its own.
`ThreadsBound`: a thread that works was started for the intake its run is bound to, and its
copies and observations are of that run. `LinksGood`: a link, or a reuse that a
request plans, is to an observation in the library that is of the item or of a prior one.
`RunningHasOwner` is the property.

A run is bound to one intake for good (`_bind_bridge_intake` refuses a second). That is why
`CompletedIsLinked` and `ObservedOnce` hold even when a session believes an old row: what it
starts again can be marked, but cannot be bound, so nothing is ingested. `OneOwner`, that the request
that marked a run is its only one, needs that no session holds its row, and with it
`NotStartedIsClean` and `BridgeEndIsFinal`; `MCCompletedBridge` shows the second violated without.

### The vault

`VaultInv` is inductive as it stands. It says where in the
pipeline each set of records is, that what is copied and not yet persisted has a whole
vault copy (but for the one being copied), that no content is
stored twice in a batch, that what is done is recorded or was skipped with its copy whole, and that a vault copy is removed only when no row refers to it,
save for the contents in `doubtful`, whose insert was committed and reported an error. `KnownIsKept` is a
conjunct; `NothingDropped` follows from the invariant and a step. For every set of
files and contents, every batch size and number of faults.

### The workflow

`PagesChained` and `ProposalSeen` say that a proposal, once seen by anybody, is the whole chain
of pages; `ChildrenCut` that the children are the chunks of the proposal. The rest is one number:
`counts.children`. `RunsInOrder` says that exactly the first so many children are completed, that
there is at most one run more, and that the other counts are those of so many children, `Upto`; a
sum over the children is never needed. `ExecutionKnows` is what a worker has read before it plans
or activates a child. For every list of files, child limit, page limit and number of pages.

### Background runs

`WorksetsCover` says of every cutoff, of a row or of a start in flight, that an item at or before it is
processed, still to be processed by that run, or was missed; `ClockAndRows` that no cutoff lies in
the future, so that an item created later is after it. Since a new workset begins at the greatest cutoff of the
completed runs, no item is between two runs. `SweepsOwnRow` ties the thread of a sweep to
a row that has not ended. For every number of items, stages, runs and faults.

### Duplicate lineage

A lemma per computation: given a table with at most one canonical asset in each group and
every lone asset canonical (`Good`), it returns one. `LineageInv` says that, before a clash, the
table and everything a session has read are such tables. `WrittenIsGood` is the step that
remains: what a commit leaves is in some rows what the session has computed and in the others what
was there. Two canonical assets of one group can only be a row of each kind, and then the second has not
changed since it was read, so the session has computed with it. For every number of
overlapping sessions, every similarity and every order of quality.

### The staging cleanup

`IInv` has four parts. `RowOK` says what a row and its thread look like together; a step of a
thread is proved to keep it once (`LocalStep`), and a lemma per action supplies the
new row. `Linked` ties an execution to the dry run it consumed. `Pending` is what the lock
gives to a start between its check and its commit. `Kept` is what the last look at a file
leaves true until the file is removed, unless a copy changed in between (`raced`). For
every set of files, contents and callers and every number of cleanups, changes and faults.

### The iCloud loop

`LoopInv` is the invariant of the cleanup and three parts. The steps of the cleanup are proved only once: a
lemma (`PlansKept`) says what they leave to the loop, that a row keeps its plan and never goes away.
`BatchTaken`: the status of a batch and the reason for which its run has stopped say whether it was
taken in. `FinalSeen`: the dry run that completes a batch is a later one than that of its
review, and it found the folder empty. So a batch is completed only
after everything in it has been taken in and the folder seen empty once more.

### The iCloud import

For any number of runs, `ImportInv` says that a worker owns the active operation exactly while it
downloads, takes in or cleans. `OneRunInv` adds, as long as the set has one run: what the worker has
chosen is not imported before the ledger takes up its result (`WorkOK`), and no chunk counts more than it
has imported (`CountsOK`): a count is set to what the ledger has just taken up, which no
retry or recovery takes back. At the end the counts of disjoint chunks add up to all candidates, so every chunk
is imported whole.

## What is only model-checked, and what is not modelled

* `EveryRunEnds`, `ApprovedRunEnds`, `NoChunkRunsForever`: liveness under fairness is outside the
  prover's reach.
* What the configurations to run by hand and `loop_recovery` refute.
* What two transactions of duplicate lineage that clash leave behind: `AtMostOneCanonical` is then false.
* `ProcessedOrPending` has one exception, stated in it: an asset whose transaction began
  before a cutoff and committed after it (`missed`) is not in that run, and once that run is
  completed no later one finds it.
* Not modelled: the components with that status in `PROJECT.json`, each with its reason. The
  largest are the creation of source profiles and the identity of Windows volumes, which are
  mostly validation; the preparation of an iCloud set; iCloud acquisition runs, a subprocess
  and a row of the pattern of `SourceIntake`; and the requests of the library, which
  are single transactions on one row.

## Plan

1. `HelperOperations`: all operation kinds, leases and attestations, pairing codes and credentials.
2. The preparation of an iCloud set and the advance route of its import; deferred assets; iCloud
   acquisition runs with their manifests and heartbeats.
3. Two pipeline runs side by side in `IngestionVault`: a generic and an explicit one on one drop zone.

Proofs: what a bridge promises the workflow, and a child's run and bridge of
`WindowsSourceWorkflow` as that promise, as refinements like that of `AcquisitionPromise`; what still
holds of an import when a second run of its set is inserted.

## Running

    tlc -workers 2 -config MCReceivingOneItem.cfg MCReceivingOneItem.tla
    tlapm DurableReceivingProofs.tla

and likewise for the other configurations; the runs take one to three minutes each, the
proofs up to five minutes per module.
