----------------------------- MODULE IcloudImport -----------------------------
(***************************************************************************)
(* The import of one prepared iCloud set                                   *)
(* (icloud_historical_routine_service.py): the rows of an import run, its  *)
(* chunks and the prepared candidates, the inventory ledger, the staging   *)
(* folder, the worker thread of a run with one registry entry per run, and *)
(* the requests of the page, which poll the status (and so recover an      *)
(* abandoned chunk) and dispatch (start, resume or advance).               *)
(*                                                                         *)
(* A worker takes a chunk through listing, acquisition, Source Intake,     *)
(* the ledger, the candidate states and the cleanup, with a commit between *)
(* any two; a request decides on what its session has read and writes it   *)
(* in a later step.  A candidate has one file.                             *)
(***************************************************************************)
EXTENDS Integers, Sequences, FiniteSets, FiniteSetsExt

CONSTANTS
    Candidates,   \* the logical assets that a run selects: all of the prepared set for the
                  \* page, which sends no target, the first ones for a dispatch with a target
    ChunkOf,      \* the candidates of each chunk, in order
    Runs,         \* the import runs that may be created, 1 .. n
    Requests,     \* requests of the page
    Other,        \* an ingestion operation of something else
    MaxFaults     \* bound on restarts, failing threads and other operations

ASSUME RunsAssumption == /\ IsFiniteSet(Runs) /\ Runs = 1..Cardinality(Runs)
                         /\ Other \notin Runs
\* The chunks are slices of the ordered candidates.
ASSUME ChunksAssumption == /\ IsFiniteSet(Candidates) /\ ChunkOf \in Seq(SUBSET Candidates)
                           /\ \A k, l \in DOMAIN ChunkOf : k # l => ChunkOf[k] \cap ChunkOf[l] = {}

Chunks == DOMAIN ChunkOf
Nobody == 0

VARIABLES
    run,        \* the status of each import run, "none" before it is created
    chunk,      \* the chunk rows of each run
    state,      \* candidate_state of the prepared candidates
    ledger,     \* acquisition state of the inventory rows
    imported,   \* the rows with backfill_completed
    prepared,   \* is the prepared set free to start?
    staging,    \* the files of the staging folder
    child,      \* the owner of the active acquisition, intake or cleanup row
    worker,     \* the thread of each run
    request,    \* the requests and what they have read
    faults      \* faults so far

vars == <<run, chunk, state, ledger, imported, prepared, staging, child, worker, request, faults>>
rows == <<run, chunk, state, ledger, imported, prepared>>

Incomplete == {"created", "running", "resume_available", "stopped_needs_review"}
Live == {"created", "running"}
CanBeTried == {"prepared", "execution_failed_retryable"}

NewChunk == [status |-> "pending", imported |-> 0, files |-> {}, cleaned |-> 0,
             linked |-> FALSE, batch |-> "none"]
NoWork == [pc |-> "off", seen |-> "none", k |-> 0, ids |-> {}, chosen |-> {},
           files |-> {}, done |-> {}, batch |-> "none", linked |-> FALSE, ok |-> FALSE]
Idle == [pc |-> "idle", i |-> Nobody, view |-> <<>>, found |-> {}]

ImportTypeOK ==
    /\ run \in [Runs -> Incomplete \cup {"none", "completed", "completed_partial"}]
    /\ \A i \in Runs, k \in Chunks :
        chunk[i][k].status \in {"pending", "running", "completed", "stopped_needs_review",
                                "failed", "retryable_failed", "skipped"}
    /\ state \in [Candidates -> CanBeTried \cup {"imported", "skipped_stale", "failed"}]
    /\ ledger \in [Candidates -> {"new", "acquiring", "staged", "stale", "failed_retryable",
                                  "partial_failed", "completed"}]
    /\ imported \subseteq Candidates
    /\ staging \subseteq Candidates
    /\ child \in Runs \cup {Nobody, Other}
    /\ \A i \in Runs : worker[i].pc = "off" => child # i

Init ==
    /\ run = [i \in Runs |-> "none"]
    /\ chunk = [i \in Runs |-> [k \in Chunks |-> NewChunk]]
    /\ state = [c \in Candidates |-> "prepared"]
    /\ ledger = [c \in Candidates |-> "new"]
    /\ imported = {}
    /\ prepared = TRUE
    /\ staging = {}
    /\ child = Nobody
    /\ worker = [i \in Runs |-> NoWork]
    /\ request = [q \in Requests |-> Idle]
    /\ faults = 0

Created == {i \in Runs : run[i] # "none"}
LatestRun == IF Created = {} THEN Nobody ELSE Max(Created)
IncompleteRuns == {i \in Runs : run[i] \in Incomplete}
LatestIncomplete == IF IncompleteRuns = {} THEN Nobody ELSE Max(IncompleteRuns)

RunningChunks(i) == {k \in Chunks : chunk[i][k].status = "running"}
PendingChunks(cs) == {k \in Chunks : cs[k].status \in {"pending", "retryable_failed"}}

(* The status of run i once chunk k is as in row.  The query for what is   *)
(* pending reads the committed rows (autoflush is off), the counts are     *)
(* those of the session.                                                   *)
Finalized(i, k, row) ==
    LET counts == [chunk[i] EXCEPT ![k] = row] IN
    IF PendingChunks(chunk[i]) # {} THEN run[i]
    ELSE IF MapThenSumSet(LAMBDA n : counts[n].imported, Chunks) >= Cardinality(Candidates)
         THEN "completed" ELSE "completed_partial"

-----------------------------------------------------------------------------
(* The worker of run i.                                                    *)

At(i, pc) == worker[i].pc = pc
K(i) == worker[i].k
Step(i, pc) == worker' = [worker EXCEPT ![i].pc = pc]

(* May the worker claim a chunk?  What the session saw of the run status   *)
(* decides, not the row.                                                   *)
MayClaim(i) ==
    /\ LatestRun = i
    /\ (IF worker[i].seen = "none" THEN run[i] ELSE worker[i].seen) \in Live
    /\ PendingChunks(chunk[i]) # {}
    /\ RunningChunks(i) = {}
    /\ child = Nobody
    /\ staging = {}

(* A chunk that waits is claimed, by an explicit UPDATE of the run.        *)
Claim(i) ==
    /\ At(i, "loop")
    /\ MayClaim(i)
    /\ LET k == Min(PendingChunks(chunk[i])) IN
        /\ chunk' = [chunk EXCEPT ![i][k].status = "running"]
        /\ worker' = [worker EXCEPT ![i] = [NoWork EXCEPT !.pc = "load", !.k = k,
                                                          !.seen = "running"]]
    /\ run' = [run EXCEPT ![i] = "running"]
    /\ prepared' = FALSE
    /\ UNCHANGED <<state, ledger, imported, staging, child, request, faults>>

(* The loop ends: the run is over or waits, or something is in the way.    *)
EndWorker(i) ==
    /\ At(i, "loop")
    /\ ~MayClaim(i)
    /\ worker' = [worker EXCEPT ![i] = NoWork]
    /\ UNCHANGED <<rows, staging, child, request, faults>>

(* The candidates of the chunk that can still be tried.                    *)
PreparedCandidates(i) == {c \in ChunkOf[K(i)] : state[c] \in CanBeTried}

(* The chunk and the run as one transaction leaves them.                   *)
Leave(i, k, row, status) ==
    /\ chunk' = [chunk EXCEPT ![i][k] = row]
    /\ run' = [run EXCEPT ![i] = status]

LoadCandidates(i) ==
    /\ At(i, "load")
    /\ PreparedCandidates(i) # {}
    /\ worker' = [worker EXCEPT ![i].pc = "list", ![i].ids = PreparedCandidates(i)]
    /\ UNCHANGED <<rows, staging, child, request, faults>>

(* Nothing of the chunk is left to try.  The session has not read the run  *)
(* again since the claim and goes on.                                      *)
SkipChunk(i) ==
    /\ At(i, "load")
    /\ PreparedCandidates(i) = {}
    /\ LET row == [chunk[i][K(i)] EXCEPT !.status = "skipped"]
           end == Finalized(i, K(i), row) IN
        /\ Leave(i, K(i), row, end)
        /\ worker' = [worker EXCEPT ![i] = [NoWork EXCEPT !.pc = "loop",
                        !.seen = IF end \in Incomplete THEN "running" ELSE end]]
    /\ UNCHANGED <<state, ledger, imported, prepared, staging, child, request, faults>>

\* Mutant: rows the ledger has as completed are selected again.
SelectAll(i) == worker[i].ids

(* The inventory rows the acquisition selects: completed ones are not.     *)
Selectable(i) == worker[i].ids \ imported

(* The fresh listing.  A row it does not show is stale, one without a safe *)
(* manifest is to be retried; with nothing left the acquisition is blocked.*)
List(i) ==
    /\ At(i, "list")
    /\ \E stale \in SUBSET Selectable(i) : \E unsafe \in SUBSET (Selectable(i) \ stale) :
        LET safe == Selectable(i) \ (stale \cup unsafe) IN
        /\ ledger' = [c \in Candidates |-> IF c \in stale THEN "stale"
                                           ELSE IF c \in unsafe THEN "failed_retryable"
                                           ELSE ledger[c]]
        /\ worker' = [worker EXCEPT ![i].chosen = safe,
                                    ![i].pc = IF safe = {} THEN "mark" ELSE "attempt"]
    /\ UNCHANGED <<run, chunk, state, imported, prepared, staging, child, request, faults>>

Ledger(cs, s) == [c \in Candidates |-> IF c \in cs THEN s ELSE ledger[c]]

(* The guardrail looks again.  If another operation is active the result   *)
(* is blocked and the rows stay as they are.                               *)
Attempt(i) ==
    /\ At(i, "attempt")
    /\ IF child # Nobody
       THEN Step(i, "mark") /\ UNCHANGED ledger
       ELSE Step(i, "lease") /\ ledger' = Ledger(worker[i].chosen, "acquiring")
    /\ UNCHANGED <<run, chunk, state, imported, prepared, staging, child, request, faults>>

(* The acquisition run is created, unless another has begun since.         *)
TakeLease(i) ==
    /\ At(i, "lease")
    /\ IF child # Nobody
       THEN /\ Step(i, "mark")
            /\ ledger' = Ledger(worker[i].chosen, "failed_retryable")
            /\ UNCHANGED child
       ELSE /\ Step(i, "download")
            /\ child' = i
            /\ UNCHANGED ledger
    /\ UNCHANGED <<run, chunk, state, imported, prepared, staging, request, faults>>

Download(i) ==
    /\ At(i, "download")
    /\ \E c \in worker[i].chosen \ staging : staging' = staging \cup {c}
    /\ UNCHANGED <<rows, child, worker, request, faults>>

(* The batch is ready if every file is there, else it is blocked.          *)
EndDownload(i) ==
    /\ At(i, "download")
    /\ LET files == worker[i].chosen \cap staging
           ready == files = worker[i].chosen IN
        /\ ledger' = Ledger(worker[i].chosen, IF ready THEN "staged" ELSE "failed_retryable")
        /\ \E batch \in IF ready THEN {"ready"} ELSE {"local_file_error", "other"} :
            worker' = [worker EXCEPT ![i].pc = IF ready THEN "intake" ELSE "mark",
                                     ![i].files = files, ![i].batch = batch]
    /\ child' = Nobody
    /\ UNCHANGED <<run, chunk, state, imported, prepared, staging, request, faults>>

(* Source Intake of the batch starts.                                      *)
StartIntake(i) ==
    /\ At(i, "intake")
    /\ child = Nobody
    /\ worker' = [worker EXCEPT ![i].pc = "taking", ![i].linked = TRUE]
    /\ child' = i
    /\ UNCHANGED <<rows, staging, request, faults>>

(* It is refused: an operation is active, the drop zone is not empty, or a *)
(* file is not what was recorded.                                          *)
RefuseIntake(i) ==
    /\ At(i, "intake")
    /\ Step(i, "record")
    /\ UNCHANGED <<rows, staging, child, request, faults>>

(* Source Intake ends with some of the files in the library, and fails if  *)
(* a stage did or a file is missing.                                       *)
EndIntake(i) ==
    /\ At(i, "taking")
    /\ \E done \in SUBSET worker[i].chosen : \E ok \in {FALSE, done = worker[i].chosen} :
        worker' = [worker EXCEPT ![i].pc = "record", ![i].done = done, ![i].ok = ok]
    /\ child' = Nobody
    /\ UNCHANGED <<rows, staging, request, faults>>

(* The ledger takes up the result, in a transaction of its own.            *)
RecordResult(i) ==
    /\ At(i, "record")
    /\ LET w == worker[i] IN
        /\ ledger' = [c \in Candidates |-> IF c \in w.done THEN "completed"
                                           ELSE IF c \in w.chosen THEN "partial_failed"
                                           ELSE ledger[c]]
        /\ imported' = (imported \ w.chosen) \cup w.done
    /\ Step(i, "mark")
    /\ UNCHANGED <<run, chunk, state, prepared, staging, child, request, faults>>

StateFor(c) == CASE c \in imported -> "imported"
                 [] ledger[c] = "stale" -> "skipped_stale"
                 [] ledger[c] = "failed_retryable" -> "execution_failed_retryable"
                 [] OTHER -> "failed"

(* The candidates take their state from the ledger.  The commit carries the*)
(* ids of the chunk's batch and intake, and none of its counts.            *)
MarkCandidates(i) ==
    /\ At(i, "mark")
    /\ state' = [c \in Candidates |-> IF c \in worker[i].ids THEN StateFor(c)
                                      ELSE state[c]]
    /\ chunk' = [chunk EXCEPT ![i][K(i)].linked = worker[i].linked,
                              ![i][K(i)].batch = worker[i].batch]
    /\ Step(i, "decide")
    /\ UNCHANGED <<run, ledger, imported, prepared, staging, child, request, faults>>

\* Mutant: the candidates that were tried are counted as imported.
CountedTried(i) ==
    [chunk[i][K(i)] EXCEPT !.imported = Cardinality(worker[i].ids), !.files = worker[i].files]

(* The chunk row with the counts of this attempt.                          *)
Counted(i) ==
    [chunk[i][K(i)] EXCEPT !.imported = Cardinality(worker[i].done), !.files = worker[i].files]

(* Nothing was imported: the chunk can be retried or has failed.           *)
LeaveEmpty(i) ==
    /\ At(i, "decide")
    /\ worker[i].done = {}
    /\ LET retry == \E c \in worker[i].ids : state[c] = "execution_failed_retryable" IN
        /\ Leave(i, K(i), [Counted(i) EXCEPT !.status = IF retry THEN "retryable_failed"
                                                        ELSE "failed"],
                 IF retry THEN "resume_available" ELSE "stopped_needs_review")
        /\ prepared' = (retry \/ prepared)
    /\ worker' = [worker EXCEPT ![i] = NoWork]
    /\ UNCHANGED <<state, ledger, imported, staging, child, request, faults>>

StopForReview(i) ==
    /\ Leave(i, K(i), [Counted(i) EXCEPT !.status = "stopped_needs_review"],
             "stopped_needs_review")
    /\ worker' = [worker EXCEPT ![i] = NoWork]
    /\ UNCHANGED <<state, ledger, imported, prepared, request, faults>>

(* Source Intake did not succeed, or the cleanup finds another operation.  *)
LeaveUnclean(i) ==
    /\ At(i, "decide")
    /\ worker[i].done # {}
    /\ ~worker[i].ok \/ child # Nobody
    /\ StopForReview(i)
    /\ UNCHANGED <<staging, child>>

(* The cleanup starts; its commit carries the counts of the chunk.         *)
StartCleanup(i) ==
    /\ At(i, "decide")
    /\ worker[i].done # {} /\ worker[i].ok /\ child = Nobody
    /\ child' = i
    /\ chunk' = [chunk EXCEPT ![i][K(i)] = Counted(i)]
    /\ Step(i, "clean")
    /\ UNCHANGED <<run, state, ledger, imported, prepared, staging, request, faults>>

(* The cleanup removes what was acquired, if that is what is staged.       *)
RemoveStaged(i) ==
    /\ At(i, "clean")
    /\ staging = worker[i].files
    /\ staging' = {}
    /\ child' = Nobody
    /\ Step(i, "cleaned")
    /\ UNCHANGED <<rows, request, faults>>

(* It refuses, fails, or removes a part.                                   *)
CleanupFails(i) ==
    /\ At(i, "clean")
    /\ \E gone \in SUBSET worker[i].files : staging' = staging \ gone
    /\ child' = Nobody
    /\ StopForReview(i)

CompleteChunk(i) ==
    /\ At(i, "cleaned")
    /\ LET row == [Counted(i) EXCEPT !.status = "completed",
                                     !.cleaned = Cardinality(worker[i].files)]
           end == Finalized(i, K(i), row) IN
        /\ Leave(i, K(i), row, end)
        /\ worker' = [worker EXCEPT ![i] = [NoWork EXCEPT !.pc = "loop", !.seen = end]]
    /\ UNCHANGED <<state, ledger, imported, prepared, staging, child, request, faults>>

Work(i) ==
    \/ Claim(i) \/ EndWorker(i) \/ LoadCandidates(i) \/ SkipChunk(i) \/ List(i)
    \/ Attempt(i) \/ TakeLease(i) \/ Download(i) \/ EndDownload(i)
    \/ StartIntake(i) \/ RefuseIntake(i) \/ EndIntake(i) \/ RecordResult(i) \/ MarkCandidates(i)
    \/ LeaveEmpty(i) \/ LeaveUnclean(i) \/ StartCleanup(i)
    \/ RemoveStaged(i) \/ CleanupFails(i) \/ CompleteChunk(i)

-----------------------------------------------------------------------------
(* The requests of the page.                                               *)

AtRequest(q, pc) == request[q].pc = pc
Ask(q, pc, i, found) ==
    request' = [request EXCEPT ![q] = [pc |-> pc, i |-> i, found |-> found,
                                       view |-> IF i = Nobody THEN <<>> ELSE chunk[i]]]

(* No thread of this process works on the run.                             *)
Abandoned(i) == run[i] = "running" /\ At(i, "off")

(* A poll finds a running chunk that nobody works on, long enough after the*)
(* last progress: how long is left open.                                   *)
FindStale(q) ==
    /\ AtRequest(q, "idle")
    /\ LET i == LatestIncomplete IN
        /\ i # Nobody
        /\ Abandoned(i)
        /\ child = Nobody
        /\ RunningChunks(i) # {}
        /\ Ask(q, "recover", i, RunningChunks(i))
    /\ UNCHANGED <<rows, staging, child, worker, faults>>

Unclean(row) == Cardinality(row.files) > row.cleaned

(* It writes what it has concluded, whatever has happened since.           *)
Recover(q) ==
    /\ AtRequest(q, "recover")
    /\ LET i == request[q].i
           review == \E k \in request[q].found : Unclean(request[q].view[k]) IN
        /\ chunk' = [chunk EXCEPT ![i] = [k \in Chunks |->
              IF k \notin request[q].found THEN chunk[i][k]
              ELSE [chunk[i][k] EXCEPT !.status =
                      IF Unclean(request[q].view[k]) THEN "stopped_needs_review"
                      ELSE "retryable_failed"]]]
        /\ run' = [run EXCEPT ![i] = IF review THEN "stopped_needs_review"
                                     ELSE "resume_available"]
        /\ prepared' = (prepared \/ ~review)
    /\ request' = [request EXCEPT ![q] = Idle]
    /\ UNCHANGED <<state, ledger, imported, staging, child, worker, faults>>

(* A dispatch reads the status and chooses what to do.                     *)
Choose(q) ==
    /\ AtRequest(q, "idle")
    /\ child = Nobody
    /\ LET i == LatestRun IN
        \/ /\ i # Nobody /\ run[i] = "resume_available" /\ PendingChunks(chunk[i]) # {}
           /\ Ask(q, "resume", i, {})
        \/ /\ i # Nobody /\ run[i] \in Live /\ PendingChunks(chunk[i]) # {}
           /\ RunningChunks(i) = {} /\ At(i, "off") /\ staging = {}
           /\ Ask(q, "launch", i, {})
        \/ /\ i \notin IncompleteRuns
           /\ prepared /\ staging = {}
           /\ Ask(q, "start", Nobody, {})
    /\ UNCHANGED <<rows, staging, child, worker, faults>>

(* The chunks whose failed acquisition has left files.                     *)
LeftFiles(q) == {k \in Chunks : LET row == request[q].view[k] IN
                    row.status = "retryable_failed" /\ Unclean(row) /\ ~row.linked}
Discardable(q, k) == /\ LeftFiles(q) = {k}
                     /\ request[q].view[k].batch = "local_file_error"
                     /\ staging = request[q].view[k].files
Forget(q) == request' = [request EXCEPT ![q] = Idle]

(* The files are removed, and then the rows say so.                        *)
Discard(q) ==
    /\ AtRequest(q, "resume")
    /\ \E k \in LeftFiles(q) :
        /\ Discardable(q, k)
        /\ request' = [request EXCEPT ![q].pc = "discarded", ![q].found = {k}]
    /\ staging' = {}
    /\ UNCHANGED <<rows, child, worker, faults>>

RefuseResume(q) ==
    /\ AtRequest(q, "resume")
    /\ LeftFiles(q) # {}
    /\ \A k \in LeftFiles(q) : ~Discardable(q, k)
    /\ Forget(q)
    /\ UNCHANGED <<rows, staging, child, worker, faults>>

(* The run is running again, whatever it has become since it was read.     *)
Resume(q) ==
    /\ \/ AtRequest(q, "resume") /\ LeftFiles(q) = {}
       \/ AtRequest(q, "discarded")
    /\ LET i == request[q].i IN
        /\ chunk' = [chunk EXCEPT ![i] = [k \in Chunks |->
              IF k \in request[q].found
              THEN [chunk[i][k] EXCEPT !.cleaned = Cardinality(request[q].view[k].files)]
              ELSE chunk[i][k]]]
        /\ run' = [run EXCEPT ![i] = "running"]
        /\ request' = [request EXCEPT ![q] = [Idle EXCEPT !.pc = "launch", !.i = i]]
    /\ prepared' = FALSE
    /\ UNCHANGED <<state, ledger, imported, staging, child, worker, faults>>

(* A start looks for an incomplete run; it may find one and launch nothing *)
(* but that run's worker.                                                  *)
CheckStart(q) ==
    /\ AtRequest(q, "start")
    /\ IF LatestIncomplete # Nobody
       THEN Ask(q, "launch", LatestRun, {})
       ELSE IF prepared THEN Ask(q, "insert", Nobody, {}) ELSE Forget(q)
    /\ UNCHANGED <<rows, staging, child, worker, faults>>

(* Nothing keeps two of them from inserting a run.                         *)
InsertRun(q) ==
    /\ AtRequest(q, "insert")
    /\ LET i == LatestRun + 1 IN
        /\ i \in Runs
        /\ run' = [run EXCEPT ![i] = "created"]
        /\ request' = [request EXCEPT ![q] = [Idle EXCEPT !.pc = "launch", !.i = i]]
    /\ prepared' = FALSE
    /\ UNCHANGED <<chunk, state, ledger, imported, staging, child, worker, faults>>

(* One thread per run: the registry refuses a second.                      *)
Launch(q) ==
    /\ AtRequest(q, "launch")
    /\ worker' = IF At(request[q].i, "off")
                 THEN [worker EXCEPT ![request[q].i] = [NoWork EXCEPT !.pc = "loop"]]
                 ELSE worker
    /\ Forget(q)
    /\ UNCHANGED <<rows, staging, child, faults>>

Ends(q) == Recover(q) \/ Discard(q) \/ RefuseResume(q) \/ Resume(q) \/ CheckStart(q)
           \/ InsertRun(q) \/ Launch(q)

-----------------------------------------------------------------------------
(* Time, faults and the rest of the system.                                *)

Fault == faults < MaxFaults /\ faults' = faults + 1

(* The process ends; the next one resets the rows of the operations.       *)
Restart ==
    /\ Fault
    /\ worker' = [i \in Runs |-> NoWork]
    /\ request' = [q \in Requests |-> Idle]
    /\ child' = Nobody
    /\ UNCHANGED <<rows, staging>>

(* A thread ends with an exception, while it owns no operation.            *)
WorkerFails(i) ==
    /\ Fault
    /\ ~At(i, "off") /\ child # i
    /\ worker' = [worker EXCEPT ![i] = NoWork]
    /\ UNCHANGED <<rows, staging, child, request>>

OtherStarts ==
    /\ Fault
    /\ child = Nobody
    /\ child' = Other
    /\ UNCHANGED <<rows, staging, worker, request>>

OtherEnds ==
    /\ child = Other
    /\ child' = Nobody
    /\ UNCHANGED <<rows, staging, worker, request, faults>>

(* The operator cleans the folder, with nothing active.                    *)
ClearStaging ==
    /\ staging # {} /\ child = Nobody /\ \A i \in Runs : At(i, "off")
    /\ staging' = {}
    /\ UNCHANGED <<rows, child, worker, request, faults>>

Next ==
    \/ \E i \in Runs : Work(i) \/ WorkerFails(i)
    \/ \E q \in Requests : FindStale(q) \/ Choose(q) \/ Ends(q)
    \/ Restart \/ OtherStarts \/ OtherEnds \/ ClearStaging

Spec == Init /\ [][Next]_vars

(* A thread runs on, the page polls every three seconds, a request comes   *)
(* to its end, and another operation is over some day.                     *)
ImportSpec ==
    /\ Spec
    /\ \A i \in Runs : WF_vars(Work(i))
    /\ \A q \in Requests : WF_vars(FindStale(q)) /\ WF_vars(Ends(q))
    /\ WF_vars(OtherEnds)

-----------------------------------------------------------------------------

(* A run is completed only when every candidate it has selected is in      *)
(* the library, although it is decided from counts that attempts overwrite,*)
(* recoveries leave and retries start from.                                *)
CompletedImportedAll ==
    \A i \in Runs : run[i] = "completed" => imported = Candidates

(* What the ledger has as completed is not downloaded again, after any     *)
(* number of restarts, recoveries and resumes.                             *)
ImportedOnce == [][(staging' \ staging) \cap imported = {}]_vars

(* No chunk stays running for good: a worker ends it, or a poll finds it   *)
(* abandoned.                                                              *)
NoChunkRunsForever ==
    \A i \in Runs, k \in Chunks : chunk[i][k].status = "running" ~> chunk[i][k].status # "running"

(* A chunk that has failed for good has imported nothing (what its message *)
(* says).                                                                  *)
FailedImportedNothing ==
    \A i \in Runs, k \in Chunks : chunk[i][k].status = "failed" =>
        ChunkOf[k] \cap imported = {}

(* A prepared set has one import run.                                      *)
OneImportRun == Cardinality(Created) <= 1
=============================================================================
