----------------------------- MODULE SourceIntake -----------------------------
(***************************************************************************)
(* Source Intake runs (services/admin/source_intake_execution_service.py): *)
(* a request checks that no run is active and inserts a row, a background  *)
(* thread copies the selected files to the one drop zone, ingests them in  *)
(* batches (services/ingestion/pipeline_orchestrator.py) and writes the    *)
(* final status.  A stop request and the end of the process may come at    *)
(* any step; the threads and the requests share nothing but the rows and   *)
(* the drop zone.                                                          *)
(*                                                                         *)
(* There are two ways to start a run: the generic one checks, inserts and  *)
(* starts its thread under protected_ingestion_operation_start; the        *)
(* explicit one, for the files a caller trusts, does so without it.        *)
(*                                                                         *)
(* Left out: what ingestion does to an asset, I/O errors while the drop    *)
(* zone is cleaned, and the loss of the database alone.                    *)
(***************************************************************************)
EXTENDS Integers, FiniteSets, FiniteSetsExt

CONSTANTS
  Requests,    \* requests the server can be executing at the same time
  Files,       \* source files
  MaxIntakes,  \* bounds the rows of source_intake_runs
  BatchSize,   \* ingest_batch_size of a generic run
  None         \* no intake

ASSUME IntakesAssumption == MaxIntakes \in Nat /\ None \notin 1..MaxIntakes
ASSUME FilesAssumption   == IsFiniteSet(Files)
ASSUME BatchAssumption   == BatchSize \in Nat \ {0}

VARIABLES
  \* source_intake_runs
  status,         \* status ("none": the row is not inserted yet)
  stopRequested,  \* stop_requested
  rejected,       \* failed_or_rejected
  \* shared state
  dropZone,       \* drop zone: <<file, the intake that copied it>>
  library,        \* provenance rows
  \* background threads
  jobPc,          \* where the thread of each intake is
  job,            \* its PipelineContext
  \* requests
  pc,             \* where each request is
  target          \* the intake it works on

intakeVars == <<status, stopRequested, rejected, dropZone, library, jobPc, job, pc, target>>
intakeRows == <<status, stopRequested, rejected>>

Intakes  == 1..MaxIntakes
Statuses == {"none", "running", "stop_requested", "completed", "failed", "stopped"}
Final    == {"completed", "failed", "stopped"}
Copies   == Files \X Intakes

\* "created": the row is inserted and the thread not yet started.
JobPCs == {"none", "created", "collect", "staging", "batch", "clean", "report", "callback",
           "done"}
LiveJob == JobPCs \ {"none", "callback", "done"}

\* A provenance row: ingested by intake, under the file's own path if that intake copied
\* it, and under its drop zone path if another one did.
Observations == [file : Files, intake : Intakes, original : BOOLEAN]
Observation(copy, k) == [file |-> copy[1], intake |-> k, original |-> copy[2] = k]

\* records: the files of the run; explicit: handed over by the caller; left: the copies
\* still to process; batch and refused: the current batch and the part of it that failed.
JobRecords == [records : SUBSET Files, explicit : BOOLEAN, size : Nat, left : SUBSET Copies,
               batch : SUBSET Copies, refused : SUBSET Copies, outcome : Final]
NoJob == [records |-> {}, explicit |-> FALSE, size |-> 1, left |-> {}, batch |-> {},
          refused |-> {}, outcome |-> "failed"]

GenericJob(k) == jobPc[k] \in LiveJob /\ ~job[k].explicit

Active(k) == status[k] \in {"running", "stop_requested"}
NoActive  == \A k \in Intakes : ~Active(k)

IntakeInit ==
  /\ status = [k \in Intakes |-> "none"]
  /\ stopRequested = [k \in Intakes |-> FALSE]
  /\ rejected = [k \in Intakes |-> 0]
  /\ dropZone = {} /\ library = {}
  /\ jobPc = [k \in Intakes |-> "none"]
  /\ job = [k \in Intakes |-> NoJob]
  /\ pc = [q \in Requests |-> "idle"]
  /\ target = [q \in Requests |-> None]

JobGoto(k, label) == jobPc' = [jobPc EXCEPT ![k] = label]
Goto(q, label)    == pc' = [pc EXCEPT ![q] = label]

Finish(q) == Goto(q, "idle") /\ target' = [target EXCEPT ![q] = None]

-----------------------------------------------------------------------------
(* Starting and stopping a run.                                              *)

\* Mutant: the check and the start are not serialised.
StartUnlocked == TRUE

\* protected_ingestion_operation_start: one check-and-start section at a time.
StartLockFree == \A q \in Requests : pc[q] \notin {"starting", "started"}

BeginStart(q) ==
  /\ pc[q] = "idle" /\ StartLockFree
  /\ NoActive
  /\ Goto(q, "starting")
  /\ UNCHANGED <<intakeRows, dropZone, library, jobPc, job, target>>

\* The next row of source_intake_runs, for the given files.
InsertRow(q, k, files, size, explicit) ==
  /\ k = Cardinality({i \in Intakes : status[i] # "none"}) + 1
  /\ dropZone = {} /\ files # {}
  /\ status' = [status EXCEPT ![k] = "running"]
  /\ job' = [job EXCEPT ![k].records = files, ![k].size = size, ![k].explicit = explicit]
  /\ JobGoto(k, "created")
  /\ target' = [target EXCEPT ![q] = k]
  /\ UNCHANGED <<stopRequested, rejected, dropZone, library>>

InsertGeneric(q, k, files) ==
  /\ pc[q] = "starting"
  /\ InsertRow(q, k, files, BatchSize, FALSE)
  /\ Goto(q, "started")

\* The drop zone is not empty, or the source cannot be read.
RefuseStart(q) ==
  /\ pc[q] \in {"starting", "checked"}
  /\ Finish(q)
  /\ UNCHANGED <<intakeRows, dropZone, library, jobPc, job>>

\* The start lock is held until the thread runs.
StartLocked(q) ==
  /\ pc[q] = "started"
  /\ JobGoto(target[q], "collect")
  /\ Finish(q)
  /\ UNCHANGED <<intakeRows, dropZone, library, job>>

\* start_explicit_source_intake asks for an active run without the start lock: another
\* start can find none at the same time ...
BeginExplicit(q) ==
  /\ pc[q] = "idle" /\ NoActive
  /\ Goto(q, "checked")
  /\ UNCHANGED <<intakeRows, dropZone, library, jobPc, job, target>>

\* ... inserts the row, with one batch for all records as its caller asks ...
InsertTrusted(q, k, files) ==
  /\ pc[q] = "checked"
  /\ InsertRow(q, k, files, Cardinality(files), TRUE)
  /\ Goto(q, "inserted")

\* ... and calls on_created.  If that raises, the row is failed and no thread starts.
CreatedAccepted(q) ==
  /\ pc[q] = "inserted"
  /\ Goto(q, "launching")
  /\ UNCHANGED <<intakeRows, dropZone, library, jobPc, job, target>>

CreatedRaises(q) ==
  /\ pc[q] = "inserted"
  /\ status' = [status EXCEPT ![target[q]] = "failed"]
  /\ jobPc' = [jobPc EXCEPT ![target[q]] = "done"]
  /\ job' = [job EXCEPT ![target[q]] = NoJob]
  /\ Finish(q)
  /\ UNCHANGED <<stopRequested, rejected, dropZone, library>>

StartThread(q) ==
  /\ pc[q] = "launching"
  /\ JobGoto(target[q], "collect")
  /\ Finish(q)
  /\ UNCHANGED <<intakeRows, dropZone, library, job>>

\* request_source_intake_stop reads the newest active run ...
BeginStop(q) ==
  /\ pc[q] = "idle"
  /\ \E k \in Intakes :
       /\ status[k] = "running" /\ \A j \in Intakes : Active(j) => j <= k
       /\ target' = [target EXCEPT ![q] = k]
  /\ Goto(q, "stopping")
  /\ UNCHANGED <<intakeRows, dropZone, library, jobPc, job>>

\* ... and writes by primary key, whatever the status is by then.
EndStop(q) ==
  /\ pc[q] = "stopping"
  /\ status' = [status EXCEPT ![target[q]] = "stop_requested"]
  /\ stopRequested' = [stopRequested EXCEPT ![target[q]] = TRUE]
  /\ Finish(q)
  /\ UNCHANGED <<rejected, dropZone, library, jobPc, job>>

-----------------------------------------------------------------------------
(* The background thread.                                                    *)

CollectInput(k) ==
  /\ jobPc[k] = "collect" /\ dropZone = {}
  /\ JobGoto(k, "staging")
  /\ UNCHANGED <<intakeRows, dropZone, library, job, pc, target>>

\* The files that can be copied are, the others are dropped from the run; everything
\* found in the drop zone afterwards is to be processed.
StageFiles(k, copied) ==
  /\ jobPc[k] = "staging" /\ copied \subseteq job[k].records
  /\ dropZone' = dropZone \cup (copied \X {k})
  /\ job' = [job EXCEPT ![k].left = dropZone']
  /\ JobGoto(k, "batch")
  /\ UNCHANGED <<intakeRows, library, pc, target>>

\* A file that is gone, or is refused by a filter, the vault or the database, fails.  A
\* file whose insert loses a race (IntegrityError) is skipped: neither observed nor failed.
IngestBatch(k, batch, ok, refused) ==
  /\ jobPc[k] = "batch" /\ ~stopRequested[k]
  /\ batch # {} /\ Cardinality(batch) = Min({job[k].size, Cardinality(job[k].left)})
  /\ ok \subseteq dropZone /\ batch \ dropZone \subseteq refused
  /\ library' = library \cup {Observation(copy, k) : copy \in ok}
  /\ job' = [job EXCEPT ![k].batch = batch, ![k].refused = refused]
  /\ JobGoto(k, "clean")
  /\ UNCHANGED <<intakeRows, dropZone, pc, target>>

\* Mutant: the processed records are not trimmed.
CleanUntrimmed(k) ==
  /\ jobPc[k] = "clean"
  /\ dropZone' = dropZone \ job[k].batch
  /\ rejected' = [rejected EXCEPT ![k] = Cardinality(job[k].refused)]
  /\ job' = [job EXCEPT ![k].batch = {}, ![k].refused = {}]
  /\ JobGoto(k, "batch")
  /\ UNCHANGED <<status, stopRequested, library, pc, target>>

\* The batch leaves the drop zone; the progress row shows its failures.
CleanBatch(k) ==
  /\ jobPc[k] = "clean"
  /\ dropZone' = dropZone \ job[k].batch
  /\ rejected' = [rejected EXCEPT ![k] = Cardinality(job[k].refused)]
  /\ job' = [job EXCEPT ![k].left = @ \ job[k].batch,
                        ![k].batch = {}, ![k].refused = {}]
  /\ JobGoto(k, "batch")
  /\ UNCHANGED <<status, stopRequested, library, pc, target>>

\* Mutant: a stop request also ends the loop inside a batch.
EndLoopAnywhere(k) ==
  /\ jobPc[k] \in {"batch", "clean"}
  /\ stopRequested[k] \/ (jobPc[k] = "batch" /\ job[k].left = {})
  /\ job' = [job EXCEPT ![k].left = {}, ![k].batch = {}, ![k].refused = {},
                        ![k].outcome = IF stopRequested[k] THEN "stopped" ELSE "completed"]
  /\ JobGoto(k, "report")
  /\ UNCHANGED <<intakeRows, dropZone, library, pc, target>>

\* Mutant: the stop flag is not read again after the loop.
EndLoopCompleted(k) ==
  /\ jobPc[k] = "batch" /\ (job[k].left = {} \/ stopRequested[k])
  /\ job' = [job EXCEPT ![k].left = {}, ![k].outcome = "completed"]
  /\ JobGoto(k, "report")
  /\ UNCHANGED <<intakeRows, dropZone, library, pc, target>>

\* A stop is seen before a batch, and once more when the final status is chosen.
EndLoop(k) ==
  /\ jobPc[k] = "batch" /\ (job[k].left = {} \/ stopRequested[k])
  /\ job' = [job EXCEPT ![k].left = {},
                        ![k].outcome = IF stopRequested[k] THEN "stopped" ELSE "completed"]
  /\ JobGoto(k, "report")
  /\ UNCHANGED <<intakeRows, dropZone, library, pc, target>>

\* A stage raises, before, in or after the batches: the drop zone stays as it is.
FailStage(k) ==
  /\ jobPc[k] \in {"collect", "staging", "batch", "clean"}
  /\ job' = [job EXCEPT ![k].left = {}, ![k].batch = {}, ![k].refused = {},
                        ![k].outcome = "failed"]
  /\ JobGoto(k, "report")
  /\ UNCHANGED <<intakeRows, dropZone, library, pc, target>>

ReportStatus(k) ==
  /\ jobPc[k] = "report"
  /\ status' = [status EXCEPT ![k] = job[k].outcome]
  /\ job' = [job EXCEPT ![k] = [NoJob EXCEPT !.records = job[k].records]]
  /\ JobGoto(k, "callback")
  /\ UNCHANGED <<stopRequested, rejected, dropZone, library, pc, target>>

\* A generic run has no on_finished.
EndJob(k) ==
  /\ jobPc[k] = "callback"
  /\ JobGoto(k, "done")
  /\ job' = [job EXCEPT ![k] = NoJob]
  /\ UNCHANGED <<intakeRows, dropZone, library, pc, target>>

-----------------------------------------------------------------------------
\* Every thread and request of the process is lost; on startup _reset_stale_runs
\* fails the rows that were active.
Restart ==
  /\ status' = [k \in Intakes |-> IF Active(k) THEN "failed" ELSE status[k]]
  /\ jobPc' = [k \in Intakes |-> IF jobPc[k] = "none" THEN "none" ELSE "done"]
  /\ job' = [k \in Intakes |-> NoJob]
  /\ pc' = [q \in Requests |-> "idle"]
  /\ target' = [q \in Requests |-> None]
  /\ UNCHANGED <<stopRequested, rejected, dropZone, library>>

\* The operator empties the drop zone, as the refusal of a start asks.
ClearDropZone ==
  /\ dropZone # {} /\ \A k \in Intakes : jobPc[k] \notin LiveJob
  /\ dropZone' = {}
  /\ UNCHANGED <<intakeRows, library, jobPc, job, pc, target>>

RequestStep(q) ==
  \/ BeginStart(q) \/ RefuseStart(q) \/ StartLocked(q) \/ BeginExplicit(q)
  \/ CreatedAccepted(q) \/ CreatedRaises(q) \/ StartThread(q) \/ BeginStop(q) \/ EndStop(q)
  \/ \E k \in Intakes, files \in SUBSET Files : InsertGeneric(q, k, files)
                                              \/ InsertTrusted(q, k, files)

JobWork(k) ==
  \/ FailStage(k) \/ ReportStatus(k) \/ CollectInput(k) \/ CleanBatch(k) \/ EndLoop(k)
  \/ \E copied \in SUBSET job[k].records : StageFiles(k, copied)
  \/ \E batch \in SUBSET job[k].left : \E ok \in SUBSET batch :
       \E refused \in SUBSET (batch \ ok) : IngestBatch(k, batch, ok, refused)

IntakeNext ==
  \/ \E q \in Requests : RequestStep(q)
  \/ \E k \in Intakes : JobWork(k) \/ EndJob(k)
  \/ Restart \/ ClearDropZone

IntakeSpec == IntakeInit /\ [][IntakeNext]_intakeVars

\* The operating system runs a started thread; nothing else is promised.
FairIntakeSpec == IntakeSpec /\ \A k \in Intakes : WF_intakeVars(JobWork(k) \/ EndJob(k))

\* A request that has inserted or read a row runs on as well.
FairRequestSpec ==
  FairIntakeSpec /\ \A q \in Requests : WF_intakeVars(StartLocked(q) \/ StartThread(q) \/ EndStop(q))

-----------------------------------------------------------------------------
(* Properties.                                                               *)

\* The rows, the drop zone, the threads and the requests have their types.
IntakeTypeOK ==
  /\ status \in [Intakes -> Statuses]
  /\ stopRequested \in [Intakes -> BOOLEAN]
  /\ rejected \in [Intakes -> Nat]
  /\ dropZone \subseteq Copies /\ library \subseteq Observations
  /\ jobPc \in [Intakes -> JobPCs]
  /\ job \in [Intakes -> JobRecords]
  /\ target \in [Requests -> Intakes \cup {None}]

\* The start lock and the query for an active row leave no two live threads of generic
\* runs on the one drop zone, although a late stop request can make a finished run look
\* active and explicit starts, which take no lock, come in between.
OneGenericJob == \A k1, k2 \in Intakes : GenericJob(k1) /\ GenericJob(k2) => k1 = k2

\* "Only one source intake job may run at a time", of every run: an explicit start that
\* overlaps another start breaks it.
OneJob == \A k1, k2 \in Intakes : jobPc[k1] \in LiveJob /\ jobPc[k2] \in LiveJob => k1 = k2

\* A run that says completed left none of its files in the drop zone, whoever else works
\* on it: a stop that cut its loop short is seen again when the final status is chosen.
CompletedProcessedAll ==
  \A k \in Intakes : status[k] = "completed" => \A copy \in dropZone : copy[2] # k

\* A stop lets the current batch end: no copy of a stopped run is both observed and in
\* the drop zone, where a later run, or one beside it, would take it again.
StopEndsBetweenBatches ==
  \A k \in Intakes : status[k] \in {"stopped", "completed"} =>
    \A o \in library : o.intake = k /\ o.original => <<o.file, k>> \notin dropZone

\* A started run reaches a final status, whatever stop requests it meets.
EveryRunEnds == \A k \in Intakes : jobPc[k] = "collect" ~> status[k] \in Final

\* "Run will finish current batch and exit": a run with a stop request ends.  A
\* stop request that was overtaken by the final status makes the run active
\* again, without a thread.
StopRequestEnds == \A k \in Intakes : status[k] = "stop_requested" ~> status[k] \in Final

===============================================================================
