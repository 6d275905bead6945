------------------------------ MODULE IcloudLoop ------------------------------
(***************************************************************************)
(* The internal iCloud loop of one source                                  *)
(* (services/icloud_acquisition/internal_loop_orchestrator.py, started by  *)
(* services/admin/internal_icloud_run_service.py).  A run acquires a batch *)
(* into the staging folder, verifies it, takes it in                       *)
(* (batch_source_intake_service.py), previews the cleanup, pauses for a    *)
(* review or continues by itself, executes the cleanup, looks whether the  *)
(* folder is clean, and begins the next batch.  A run that was stopped by  *)
(* an expired or consumed preview can be continued with a fresh one.       *)
(*                                                                         *)
(* The cleanup is that of StagingCleanup; the loop starts it and waits for *)
(* its row.  The user starts cleanups and changes files meanwhile.         *)
(*                                                                         *)
(* One run; an item of the cloud is one file; nobody continues a run that  *)
(* is worked on.  What the helper answers, the plan of a batch and the     *)
(* drop zone are choices.  Left out: the stop flag, which nothing sets,    *)
(* and other Source Intakes.                                               *)
(***************************************************************************)
EXTENDS StagingCleanup

CONSTANTS
  Loop, User,  \* the callers
  BatchSize,   \* files of a batch
  TotalLimits, \* files of a run: the limits it may be started with
  MaxDisturbances  \* bounds the changes and faults together

ASSUME LoopAssumption == /\ Callers = {Loop, User} /\ Loop # User
                         /\ BatchSize \in Nat \ {0} /\ TotalLimits \subseteq Nat
                         /\ MaxDisturbances \in Nat /\ IsFiniteSet(Files)

VARIABLES
  run,         \* the orchestration run
  batch,       \* its latest batch, with the resources of its acquisition
  worker       \* the thread or script that works on the run

loopVars == <<run, batch, worker>>
allVars  == <<vars, loopVars>>

\* mode: the cleanup of a run needs no review ("auto"), or it was started by the script
\* ("script") or the page ("page") to pause for one.  done: completed_logical_items.
\* acquired, asset: local_sha256 and asset_sha256 of a resource.
NoRun   == [status |-> "none", stop |-> "none", done |-> 0, limit |-> 0, mode |-> "auto"]
NoBatch == [status |-> "none", files |-> {}, acquired |-> [f \in Files |-> NoContent],
            asset |-> [f \in Files |-> NoContent], dry |-> 0, final |-> 0]
\* id: the cleanup that is to be executed or waited for.  error: the refusal that is recovered from.
Idle    == [pc |-> "idle", id |-> 0, error |-> "none"]

Pc(pc) == worker.pc = pc
GoTo(pc) == worker' = [worker EXCEPT !.pc = pc]

Target == IF BatchSize < run.limit - run.done THEN BatchSize ELSE run.limit - run.done
StagingClean == \A f \in Files : staged[f] = NoContent

FinishRun(status, stop) ==
  /\ run' = [run EXCEPT !.status = status, !.stop = stop]
  /\ worker' = Idle

BlockBatch(stop) ==
  FinishRun("blocked", stop) /\ batch' = [batch EXCEPT !.status = "blocked"]

FailBatch ==
  FinishRun("failed", "other") /\ batch' = [batch EXCEPT !.status = "failed"]

-------------------------------------------------------------------------------
(* A run begins, and looks for its next batch.                               *)

Begin(mode, limit) ==
  /\ run.status = "none" /\ Pc("idle") /\ NoActive
  /\ run' = [NoRun EXCEPT !.status = "running", !.mode = mode, !.limit = limit]
  /\ GoTo("next")
  /\ UNCHANGED <<vars, batch>>

LimitReached ==
  /\ Pc("next") /\ run.done >= run.limit
  /\ FinishRun("completed", "other")
  /\ UNCHANGED <<vars, batch>>

\* The staging folder, the drop zone, another operation or the plan forbid the batch.
NextRefused ==
  /\ Pc("next") /\ run.done < run.limit
  /\ FinishRun("blocked", "other")
  /\ UNCHANGED <<vars, batch>>

NothingNew ==
  /\ Pc("next") /\ run.done \in 1..(run.limit - 1)
  /\ FinishRun("completed", "other")
  /\ UNCHANGED <<vars, batch>>

NextBatch ==
  /\ Pc("next") /\ run.done < run.limit
  /\ StagingClean /\ NoActive
  /\ batch' = [NoBatch EXCEPT !.status = "planned"]
  /\ GoTo("acquire")
  /\ UNCHANGED <<vars, run>>

-------------------------------------------------------------------------------
(* Acquisition publishes files that the source does not know.                *)

Acquire == Pc("acquire") /\ \E taken \in SUBSET {f \in Files : prov[f] = {}} :
  /\ Cardinality(taken) = Target
  /\ \E content \in [taken -> Contents] :
       /\ staged' = [f \in Files |-> IF f \in taken THEN content[f] ELSE staged[f]]
       /\ batch' = [batch EXCEPT !.files = taken,
                     !.acquired = [f \in Files |-> IF f \in taken THEN content[f] ELSE NoContent]]
  /\ GoTo("verify")
  /\ UNCHANGED <<vault, prov, evidence, intake, rows, threads, starts, lost, changes, faults, run>>

AcquireFails == Pc("acquire") /\ \E f \in Files, c \in Contents \cup {NoContent} :
  /\ prov[f] = {} /\ staged' = [staged EXCEPT ![f] = c]
  /\ FailBatch
  /\ UNCHANGED <<vault, prov, evidence, intake, rows, threads, starts, lost, changes, faults>>

AsAcquired == \A f \in Files : staged[f] = batch.acquired[f]

Verify ==
  /\ Pc("verify") /\ AsAcquired
  /\ batch' = [batch EXCEPT !.status = "acquired"]
  /\ GoTo("intake")
  /\ UNCHANGED <<vars, run>>

VerifyFails ==
  /\ Pc("verify") /\ ~AsAcquired
  /\ BlockBatch("other")
  /\ UNCHANGED vars

-------------------------------------------------------------------------------
(* Source Intake of the batch: it looks for other operations and at the      *)
(* published files, starts without the lock, and takes in one file after     *)
(* the other.                                                                *)

IntakeLooks ==
  /\ Pc("intake") /\ NoActive
  /\ \A f \in batch.files : staged[f] = batch.acquired[f]
  /\ intake' = "clear"
  /\ GoTo("intaking")
  /\ UNCHANGED <<staged, vault, prov, evidence, changes, rows, threads, starts, lost, faults, run, batch>>

IntakeRefused ==
  /\ Pc("intake")
  /\ FailBatch
  /\ UNCHANGED vars

IntakeBegins ==
  /\ Pc("intaking") /\ IntakeStarts
  /\ UNCHANGED loopVars

IntakeTakes(f) ==
  /\ Pc("intaking") /\ intake = "active"
  /\ f \in batch.files /\ batch.asset[f] = NoContent /\ staged[f] # NoContent
  /\ vault' = vault \cup {staged[f]}
  /\ prov' = [prov EXCEPT ![f] = @ \cup {staged[f]}]
  /\ batch' = [batch EXCEPT !.asset[f] = staged[f]]
  /\ UNCHANGED <<staged, evidence, intake, changes, rows, threads, starts, lost, faults, run, worker>>

\* Mutant: the outcome of the batch's files is not verified.
IntakenUnverified == TRUE

Intaken == \A f \in batch.files : batch.asset[f] \in prov[f]

\* The intake ends before every file was taken in when a file fails or a stage does.
IntakeEnded ==
  /\ Pc("intaking") /\ intake = "active"
  /\ intake' = "no"
  /\ IF Intaken THEN batch' = [batch EXCEPT !.status = "intaked"] /\ GoTo("preview") /\ UNCHANGED run
     ELSE FailBatch
  /\ UNCHANGED <<staged, vault, prov, evidence, changes, rows, threads, starts, lost, faults>>

-------------------------------------------------------------------------------
(* The loop starts a cleanup under the lock and waits for its row, which     *)
(* must be the latest one.                                                   *)

Busy == ~NoActive \/ intake = "active"

\* The loop holds the lock from its check to its commit.
StartsCleanup(start, pc, next) ==
  \/ Pc(pc) /\ CheckStart(Loop, start) /\ UNCHANGED loopVars
  \/ /\ Pc(pc) /\ starts[Loop] # {} /\ Insert(Loop)
     /\ worker' = [worker EXCEPT !.pc = next, !.id = Len(rows) + 1]
     /\ UNCHANGED <<run, batch>>

Refused(pc) == Pc(pc) /\ starts[Loop] = {} /\ LockFree /\ Busy

Ended(pc) == Pc(pc) /\ worker.id = Len(rows) /\ rows[worker.id].status \in Done

\* A wait can end without the row, and does when a later row hides it.
TimesOut(pc) == Pc(pc)

AllEligible(m) == \A f \in Files : m[f].reason \in {"absent", "eligible"}

StartPreview == StartsCleanup(NoStart, "preview", "previewing")

Previewed ==
  /\ Ended("previewing")
  /\ rows[worker.id].status = "completed"
  /\ Eligible(rows[worker.id].manifest) # {} /\ AllEligible(rows[worker.id].manifest)
  /\ batch' = [batch EXCEPT !.dry = worker.id, !.status = "review"]
  /\ run' = [run EXCEPT !.status = "paused", !.stop = "review"]
  /\ worker' = 
       CASE run.mode = "auto"   -> [worker EXCEPT !.pc = "execute"]
         [] run.mode = "page"   -> [Idle EXCEPT !.pc = "pausing"]
         [] run.mode = "script" -> Idle
  /\ UNCHANGED vars

PreviewFails ==
  /\ \/ Refused("preview") \/ TimesOut("previewing")
     \/ Ended("previewing") /\ rows[worker.id].status # "completed"
  /\ FailBatch
  /\ UNCHANGED vars

PreviewNotSafe ==
  /\ Ended("previewing") /\ rows[worker.id].status = "completed"
  /\ ~(Eligible(rows[worker.id].manifest) # {} /\ AllEligible(rows[worker.id].manifest))
  /\ BlockBatch("other")
  /\ UNCHANGED vars

\* The thread of the page writes a reason of its own.
PausePage ==
  /\ Pc("pausing")
  /\ FinishRun("paused", "manual")
  /\ UNCHANGED <<vars, batch>>

-------------------------------------------------------------------------------
(* The run is continued: the cleanup is executed, and the folder is looked   *)
(* at once more.                                                             *)

Supported ==
  /\ run.status \in {"paused", "blocked"} /\ run.stop \in {"none", "review", "recovery"}
  /\ batch.status \in {"review", "blocked"}

\* A run that waits for recovery takes the dry run that the user names.
Continue(d) ==
  /\ Pc("idle") /\ Supported
  /\ \/ batch.dry = d /\ UNCHANGED <<run, batch>>
     \/ /\ batch.dry # d /\ run.status = "blocked" /\ run.stop = "recovery"
        /\ batch' = [batch EXCEPT !.dry = d, !.status = "review"]
        /\ run' = [run EXCEPT !.status = "paused", !.stop = "review"]
  /\ worker' = [Idle EXCEPT !.pc = "execute", !.id = d]
  /\ UNCHANGED vars

\* The partial workspace or the drop zone is not empty.
ContinueRefused ==
  /\ Pc("execute") /\ starts[Loop] = {}
  /\ BlockBatch("other")
  /\ UNCHANGED vars

StartExecution ==
  /\ starts[Loop] = {} => worker.pc = "execute" /\ Authorizes(worker.id)
  /\ StartsCleanup([dry |-> FALSE, auth |-> worker.id], "execute", "executing")

\* The dry run is consumed, or has expired.
Recoverable(d) ==
  /\ rows[d].dry /\ rows[d].status = "completed"
  /\ rows[d].consumed \/ (Eligible(rows[d].manifest) # {} /\ ~rows[d].fresh)

ExecutionRefused ==
  /\ Pc("execute") /\ starts[Loop] = {} /\ LockFree
  /\ Busy \/ ~(Authorizes(worker.id) \/ Recoverable(worker.id))
  /\ FailBatch
  /\ UNCHANGED vars

Recover ==
  /\ Pc("execute") /\ starts[Loop] = {} /\ LockFree
  /\ ~Busy /\ Recoverable(worker.id)
  /\ worker' = [worker EXCEPT !.pc = "final", !.error = "recoverable"]
  /\ UNCHANGED <<vars, run, batch>>

ExecutedWell(row) ==
  row.status = "completed" /\ row.deleted # {} /\ AllEligible(row.manifest)

Executed ==
  /\ Ended("executing") /\ ExecutedWell(rows[worker.id])
  /\ GoTo("final")
  /\ UNCHANGED <<vars, run, batch>>

ExecutionFails ==
  /\ TimesOut("executing") \/ (Ended("executing") /\ ~ExecutedWell(rows[worker.id]))
  /\ FailBatch
  /\ UNCHANGED vars

StartFinal == StartsCleanup(NoStart, "final", "checking")

\* Nothing catches the error of this dry run: the run stays paused.
FinalGivesUp ==
  /\ Refused("final") \/ TimesOut("checking")
  /\ worker' = Idle
  /\ UNCHANGED <<vars, run, batch>>

\* selected_logical_items of the batch.
Counted == Cardinality(batch.files)

\* The dry run saw no file, and there is none now.
SeenClean(row) ==
  row.status = "completed" /\ row.manifest = Unplanned /\ StagingClean /\ ~Busy

\* Mutant: a batch whose dry run was consumed counts as cleaned.
CompleteUnseen ==
  /\ Ended("checking") /\ (worker.error = "none" => SeenClean(rows[worker.id])) /\ Intaken
  /\ batch' = [batch EXCEPT !.status = "completed", !.final = worker.id]
  /\ run' = [run EXCEPT !.status = "running", !.stop = "none", !.done = @ + Counted]
  /\ worker' = [Idle EXCEPT !.pc = "next"]
  /\ UNCHANGED vars

\* The batch is completed.  After a recovery the call that begins the next batch lacks an
\* argument and raises; the run stays as it was committed.
Complete ==
  /\ Ended("checking") /\ SeenClean(rows[worker.id])
  /\ worker.error = "recoverable" => Intaken
  /\ batch' = [batch EXCEPT !.status = "completed", !.final = worker.id]
  /\ run' = [run EXCEPT !.status = "running", !.stop = "none", !.done = @ + Counted]
  /\ worker' = IF worker.error = "recoverable" /\ run'.done < run'.limit
               THEN Idle ELSE [Idle EXCEPT !.pc = "next"]
  /\ UNCHANGED vars

FinalDirty ==
  /\ Ended("checking")
  /\ ~SeenClean(rows[worker.id]) \/ (worker.error = "recoverable" /\ ~Intaken)
  /\ BlockBatch(IF worker.error = "recoverable" THEN "recovery" ELSE "other")
  /\ UNCHANGED vars

-------------------------------------------------------------------------------
(* The user, the threads of the cleanup, and faults.                         *)

\* The page starts no cleanup during an acquisition.  What the user does before the run
\* begins is a matter of StagingCleanup.
UserCleanup ==
  /\ ~Pc("acquire") /\ run.status # "none"
  /\ CheckDryRun(User) \/ CheckExecution(User) \/ Insert(User)
  /\ UNCHANGED loopVars

UserWrites(f, c) == ~Pc("acquire") /\ run.status # "none" /\ Write(f, c) /\ UNCHANGED loopVars

CleanupThread(r) ==
  /\ \/ Run(r) \/ PlanDryRun(r) \/ PlanExecution(r) \/ PlanRefused(r)
     \/ Revalidate(r) \/ Unlink(r) \/ UnlinkFails(r)
     \/ FinalReport(r) \/ FinalReportFails(r) \/ Finish(r) \/ Fails(r) \/ Dies(r)
     \/ Reconcile(r) \/ Expire(r)
  /\ UNCHANGED loopVars

\* A restart repairs the rows of the cleanup; nothing looks at the run.
RestartAll == Restart /\ worker' = Idle /\ UNCHANGED <<run, batch>>

\* The worker's process is killed, or its thread dies.
WorkerDies ==
  /\ ~Pc("idle") /\ faults < MaxFaults /\ faults' = faults + 1
  /\ worker' = Idle
  /\ starts' = [starts EXCEPT ![Loop] = {}]
  /\ intake' = IF intake = "clear" THEN "no" ELSE intake
  /\ UNCHANGED <<staged, vault, prov, evidence, rows, threads, lost, changes, run, batch>>

-------------------------------------------------------------------------------
LoopInit ==
  /\ Init /\ StagingClean
  /\ run = NoRun /\ batch = NoBatch /\ worker = Idle

LoopStep ==
  \/ \E mode \in {"auto", "script", "page"}, limit \in TotalLimits : Begin(mode, limit)
  \/ LimitReached \/ NextRefused \/ NothingNew \/ NextBatch
  \/ Acquire \/ AcquireFails \/ Verify \/ VerifyFails
  \/ IntakeLooks \/ IntakeRefused \/ IntakeBegins \/ IntakeEnded
  \/ \E f \in Files : IntakeTakes(f)
  \/ StartPreview \/ Previewed \/ PreviewFails \/ PreviewNotSafe \/ PausePage
  \/ \E d \in DOMAIN rows : Continue(d)
  \/ ContinueRefused \/ StartExecution \/ ExecutionRefused \/ Recover \/ Executed \/ ExecutionFails
  \/ StartFinal \/ FinalGivesUp \/ Complete \/ FinalDirty

\* Nothing changes a run that nobody works on and nobody can continue: a bound on what is followed.
Over == run.status # "none" /\ Pc("idle") /\ ~Supported

\* While a cleanup plans and removes, only the user's changes and faults come between its steps:
\* the loop waits for it or has given up, before it begins or after it ends.
Cleaning == \E r \in DOMAIN rows : threads[r].pc \notin {"start", "gone"}

LoopNext ==
  /\ ~Over
  /\ \/ ~Cleaning /\ (LoopStep \/ UserCleanup)
     \/ \E f \in Files, c \in Contents \cup {NoContent} : UserWrites(f, c)
     \/ \E r \in DOMAIN rows : CleanupThread(r)
     \/ RestartAll \/ WorkerDies
  /\ changes' + faults' <= MaxDisturbances

LoopSpec == LoopInit /\ [][LoopNext]_allVars

-------------------------------------------------------------------------------
\* A batch is completed only when every file of it has an asset and a provenance row, and a
\* dry run that began after its review has seen the staging folder empty, whichever path led
\* there (_verify_source_intake, _verify_final_staging_clean, _reconcile_cleanup_already_applied).
CompletedBatchIsSafe == batch.status = "completed" =>
  /\ \A f \in batch.files : batch.asset[f] \in prov[f]
  /\ batch.final > batch.dry /\ rows[batch.final].manifest = Unplanned

\* A run that is running is worked on, as long as nothing was killed: recovery continues it
\* or completes it (_reconcile_cleanup_already_applied).
RunningIsWorkedOn == faults = 0 /\ run.status = "running" => ~Pc("idle")

\* A run that is paused for the cleanup can be continued (_supports_cleanup_recovery).
PausedCanContinue == run.status = "paused" /\ Pc("idle") => Supported

===============================================================================
