--------------------------- MODULE AcquisitionBridge ---------------------------
(***************************************************************************)
(* The bridge from a completed acquisition run to Source Intake            *)
(* (plan_acquisition_bridge ... reset_stale_acquisition_bridges in         *)
(* services/source_acquisition/service.py), composed with SourceIntake.    *)
(*                                                                         *)
(* A request plans without a lock, locks the run row to mark the bridge    *)
(* running, and launches an explicit intake of the ready files whose       *)
(* observation is not reused from an earlier run; the end of that intake   *)
(* completes or fails the bridge.  The intake is started without           *)
(* protected_ingestion_operation_start.                                    *)
(*                                                                         *)
(* A request whose session already holds the run row (the workflow worker: *)
(* _advance_execution keeps acquisition_row) reads that row again as it    *)
(* was, locked or not: SELECT ... FOR UPDATE does not refresh an object    *)
(* of the session's identity map.                                          *)
(***************************************************************************)
EXTENDS SourceIntake

CONSTANTS
  Runs,      \* ids of completed acquisition runs
  Lineages,  \* source paths with a content
  Settings   \* what they hold and who holds their rows; a behaviour is one of them:
             \* runOf[f]: the run whose ready directory holds file f, or None
             \* lineage[f]: the source path and the content it was acquired from
             \* holding: <<request, run>>, the session of the request holds the row of the run

ASSUME RunsAssumption == Runs \subseteq Nat /\ None \notin Runs \cup Observations
ASSUME BridgeAssumption ==
  Settings \subseteq [runOf : [Files -> Runs \cup {None}], lineage : [Files -> Lineages],
                      holding : SUBSET (Requests \X Runs)]

VARIABLES
  setting,
  \* source_acquisition_runs
  bridgeState,  \* bridge_state
  bound,        \* bridge_source_intake_run_id
  \* source_acquisition_items
  link,         \* bridged_provenance_id, as the provenance row, or None
  \* requests and threads
  plan,         \* the validation snapshot of each request
  bridgeOf      \* the run whose callbacks an intake was started with, or None

bridgeVars == <<bridgeState, bound, link, plan, bridgeOf, setting>>
bridgeRows == <<bridgeState, bound, link>>
allVars    == <<status, stopRequested, rejected, dropZone, library, jobPc, job, pc, target,
                bridgeState, bound, link, plan, bridgeOf, setting>>

RunOf   == setting.runOf
Lineage == setting.lineage
Holding == setting.holding

BridgeStates == {"not_started", "running", "completed", "failed"}

ItemsOf(r) == {f \in Files : RunOf[f] = r}

\* The snapshot: the run, and the observation each of its items reuses, if any.
Reuses == [Files -> Observations \cup {None}]
NoPlan == [run |-> None, reuse |-> [f \in Files |-> None]]

Reused(q)    == {f \in ItemsOf(plan[q].run) : plan[q].reuse[f] # None}
Unmatched(q) == ItemsOf(plan[q].run) \ Reused(q)

BridgeInit ==
  /\ IntakeInit
  /\ setting \in Settings
  /\ bridgeState = [r \in Runs |-> "not_started"]
  /\ bound = [r \in Runs |-> None]
  /\ link = [f \in Files |-> None]
  /\ plan = [q \in Requests |-> NoPlan]
  /\ bridgeOf = [k \in Intakes |-> None]

Forget(q) == plan' = [plan EXCEPT ![q] = NoPlan]

-----------------------------------------------------------------------------
(* plan_acquisition_bridge and execute_acquisition_bridge.                   *)

\* The same path and content in an earlier run.
Priors(f) == {p \in Files : /\ RunOf[p] # None /\ RunOf[f] # None /\ RunOf[p] < RunOf[f]
                            /\ Lineage[p] = Lineage[f]}

\* An observation is authoritative when the completed bridge that made it holds it.
Anchored(f, o) ==
  LET r == RunOf[o.file] IN
  /\ Lineage[o.file] = Lineage[f] /\ link[o.file] = o
  /\ r # None /\ bridgeState[r] = "completed" /\ bound[r] = o.intake

PriorObservations(f) ==
  {o \in Observations : \E p \in Priors(f) :
     bridgeState[RunOf[p]] = "completed" /\ link[p] = o /\ Anchored(f, o)}

\* Several earlier runs hold one observation, or the plan is refused
\* (bridge_prior_observation_ambiguous).
Unambiguous(f) == \A o1, o2 \in PriorObservations(f) : o1 = o2

\* The vault copy of its asset is taken to verify; a conflict would leave it unused.
PriorObservation(f) ==
  IF PriorObservations(f) = {} THEN None ELSE CHOOSE o \in PriorObservations(f) : TRUE

\* A bridge that has not started finds none of its runtime paths in the library.
NoPriorProvenance(r) == \A o \in library : o.file \in ItemsOf(r) => ~o.original

PlanBridge(q, r) ==
  /\ pc[q] = "idle"
  /\ bridgeState[r] = "not_started" /\ NoPriorProvenance(r)
  /\ \A f \in ItemsOf(r) : link[f] = None /\ Unambiguous(f)
  /\ plan' = [plan EXCEPT ![q] =
       [run |-> r, reuse |-> [f \in Files |-> IF f \in ItemsOf(r) THEN PriorObservation(f)
                                              ELSE None]]]
  /\ Goto(q, "planned")
  /\ UNCHANGED <<intakeRows, dropZone, library, jobPc, job, target, bridgeRows, bridgeOf, setting>>

\* Mutant: the snapshot is not compared again under the row lock.
SnapshotUnchecked(q) == TRUE

\* The comparison of the locked row with the snapshot sees a change of the bridge
\* only if the row is read from the database.
SnapshotCurrent(q) ==
  <<q, plan[q].run>> \in Holding \/ bridgeState[plan[q].run] = "not_started"

LinkReused(q) ==
  link' = [f \in Files |-> IF f \in Reused(q) THEN plan[q].reuse[f] ELSE link[f]]

\* Every item is reused: nothing to ingest.
CompleteByReuse(q) ==
  /\ pc[q] = "planned" /\ SnapshotCurrent(q) /\ Unmatched(q) = {}
  /\ bridgeState' = [bridgeState EXCEPT ![plan[q].run] = "completed"]
  /\ LinkReused(q)
  /\ Finish(q) /\ Forget(q)
  /\ UNCHANGED <<intakeRows, dropZone, library, jobPc, job, bound, bridgeOf, setting>>

MarkRunning(q) ==
  /\ pc[q] = "planned" /\ SnapshotCurrent(q) /\ Unmatched(q) # {}
  /\ bridgeState' = [bridgeState EXCEPT ![plan[q].run] = "running"]
  /\ LinkReused(q)
  /\ Goto(q, "marked")
  /\ UNCHANGED <<intakeRows, dropZone, library, jobPc, job, target, bound, plan, bridgeOf, setting>>

\* bridge_snapshot_stale or bridge_state_conflict.
RefusePlan(q) ==
  /\ pc[q] = "planned" /\ ~SnapshotCurrent(q)
  /\ Finish(q) /\ Forget(q)
  /\ UNCHANGED <<intakeRows, dropZone, library, jobPc, job, bridgeRows, bridgeOf, setting>>

-----------------------------------------------------------------------------
(* start_explicit_source_intake, called by the bridge.                       *)

CheckActive(q) ==
  /\ pc[q] = "marked" /\ NoActive
  /\ Goto(q, "checked")
  /\ UNCHANGED <<intakeRows, dropZone, library, jobPc, job, target, bridgeVars>>

\* Mutant: the reused items stay linked when the launch is undone.
UnlinkNothing(q) == UNCHANGED link

UnlinkReused(q) == link' = [f \in Files |-> IF f \in Reused(q) THEN None ELSE link[f]]

\* Another run is active (SourceIntakeAlreadyRunningError): the bridge may be started again.
UndoMark(q) ==
  /\ pc[q] = "marked" /\ ~NoActive
  /\ bridgeState' = [bridgeState EXCEPT ![plan[q].run] = "not_started"]
  /\ UnlinkReused(q)
  /\ Finish(q) /\ Forget(q)
  /\ UNCHANGED <<intakeRows, dropZone, library, jobPc, job, bound, bridgeOf, setting>>

\* One batch for all records.
InsertExplicit(q, k) ==
  /\ pc[q] = "checked"
  /\ InsertRow(q, k, Unmatched(q), Cardinality(Unmatched(q)), TRUE)
  /\ bridgeOf' = [bridgeOf EXCEPT ![k] = plan[q].run]
  /\ Goto(q, "inserted")
  /\ UNCHANGED <<bridgeRows, plan, setting>>

\* Mutant: a bridge may be bound again.
BindableAgain(r) == bridgeState[r] = "running"

\* _bind_bridge_intake, with the row read by a session of its own.
Bindable(r) == bridgeState[r] = "running" /\ bound[r] = None

BindIntake(q) ==
  /\ pc[q] = "inserted" /\ Bindable(plan[q].run)
  /\ bound' = [bound EXCEPT ![plan[q].run] = target[q]]
  /\ Goto(q, "launching")
  /\ Forget(q)
  /\ UNCHANGED <<intakeRows, dropZone, library, jobPc, job, target, bridgeState, link,
                 bridgeOf, setting>>

\* The row is failed and its thread never starts.
BindFails(q) ==
  /\ pc[q] = "inserted" /\ ~Bindable(plan[q].run)
  /\ status' = [status EXCEPT ![target[q]] = "failed"]
  /\ jobPc' = [jobPc EXCEPT ![target[q]] = "done"]
  /\ job' = [job EXCEPT ![target[q]] = NoJob]
  /\ Goto(q, "failed")
  /\ UNCHANGED <<stopRequested, rejected, dropZone, library, target, bridgeVars>>

\* bridge_launch_failed: the drop zone is not empty, the source or the ready directory
\* is unavailable, or the intake could not be bound.
FailLaunch(q) ==
  /\ pc[q] \in {"marked", "checked", "failed"}
  /\ bridgeState' = [bridgeState EXCEPT ![plan[q].run] = "failed"]
  /\ UnlinkReused(q)
  /\ Finish(q) /\ Forget(q)
  /\ UNCHANGED <<intakeRows, dropZone, library, jobPc, job, bound, bridgeOf, setting>>

-----------------------------------------------------------------------------
(* _finalize_bridge_safely, the on_finished of an explicit intake.           *)

EndThread(k) == /\ JobGoto(k, "done")
                /\ job' = [job EXCEPT ![k] = NoJob]

\* Mutant: the provenance rows are not looked up.
IntakeCounted(r, k) ==
  /\ status[k] = "completed" /\ rejected[k] = 0
  /\ Cardinality(job[k].records) = Cardinality({f \in ItemsOf(r) : link[f] = None})

\* The exact result the bridge asks of its intake k.
IntakeExact(r, k) ==
  LET unlinked == {f \in ItemsOf(r) : link[f] = None} IN
  /\ status[k] = "completed" /\ rejected[k] = 0
  /\ Cardinality(job[k].records) = Cardinality(unlinked)
  /\ \A f \in unlinked : Observation(<<f, k>>, k) \in library

\* Its bridge still waits for intake k.
Awaited(k) == LET r == bridgeOf[k] IN
  r # None /\ bridgeState[r] = "running" /\ bound[r] = k

FinalizeComplete(k) ==
  LET r == bridgeOf[k] IN
  /\ jobPc[k] = "callback" /\ Awaited(k) /\ IntakeExact(r, k)
  /\ bridgeState' = [bridgeState EXCEPT ![r] = "completed"]
  /\ link' = [f \in Files |-> IF RunOf[f] = r /\ link[f] = None
                              THEN Observation(<<f, k>>, k) ELSE link[f]]
  /\ EndThread(k)
  /\ UNCHANGED <<intakeRows, dropZone, library, pc, target, bound, plan, bridgeOf, setting>>

\* The result is not exact, or the ready directory is gone (bridge_finalization_failed).
FinalizeFailed(k) ==
  LET r == bridgeOf[k] IN
  /\ jobPc[k] = "callback" /\ Awaited(k)
  /\ bridgeState' = [bridgeState EXCEPT ![r] = "failed"]
  /\ EndThread(k)
  /\ UNCHANGED <<intakeRows, dropZone, library, pc, target, bound, link, plan, bridgeOf, setting>>

FinalizeNothing(k) ==
  /\ jobPc[k] = "callback" /\ ~Awaited(k)
  /\ EndThread(k)
  /\ UNCHANGED <<intakeRows, dropZone, library, pc, target, bridgeVars>>

-----------------------------------------------------------------------------
\* Mutant: a running bridge whose intake is failed by the restart is not failed.
ResetUnbound == bridgeState' = [r \in Runs |->
  IF bridgeState[r] = "running" /\ bound[r] = None THEN "failed" ELSE bridgeState[r]]

\* Mutant: the failure code is written to the state.
ResetInterrupted == bridgeState' = [r \in Runs |->
  IF bridgeState[r] = "running" THEN "interrupted" ELSE bridgeState[r]]

\* reset_stale_acquisition_bridges, after _reset_stale_runs has failed every active row.
ResetBridges == bridgeState' = [r \in Runs |->
  IF bridgeState[r] = "running" /\ (bound[r] = None \/ status'[bound[r]] \in Final)
  THEN "failed" ELSE bridgeState[r]]

RestartBridge ==
  /\ Restart
  /\ ResetBridges
  /\ plan' = [q \in Requests |-> NoPlan]
  /\ UNCHANGED <<bound, link, bridgeOf, setting>>

BridgeStep(q) ==
  \/ \E r \in Runs : PlanBridge(q, r)
  \/ CompleteByReuse(q) \/ MarkRunning(q) \/ RefusePlan(q)
  \/ CheckActive(q) \/ UndoMark(q)
  \/ \E k \in Intakes : InsertExplicit(q, k)
  \/ BindIntake(q) \/ BindFails(q) \/ FailLaunch(q)

FinalizeStep(k) == FinalizeComplete(k) \/ FinalizeFailed(k) \/ FinalizeNothing(k)

\* Stop requests and all threads.  An intake of another source, whose start SourceIntake
\* models, meets the bridge as the intake of another run does.
IntakeStep ==
  /\ \/ \E q \in Requests : StartThread(q) \/ BeginStop(q) \/ EndStop(q)
     \/ \E k \in Intakes : JobWork(k)
     \/ ClearDropZone
  /\ UNCHANGED bridgeVars

BridgeNext ==
  \/ \E q \in Requests : BridgeStep(q)
  \/ \E k \in Intakes : FinalizeStep(k)
  \/ IntakeStep
  \/ RestartBridge

BridgeSpec == BridgeInit /\ [][BridgeNext]_allVars

-----------------------------------------------------------------------------
(* Properties.                                                               *)

\* The intakes, the bridge columns, the snapshots and the callbacks have their types.
BridgeTypeOK ==
  /\ IntakeTypeOK
  /\ setting \in Settings /\ bridgeState \in [Runs -> BridgeStates]
  /\ bound \in [Runs -> Intakes \cup {None}]
  /\ link \in Reuses
  /\ plan \in [Requests -> [run : Runs \cup {None}, reuse : Reuses]]
  /\ bridgeOf \in [Intakes -> Runs \cup {None}]

\* No session believes a row it has read before.
NoneHeld == Holding = {}

\* A completed bridge has linked every item to an observation that is in the
\* library under a runtime path of the item or of an earlier run it reuses.
CompletedIsLinked ==
  \A f \in Files : RunOf[f] # None /\ bridgeState[RunOf[f]] = "completed" =>
    link[f] \in library /\ link[f].file \in {f} \cup Priors(f) /\ link[f].original

\* A running bridge is always going to be moved on: by the request that marked it
\* until its intake is bound, then by the callback of that intake.
RunningHasOwner ==
  \A r \in Runs : bridgeState[r] = "running" =>
    \/ \E q \in Requests :
         plan[q].run = r /\ pc[q] \in {"marked", "checked", "inserted", "failed"}
    \/ bound[r] # None /\ jobPc[bound[r]] \notin {"none", "done"}

\* "It must NOT create duplicate Provenance for the same acquisition-item": no file
\* is ingested twice under its runtime path, not even when a request that holds the
\* row as it was starts a bridge once more: the intake it inserts cannot be bound.
ObservedOnce == \A o1, o2 \in library : o1.original /\ o2.original /\ o1.file = o2.file
                                        => o1 = o2

\* A bridge that can be started again has left nothing behind: its next plan would
\* otherwise be refused for good (bridge_prior_provenance_conflict).
NotStartedIsClean == NoneHeld =>
  \A r \in Runs : bridgeState[r] = "not_started" =>
    NoPriorProvenance(r) /\ \A f \in ItemsOf(r) : link[f] = None

\* A bridge that has completed or failed is never started again, and keeps its links.
BridgeEndIsFinal ==
  [][NoneHeld => \A r \in Runs : bridgeState[r] \in {"completed", "failed"} =>
       bridgeState'[r] = bridgeState[r] /\ \A f \in ItemsOf(r) : link'[f] = link[f]]_allVars

\* "A completed bridge returns its durable result without a new launch", whoever
\* asks.  The workflow worker that planned before it completed starts it again.
CompletedBridgeKept ==
  [][\A r \in Runs : bridgeState[r] = "completed" => bridgeState'[r] = "completed"]_allVars

===============================================================================
