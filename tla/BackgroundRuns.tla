---------------------------- MODULE BackgroundRuns ----------------------------
(***************************************************************************)
(* The four background services of the Admin page.  Face processing, HEIC  *)
(* previews and place geocoding sweep what is still pending when a stage   *)
(* begins ("sweep": services/face/face_processing_service.py,              *)
(* services/previews/heic_preview_processing_service.py,                   *)
(* services/location/place_geocoding_service.py).  Duplicate processing    *)
(* freezes its workset by time when a run is created, and a script can run *)
(* it in a process of its own ("workset":                                  *)
(* services/duplicates/processing_service.py).                             *)
(*                                                                         *)
(* Each keeps one row per run, a thread started under a lock of the        *)
(* process, a stop flag in the row and a reset of active rows at startup.  *)
(* They differ in how they start, in what a stop request writes and in     *)
(* whether the thread reads the flag again.                                *)
(*                                                                         *)
(* Left out: what a stage does to an item, the counters and the report.    *)
(***************************************************************************)
EXTENDS Integers, Sequences, FiniteSets, FiniteSetsExt

CONSTANTS
  Items,      \* assets, faces or places
  Kinds,      \* the kinds of service looked at: "sweep", "workset"
  Stages,     \* stages of a sweep: four for faces, one for previews and geocoding
  MaxRuns,    \* bounds the rows
  MaxFaults   \* bounds the restarts, the killed scripts and the dead threads

ASSUME KindsAssumption  == Kinds \subseteq {"sweep", "workset"}
ASSUME StagesAssumption == Stages \in Nat \ {0}
ASSUME RunsAssumption   == MaxRuns \in Nat /\ MaxFaults \in Nat

VARIABLES
  kind,       \* the service
  rows,       \* its run rows, in the order of their ids
  \* the items
  created,    \* when the transaction that inserts an item began (created_at_utc); 0: not yet
  committed,  \* the items whose insert is committed
  done,       \* the number of stages an item has passed
  now,        \* the clock
  \* the processes
  worker,     \* the thread of the backend, and the script
  start,      \* a run that is being started
  stopper,    \* a stop request that has read the row it will write
  faults      \* faults so far

vars  == <<kind, rows, created, committed, done, now, worker, start, stopper, faults>>
items == <<created, committed, done, now>>

Processes == {"backend", "script"}
Final     == {"completed", "failed", "stopped"}
Statuses  == {"running", "stop_requested"} \cup Final

Active(r) == rows[r].status \in {"running", "stop_requested"}
LatestActive == rows # <<>> /\ Active(Len(rows))
NoActive == \A r \in DOMAIN rows : ~Active(r)

\* stop: the stop flag as the session of the worker has it.
Idle    == [pc |-> "idle", run |-> 0, stage |-> 1, left |-> {}, stop |-> FALSE]
NoStart == [pc |-> "idle", run |-> 0, cutoff |-> 0, work |-> {}, missed |-> {}]
NoStop  == [run |-> 0, was |-> "running"]

Init ==
  /\ kind \in Kinds
  /\ rows = <<>>
  /\ created = [i \in Items |-> 0] /\ committed = {} /\ now = 0
  /\ done = [i \in Items |-> 0]
  /\ worker = [p \in Processes |-> Idle]
  /\ start = [p \in Processes |-> NoStart]
  /\ stopper = NoStop /\ faults = 0

-----------------------------------------------------------------------------
(* Ingestion, in other threads.                                              *)

BeginInsert(i) ==
  /\ created[i] = 0
  /\ now' = now + 1
  /\ created' = [created EXCEPT ![i] = now + 1]
  /\ UNCHANGED <<kind, rows, committed, done, worker, start, stopper, faults>>

CommitInsert(i) ==
  /\ created[i] > 0 /\ i \notin committed
  /\ committed' = committed \cup {i}
  /\ UNCHANGED <<kind, rows, created, done, now, worker, start, stopper, faults>>

-----------------------------------------------------------------------------
(* Starting a run.                                                           *)

\* missed: the items whose insert was begun and not committed when the workset was frozen.
NewRow(cutoff, missed) ==
  [status |-> "running", stop |-> FALSE, cutoff |-> cutoff, missed |-> missed]

\* A sweep inserts its row unless the latest one is active; the lock is held until Spawn.
InsertSweep ==
  /\ kind = "sweep" /\ start["backend"].pc = "idle" /\ Len(rows) < MaxRuns
  /\ ~LatestActive
  /\ rows' = Append(rows, NewRow(0, {}))
  /\ start' = [start EXCEPT !["backend"] = [NoStart EXCEPT !.pc = "spawn", !.run = Len(rows) + 1]]
  /\ UNCHANGED <<kind, items, worker, stopper, faults>>

\* No thread is started while the last one is alive, and that one may have ended its run.
Spawn ==
  /\ start["backend"].pc = "spawn"
  /\ worker' = IF worker["backend"].pc # "idle" THEN worker
       ELSE [worker EXCEPT !["backend"] = [Idle EXCEPT !.pc = "load", !.run = start["backend"].run]]
  /\ start' = [start EXCEPT !["backend"] = NoStart]
  /\ UNCHANGED <<kind, rows, items, stopper, faults>>

\* Mutant: the cutoff of the last run that ended, whatever its end.
LastCutoffOfAnyEnd ==
  LET ended == {r \in DOMAIN rows : rows[r].status \in Final}
  IN  IF ended = {} THEN 0 ELSE rows[Max(ended)].cutoff

\* The cutoff of the completed run of the highest id; 0 if there is none.
LastCutoff ==
  LET completed == {r \in DOMAIN rows : rows[r].status = "completed"}
  IN  IF completed = {} THEN 0 ELSE rows[Max(completed)].cutoff

Eligible(cutoff) == {i \in committed : LastCutoff < created[i] /\ created[i] <= cutoff}

\* Duplicate processing: no thread is alive and no row active.  The rows are read here and
\* the new one committed by InsertFrozen, and the script does not take the lock.
Freeze(p) ==
  /\ kind = "workset" /\ start[p].pc = "idle" /\ worker[p].pc = "idle"
  /\ Len(rows) < MaxRuns /\ NoActive
  /\ now' = now + 1
  /\ start' = [start EXCEPT ![p] =
       [pc |-> "insert", run |-> 0, cutoff |-> now + 1, work |-> Eligible(now + 1),
        missed |-> {i \in Items \ committed : created[i] > 0}]]
  /\ UNCHANGED <<kind, rows, created, committed, done, worker, stopper, faults>>

InsertFrozen(p) ==
  /\ start[p].pc = "insert" /\ Len(rows) < MaxRuns
  /\ rows' = Append(rows, NewRow(start[p].cutoff, start[p].missed))
  /\ worker' = [worker EXCEPT ![p] =
       [Idle EXCEPT !.pc = "check", !.run = Len(rows) + 1, !.left = start[p].work]]
  /\ start' = [start EXCEPT ![p] = NoStart]
  /\ UNCHANGED <<kind, items, stopper, faults>>

-----------------------------------------------------------------------------
(* The stop request.  It reads the row and writes it by its key later.       *)

ReadForStop ==
  /\ stopper = NoStop
  /\ \E r \in DOMAIN rows :
       /\ Active(r)
       /\ IF kind = "sweep" THEN r = Len(rows) ELSE \A s \in DOMAIN rows : Active(s) => s <= r
       /\ stopper' = [run |-> r, was |-> rows[r].status]
  /\ UNCHANGED <<kind, rows, items, worker, start, faults>>

\* Mutant: a sweep gets the status too.
StopStatusOfBoth(r) == IF stopper.was = "running" THEN "stop_requested" ELSE rows[r].status

\* A sweep keeps its status; duplicate processing goes from running to stop_requested.
StopStatus(r) ==
  IF kind = "workset" /\ stopper.was = "running" THEN "stop_requested" ELSE rows[r].status

WriteStop ==
  /\ stopper # NoStop
  /\ LET r == stopper.run
     IN  rows' = [rows EXCEPT ![r].stop = TRUE, ![r].status = StopStatus(r)]
  /\ stopper' = NoStop
  /\ UNCHANGED <<kind, items, worker, start, faults>>

-----------------------------------------------------------------------------
(* The thread, or the script.                                                *)

\* A stage of a sweep takes what is pending now.  The first one has just read the row.
BeginStage(p) ==
  /\ worker[p].pc = "load"
  /\ worker' = [worker EXCEPT
       ![p].pc   = "check",
       ![p].left = {i \in committed : done[i] = worker[p].stage - 1},
       ![p].stop = IF worker[p].stage = 1 THEN rows[worker[p].run].stop ELSE @]
  /\ UNCHANGED <<kind, rows, items, start, stopper, faults>>

NextStage(p) ==
  /\ worker[p].pc = "check" /\ worker[p].left = {}
  /\ kind = "sweep" /\ worker[p].stage < Stages
  /\ worker' = [worker EXCEPT ![p].pc = "load", ![p].stage = @ + 1]
  /\ UNCHANGED <<kind, rows, items, start, stopper, faults>>

\* The query of a sweep finds the row in its session and keeps the attributes loaded
\* first; duplicate processing refreshes the row.
StopSeen(p) == IF kind = "sweep" THEN worker[p].stop ELSE rows[worker[p].run].stop

\* The final status is committed, and the thread stays alive for its report.
EndRun(p, status) ==
  /\ rows' = [rows EXCEPT ![worker[p].run].status = status]
  /\ worker' = [worker EXCEPT ![p].pc = "report"]
  /\ UNCHANGED <<kind, items, start, stopper, faults>>

StopRun(p) ==
  /\ worker[p].pc = "check" /\ worker[p].left # {} /\ StopSeen(p)
  /\ EndRun(p, "stopped")

CompleteRun(p) ==
  /\ worker[p].pc = "check" /\ worker[p].left = {}
  /\ kind = "workset" \/ worker[p].stage = Stages
  /\ EndRun(p, "completed")

BeginItem(p) ==
  /\ worker[p].pc = "check" /\ worker[p].left # {} /\ ~StopSeen(p)
  /\ worker' = [worker EXCEPT ![p].pc = "item"]
  /\ UNCHANGED <<kind, rows, items, start, stopper, faults>>

ItemDone(p, i) ==
  /\ worker[p].pc = "item" /\ i \in worker[p].left
  /\ done' = [done EXCEPT ![i] = IF worker[p].stage > @ THEN worker[p].stage ELSE @]
  /\ worker' = [worker EXCEPT ![p].pc = "check", ![p].left = @ \ {i}]
  /\ UNCHANGED <<kind, rows, created, committed, now, start, stopper, faults>>

\* A sweep goes on: a face or a preview stays pending, a place is never tried again, and
\* a rollback makes the session read the row again.
ItemFailed(p, i) ==
  /\ kind = "sweep" /\ worker[p].pc = "item" /\ i \in worker[p].left
  /\ \E passed \in {done[i], Stages}, stop \in {worker[p].stop, rows[worker[p].run].stop} :
       /\ done' = [done EXCEPT ![i] = passed]
       /\ worker' = [worker EXCEPT ![p].pc = "check", ![p].left = @ \ {i}, ![p].stop = stop]
  /\ UNCHANGED <<kind, rows, created, committed, now, start, stopper, faults>>

\* No key, no model or an exception ends a sweep; a failed asset ends duplicate processing.
FailRun(p) ==
  /\ worker[p].pc \in IF kind = "sweep" THEN {"load", "check", "item"} ELSE {"item"}
  /\ EndRun(p, "failed")

EndThread(p) ==
  /\ worker[p].pc = "report"
  /\ worker' = [worker EXCEPT ![p] = Idle]
  /\ UNCHANGED <<kind, rows, items, start, stopper, faults>>

-----------------------------------------------------------------------------
(* Faults.                                                                   *)

Fault == faults < MaxFaults /\ faults' = faults + 1

\* The refresh of the row fails outside the thread's handler, or the script is killed.
Die(p) ==
  /\ Fault
  /\ kind = "workset" /\ worker[p].pc # "idle"
  /\ worker' = [worker EXCEPT ![p] = Idle]
  /\ UNCHANGED <<kind, rows, items, start, stopper>>

\* The backend ends and starts again: every active row becomes failed, a script's included.
Restart ==
  /\ Fault
  /\ rows' = [r \in DOMAIN rows |->
       IF Active(r) THEN [rows[r] EXCEPT !.status = "failed"] ELSE rows[r]]
  /\ worker' = [worker EXCEPT !["backend"] = Idle]
  /\ start' = [start EXCEPT !["backend"] = NoStart]
  /\ stopper' = NoStop
  /\ UNCHANGED <<kind, items>>

Work(p) ==
  \/ BeginStage(p) \/ NextStage(p) \/ StopRun(p) \/ CompleteRun(p) \/ BeginItem(p)
  \/ FailRun(p) \/ EndThread(p)
  \/ \E i \in Items : ItemDone(p, i) \/ ItemFailed(p, i)

Next ==
  \/ \E i \in Items : BeginInsert(i) \/ CommitInsert(i)
  \/ InsertSweep \/ Spawn \/ ReadForStop \/ WriteStop \/ Restart
  \/ \E p \in Processes : Freeze(p) \/ InsertFrozen(p) \/ Work(p) \/ Die(p)

Spec == Init /\ [][Next]_vars

-----------------------------------------------------------------------------
(* Properties.                                                               *)

\* What the cutoff calls processed was processed: no stop, failure, restart, dead thread or
\* script beside the backend moves it past an asset that is still to do.  An asset whose
\* insert was open when a workset was frozen is the exception.
ProcessedOrPending ==
  kind = "workset" => \A i \in committed :
    \/ done[i] > 0
    \/ created[i] > LastCutoff
    \/ \E r \in DOMAIN rows : i \in rows[r].missed

\* The end of a sweep is final: a stop request that comes too late sets a flag nobody reads,
\* and neither a restart nor the next run touches the row.
SweepEndIsFinal ==
  [][kind = "sweep" => \A r \in DOMAIN rows :
       rows[r].status \in Final => rows'[r].status = rows[r].status]_vars

\* "job completes current safe unit of work, commits cleanly, exits as stopped": no item is
\* begun once the stop flag of its run is committed.
StopHeeded ==
  [][\A p \in Processes :
       worker[p].pc = "check" /\ worker'[p].pc = "item" => ~rows[worker[p].run].stop]_vars

===============================================================================
