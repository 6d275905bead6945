------------------------ MODULE AcquisitionBridgeProofs ------------------------
(***************************************************************************)
(* The safety of the acquisition bridge, for every number of requests,     *)
(* runs, files and intakes, and for every setting: which run holds which   *)
(* file, which files were acquired before, and which session still holds   *)
(* the row of which run.                                                   *)
(*                                                                         *)
(* What holds in spite of a session that believes a row it has read before *)
(* rests on _bind_bridge_intake: a run is bound to one intake for good,    *)
(* and a thread is started for that intake only.  What needs every request *)
(* to read its row again rests on the bridge state: while a request has    *)
(* marked a run, no other request and no callback writes it.               *)
(*                                                                         *)
(* Source Intake, whose threads the bridge starts, comes first.            *)
(***************************************************************************)
EXTENDS AcquisitionBridge, FiniteSetTheorems, TLAPS

-------------------------------------------------------------------------------
(***************************************************************************)
(* The safety of Source Intake, for every number of requests, files, rows  *)
(* and every size of a batch.                                              *)
(*                                                                         *)
(* An explicit start may find no active row while another start is under   *)
(* way, so several threads may work on the drop zone: each of them knows   *)
(* its own copies only, and what the others can do to these is to remove   *)
(* them.  OneGenericJob needs to know who is between the query for an      *)
(* active row and the thread it leads to: a request that holds the start   *)
(* lock has found no live thread, so no generic one is there, or it owns   *)
(* the only one.                                                           *)
(***************************************************************************)

\* A request has a place, which the type invariant leaves open.
IntakeTypes == IntakeTypeOK /\ DOMAIN pc = Requests

\* The rows are those of the first ids, and a row that is not inserted has no traces.
RowsInOrder ==
  /\ \E n \in Nat : {k \in Intakes : status[k] # "none"} = 1..n
  /\ \A k \in Intakes : status[k] = "none" =>
       /\ jobPc[k] = "none"
       /\ \A o \in library : o.intake # k

\* A request that has inserted a row and not yet started its thread.
Launching == {"started", "inserted", "launching"}

\* A live thread has an active row; a request that holds the start lock excludes the
\* others, and has found no live generic thread or owns the one there is; a row that is
\* inserted has one request.
StartsApart ==
  /\ \A k \in Intakes : jobPc[k] \in LiveJob => Active(k)
  /\ OneGenericJob
  /\ \A p, q \in Requests :
       pc[p] \in {"starting", "started"} /\ pc[q] \in {"starting", "started"} => p = q
  /\ \A q \in Requests :
       /\ pc[q] = "starting" => \A k \in Intakes : ~GenericJob(k)
       /\ pc[q] = "started" => \A k \in Intakes : GenericJob(k) => k = target[q]
       /\ pc[q] \in Launching => target[q] \in Intakes /\ jobPc[target[q]] = "created"
       /\ pc[q] = "stopping" => target[q] \in Intakes /\ status[target[q]] # "none"
  /\ \A p, q \in Requests :
       pc[p] \in Launching /\ pc[q] \in Launching /\ target[p] = target[q] => p = q

\* No copy that intake k has made and observed is in the drop zone, but for those of the
\* batch that is to be cleaned.
ObservedIsGone(k, but) ==
  \A o \in library : o.intake = k /\ o.original => <<o.file, k>> \notin dropZone \ but

\* The copies of intake k in the drop zone are among these.
CopiesAmong(k, copies) == \A copy \in dropZone : copy[2] = k => copy \in copies

\* What a thread knows of its own copies at each place.
ThreadKnows(k) ==
  /\ jobPc[k] \in {"created", "collect", "staging"} =>
       CopiesAmong(k, {}) /\ \A o \in library : o.intake # k
  /\ jobPc[k] \in {"batch", "clean"} => CopiesAmong(k, job[k].left)
  /\ jobPc[k] = "batch" => ObservedIsGone(k, {})
  /\ jobPc[k] = "clean" => ObservedIsGone(k, job[k].batch)
  /\ jobPc[k] = "report" =>
       /\ job[k].outcome = "completed" => CopiesAmong(k, {})
       /\ job[k].outcome \in {"completed", "stopped"} => ObservedIsGone(k, {})

\* What the row says of them when the thread is over.
RowKnows(k) ==
  /\ status[k] = "completed" => CopiesAmong(k, {})
  /\ status[k] \in {"stopped", "completed"} => ObservedIsGone(k, {})

IntakeInv ==
  /\ IntakeTypes /\ RowsInOrder /\ StartsApart
  /\ \A k \in Intakes : ThreadKnows(k) /\ RowKnows(k)

-------------------------------------------------------------------------------
(* The types, which hold whoever starts the runs.                            *)

\* What is left of a thread that is over.
LEMMA NoJobType == NoJob \in JobRecords
BY DEF NoJob, JobRecords, Final

\* Requests write what they have read.
LEMMA RequestTypes ==
  ASSUME IntakeTypes, NEW q \in Requests,
         \/ BeginStart(q) \/ RefuseStart(q) \/ StartLocked(q) \/ BeginExplicit(q)
         \/ CreatedAccepted(q) \/ CreatedRaises(q) \/ StartThread(q) \/ BeginStop(q) \/ EndStop(q)
  PROVE  IntakeTypes'
<1> USE DEF IntakeTypes, IntakeTypeOK, Finish, Goto, JobGoto, intakeRows, JobPCs, Statuses
<1>1. CASE CreatedRaises(q)
  BY <1>1, NoJobType DEF CreatedRaises
<1>2. CASE BeginStart(q) \/ RefuseStart(q) \/ BeginExplicit(q) \/ CreatedAccepted(q)
  BY <1>2 DEF BeginStart, RefuseStart, BeginExplicit, CreatedAccepted
<1>3. CASE StartLocked(q) \/ StartThread(q) \/ BeginStop(q) \/ EndStop(q)
  BY <1>3 DEF StartLocked, StartThread, BeginStop, EndStop
<1> QED BY <1>1, <1>2, <1>3

\* The new row, for any files and any size of a batch.
LEMMA InsertTypes ==
  ASSUME IntakeTypes, NEW q \in Requests, NEW i \in Intakes, NEW files \in SUBSET Files,
         NEW size \in Nat, NEW explicit \in BOOLEAN, NEW label,
         InsertRow(q, i, files, size, explicit), Goto(q, label)
  PROVE  IntakeTypes'
<1> USE DEF InsertRow, JobGoto, Goto
<1> DEFINE r == [job[i] EXCEPT !.records = files, !.size = size, !.explicit = explicit]
<1>1. job[i] \in JobRecords
  BY DEF IntakeTypes, IntakeTypeOK
<1>2. r \in JobRecords
  BY <1>1 DEF JobRecords
<1>3. job' = [job EXCEPT ![i] = r]
  OBVIOUS
<1>4. job' \in [Intakes -> JobRecords]
  BY <1>2, <1>3 DEF IntakeTypes, IntakeTypeOK
<1> HIDE DEF r
<1> QED BY <1>4 DEF IntakeTypes, IntakeTypeOK, Statuses, JobPCs

\* What can fail in a batch can be counted.
LEMMA RefusedIsCounted ==
  ASSUME IntakeTypes, NEW i \in Intakes
  PROVE  Cardinality(job[i].refused) \in Nat
<1>1. IsFiniteSet(Intakes)
  BY IntakesAssumption, FS_Interval DEF Intakes
<1>2. IsFiniteSet(Copies)
  BY <1>1, FilesAssumption, FS_Product DEF Copies
<1>3. job[i].refused \subseteq Copies
  BY DEF IntakeTypes, IntakeTypeOK, JobRecords
<1> QED BY <1>2, <1>3, FS_Subset, FS_CardinalityType

\* A thread writes its own context, its row and its copies.
LEMMA JobTypes ==
  ASSUME IntakeTypes, NEW i \in Intakes, JobWork(i) \/ EndJob(i)
  PROVE  IntakeTypes'
<1>0. job[i] \in JobRecords
  BY DEF IntakeTypes, IntakeTypeOK
<1> DEFINE Wrote(r) == r \in JobRecords /\ job' = [job EXCEPT ![i] = r]
<1>a. ASSUME NEW r, Wrote(r) PROVE job' \in [Intakes -> JobRecords]
  BY <1>a DEF IntakeTypes, IntakeTypeOK
<1> USE DEF JobGoto, intakeRows
<1>1. CASE CollectInput(i)
  BY <1>1 DEF IntakeTypes, IntakeTypeOK, CollectInput, JobPCs
<1>2. ASSUME NEW copied \in SUBSET job[i].records, StageFiles(i, copied) PROVE IntakeTypes'
  <2>1. copied \X {i} \subseteq Copies
    BY <1>0 DEF JobRecords, Copies
  <2>2. dropZone' \subseteq Copies
    BY <1>2, <2>1 DEF StageFiles, IntakeTypes, IntakeTypeOK
  <2>3. Wrote([job[i] EXCEPT !.left = dropZone'])
    BY <1>0, <1>2, <2>2 DEF StageFiles, JobRecords
  <2>4. job' \in [Intakes -> JobRecords]
    BY <2>3, <1>a
  <2> QED BY <1>2, <2>2, <2>4 DEF StageFiles, IntakeTypes, IntakeTypeOK, JobPCs
<1>3. ASSUME NEW batch \in SUBSET job[i].left, NEW ok \in SUBSET batch,
             NEW refused \in SUBSET (batch \ ok), IngestBatch(i, batch, ok, refused)
      PROVE  IntakeTypes'
  <2>1. Wrote([job[i] EXCEPT !.batch = batch, !.refused = refused])
    BY <1>0, <1>3 DEF IngestBatch, JobRecords
  <2>2. job' \in [Intakes -> JobRecords]
    BY <2>1, <1>a
  <2>3. ASSUME NEW copy \in ok PROVE Observation(copy, i) \in Observations
    <3>1. copy \in Files \X Intakes
      BY <1>0 DEF JobRecords, Copies
    <3> QED BY <3>1 DEF Observation, Observations
  <2>4. library' \subseteq Observations
    BY <1>3, <2>3 DEF IngestBatch, IntakeTypes, IntakeTypeOK
  <2> QED BY <1>3, <2>2, <2>4 DEF IngestBatch, IntakeTypes, IntakeTypeOK, JobPCs
<1>4. CASE CleanBatch(i)
  <2>1. Wrote([job[i] EXCEPT !.left = @ \ job[i].batch, !.batch = {}, !.refused = {}])
    BY <1>0, <1>4 DEF CleanBatch, JobRecords
  <2>2. job' \in [Intakes -> JobRecords]
    BY <2>1, <1>a
  <2>3. Cardinality(job[i].refused) \in Nat
    BY RefusedIsCounted
  <2> QED BY <1>4, <2>2, <2>3 DEF CleanBatch, IntakeTypes, IntakeTypeOK, JobPCs
<1>5. CASE EndLoop(i)
  <2>1. Wrote([job[i] EXCEPT !.left = {},
                        !.outcome = IF stopRequested[i] THEN "stopped" ELSE "completed"])
    BY <1>0, <1>5 DEF EndLoop, JobRecords, Final
  <2>2. job' \in [Intakes -> JobRecords]
    BY <2>1, <1>a
  <2> QED BY <1>5, <2>2 DEF EndLoop, IntakeTypes, IntakeTypeOK, JobPCs
<1>6. CASE FailStage(i)
  <2>1. Wrote([job[i] EXCEPT !.left = {}, !.batch = {}, !.refused = {}, !.outcome = "failed"])
    BY <1>0, <1>6 DEF FailStage, JobRecords, Final
  <2>2. job' \in [Intakes -> JobRecords]
    BY <2>1, <1>a
  <2> QED BY <1>6, <2>2 DEF FailStage, IntakeTypes, IntakeTypeOK, JobPCs
<1>7. CASE ReportStatus(i)
  <2>1. Wrote([NoJob EXCEPT !.records = job[i].records])
    BY <1>0, <1>7 DEF ReportStatus, JobRecords, NoJob, Final
  <2>2. job' \in [Intakes -> JobRecords]
    BY <2>1, <1>a
  <2>3. job[i].outcome \in Statuses
    BY <1>0 DEF JobRecords, Final, Statuses
  <2> QED BY <1>7, <2>2, <2>3 DEF ReportStatus, IntakeTypes, IntakeTypeOK, JobPCs
<1>8. CASE EndJob(i)
  <2>1. Wrote(NoJob)
    BY <1>8 DEF EndJob, JobRecords, NoJob, Final
  <2>2. job' \in [Intakes -> JobRecords]
    BY <2>1, <1>a
  <2> QED BY <1>8, <2>2 DEF EndJob, IntakeTypes, IntakeTypeOK, JobPCs
<1> QED BY <1>1, <1>2, <1>3, <1>4, <1>5, <1>6, <1>7, <1>8 DEF JobWork

\* The end of the process and the operator.
LEMMA RestartTypes ==
  ASSUME IntakeTypes, Restart \/ ClearDropZone
  PROVE  IntakeTypes'
<1> USE DEF IntakeTypes, IntakeTypeOK
<1>1. CASE Restart
  BY <1>1, NoJobType DEF Restart, Statuses, JobPCs
<1>2. CASE ClearDropZone
  BY <1>2 DEF ClearDropZone, intakeRows
<1> QED BY <1>1, <1>2

-------------------------------------------------------------------------------
(* The initial state, and what every step of a request or a thread leaves.   *)

\* Nothing is inserted and nobody is at work.
LEMMA InitIntakeInv == IntakeInit => IntakeInv
<1> SUFFICES ASSUME IntakeInit PROVE IntakeInv
  OBVIOUS
<1> USE DEF IntakeInit
<1>1. IntakeTypes
  BY BatchAssumption DEF IntakeTypes, IntakeTypeOK, Statuses, JobPCs, JobRecords, NoJob, Final
<1>2. RowsInOrder
  <2>1. {k \in Intakes : status[k] # "none"} = 1..0
    OBVIOUS
  <2> QED BY <2>1 DEF RowsInOrder
<1>3. StartsApart
  BY DEF StartsApart, OneGenericJob, GenericJob, LiveJob, Launching
<1>4. \A k \in Intakes : ThreadKnows(k) /\ RowKnows(k)
  BY DEF ThreadKnows, RowKnows
<1> QED BY <1>1, <1>2, <1>3, <1>4 DEF IntakeInv

\* A step that writes no row, copy or thread leaves what is known of them.
LEMMA KnowledgeKept ==
  ASSUME IntakeInv, UNCHANGED <<intakeRows, dropZone, library, jobPc, job>>
  PROVE  RowsInOrder' /\ \A k \in Intakes : ThreadKnows(k)' /\ RowKnows(k)'
<1> USE DEF IntakeInv, intakeRows
<1>1. RowsInOrder'
  BY DEF RowsInOrder
<1>2. \A k \in Intakes : ThreadKnows(k)' /\ RowKnows(k)'
  BY DEF ThreadKnows, RowKnows, CopiesAmong, ObservedIsGone
<1> QED BY <1>1, <1>2

\* What is known of intake k survives a step that writes none of it: its copies are at
\* most removed, and nothing is observed by it.
LEMMA KnownStaysTrue ==
  ASSUME NEW k \in Intakes, ThreadKnows(k), RowKnows(k),
         jobPc'[k] = jobPc[k] \/ jobPc'[k] \in {"none", "callback", "done"},
         jobPc'[k] = jobPc[k] => job'[k] = job[k],
         status'[k] = status[k] \/ status'[k] \notin {"completed", "stopped"},
         \A copy \in dropZone' : copy \in dropZone \/ copy[2] # k,
         \A o \in library' : o \in library \/ o.intake # k
  PROVE  ThreadKnows(k)' /\ RowKnows(k)'
<1>1. \A copies : CopiesAmong(k, copies) => CopiesAmong(k, copies)'
  BY DEF CopiesAmong
<1>2. \A but : ObservedIsGone(k, but) => ObservedIsGone(k, but)'
  BY DEF ObservedIsGone
<1> QED BY <1>1, <1>2 DEF ThreadKnows, RowKnows

-------------------------------------------------------------------------------
(* Steps of the requests.                                                    *)

\* No row is active, so no thread is live.
LEMMA BeginStartStep ==
  ASSUME IntakeInv, NEW q \in Requests, BeginStart(q)
  PROVE  IntakeInv'
<1>1. IntakeTypes'
  BY RequestTypes DEF IntakeInv
<1>2. RowsInOrder' /\ \A k \in Intakes : ThreadKnows(k)' /\ RowKnows(k)'
  BY KnowledgeKept DEF BeginStart
<1>3. StartsApart'
  <2>1. \A k \in Intakes : jobPc[k] \notin LiveJob
    BY DEF BeginStart, NoActive, IntakeInv, StartsApart
  <2> QED BY <2>1 DEF IntakeInv, BeginStart, Goto, StartLockFree, intakeRows, StartsApart,
          OneGenericJob, GenericJob, Active, Launching, IntakeTypes
<1> QED BY <1>1, <1>2, <1>3 DEF IntakeInv

\* A section ends and leaves nothing.
LEMMA RefuseStartStep ==
  ASSUME IntakeInv, NEW q \in Requests, RefuseStart(q)
  PROVE  IntakeInv'
<1>1. IntakeTypes'
  BY RequestTypes DEF IntakeInv
<1>2. RowsInOrder' /\ \A k \in Intakes : ThreadKnows(k)' /\ RowKnows(k)'
  BY KnowledgeKept DEF RefuseStart
<1>3. StartsApart'
  BY DEF IntakeInv, RefuseStart, Finish, Goto, intakeRows, StartsApart, OneGenericJob, GenericJob,
         Active, Launching, IntakeTypes, IntakeTypeOK
<1> QED BY <1>1, <1>2, <1>3 DEF IntakeInv

\* An explicit start takes no lock and changes nothing before it inserts.
LEMMA BeginExplicitStep ==
  ASSUME IntakeInv, NEW q \in Requests, BeginExplicit(q) \/ CreatedAccepted(q)
  PROVE  IntakeInv'
<1>1. IntakeTypes'
  BY RequestTypes DEF IntakeInv
<1>2. RowsInOrder' /\ \A k \in Intakes : ThreadKnows(k)' /\ RowKnows(k)'
  BY KnowledgeKept DEF BeginExplicit, CreatedAccepted
<1>3. StartsApart'
  BY DEF IntakeInv, BeginExplicit, CreatedAccepted, Goto, intakeRows, StartsApart, OneGenericJob,
         GenericJob, Active, Launching, IntakeTypes
<1> QED BY <1>1, <1>2, <1>3 DEF IntakeInv

\* The row that is failed had no thread.
LEMMA CreatedRaisesStep ==
  ASSUME IntakeInv, NEW q \in Requests, CreatedRaises(q)
  PROVE  IntakeInv'
<1>1. IntakeTypes'
  BY RequestTypes DEF IntakeInv
<1> USE DEF IntakeInv, CreatedRaises, Finish, Goto
<1>t. target[q] \in Intakes /\ jobPc[target[q]] = "created" /\ status[target[q]] # "none"
  BY DEF StartsApart, Launching, RowsInOrder
<1>y. DOMAIN pc = Requests /\ jobPc \in [Intakes -> JobPCs] /\ status \in [Intakes -> Statuses]
      /\ job \in [Intakes -> JobRecords] /\ target \in [Requests -> Intakes \cup {None}]
  BY DEF IntakeTypes, IntakeTypeOK
<1>2. RowsInOrder'
  <2>2. {k \in Intakes : status'[k] # "none"} = {k \in Intakes : status[k] # "none"}
    BY <1>t, <1>y
  <2>3. \A k \in Intakes : status'[k] = "none" =>
          jobPc'[k] = "none" /\ \A o \in library' : o.intake # k
    BY <1>t, <1>y DEF RowsInOrder
  <2> QED BY <2>2, <2>3 DEF RowsInOrder
<1>3. StartsApart'
  <2>1. \A k \in Intakes \ {target[q]} :
          jobPc'[k] = jobPc[k] /\ status'[k] = status[k] /\ job'[k] = job[k]
    BY <1>y
  <2>2. jobPc'[target[q]] = "done" /\ status'[target[q]] # "none"
    BY <1>t, <1>y
  <2>3. \A p \in Requests : p # q => pc'[p] = pc[p] /\ target'[p] = target[p]
    BY <1>y
  <2>4. pc'[q] = "idle"
    BY <1>y
  <2>5. \A p \in Requests : p # q /\ pc[p] \in Launching => target[p] # target[q]
    BY DEF StartsApart, Launching
  <2>6. \A k \in Intakes : GenericJob(k)' => GenericJob(k)
    BY <2>1, <2>2 DEF GenericJob, LiveJob
  <2>7. \A k \in Intakes : jobPc'[k] \in LiveJob => Active(k)'
    BY <2>1, <2>2 DEF StartsApart, LiveJob, Active
  <2>8. \A p \in Requests : pc'[p] \in Launching => target'[p] \in Intakes /\ jobPc'[target'[p]] = "created"
    BY <2>1, <2>3, <2>4, <2>5 DEF StartsApart, Launching
  <2>9. \A p \in Requests : pc'[p] = "stopping" => target'[p] \in Intakes /\ status'[target'[p]] # "none"
    BY <2>1, <2>2, <2>3, <2>4 DEF StartsApart
  <2> HIDE DEF CreatedRaises
  <2> QED BY <2>3, <2>4, <2>6, <2>7, <2>8, <2>9 DEF StartsApart, OneGenericJob, Launching
<1>4. ASSUME NEW k \in Intakes PROVE ThreadKnows(k)' /\ RowKnows(k)'
  BY <1>t, <1>y, KnownStaysTrue
<1> QED BY <1>1, <1>2, <1>3, <1>4

\* The thread is that of the row this request has inserted.
LEMMA StartThreadStep ==
  ASSUME IntakeInv, NEW q \in Requests, StartThread(q) \/ StartLocked(q)
  PROVE  IntakeInv'
<1>1. IntakeTypes'
  BY RequestTypes DEF IntakeInv
<1>y. DOMAIN pc = Requests /\ jobPc \in [Intakes -> JobPCs] /\ target \in [Requests -> Intakes \cup {None}]
  BY DEF IntakeInv, IntakeTypes, IntakeTypeOK
<1>s. /\ pc[q] \in Launching /\ jobPc' = [jobPc EXCEPT ![target[q]] = "collect"]
      /\ pc' = [pc EXCEPT ![q] = "idle"] /\ target' = [target EXCEPT ![q] = None]
      /\ UNCHANGED <<status, stopRequested, rejected, dropZone, library, job>>
  BY DEF StartThread, StartLocked, Launching, JobGoto, Finish, Goto, intakeRows
<1>t. target[q] \in Intakes /\ jobPc[target[q]] = "created" /\ status[target[q]] # "none"
  BY <1>s DEF IntakeInv, StartsApart, RowsInOrder
<1>2. RowsInOrder'
  BY <1>s, <1>t, <1>y DEF IntakeInv, RowsInOrder
<1>3. StartsApart'
  <2>1. \A k \in Intakes : jobPc'[k] \in LiveJob <=> jobPc[k] \in LiveJob
    BY <1>s, <1>t, <1>y DEF LiveJob, JobPCs
  <2>2. \A p \in Requests : p # q => pc'[p] = pc[p] /\ target'[p] = target[p]
    BY <1>s, <1>y
  <2>3. pc'[q] = "idle"
    BY <1>s, <1>y
  <2>4. \A p \in Requests : p # q /\ pc[p] \in Launching =>
          target[p] \in Intakes /\ jobPc'[target[p]] = "created"
    BY <1>s, <1>y DEF IntakeInv, StartsApart
  <2>5. \A k \in Intakes : GenericJob(k)' <=> GenericJob(k)
    BY <1>s, <2>1 DEF GenericJob
  <2> QED BY <1>s, <2>1, <2>2, <2>3, <2>4, <2>5
          DEF IntakeInv, StartsApart, OneGenericJob, Launching, Active
<1>4. ASSUME NEW k \in Intakes PROVE ThreadKnows(k)' /\ RowKnows(k)'
  <2>1. CASE k = target[q]
    BY <1>s, <1>t, <1>y, <2>1 DEF IntakeInv, ThreadKnows, RowKnows, CopiesAmong, ObservedIsGone
  <2>2. CASE k # target[q]
    BY <1>s, <1>y, <2>2, KnownStaysTrue DEF IntakeInv
  <2> QED BY <2>1, <2>2
<1> QED BY <1>1, <1>2, <1>3, <1>4 DEF IntakeInv

\* The stop request remembers a row that is inserted.
LEMMA BeginStopStep ==
  ASSUME IntakeInv, NEW q \in Requests, BeginStop(q)
  PROVE  IntakeInv'
<1>1. IntakeTypes'
  BY RequestTypes DEF IntakeInv
<1>2. RowsInOrder' /\ \A k \in Intakes : ThreadKnows(k)' /\ RowKnows(k)'
  BY KnowledgeKept DEF BeginStop
<1>3. StartsApart'
  BY DEF IntakeInv, BeginStop, Goto, intakeRows, Active, StartsApart, OneGenericJob, GenericJob,
         Launching, IntakeTypes, IntakeTypeOK
<1> QED BY <1>1, <1>2, <1>3 DEF IntakeInv

\* A stop request can make an ended row active again, and never starts a thread.
LEMMA EndStopStep ==
  ASSUME IntakeInv, NEW q \in Requests, EndStop(q)
  PROVE  IntakeInv'
<1>1. IntakeTypes'
  BY RequestTypes DEF IntakeInv
<1> USE DEF IntakeInv, EndStop, Finish, Goto
<1>t. target[q] \in Intakes /\ status[target[q]] # "none"
  BY DEF StartsApart
<1>y. DOMAIN pc = Requests /\ status \in [Intakes -> Statuses] /\ target \in [Requests -> Intakes \cup {None}]
  BY DEF IntakeTypes, IntakeTypeOK
<1>2. RowsInOrder'
  <2>2. {k \in Intakes : status'[k] # "none"} = {k \in Intakes : status[k] # "none"}
    BY <1>t, <1>y
  <2>3. \A k \in Intakes : status'[k] = "none" =>
          jobPc'[k] = "none" /\ \A o \in library' : o.intake # k
    BY <1>t, <1>y DEF RowsInOrder
  <2> QED BY <2>2, <2>3 DEF RowsInOrder
<1>3. StartsApart'
  BY <1>t, <1>y DEF StartsApart, OneGenericJob, GenericJob, Launching, Active
<1>4. ASSUME NEW k \in Intakes PROVE ThreadKnows(k)' /\ RowKnows(k)'
  BY <1>t, <1>y, KnownStaysTrue
<1> QED BY <1>1, <1>2, <1>3, <1>4

\* The new row: its id has left no traces, and nothing is in the drop zone.
LEMMA InsertKnowledge ==
  ASSUME IntakeInv, NEW q \in Requests, NEW i \in Intakes, NEW files \in SUBSET Files,
         NEW size \in Nat, NEW explicit \in BOOLEAN, InsertRow(q, i, files, size, explicit)
  PROVE  /\ status[i] = "none" /\ RowsInOrder'
         /\ \A k \in Intakes : ThreadKnows(k)' /\ RowKnows(k)'
         /\ jobPc'[i] = "created" /\ status'[i] = "running" /\ job'[i].explicit = explicit
         /\ \A k \in Intakes \ {i} :
              jobPc'[k] = jobPc[k] /\ status'[k] = status[k] /\ job'[k] = job[k]
<1>y. jobPc \in [Intakes -> JobPCs] /\ status \in [Intakes -> Statuses] /\ job \in [Intakes -> JobRecords]
  BY DEF IntakeInv, IntakeTypes, IntakeTypeOK
<1>r. RowsInOrder /\ \A k \in Intakes : ThreadKnows(k) /\ RowKnows(k)
  BY DEF IntakeInv
<1>w. /\ i = Cardinality({k \in Intakes : status[k] # "none"}) + 1
      /\ dropZone = {} /\ dropZone' = dropZone /\ library' = library
      /\ status' = [status EXCEPT ![i] = "running"] /\ jobPc' = [jobPc EXCEPT ![i] = "created"]
      /\ job' = [job EXCEPT ![i].records = files, ![i].size = size, ![i].explicit = explicit]
  BY DEF InsertRow, JobGoto
<1>1. PICK n \in Nat : {k \in Intakes : status[k] # "none"} = 1..n
  BY <1>r DEF RowsInOrder
<1>2. Cardinality(1..n) = n
  BY FS_Interval
<1>3. i = n + 1
  BY <1>1, <1>2, <1>w
<1>n. status[i] = "none"
  BY <1>1, <1>3
<1>4. \A o \in library : o.intake # i
  BY <1>n, <1>r DEF RowsInOrder
<1>5. /\ jobPc'[i] = "created" /\ status'[i] = "running"
      /\ \A k \in Intakes \ {i} :
           jobPc'[k] = jobPc[k] /\ status'[k] = status[k] /\ job'[k] = job[k]
  BY <1>y, <1>w
<1>6. job'[i].explicit = explicit
  BY <1>y, <1>w DEF JobRecords
<1>7. RowsInOrder'
  <2>1. {k \in Intakes : status'[k] # "none"} = {k \in Intakes : status[k] # "none"} \cup {i}
    BY <1>y, <1>w
  <2>2. {k \in Intakes : status'[k] # "none"} = 1..n + 1
    BY <1>1, <1>3, <2>1
  <2>3. \A k \in Intakes : status'[k] = "none" =>
          jobPc'[k] = "none" /\ \A o \in library' : o.intake # k
    BY <1>5, <1>r, <1>w DEF RowsInOrder
  <2>4. \E m \in Nat : {k \in Intakes : status'[k] # "none"} = 1..m
    BY <2>2
  <2> QED BY <2>3, <2>4 DEF RowsInOrder
<1>8. ASSUME NEW k \in Intakes PROVE ThreadKnows(k)' /\ RowKnows(k)'
  <2>1. CASE k = i
    BY <1>4, <1>5, <1>w, <2>1 DEF ThreadKnows, RowKnows, CopiesAmong
  <2>2. CASE k # i
    BY <1>5, <1>r, <1>w, <2>2, KnownStaysTrue
  <2> QED BY <2>1, <2>2
<1> QED BY <1>n, <1>5, <1>6, <1>7, <1>8

\* The holder of the start lock owns the only generic thread.
LEMMA InsertGenericStep ==
  ASSUME IntakeInv, NEW q \in Requests, NEW i \in Intakes, NEW files \in SUBSET Files,
         InsertGeneric(q, i, files)
  PROVE  IntakeInv'
<1>1. IntakeTypes'
  BY InsertTypes, BatchAssumption DEF IntakeInv, InsertGeneric
<1>2. InsertRow(q, i, files, BatchSize, FALSE) /\ BatchSize \in Nat
  BY BatchAssumption DEF InsertGeneric
<1>3. /\ status[i] = "none" /\ RowsInOrder'
      /\ \A k \in Intakes : ThreadKnows(k)' /\ RowKnows(k)'
      /\ jobPc'[i] = "created" /\ status'[i] = "running" /\ job'[i].explicit = FALSE
      /\ \A k \in Intakes \ {i} :
           jobPc'[k] = jobPc[k] /\ status'[k] = status[k] /\ job'[k] = job[k]
  BY <1>2, InsertKnowledge
<1>y. DOMAIN pc = Requests /\ target \in [Requests -> Intakes \cup {None}]
  BY DEF IntakeInv, IntakeTypes, IntakeTypeOK
<1>s. /\ pc[q] = "starting" /\ pc' = [pc EXCEPT ![q] = "started"]
      /\ target' = [target EXCEPT ![q] = i] /\ jobPc[i] = "none"
  BY <1>3 DEF IntakeInv, RowsInOrder, InsertGeneric, InsertRow, Goto
<1>4. StartsApart'
  <2>1. \A k \in Intakes : GenericJob(k)' => k = i
    BY <1>3, <1>s DEF IntakeInv, StartsApart, GenericJob
  <2>2. \A k \in Intakes : jobPc'[k] \in LiveJob => Active(k)'
    BY <1>3 DEF IntakeInv, StartsApart, Active
  <2>3. \A p \in Requests : p # q => pc'[p] = pc[p] /\ target'[p] = target[p]
    BY <1>y, <1>s
  <2>4. pc'[q] = "started" /\ target'[q] = i
    BY <1>y, <1>s
  <2>5. \A p \in Requests : p # q => pc[p] \notin {"starting", "started"}
    BY <1>s DEF IntakeInv, StartsApart
  <2>6. \A p \in Requests : p # q /\ pc[p] \in Launching =>
          target[p] \in Intakes \ {i} /\ jobPc'[target[p]] = "created"
    BY <1>3, <1>s DEF IntakeInv, StartsApart
  <2>7. \A p \in Requests : p # q /\ pc[p] = "stopping" =>
          target[p] \in Intakes /\ status'[target[p]] # "none"
    BY <1>3 DEF IntakeInv, StartsApart
  <2>8. \A a, p \in Requests :
          pc'[a] \in Launching /\ pc'[p] \in Launching /\ target'[a] = target'[p] => a = p
    BY <2>3, <2>4, <2>6 DEF IntakeInv, StartsApart
  <2> QED BY <1>3, <2>1, <2>2, <2>3, <2>4, <2>5, <2>6, <2>7, <2>8
          DEF StartsApart, OneGenericJob, Launching
<1> QED BY <1>1, <1>3, <1>4 DEF IntakeInv

\* An explicit run may come beside any other, and is no generic one.
LEMMA InsertTrustedStep ==
  ASSUME IntakeInv, NEW q \in Requests, NEW i \in Intakes, NEW files \in SUBSET Files,
         InsertTrusted(q, i, files)
  PROVE  IntakeInv'
<1>0. Cardinality(files) \in Nat
  BY FilesAssumption, FS_Subset, FS_CardinalityType
<1>1. IntakeTypes'
  BY <1>0, InsertTypes DEF IntakeInv, InsertTrusted
<1>2. InsertRow(q, i, files, Cardinality(files), TRUE)
  BY DEF InsertTrusted
<1>3. /\ status[i] = "none" /\ RowsInOrder'
      /\ \A k \in Intakes : ThreadKnows(k)' /\ RowKnows(k)'
      /\ jobPc'[i] = "created" /\ status'[i] = "running" /\ job'[i].explicit = TRUE
      /\ \A k \in Intakes \ {i} :
           jobPc'[k] = jobPc[k] /\ status'[k] = status[k] /\ job'[k] = job[k]
  BY <1>0, <1>2, InsertKnowledge
<1>y. DOMAIN pc = Requests /\ target \in [Requests -> Intakes \cup {None}]
  BY DEF IntakeInv, IntakeTypes, IntakeTypeOK
<1>s. /\ pc[q] = "checked" /\ pc' = [pc EXCEPT ![q] = "inserted"]
      /\ target' = [target EXCEPT ![q] = i] /\ jobPc[i] = "none"
  BY <1>3 DEF IntakeInv, RowsInOrder, InsertTrusted, InsertRow, Goto
<1>4. StartsApart'
  <2>1. \A k \in Intakes : GenericJob(k)' => GenericJob(k)
    BY <1>3 DEF GenericJob
  <2>2. \A k \in Intakes : jobPc'[k] \in LiveJob => Active(k)'
    BY <1>3 DEF IntakeInv, StartsApart, Active
  <2>3. \A p \in Requests : p # q => pc'[p] = pc[p] /\ target'[p] = target[p]
    BY <1>y, <1>s
  <2>4. pc'[q] = "inserted" /\ target'[q] = i
    BY <1>y, <1>s
  <2>6. \A p \in Requests : p # q /\ pc[p] \in Launching =>
          target[p] \in Intakes \ {i} /\ jobPc'[target[p]] = "created"
    BY <1>3, <1>s DEF IntakeInv, StartsApart
  <2>7. \A p \in Requests : p # q /\ pc[p] = "stopping" =>
          target[p] \in Intakes /\ status'[target[p]] # "none"
    BY <1>3 DEF IntakeInv, StartsApart
  <2>8. \A a, p \in Requests :
          pc'[a] \in Launching /\ pc'[p] \in Launching /\ target'[a] = target'[p] => a = p
    BY <2>3, <2>4, <2>6 DEF IntakeInv, StartsApart
  <2>9. \A a, p \in Requests :
          pc'[a] \in {"starting", "started"} /\ pc'[p] \in {"starting", "started"} => a = p
    BY <2>3, <2>4 DEF IntakeInv, StartsApart
  <2>10. \A p \in Requests :
           /\ pc'[p] = "starting" => \A k \in Intakes : ~GenericJob(k)'
           /\ pc'[p] = "started" => \A k \in Intakes : GenericJob(k)' => k = target'[p]
           /\ pc'[p] \in Launching => target'[p] \in Intakes /\ jobPc'[target'[p]] = "created"
           /\ pc'[p] = "stopping" => target'[p] \in Intakes /\ status'[target'[p]] # "none"
    BY <1>3, <2>1, <2>3, <2>4, <2>6, <2>7 DEF IntakeInv, StartsApart
  <2>11. OneGenericJob'
    BY <2>1 DEF IntakeInv, StartsApart, OneGenericJob
  <2> QED BY <2>2, <2>8, <2>9, <2>10, <2>11 DEF StartsApart
<1> QED BY <1>1, <1>3, <1>4 DEF IntakeInv

-------------------------------------------------------------------------------
(* Steps of the threads.                                                     *)

\* What the step of a thread leaves to the others, and to the requests.
LEMMA JobFrame ==
  ASSUME IntakeInv, NEW i \in Intakes, JobWork(i) \/ EndJob(i)
  PROVE  /\ UNCHANGED <<stopRequested, pc, target>>
         /\ \A k \in Intakes \ {i} :
              jobPc'[k] = jobPc[k] /\ status'[k] = status[k] /\ job'[k] = job[k]
         /\ jobPc[i] \notin {"none", "created", "done"} /\ jobPc'[i] \notin {"none", "created"}
         /\ jobPc'[i] \in LiveJob =>
              jobPc[i] \in LiveJob /\ status'[i] = status[i] /\ job'[i].explicit = job[i].explicit
         /\ status'[i] # "none"
         /\ \A copy \in dropZone' : copy \in dropZone \/ copy[2] = i
         /\ \A o \in library' : o \in library \/ o.intake = i
<1>y. /\ jobPc \in [Intakes -> JobPCs] /\ status \in [Intakes -> Statuses]
      /\ job \in [Intakes -> JobRecords] /\ job[i] \in JobRecords
  BY DEF IntakeInv, IntakeTypes, IntakeTypeOK
<1>n. jobPc[i] # "none" => status[i] # "none"
  BY DEF IntakeInv, RowsInOrder
<1> USE DEF JobGoto, intakeRows, LiveJob, JobPCs
<1>1. CASE CollectInput(i)
  BY <1>1, <1>y, <1>n DEF CollectInput
<1>2. ASSUME NEW copied \in SUBSET job[i].records, StageFiles(i, copied)
      PROVE  /\ UNCHANGED <<status, stopRequested, library, pc, target>>
             /\ \A k \in Intakes \ {i} : jobPc'[k] = jobPc[k] /\ job'[k] = job[k]
             /\ jobPc[i] = "staging" /\ jobPc'[i] = "batch"
             /\ job'[i].explicit = job[i].explicit
             /\ \A copy \in dropZone' : copy \in dropZone \/ copy[2] = i
  BY <1>2, <1>y DEF StageFiles, JobRecords
<1>3. ASSUME NEW batch \in SUBSET job[i].left, NEW ok \in SUBSET batch,
             NEW refused \in SUBSET (batch \ ok), IngestBatch(i, batch, ok, refused)
      PROVE  /\ UNCHANGED <<status, stopRequested, dropZone, pc, target>>
             /\ \A k \in Intakes \ {i} : jobPc'[k] = jobPc[k] /\ job'[k] = job[k]
             /\ jobPc[i] = "batch" /\ jobPc'[i] = "clean"
             /\ job'[i].explicit = job[i].explicit
             /\ \A o \in library' : o \in library \/ o.intake = i
  BY <1>3, <1>y DEF IngestBatch, JobRecords, Observation
<1>4. CASE CleanBatch(i)
  BY <1>4, <1>y, <1>n DEF CleanBatch, JobRecords
<1>5. CASE EndLoop(i)
  BY <1>5, <1>y, <1>n DEF EndLoop, JobRecords
<1>6. CASE FailStage(i)
  BY <1>6, <1>y, <1>n DEF FailStage, JobRecords
<1>7. CASE ReportStatus(i)
  <2>1. job[i].outcome # "none"
    BY <1>y DEF JobRecords, Final
  <2> QED BY <1>7, <1>y, <2>1 DEF ReportStatus
<1>8. CASE EndJob(i)
  BY <1>8, <1>y, <1>n DEF EndJob
<1> QED BY <1>1, <1>2, <1>3, <1>4, <1>5, <1>6, <1>7, <1>8, <1>n DEF JobWork

\* What a thread knows after its step is all that is left to show.
LEMMA JobStep ==
  ASSUME IntakeInv, NEW i \in Intakes, JobWork(i) \/ EndJob(i), ThreadKnows(i)', RowKnows(i)'
  PROVE  IntakeInv'
<1>1. IntakeTypes'
  BY JobTypes DEF IntakeInv
<1>f. /\ UNCHANGED <<stopRequested, pc, target>>
      /\ \A k \in Intakes \ {i} :
           jobPc'[k] = jobPc[k] /\ status'[k] = status[k] /\ job'[k] = job[k]
      /\ jobPc[i] \notin {"none", "created", "done"} /\ jobPc'[i] \notin {"none", "created"}
      /\ jobPc'[i] \in LiveJob =>
           jobPc[i] \in LiveJob /\ status'[i] = status[i] /\ job'[i].explicit = job[i].explicit
      /\ status'[i] # "none"
      /\ \A copy \in dropZone' : copy \in dropZone \/ copy[2] = i
      /\ \A o \in library' : o \in library \/ o.intake = i
  BY JobFrame
<1>2. RowsInOrder'
  <2>1. status[i] # "none"
    BY <1>f DEF IntakeInv, RowsInOrder
  <2>2. {k \in Intakes : status'[k] # "none"} = {k \in Intakes : status[k] # "none"}
    BY <1>f, <2>1
  <2>3. \A k \in Intakes : status'[k] = "none" =>
          jobPc'[k] = "none" /\ \A o \in library' : o.intake # k
    BY <1>f DEF IntakeInv, RowsInOrder
  <2> QED BY <2>2, <2>3 DEF IntakeInv, RowsInOrder
<1>3. StartsApart'
  <2>1. \A k \in Intakes : GenericJob(k)' => GenericJob(k)
    BY <1>f DEF GenericJob
  <2>2. \A k \in Intakes : jobPc'[k] \in LiveJob => Active(k)'
    BY <1>f DEF IntakeInv, StartsApart, Active
  <2>3. \A k \in Intakes : jobPc[k] = "created" => jobPc'[k] = "created"
    BY <1>f
  <2>4. \A k \in Intakes : status[k] # "none" => status'[k] # "none"
    BY <1>f
  <2> QED BY <1>f, <2>1, <2>2, <2>3, <2>4 DEF IntakeInv, StartsApart, OneGenericJob
<1>4. ASSUME NEW k \in Intakes \ {i} PROVE ThreadKnows(k)' /\ RowKnows(k)'
  BY <1>f, KnownStaysTrue DEF IntakeInv
<1> QED BY <1>1, <1>2, <1>3, <1>4 DEF IntakeInv

\* A live thread has a row that says nothing yet.
LEMMA LiveRow ==
  ASSUME IntakeInv, NEW i \in Intakes, jobPc[i] \in LiveJob, status'[i] = status[i]
  PROVE  RowKnows(i)'
BY DEF IntakeInv, StartsApart, Active, RowKnows

\* The thread copies its own files where none of them is.
LEMMA StageFilesStep ==
  ASSUME IntakeInv, NEW i \in Intakes, NEW copied \in SUBSET job[i].records, StageFiles(i, copied)
  PROVE  IntakeInv'
<1>y. jobPc \in [Intakes -> JobPCs] /\ job \in [Intakes -> JobRecords] /\ job[i] \in JobRecords
  BY DEF IntakeInv, IntakeTypes, IntakeTypeOK
<1>1. jobPc'[i] = "batch" /\ job'[i].left = dropZone'
  BY <1>y DEF StageFiles, JobGoto, JobRecords
<1>2. \A o \in library' : o.intake # i
  BY DEF StageFiles, IntakeInv, ThreadKnows
<1>3. ThreadKnows(i)'
  BY <1>1, <1>2 DEF ThreadKnows, CopiesAmong, ObservedIsGone
<1>4. RowKnows(i)'
  BY LiveRow DEF StageFiles, LiveJob, JobPCs, intakeRows
<1> QED BY <1>3, <1>4, JobStep DEF JobWork

\* What is observed of its own copies is in the batch.
LEMMA IngestBatchStep ==
  ASSUME IntakeInv, NEW i \in Intakes, NEW batch \in SUBSET job[i].left, NEW ok \in SUBSET batch,
         NEW refused \in SUBSET (batch \ ok), IngestBatch(i, batch, ok, refused)
  PROVE  IntakeInv'
<1>y. /\ jobPc \in [Intakes -> JobPCs] /\ job \in [Intakes -> JobRecords] /\ job[i] \in JobRecords
      /\ job[i].left \subseteq Files \X Intakes
  BY DEF IntakeInv, IntakeTypes, IntakeTypeOK, JobRecords, Copies
<1>1. jobPc'[i] = "clean" /\ job'[i].left = job[i].left /\ job'[i].batch = batch /\ jobPc[i] = "batch"
  BY <1>y DEF IngestBatch, JobGoto, JobRecords
<1>2. CopiesAmong(i, job[i].left) /\ ObservedIsGone(i, {}) /\ dropZone' = dropZone
  BY <1>1 DEF IngestBatch, IntakeInv, ThreadKnows
<1>3. ASSUME NEW o \in library', o.intake = i, o.original
      PROVE  <<o.file, i>> \notin dropZone' \ batch
  <2>1. CASE o \in library
    BY <1>2, <1>3, <2>1 DEF ObservedIsGone
  <2>2. CASE o \notin library
    <3>1. PICK copy \in ok : o = Observation(copy, i)
      BY <1>3, <2>2 DEF IngestBatch
    <3>2. o.file = copy[1] /\ o.original = (copy[2] = i)
      BY <3>1 DEF Observation
    <3>3. copy = <<copy[1], copy[2]>>
      BY <1>y
    <3> QED BY <1>3, <3>2, <3>3
  <2> QED BY <2>1, <2>2
<1>4. ThreadKnows(i)'
  BY <1>1, <1>2, <1>3 DEF ThreadKnows, ObservedIsGone, CopiesAmong
<1>5. RowKnows(i)'
  BY LiveRow DEF IngestBatch, LiveJob, JobPCs, intakeRows
<1> QED BY <1>4, <1>5, JobStep DEF JobWork

\* The other steps of a live thread: what was observed leaves the drop zone with its
\* batch, the loop ends with nothing left or with a stop, and a failed run promises
\* nothing.
LEMMA WorkStep ==
  ASSUME IntakeInv, NEW i \in Intakes,
         CollectInput(i) \/ CleanBatch(i) \/ EndLoop(i) \/ FailStage(i)
  PROVE  IntakeInv'
<1>y. jobPc \in [Intakes -> JobPCs] /\ job \in [Intakes -> JobRecords] /\ job[i] \in JobRecords
  BY DEF IntakeInv, IntakeTypes, IntakeTypeOK
<1>k. ThreadKnows(i)
  BY DEF IntakeInv
<1> USE DEF JobGoto, intakeRows
<1>2. CASE CollectInput(i)
  <2>1. ThreadKnows(i)'
    BY <1>2, <1>y, <1>k DEF CollectInput, ThreadKnows, CopiesAmong
  <2> QED BY <1>2, <2>1, LiveRow, JobStep DEF CollectInput, JobWork, LiveJob, JobPCs
<1>3. CASE CleanBatch(i)
  <2>1. jobPc[i] = "clean" /\ jobPc'[i] = "batch" /\ job'[i].left = job[i].left \ job[i].batch
    BY <1>3, <1>y DEF CleanBatch, JobRecords
  <2>2. dropZone' = dropZone \ job[i].batch /\ library' = library
    BY <1>3 DEF CleanBatch
  <2>3. ThreadKnows(i)'
    BY <1>k, <2>1, <2>2 DEF ThreadKnows, CopiesAmong, ObservedIsGone
  <2> QED BY <1>3, <2>3, LiveRow, JobStep DEF CleanBatch, JobWork, LiveJob, JobPCs
<1>4. CASE EndLoop(i)
  <2>1. /\ jobPc[i] = "batch" /\ jobPc'[i] = "report"
        /\ job'[i].outcome = "completed" => job[i].left = {}
    BY <1>4, <1>y DEF EndLoop, JobRecords
  <2>2. dropZone' = dropZone /\ library' = library
    BY <1>4 DEF EndLoop
  <2>3. ThreadKnows(i)'
    BY <1>k, <2>1, <2>2 DEF ThreadKnows, CopiesAmong, ObservedIsGone
  <2> QED BY <1>4, <2>3, LiveRow, JobStep DEF EndLoop, JobWork, LiveJob, JobPCs
<1>5. CASE FailStage(i)
  <2>1. jobPc'[i] = "report" /\ job'[i].outcome = "failed"
    BY <1>5, <1>y DEF FailStage, JobRecords
  <2>2. ThreadKnows(i)'
    BY <2>1 DEF ThreadKnows
  <2> QED BY <1>5, <2>2, LiveRow, JobStep DEF FailStage, JobWork, LiveJob, JobPCs
<1> QED BY <1>2, <1>3, <1>4, <1>5

\* The status says what the thread knows, and keeps saying it.
LEMMA EndStep ==
  ASSUME IntakeInv, NEW i \in Intakes, ReportStatus(i) \/ EndJob(i)
  PROVE  IntakeInv'
<1>y. jobPc \in [Intakes -> JobPCs] /\ status \in [Intakes -> Statuses]
  BY DEF IntakeInv, IntakeTypes, IntakeTypeOK
<1>k. ThreadKnows(i) /\ RowKnows(i)
  BY DEF IntakeInv
<1> USE DEF JobGoto, intakeRows
<1>1. jobPc'[i] \in {"callback", "done"} /\ dropZone' = dropZone /\ library' = library
  BY <1>y DEF ReportStatus, EndJob
<1>2. ThreadKnows(i)'
  BY <1>1 DEF ThreadKnows
<1>3. RowKnows(i)'
  <2>1. CASE ReportStatus(i)
    <3>1. status'[i] = job[i].outcome /\ jobPc[i] = "report"
      BY <1>y, <2>1 DEF ReportStatus
    <3> QED BY <1>1, <1>k, <3>1 DEF ThreadKnows, RowKnows, CopiesAmong, ObservedIsGone
  <2>2. CASE EndJob(i)
    BY <1>1, <1>k, <2>2 DEF EndJob, RowKnows, CopiesAmong, ObservedIsGone
  <2> QED BY <2>1, <2>2
<1> QED BY <1>2, <1>3, JobStep DEF JobWork

-------------------------------------------------------------------------------
(* The end of the process and the operator.                                  *)

\* No thread and no request survives.
LEMMA RestartStep ==
  ASSUME IntakeInv, Restart
  PROVE  IntakeInv'
<1>1. IntakeTypes'
  BY RestartTypes DEF IntakeInv
<1> USE DEF IntakeInv, Restart, Active
<1>2. RowsInOrder'
  BY DEF RowsInOrder
<1>3. StartsApart'
  BY DEF StartsApart, OneGenericJob, GenericJob, LiveJob, Launching
<1>4. \A k \in Intakes : ThreadKnows(k)' /\ RowKnows(k)'
  BY DEF ThreadKnows, RowKnows, CopiesAmong, ObservedIsGone
<1> QED BY <1>1, <1>2, <1>3, <1>4

\* No thread is live when the operator empties the drop zone.
LEMMA ClearStep ==
  ASSUME IntakeInv, ClearDropZone
  PROVE  IntakeInv'
<1>1. IntakeTypes'
  BY RestartTypes DEF IntakeInv
<1> USE DEF IntakeInv, ClearDropZone, intakeRows
<1>2. RowsInOrder'
  BY DEF RowsInOrder
<1>3. StartsApart'
  BY DEF StartsApart, OneGenericJob, GenericJob, Active
<1>4. ASSUME NEW k \in Intakes PROVE ThreadKnows(k)' /\ RowKnows(k)'
  BY KnownStaysTrue
<1> QED BY <1>1, <1>2, <1>3, <1>4

\* A step that changes nothing.
LEMMA UnchangedStep ==
  ASSUME IntakeInv, UNCHANGED intakeVars
  PROVE  IntakeInv'
<1>1. IntakeTypes'
  BY DEF IntakeInv, intakeVars, IntakeTypes, IntakeTypeOK
<1>2. RowsInOrder' /\ \A k \in Intakes : ThreadKnows(k)' /\ RowKnows(k)'
  BY KnowledgeKept DEF intakeVars, intakeRows
<1>3. StartsApart'
  BY DEF IntakeInv, intakeVars, StartsApart, OneGenericJob, GenericJob, Active
<1> QED BY <1>1, <1>2, <1>3 DEF IntakeInv

-------------------------------------------------------------------------------
(* The theorems.                                                             *)

\* The inductive invariant.
THEOREM IntakeInvariant == IntakeSpec => []IntakeInv
<1>1. ASSUME IntakeInv, [IntakeNext]_intakeVars PROVE IntakeInv'
  <2>1. CASE UNCHANGED intakeVars
    BY <1>1, <2>1, UnchangedStep
  <2>2. ASSUME NEW q \in Requests, RequestStep(q) PROVE IntakeInv'
    BY <1>1, <2>2, BeginStartStep, RefuseStartStep, BeginExplicitStep, CreatedRaisesStep,
       StartThreadStep, BeginStopStep, EndStopStep, InsertGenericStep, InsertTrustedStep
       DEF RequestStep
  <2>3. ASSUME NEW k \in Intakes, JobWork(k) \/ EndJob(k) PROVE IntakeInv'
    BY <1>1, <2>3, StageFilesStep, IngestBatchStep, WorkStep, EndStep DEF JobWork
  <2>4. CASE Restart \/ ClearDropZone
    BY <1>1, <2>4, RestartStep, ClearStep
  <2> QED BY <1>1, <2>1, <2>2, <2>3, <2>4 DEF IntakeNext
<1> QED BY <1>1, InitIntakeInv, PTL DEF IntakeSpec

\* Everything keeps its type, the count of what a run has refused included.
THEOREM IntakeTypeCorrect == IntakeSpec => []IntakeTypeOK
<1>1. IntakeInv => IntakeTypeOK
  BY DEF IntakeInv, IntakeTypes
<1> QED BY <1>1, IntakeInvariant, PTL

\* Two generic runs never work on the one drop zone, however many requests start and stop
\* runs of either kind and whatever a late stop request makes of an ended row.
THEOREM OneGenericJobCorrect == IntakeSpec => []OneGenericJob
<1>1. IntakeInv => OneGenericJob
  BY DEF IntakeInv, StartsApart
<1> QED BY <1>1, IntakeInvariant, PTL

\* A run that says completed left none of its files in the drop zone, although another
\* run may be at work on it.
THEOREM CompletedProcessedAllCorrect == IntakeSpec => []CompletedProcessedAll
<1>1. IntakeInv => CompletedProcessedAll
  BY DEF IntakeInv, RowKnows, CopiesAmong, CompletedProcessedAll
<1> QED BY <1>1, IntakeInvariant, PTL

\* A stop cuts between batches: no copy is both observed by the ended run that made it and
\* left in the drop zone.
THEOREM StopEndsBetweenBatchesCorrect == IntakeSpec => []StopEndsBetweenBatches
<1>1. IntakeInv => StopEndsBetweenBatches
  BY DEF IntakeInv, RowKnows, ObservedIsGone, StopEndsBetweenBatches
<1> QED BY <1>1, IntakeInvariant, PTL

-------------------------------------------------------------------------------
(* The bridge over it.                                                       *)

\* A request that works on a bridge has a plan for it; the row it inserts is its own.
Planning == {"planned", "marked", "checked", "inserted", "failed"}
Owning   == {"marked", "checked", "inserted", "failed"}

\* The bridge and its intakes.
BridgeTypes == BridgeTypeOK /\ IntakeTypes

\* The rows are those of the first ids; an id that is not used yet is named nowhere.
RowsInUse ==
  /\ \E n \in Nat : {k \in Intakes : status[k] # "none"} = 1..n
  /\ \A k \in Intakes : status[k] = "none" =>
       /\ jobPc[k] = "none" /\ bridgeOf[k] = None
       /\ \A o \in library : o.intake # k
       /\ \A copy \in dropZone : copy[2] # k
       /\ \A r \in Runs : bound[r] # k
       /\ \A q \in Requests : target[q] # k

\* What each request knows of the row it works on.
RequestKnows(q) ==
  /\ pc[q] \in Planning <=> plan[q].run # None
  /\ pc[q] \in {"inserted", "launching"} =>
       /\ target[q] \in Intakes /\ jobPc[target[q]] = "created"
       /\ \A p \in Requests : pc[p] \in {"inserted", "launching"} /\ target[p] = target[q] => p = q
  /\ pc[q] = "inserted" =>
       /\ bridgeOf[target[q]] = plan[q].run
       /\ \A r \in Runs : bound[r] # target[q]
  /\ pc[q] = "launching" =>
       bridgeOf[target[q]] \in Runs /\ bound[bridgeOf[target[q]]] = target[q]
  /\ pc[q] = "stopping" => target[q] \in Intakes

\* Intake k is the one its run is bound to.
Bound(k) == bridgeOf[k] \in Runs /\ bound[bridgeOf[k]] = k

\* A thread has been started for the intake its run is bound to, and copies and observes
\* only items of that run.
ThreadsBound ==
  /\ \A k \in Intakes : jobPc[k] \notin {"none", "created", "done"} => Bound(k)
  /\ \A k \in Intakes : bridgeOf[k] # None => job[k].records \subseteq ItemsOf(bridgeOf[k])
  /\ \A k \in Intakes : bridgeOf[k] = None => job[k].records = {}
  /\ \A copy \in dropZone : copy[1] \in ItemsOf(bridgeOf[copy[2]])
  /\ \A r \in Runs : bound[r] # None => bridgeOf[bound[r]] = r
  /\ \A o \in library : o.original => RunOf[o.file] \in Runs /\ bound[RunOf[o.file]] = o.intake

\* An observation file f may be linked to.
Linkable(f, o) == o \in library /\ o.original /\ o.file \in {f} \cup Priors(f)

LinksGood ==
  /\ \A f \in Files : link[f] # None => Linkable(f, link[f])
  /\ \A q \in Requests, f \in Files : plan[q].reuse[f] # None =>
       f \in ItemsOf(plan[q].run) /\ Linkable(f, plan[q].reuse[f])
  /\ \A f \in Files : RunOf[f] # None /\ bridgeState[RunOf[f]] = "completed" => link[f] # None

\* Without a row held by a session: the request that has marked a run is the only one, and
\* its links are the only ones.
OneOwner ==
  /\ \A q \in Requests : pc[q] \in Owning =>
       /\ bridgeState[plan[q].run] = "running" /\ bound[plan[q].run] = None
       /\ \A p \in Requests : pc[p] \in Owning /\ plan[p].run = plan[q].run => p = q
       /\ \A f \in ItemsOf(plan[q].run) : link[f] # None => plan[q].reuse[f] # None
  /\ \A r \in Runs : bridgeState[r] = "not_started" =>
       bound[r] = None /\ \A f \in ItemsOf(r) : link[f] = None

BridgeInv ==
  /\ BridgeTypes /\ RowsInUse
  /\ \A q \in Requests : RequestKnows(q)
  /\ ThreadsBound /\ LinksGood /\ RunningHasOwner
  /\ NoneHeld => OneOwner

-------------------------------------------------------------------------------
(* The setting, and the initial state.                                       *)

\* A file is held by one of the runs or by none.
LEMMA SettingType ==
  ASSUME setting \in Settings
  PROVE  /\ RunOf \in [Files -> Runs \cup {None}]
         /\ \A f \in Files : RunOf[f] # None => RunOf[f] \in Runs /\ RunOf[f] \in Nat
BY BridgeAssumption, RunsAssumption DEF RunOf

\* What a file could reuse from an earlier run, a later one of the same content can.
LEMMA PriorsTransitive ==
  ASSUME setting \in Settings, NEW f \in Files, NEW p \in Priors(f), NEW o \in Priors(p)
  PROVE  o \in Priors(f)
<1>1. o \in Files /\ p \in Files
  BY DEF Priors
<1>2. RunOf[o] \in Nat /\ RunOf[p] \in Nat /\ RunOf[f] \in Nat /\ RunOf[o] < RunOf[p] /\ RunOf[p] < RunOf[f]
  BY <1>1, SettingType DEF Priors
<1> QED BY <1>1, <1>2 DEF Priors

\* The setting never changes, nor what is read from it.
LEMMA SettingKept ==
  ASSUME setting' = setting
  PROVE  /\ RunOf' = RunOf /\ Holding' = Holding /\ NoneHeld' = NoneHeld
         /\ \A r : ItemsOf(r)' = ItemsOf(r)
         /\ \A f : Priors(f)' = Priors(f)
BY DEF RunOf, Lineage, Holding, NoneHeld, ItemsOf, Priors

\* No bridge has started.
LEMMA InitBridgeInv == BridgeInit => BridgeInv
<1> SUFFICES ASSUME BridgeInit PROVE BridgeInv
  OBVIOUS
<1> USE DEF BridgeInit, NoPlan
<1>0. IntakeInv /\ IntakeInit
  BY InitIntakeInv
<1>1. BridgeTypes
  BY <1>0 DEF BridgeTypes, BridgeTypeOK, IntakeInv, IntakeTypes, BridgeStates, Reuses
<1>2. RowsInUse
  <2>1. \E n \in Nat : {k \in Intakes : status[k] # "none"} = 1..n
    BY <1>0 DEF IntakeInv, RowsInOrder
  <2>2. None \notin Intakes
    BY IntakesAssumption DEF Intakes
  <2> QED BY <1>0, <2>1, <2>2 DEF RowsInUse, IntakeInit
<1>3. \A q \in Requests : RequestKnows(q)
  BY <1>0 DEF RequestKnows, IntakeInit, Planning
<1>4. ThreadsBound
  BY <1>0 DEF ThreadsBound, IntakeInit, NoJob
<1>5. LinksGood
  BY SettingType DEF LinksGood
<1>6. RunningHasOwner
  BY DEF RunningHasOwner
<1>7. OneOwner
  BY <1>0 DEF OneOwner, Owning, IntakeInit, ItemsOf
<1> QED BY <1>1, <1>2, <1>3, <1>4, <1>5, <1>6, <1>7 DEF BridgeInv

-------------------------------------------------------------------------------
(* What a step leaves when it writes nothing of it.                          *)

\* Links stay good while the library only grows.
LEMMA LinksKept ==
  ASSUME LinksGood, setting' = setting, link' = link, plan' = plan, bridgeState' = bridgeState,
         library \subseteq library'
  PROVE  LinksGood'
BY SettingKept DEF LinksGood, Linkable

\* A request that owns a run keeps it.
LEMMA OwnersKept ==
  ASSUME OneOwner, UNCHANGED <<bridgeState, bound, link, setting>>,
         \A q \in Requests : pc'[q] \in Owning => pc[q] \in Owning /\ plan'[q] = plan[q]
  PROVE  OneOwner'
<1>1. \A x : ItemsOf(x)' = ItemsOf(x)
  BY SettingKept
<1>2. \A p \in Requests : pc'[p] \in Owning =>
        /\ bridgeState'[plan'[p].run] = "running" /\ bound'[plan'[p].run] = None
        /\ \A o \in Requests : pc'[o] \in Owning /\ plan'[o].run = plan'[p].run => o = p
        /\ \A f \in ItemsOf(plan[p].run) : link'[f] # None => plan'[p].reuse[f] # None
  BY DEF OneOwner
<1> QED BY <1>1, <1>2 DEF OneOwner

\* What a step writes of one run is of no other.
OnlyRun(r) ==
  /\ setting' = setting
  /\ \A x \in Runs \ {r} : bridgeState'[x] = bridgeState[x] /\ bound'[x] = bound[x]
  /\ \A f \in Files : RunOf[f] # r => link'[f] = link[f]

\* The step of an owner, or of a callback when there is none.
LEMMA OwnerWrites ==
  ASSUME OneOwner, NEW r \in Runs, OnlyRun(r),
         \A p \in Requests : pc'[p] \in Owning => plan'[p].run \in Runs,
         \A p \in Requests : pc'[p] \in Owning /\ plan'[p].run # r =>
           pc[p] \in Owning /\ plan'[p] = plan[p],
         \A p \in Requests : pc'[p] \in Owning /\ plan'[p].run = r =>
           /\ bridgeState'[r] = "running" /\ bound'[r] = None
           /\ \A o \in Requests : pc'[o] \in Owning /\ plan'[o].run = r => o = p
           /\ \A f \in ItemsOf(r) : link'[f] # None => plan'[p].reuse[f] # None,
         bridgeState'[r] = "not_started" =>
           bound'[r] = None /\ \A f \in ItemsOf(r) : link'[f] = None
  PROVE  OneOwner'
<1>1. \A x : ItemsOf(x)' = ItemsOf(x)
  BY SettingKept DEF OnlyRun
<1>2. \A x \in Runs \ {r} : \A f \in ItemsOf(x) : link'[f] = link[f]
  BY DEF OnlyRun, ItemsOf
<1>3. \A p \in Requests : pc'[p] \in Owning =>
        /\ bridgeState'[plan'[p].run] = "running" /\ bound'[plan'[p].run] = None
        /\ \A o \in Requests : pc'[o] \in Owning /\ plan'[o].run = plan'[p].run => o = p
        /\ \A f \in ItemsOf(plan'[p].run) : link'[f] # None => plan'[p].reuse[f] # None
  <2> SUFFICES ASSUME NEW p \in Requests, pc'[p] \in Owning
               PROVE  /\ bridgeState'[plan'[p].run] = "running" /\ bound'[plan'[p].run] = None
                      /\ \A o \in Requests : pc'[o] \in Owning /\ plan'[o].run = plan'[p].run => o = p
                      /\ \A f \in ItemsOf(plan'[p].run) : link'[f] # None => plan'[p].reuse[f] # None
    OBVIOUS
  <2>1. CASE plan'[p].run = r
    BY <2>1
  <2>2. CASE plan'[p].run # r
    BY <1>2, <2>2 DEF OneOwner, OnlyRun
  <2> QED BY <2>1, <2>2
<1>4. \A x \in Runs : bridgeState'[x] = "not_started" =>
        bound'[x] = None /\ \A f \in ItemsOf(x) : link'[f] = None
  BY <1>2 DEF OneOwner, OnlyRun
<1> QED BY <1>1, <1>3, <1>4 DEF OneOwner

\* Links that are written are good, and complete when the bridge completes.
LEMMA LinksWritten ==
  ASSUME LinksGood, NEW r \in Runs, OnlyRun(r), library \subseteq library',
         \A f \in Files : link'[f] # None => Linkable(f, link'[f]),
         \A p \in Requests, f \in Files : plan'[p].reuse[f] # None => plan'[p] = plan[p],
         bridgeState'[r] = "completed" => \A f \in ItemsOf(r) : link'[f] # None,
         setting \in Settings
  PROVE  LinksGood'
<1>1. RunOf' = RunOf /\ (\A x : ItemsOf(x)' = ItemsOf(x)) /\ (\A f : Priors(f)' = Priors(f))
  BY SettingKept DEF OnlyRun
<1>2. \A f \in Files : link'[f] # None => Linkable(f, link[f])'
  BY <1>1 DEF Linkable
<1>3. \A p \in Requests, f \in Files : plan'[p].reuse[f] # None =>
        f \in ItemsOf(plan'[p].run) /\ Linkable(f, plan[p].reuse[f])'
  BY <1>1 DEF LinksGood, Linkable
<1>4. \A f \in Files : RunOf[f] # None /\ bridgeState'[RunOf[f]] = "completed" => link'[f] # None
  <2> SUFFICES ASSUME NEW f \in Files, RunOf[f] # None, bridgeState'[RunOf[f]] = "completed"
               PROVE  link'[f] # None
    OBVIOUS
  <2>1. CASE RunOf[f] = r
    BY <2>1 DEF ItemsOf
  <2>2. CASE RunOf[f] # r
    BY <2>2, SettingType DEF LinksGood, OnlyRun
  <2> QED BY <2>1, <2>2
<1> QED BY <1>1, <1>2, <1>3, <1>4 DEF LinksGood

\* A running bridge keeps its owner while no owner stops and no thread ends.
LEMMA RunningKept ==
  ASSUME RunningHasOwner, UNCHANGED bridgeVars,
         \A q \in Requests : pc[q] \in Owning => pc'[q] = pc[q],
         \A k \in Intakes : jobPc[k] \notin {"none", "done"} => jobPc'[k] \notin {"none", "done"},
         bound \in [Runs -> Intakes \cup {None}]
  PROVE  RunningHasOwner'
BY DEF RunningHasOwner, bridgeVars, Owning

-------------------------------------------------------------------------------
(* Steps of the intake.                                                      *)

\* The thread is started for the intake its run is bound to.
LEMMA StartThreadKeeps ==
  ASSUME BridgeInv, NEW q \in Requests, StartThread(q), UNCHANGED bridgeVars
  PROVE  BridgeInv'
<1>0. BridgeTypes'
  <2>1. IntakeTypes'
    BY RequestTypes DEF BridgeInv, BridgeTypes
  <2> QED BY <2>1 DEF BridgeInv, BridgeTypes, BridgeTypeOK, IntakeTypes, bridgeVars
<1> USE DEF BridgeInv, StartThread, JobGoto, Finish, Goto, intakeRows
<1>k. RequestKnows(q)
  OBVIOUS
<1>t. target[q] \in Intakes /\ jobPc[target[q]] = "created" /\ Bound(target[q])
  BY <1>k DEF RequestKnows, Bound
<1>y. pc' = [pc EXCEPT ![q] = "idle"] /\ DOMAIN pc = Requests /\ jobPc \in [Intakes -> JobPCs]
      /\ target \in [Requests -> Intakes \cup {None}] /\ bound \in [Runs -> Intakes \cup {None}]
  BY DEF BridgeTypes, BridgeTypeOK, IntakeTypes, IntakeTypeOK
<1>1. RowsInUse'
  <2>1. \A k \in Intakes : status'[k] = "none" => jobPc'[k] = "none"
    BY <1>t DEF RowsInUse
  <2>2. \A k \in Intakes, p \in Requests : status'[k] = "none" => target'[p] # k
    BY <1>y, IntakesAssumption DEF RowsInUse, Intakes
  <2>3. UNCHANGED <<status, library, dropZone, bound, bridgeOf>>
    BY DEF bridgeVars
  <2> HIDE DEF BridgeInv, StartThread
  <2> QED BY <2>1, <2>2, <2>3 DEF BridgeInv, RowsInUse
<1>2. \A p \in Requests : RequestKnows(p)'
  <2> SUFFICES ASSUME NEW p \in Requests PROVE RequestKnows(p)'
    OBVIOUS
  <2>1. RequestKnows(p)
    OBVIOUS
  <2>2. CASE p = q
    BY <1>y, <1>k, <2>2 DEF RequestKnows, bridgeVars, Planning
  <2>3. CASE p # q
    <3>1. pc'[p] = pc[p] /\ target'[p] = target[p]
      BY <1>y, <2>3
    <3>2. pc[p] \in {"inserted", "launching"} => target[p] # target[q]
      BY <2>1, <2>3 DEF RequestKnows
    <3>3. pc[p] \in {"inserted", "launching"} => jobPc'[target[p]] = jobPc[target[p]]
      BY <1>y, <3>2
    <3>4. pc[p] \in {"inserted", "launching"} => \A o \in Requests :
            pc'[o] \in {"inserted", "launching"} /\ target'[o] = target'[p] => o = p
      BY <1>y, <2>1, <3>1 DEF RequestKnows
    <3>5. UNCHANGED <<plan, bound, bridgeOf>>
      BY DEF bridgeVars
    <3> HIDE DEF StartThread
    <3> QED BY <2>1, <3>1, <3>3, <3>4, <3>5 DEF RequestKnows
  <2> QED BY <2>2, <2>3
<1>3. ThreadsBound'
  <2>1. \A k \in Intakes : jobPc'[k] \notin {"none", "created", "done"} => Bound(k)'
    BY <1>t, <1>y DEF ThreadsBound, Bound, bridgeVars
  <2>2. UNCHANGED <<dropZone, library, job, bridgeVars>>
    OBVIOUS
  <2> HIDE DEF StartThread
  <2> QED BY <2>1, <2>2, SettingKept DEF ThreadsBound, bridgeVars
<1>4. LinksGood'
  BY LinksKept DEF bridgeVars
<1>5. RunningHasOwner'
  <2>1. \A k \in Intakes : jobPc[k] \notin {"none", "done"} => jobPc'[k] \notin {"none", "done"}
    BY <1>y
  <2>2. \A p \in Requests : pc[p] \in Owning => pc'[p] = pc[p]
    BY <1>y DEF Owning
  <2> QED BY <1>y, <2>1, <2>2, RunningKept
<1>6. (NoneHeld => OneOwner)'
  <2>1. \A p \in Requests : pc'[p] \in Owning => pc[p] \in Owning
    BY <1>y DEF Owning
  <2>2. UNCHANGED <<bridgeState, bound, link, setting, plan>>
    BY DEF bridgeVars
  <2> QED BY <2>1, <2>2, OwnersKept, SettingKept
<1> QED BY <1>0, <1>1, <1>2, <1>3, <1>4, <1>5, <1>6

\* A stop request writes a row that is inserted, and no bridge.
LEMMA StopKeeps ==
  ASSUME BridgeInv, NEW q \in Requests, BeginStop(q) \/ EndStop(q), UNCHANGED bridgeVars
  PROVE  BridgeInv'
<1>0. BridgeTypes'
  <2>1. IntakeTypes'
    BY RequestTypes DEF BridgeInv, BridgeTypes
  <2> QED BY <2>1 DEF BridgeInv, BridgeTypes, BridgeTypeOK, IntakeTypes, bridgeVars
<1> USE DEF BridgeInv
<1>k. RequestKnows(q)
  OBVIOUS
<1>y. DOMAIN pc = Requests /\ status \in [Intakes -> Statuses] /\ None \notin Intakes
      /\ target \in [Requests -> Intakes \cup {None}] /\ bound \in [Runs -> Intakes \cup {None}]
  BY IntakesAssumption DEF BridgeTypes, BridgeTypeOK, IntakeTypes, IntakeTypeOK, Intakes
<1>u. UNCHANGED <<dropZone, library, jobPc, job, bridgeOf, bound, plan, bridgeState, link, setting>>
  BY DEF BeginStop, EndStop, bridgeVars
<1>p. /\ pc[q] \notin Planning \cup {"launching"} /\ pc'[q] \in {"idle", "stopping"}
      /\ \A p \in Requests : p # q => pc'[p] = pc[p] /\ target'[p] = target[p]
  BY <1>y DEF BeginStop, EndStop, Finish, Goto, Planning
<1>s. \A k \in Intakes : status'[k] = "none" <=> status[k] = "none"
  BY <1>k, <1>y DEF BeginStop, EndStop, intakeRows, RequestKnows, RowsInUse
<1>t. target'[q] \in Intakes \cup {None} /\ \A k \in Intakes : status[k] = "none" => target'[q] # k
  BY <1>y DEF BeginStop, EndStop, Finish
<1>g. pc'[q] = "stopping" => target'[q] \in Intakes
  BY <1>y DEF BeginStop, EndStop, Finish, Goto
<1>1. RowsInUse'
  <2>1. {k \in Intakes : status'[k] # "none"} = {k \in Intakes : status[k] # "none"}
    BY <1>s
  <2>2. \A k \in Intakes, p \in Requests : status'[k] = "none" => target'[p] # k
    BY <1>s, <1>t, <1>p DEF RowsInUse
  <2> QED BY <1>s, <1>u, <2>1, <2>2 DEF RowsInUse
<1>2. \A p \in Requests : RequestKnows(p)'
  <2> SUFFICES ASSUME NEW p \in Requests PROVE RequestKnows(p)'
    OBVIOUS
  <2>1. RequestKnows(p)
    OBVIOUS
  <2>2. CASE p = q
    BY <1>k, <1>p, <1>g, <1>u, <2>2 DEF RequestKnows, Planning
  <2>3. CASE p # q
    BY <1>p, <1>u, <2>1, <2>3 DEF RequestKnows
  <2> QED BY <2>2, <2>3
<1>3. ThreadsBound'
  BY <1>u, SettingKept DEF ThreadsBound, Bound
<1>4. LinksGood'
  BY <1>u, LinksKept
<1>5. RunningHasOwner'
  <2>1. \A p \in Requests : pc[p] \in Owning => pc'[p] = pc[p]
    BY <1>p DEF Owning, Planning
  <2> QED BY <1>y, <1>u, <2>1, RunningKept
<1>6. (NoneHeld => OneOwner)'
  <2>1. \A p \in Requests : pc'[p] \in Owning => pc[p] \in Owning
    BY <1>p DEF Owning, Planning
  <2> QED BY <1>u, <2>1, OwnersKept, SettingKept
<1> QED BY <1>0, <1>1, <1>2, <1>3, <1>4, <1>5, <1>6

\* What the steps of a thread have in common: it copies its own files, observes what is
\* in the drop zone, and goes on.
LEMMA JobEffect ==
  ASSUME IntakeTypes, NEW i \in Intakes, JobWork(i)
  PROVE  /\ pc' = pc /\ target' = target
         /\ status' = status \/ \E s \in Final : status' = [status EXCEPT ![i] = s]
         /\ jobPc[i] \notin {"none", "created", "done"} /\ jobPc'[i] \notin {"none", "created", "done"}
         /\ \A k \in Intakes : k # i => jobPc'[k] = jobPc[k]
         /\ \A k \in Intakes : job'[k].records = job[k].records
         /\ \A copy \in dropZone' \ dropZone : copy[2] = i /\ copy[1] \in job[i].records
         /\ library \subseteq library'
         /\ \A o \in library' \ library : \E copy \in dropZone : o = Observation(copy, i)
<1>0. job \in [Intakes -> JobRecords] /\ job[i] \in JobRecords /\ jobPc \in [Intakes -> JobPCs]
  BY DEF IntakeTypes, IntakeTypeOK
<1> USE DEF JobGoto, intakeRows
<1> DEFINE Effect ==
         /\ pc' = pc /\ target' = target
         /\ status' = status \/ \E s \in Final : status' = [status EXCEPT ![i] = s]
         /\ jobPc[i] \notin {"none", "created", "done"} /\ jobPc'[i] \notin {"none", "created", "done"}
         /\ \A k \in Intakes : k # i => jobPc'[k] = jobPc[k]
         /\ \A k \in Intakes : job'[k].records = job[k].records
         /\ \A copy \in dropZone' \ dropZone : copy[2] = i /\ copy[1] \in job[i].records
         /\ library \subseteq library'
         /\ \A o \in library' \ library : \E copy \in dropZone : o = Observation(copy, i)
<1>1. ASSUME CollectInput(i) PROVE Effect
  BY <1>0, <1>1 DEF CollectInput
<1>2. ASSUME NEW copied \in SUBSET job[i].records, StageFiles(i, copied) PROVE Effect
  BY <1>0, <1>2 DEF StageFiles, JobRecords
<1>3. ASSUME NEW batch \in SUBSET job[i].left, NEW ok \in SUBSET batch,
             NEW refused \in SUBSET (batch \ ok), IngestBatch(i, batch, ok, refused)
      PROVE  Effect
  BY <1>0, <1>3 DEF IngestBatch, JobRecords
<1>4. ASSUME CleanBatch(i) PROVE Effect
  BY <1>0, <1>4 DEF CleanBatch, JobRecords
<1>5. ASSUME EndLoop(i) PROVE Effect
  BY <1>0, <1>5 DEF EndLoop, JobRecords
<1>6. ASSUME FailStage(i) PROVE Effect
  BY <1>0, <1>6 DEF FailStage, JobRecords
<1>7. ASSUME ReportStatus(i) PROVE Effect
  BY <1>0, <1>7 DEF ReportStatus, JobRecords, NoJob
<1> HIDE DEF Effect
<1>8. Effect
  BY <1>1, <1>2, <1>3, <1>4, <1>5, <1>6, <1>7 DEF JobWork
<1> QED BY <1>8 DEF Effect

\* A thread observes files of the run that is bound to its intake, and no other.
LEMMA JobKeeps ==
  ASSUME BridgeInv, NEW i \in Intakes, JobWork(i), UNCHANGED bridgeVars
  PROVE  BridgeInv'
<1>a. IntakeTypes
  BY DEF BridgeInv, BridgeTypes
<1>0. BridgeTypes'
  <2>1. IntakeTypes'
    BY <1>a, JobTypes
  <2> QED BY <2>1 DEF BridgeInv, BridgeTypes, BridgeTypeOK, IntakeTypes, bridgeVars
<1> DEFINE news == library' \ library
<1>e. /\ pc' = pc /\ target' = target
      /\ status' = status \/ \E s \in Final : status' = [status EXCEPT ![i] = s]
      /\ jobPc[i] \notin {"none", "created", "done"} /\ jobPc'[i] \notin {"none", "created", "done"}
      /\ \A k \in Intakes : k # i => jobPc'[k] = jobPc[k]
      /\ \A k \in Intakes : job'[k].records = job[k].records
      /\ \A copy \in dropZone' \ dropZone : copy[2] = i /\ copy[1] \in job[i].records
      /\ library \subseteq library'
      /\ \A o \in news : \E copy \in dropZone : o = Observation(copy, i)
  BY <1>a, JobEffect
<1>u. UNCHANGED <<bridgeOf, bound, plan, bridgeState, link, setting>>
  BY DEF bridgeVars
<1> USE DEF BridgeInv
<1>y. /\ status \in [Intakes -> Statuses] /\ bound \in [Runs -> Intakes \cup {None}]
      /\ dropZone \subseteq Files \X Intakes /\ setting \in Settings
  BY <1>a DEF BridgeTypes, BridgeTypeOK, IntakeTypes, IntakeTypeOK, Copies
<1>b. Bound(i)
  BY <1>e DEF ThreadsBound
<1>s. \A k \in Intakes : status'[k] = "none" <=> status[k] = "none"
  <2>1. status[i] # "none"
    BY <1>e DEF RowsInUse
  <2> QED BY <1>e, <1>y, <2>1 DEF Final
<1>o. \A o \in news : o.intake = i /\ (o.original => <<o.file, i>> \in dropZone)
  <2> SUFFICES ASSUME NEW o \in news PROVE o.intake = i /\ (o.original => <<o.file, i>> \in dropZone)
    OBVIOUS
  <2>1. PICK copy \in dropZone : o = Observation(copy, i)
    BY <1>e
  <2>2. copy = <<copy[1], copy[2]>>
    BY <1>y
  <2> QED BY <2>1, <2>2 DEF Observation
<1>1. RowsInUse'
  <2>1. {k \in Intakes : status'[k] # "none"} = {k \in Intakes : status[k] # "none"}
    BY <1>s
  <2>2. \A k \in Intakes : status'[k] = "none" =>
          k # i /\ jobPc'[k] = "none" /\ \A o \in library' : o.intake # k
    BY <1>e, <1>s, <1>o DEF RowsInUse
  <2>3. \A k \in Intakes : status'[k] = "none" => \A copy \in dropZone' : copy[2] # k
    BY <1>e, <1>s, <2>2 DEF RowsInUse
  <2> QED BY <1>e, <1>s, <1>u, <2>1, <2>2, <2>3 DEF RowsInUse
<1>2. \A p \in Requests : RequestKnows(p)'
  BY <1>e, <1>u DEF RequestKnows
<1>3. ThreadsBound'
  <2>1. \A k \in Intakes : jobPc'[k] \notin {"none", "created", "done"} => Bound(k)'
    BY <1>e, <1>u, <1>b DEF ThreadsBound, Bound
  <2>2. \A copy \in dropZone' : copy[1] \in ItemsOf(bridgeOf[copy[2]])
    BY <1>e, <1>b, RunsAssumption DEF ThreadsBound, Bound
  <2>3. \A o \in library' : o.original => RunOf[o.file] \in Runs /\ bound[RunOf[o.file]] = o.intake
    <3>1. ASSUME NEW o \in news, o.original PROVE RunOf[o.file] \in Runs /\ bound[RunOf[o.file]] = o.intake
      <4>1. o.file \in ItemsOf(bridgeOf[i])
        BY <1>o, <3>1 DEF ThreadsBound
      <4> QED BY <1>b, <1>o, <4>1 DEF ItemsOf, Bound
    <3> QED BY <3>1 DEF ThreadsBound
  <2>4. \A k \in Intakes : job'[k].records = job[k].records
    BY <1>e
  <2> QED BY <1>u, <2>1, <2>2, <2>3, <2>4, SettingKept DEF ThreadsBound
<1>4. LinksGood'
  BY <1>e, <1>u, LinksKept
<1>5. RunningHasOwner'
  <2>1. \A k \in Intakes : jobPc[k] \notin {"none", "done"} => jobPc'[k] \notin {"none", "done"}
    BY <1>e
  <2> QED BY <1>e, <1>y, <2>1, RunningKept
<1>6. (NoneHeld => OneOwner)'
  BY <1>e, <1>u, OwnersKept, SettingKept
<1> QED BY <1>0, <1>1, <1>2, <1>3, <1>4, <1>5, <1>6

\* Fewer copies.
LEMMA ClearKeeps ==
  ASSUME BridgeInv, ClearDropZone, UNCHANGED bridgeVars
  PROVE  BridgeInv'
<1>0. BridgeTypes'
  <2>1. IntakeTypes'
    BY RestartTypes DEF BridgeInv, BridgeTypes
  <2> QED BY <2>1 DEF BridgeInv, BridgeTypes, BridgeTypeOK, IntakeTypes, bridgeVars
<1>u. UNCHANGED <<status, library, jobPc, job, pc, target, bridgeOf, bound, plan, bridgeState, link, setting>>
  BY DEF ClearDropZone, intakeRows, bridgeVars
<1>d. dropZone' = {}
  BY DEF ClearDropZone
<1> USE DEF BridgeInv
<1>1. RowsInUse'
  BY <1>u, <1>d DEF RowsInUse
<1>2. \A p \in Requests : RequestKnows(p)'
  BY <1>u DEF RequestKnows
<1>3. ThreadsBound'
  BY <1>u, <1>d, SettingKept DEF ThreadsBound, Bound
<1>4. LinksGood'
  BY <1>u, LinksKept
<1>5. RunningHasOwner'
  BY <1>u DEF RunningHasOwner
<1>6. (NoneHeld => OneOwner)'
  BY <1>u, OwnersKept, SettingKept
<1> QED BY <1>0, <1>1, <1>2, <1>3, <1>4, <1>5, <1>6

-------------------------------------------------------------------------------
(* Steps of a request that write the bridge and no intake.                   *)

Snapshots == [run : Runs \cup {None}, reuse : Reuses]

\* Such a step takes the request from one place to another, with a snapshot or without.
Moves(q, label, snapshot) ==
  /\ UNCHANGED <<intakeRows, dropZone, library, jobPc, job, bound, bridgeOf, setting>>
  /\ pc[q] \notin {"inserted", "launching"} /\ label \notin {"inserted", "launching", "stopping"}
  /\ pc' = [pc EXCEPT ![q] = label]
  /\ target' = target \/ target' = [target EXCEPT ![q] = None]
  /\ plan' = [plan EXCEPT ![q] = snapshot] /\ snapshot \in Snapshots
  /\ label \in Planning <=> snapshot.run # None

\* The snapshot of a request that has none.
LEMMA NoPlanType == NoPlan \in Snapshots /\ NoPlan.run = None /\ \A f \in Files : NoPlan.reuse[f] = None
BY DEF NoPlan, Snapshots, Reuses

\* The intakes do not see it.
LEMMA MovesKeep ==
  ASSUME BridgeInv, NEW q \in Requests, NEW label, NEW snapshot, Moves(q, label, snapshot)
  PROVE  /\ IntakeTypes' /\ RowsInUse' /\ ThreadsBound'
         /\ \A p \in Requests : RequestKnows(p)'
         /\ bound' \in [Runs -> Intakes \cup {None}] /\ bridgeOf' \in [Intakes -> Runs \cup {None}]
         /\ plan' \in [Requests -> Snapshots] /\ setting' \in Settings
<1>y. /\ BridgeTypes /\ None \notin Intakes
      /\ target \in [Requests -> Intakes \cup {None}] /\ DOMAIN pc = Requests
      /\ plan \in [Requests -> Snapshots]
  BY IntakesAssumption DEF BridgeInv, BridgeTypes, BridgeTypeOK, IntakeTypes, IntakeTypeOK, Intakes, Snapshots
<1>u. /\ UNCHANGED <<status, stopRequested, rejected, dropZone, library, jobPc, job, bound,
                     bridgeOf, setting>>
      /\ plan' = [plan EXCEPT ![q] = snapshot] /\ snapshot \in Snapshots
  BY DEF Moves, intakeRows
<1>t. /\ target' \in [Requests -> Intakes \cup {None}] /\ DOMAIN pc' = Requests
      /\ pc'[q] \notin {"inserted", "launching", "stopping"} /\ pc[q] \notin {"inserted", "launching"}
      /\ pc'[q] \in Planning <=> plan'[q].run # None
      /\ \A p \in Requests : p # q => pc'[p] = pc[p] /\ target'[p] = target[p] /\ plan'[p] = plan[p]
      /\ \A p \in Requests : target'[p] = target[p] \/ target'[p] = None
  BY <1>y DEF Moves
<1>1. IntakeTypes'
  BY <1>y, <1>u, <1>t DEF BridgeTypes, IntakeTypes, IntakeTypeOK
<1>2. RowsInUse'
  BY <1>y, <1>u, <1>t DEF BridgeInv, RowsInUse
<1>3. ThreadsBound'
  BY <1>u, SettingKept DEF BridgeInv, ThreadsBound, Bound
<1>4. ASSUME NEW p \in Requests PROVE RequestKnows(p)'
  <2>1. RequestKnows(p)
    BY DEF BridgeInv
  <2>2. CASE p = q
    BY <1>t, <2>2 DEF RequestKnows
  <2>3. CASE p # q
    BY <1>t, <1>u, <2>1, <2>3 DEF RequestKnows
  <2> QED BY <2>2, <2>3
<1>5. /\ bound' \in [Runs -> Intakes \cup {None}] /\ bridgeOf' \in [Intakes -> Runs \cup {None}]
      /\ plan' \in [Requests -> Snapshots] /\ setting' \in Settings
  BY <1>y, <1>u DEF BridgeTypes, BridgeTypeOK
<1> QED BY <1>1, <1>2, <1>3, <1>4, <1>5

\* A reused observation is good for the file: it is anchored in an earlier bridge.
LEMMA PriorIsLinkable ==
  ASSUME LinksGood, setting \in Settings, NEW f \in Files, PriorObservation(f) # None
  PROVE  Linkable(f, PriorObservation(f))
<1>1. PriorObservation(f) \in PriorObservations(f)
  BY DEF PriorObservation
<1>2. PICK p \in Priors(f) : link[p] = PriorObservation(f)
  BY <1>1 DEF PriorObservations
<1>3. PriorObservation(f) # None /\ p \in Files
  BY <1>2 DEF Priors
<1>4. Linkable(p, PriorObservation(f))
  BY <1>2, <1>3 DEF LinksGood
<1>5. link[p].file \in Priors(f)
  BY <1>2, <1>4, PriorsTransitive DEF Linkable
<1> QED BY <1>2, <1>4, <1>5 DEF Linkable

\* The snapshot of a run.
LEMMA PlanBridgeKeeps ==
  ASSUME BridgeInv, NEW q \in Requests, NEW r \in Runs, PlanBridge(q, r)
  PROVE  BridgeInv'
<1> DEFINE snapshot == [run |-> r, reuse |-> [f \in Files |-> IF f \in ItemsOf(r)
                                              THEN PriorObservation(f) ELSE None]]
<1>y. /\ BridgeTypes /\ LinksGood /\ setting \in Settings
      /\ plan \in [Requests -> Snapshots] /\ DOMAIN pc = Requests
  BY DEF BridgeInv, BridgeTypes, BridgeTypeOK, IntakeTypes, Snapshots
<1>s. snapshot \in Snapshots
  <2>1. ASSUME NEW f \in Files PROVE PriorObservation(f) \in Observations \cup {None}
    BY DEF PriorObservation, PriorObservations
  <2> QED BY <2>1 DEF Snapshots, Reuses
<1>m. Moves(q, "planned", snapshot)
  <2> HIDE DEF snapshot
  <2>1. plan' = [plan EXCEPT ![q] = snapshot] /\ snapshot.run = r
    BY DEF PlanBridge, snapshot
  <2> QED BY <1>s, <2>1, RunsAssumption DEF PlanBridge, Moves, Goto, bridgeRows, Planning
<1>0. /\ IntakeTypes' /\ RowsInUse' /\ ThreadsBound'
      /\ \A p \in Requests : RequestKnows(p)'
      /\ bound' \in [Runs -> Intakes \cup {None}] /\ bridgeOf' \in [Intakes -> Runs \cup {None}]
      /\ plan' \in [Requests -> Snapshots] /\ setting' \in Settings
  <2> HIDE DEF snapshot
  <2> QED BY <1>m, MovesKeep
<1>u. UNCHANGED <<library, bridgeState, link, setting, jobPc, bound>>
  BY DEF PlanBridge, bridgeRows
<1>p. /\ plan'[q] = snapshot /\ pc[q] = "idle" /\ pc'[q] = "planned"
      /\ \A p \in Requests : p # q => plan'[p] = plan[p] /\ pc'[p] = pc[p]
  BY <1>y DEF PlanBridge, Goto
<1>1. BridgeTypes'
  BY <1>y, <1>0, <1>u DEF BridgeTypes, BridgeTypeOK, Snapshots, IntakeTypes
<1>2. LinksGood'
  <2>1. ASSUME NEW p \in Requests, NEW f \in Files, plan'[p].reuse[f] # None
        PROVE  f \in ItemsOf(plan'[p].run) /\ Linkable(f, plan'[p].reuse[f])
    <3>1. CASE p = q
      BY <1>y, <1>p, <2>1, <3>1, PriorIsLinkable
    <3>2. CASE p # q
      BY <1>y, <1>p, <2>1, <3>2 DEF LinksGood
    <3> QED BY <3>1, <3>2
  <2> HIDE DEF snapshot
  <2> QED BY <1>y, <1>u, <2>1, SettingKept DEF LinksGood, Linkable
<1>3. RunningHasOwner'
  <2>1. \A p \in Requests : pc[p] \in Owning => pc'[p] = pc[p] /\ plan'[p] = plan[p]
    BY <1>p DEF Owning
  <2> QED BY <1>u, <2>1 DEF BridgeInv, RunningHasOwner, Owning
<1>4. (NoneHeld => OneOwner)'
  <2>1. \A p \in Requests : pc'[p] \in Owning => pc[p] \in Owning /\ plan'[p] = plan[p]
    BY <1>p DEF Owning
  <2> QED BY <1>u, <2>1, OwnersKept, SettingKept DEF BridgeInv
<1> QED BY <1>0, <1>1, <1>2, <1>3, <1>4 DEF BridgeInv

\* A request that plans works on a run.
LEMMA PlanIsOfRun ==
  ASSUME BridgeInv, NEW q \in Requests, pc[q] \in Planning
  PROVE  plan[q].run \in Runs
BY DEF BridgeInv, BridgeTypes, BridgeTypeOK, RequestKnows

\* The plan is refused.
LEMMA RefusePlanKeeps ==
  ASSUME BridgeInv, NEW q \in Requests, RefusePlan(q)
  PROVE  BridgeInv'
<1>y. /\ BridgeTypes /\ LinksGood /\ setting \in Settings
      /\ plan \in [Requests -> Snapshots] /\ DOMAIN pc = Requests
  BY DEF BridgeInv, BridgeTypes, BridgeTypeOK, IntakeTypes, Snapshots
<1>m. Moves(q, "idle", NoPlan)
  BY NoPlanType DEF RefusePlan, Finish, Forget, Moves, Goto, bridgeRows, Planning
<1>0. /\ IntakeTypes' /\ RowsInUse' /\ ThreadsBound'
      /\ \A p \in Requests : RequestKnows(p)'
      /\ bound' \in [Runs -> Intakes \cup {None}] /\ bridgeOf' \in [Intakes -> Runs \cup {None}]
      /\ plan' \in [Requests -> Snapshots] /\ setting' \in Settings
  BY <1>m, MovesKeep
<1>u. UNCHANGED <<library, bridgeState, link, setting, jobPc, bound>>
  BY DEF RefusePlan, bridgeRows
<1>p. /\ plan'[q] = NoPlan /\ pc[q] = "planned" /\ pc'[q] = "idle"
      /\ \A p \in Requests : p # q => plan'[p] = plan[p] /\ pc'[p] = pc[p]
  BY <1>y DEF RefusePlan, Finish, Goto, Forget
<1>1. BridgeTypes'
  BY <1>y, <1>0, <1>u DEF BridgeTypes, BridgeTypeOK, Snapshots, IntakeTypes
<1>2. LinksGood'
  <2>1. \A p \in Requests, f \in Files : plan'[p].reuse[f] # None => plan'[p] = plan[p]
    BY <1>p, NoPlanType
  <2> QED BY <1>y, <1>u, <2>1, SettingKept DEF LinksGood, Linkable
<1>3. RunningHasOwner'
  <2>1. \A p \in Requests : pc[p] \in Owning => pc'[p] = pc[p] /\ plan'[p] = plan[p]
    BY <1>p DEF Owning
  <2> QED BY <1>u, <2>1 DEF BridgeInv, RunningHasOwner, Owning
<1>4. (NoneHeld => OneOwner)'
  <2>1. \A p \in Requests : pc'[p] \in Owning => pc[p] \in Owning /\ plan'[p] = plan[p]
    BY <1>p DEF Owning
  <2> QED BY <1>u, <2>1, OwnersKept, SettingKept DEF BridgeInv
<1> QED BY <1>0, <1>1, <1>2, <1>3, <1>4 DEF BridgeInv

\* No intake is active, for the time being.
LEMMA CheckActiveKeeps ==
  ASSUME BridgeInv, NEW q \in Requests, CheckActive(q)
  PROVE  BridgeInv'
<1>y. /\ BridgeTypes /\ LinksGood /\ setting \in Settings
      /\ plan \in [Requests -> Snapshots] /\ DOMAIN pc = Requests
  BY DEF BridgeInv, BridgeTypes, BridgeTypeOK, IntakeTypes, Snapshots
<1>u. UNCHANGED <<library, bridgeState, link, setting, jobPc, bound, plan>>
  BY DEF CheckActive, bridgeVars
<1>m. Moves(q, "checked", plan[q])
  <2>1. plan[q].run # None
    BY DEF BridgeInv, RequestKnows, CheckActive, Planning
  <2>2. plan' = [plan EXCEPT ![q] = plan[q]] /\ plan[q] \in Snapshots
    BY <1>y, <1>u
  <2> QED BY <2>1, <2>2 DEF CheckActive, Moves, Goto, bridgeVars, Planning
<1>0. /\ IntakeTypes' /\ RowsInUse' /\ ThreadsBound'
      /\ \A p \in Requests : RequestKnows(p)'
      /\ bound' \in [Runs -> Intakes \cup {None}] /\ bridgeOf' \in [Intakes -> Runs \cup {None}]
      /\ plan' \in [Requests -> Snapshots] /\ setting' \in Settings
  BY <1>m, MovesKeep
<1>p. pc[q] = "marked" /\ pc'[q] = "checked" /\ \A p \in Requests : p # q => pc'[p] = pc[p]
  BY <1>y DEF CheckActive, Goto
<1>1. BridgeTypes'
  BY <1>y, <1>0, <1>u DEF BridgeTypes, BridgeTypeOK, Snapshots, IntakeTypes
<1>2. LinksGood'
  BY <1>y, <1>u, LinksKept
<1>3. RunningHasOwner'
  <2>1. \A p \in Requests : pc[p] \in Owning => pc'[p] \in Owning
    BY <1>p DEF Owning
  <2> QED BY <1>u, <2>1 DEF BridgeInv, RunningHasOwner, Owning
<1>4. (NoneHeld => OneOwner)'
  <2>1. \A p \in Requests : pc'[p] \in Owning => pc[p] \in Owning /\ plan'[p] = plan[p]
    BY <1>p, <1>u DEF Owning
  <2> QED BY <1>u, <2>1, OwnersKept, SettingKept DEF BridgeInv
<1> QED BY <1>0, <1>1, <1>2, <1>3, <1>4 DEF BridgeInv

\* The reused items are linked, the others stay as they are.
LEMMA ReusedAreLinked ==
  ASSUME BridgeInv, NEW q \in Requests, LinkReused(q), setting' = setting
  PROVE  /\ link' \in Reuses
         /\ \A f \in Files : link'[f] # None => Linkable(f, link'[f])
         /\ \A f \in Files : RunOf[f] # plan[q].run => link'[f] = link[f]
         /\ \A f \in ItemsOf(plan[q].run) \ Unmatched(q) : link'[f] # None
         /\ \A f \in ItemsOf(plan[q].run) :
              link'[f] # None => link[f] # None \/ plan[q].reuse[f] # None
<1>1. link \in Reuses /\ plan[q].reuse \in Reuses
  BY DEF BridgeInv, BridgeTypes, BridgeTypeOK
<1>2. link' \in Reuses
  BY <1>1 DEF LinkReused, Reuses
<1>3. \A f \in Files : link'[f] = IF f \in Reused(q) THEN plan[q].reuse[f] ELSE link[f]
  BY DEF LinkReused
<1>4. \A f \in Files : link'[f] # None => Linkable(f, link'[f])
  BY <1>3 DEF BridgeInv, LinksGood, Reused
<1>5. \A f \in Files : RunOf[f] # plan[q].run => link'[f] = link[f]
  BY <1>3 DEF Reused, ItemsOf
<1>6. \A f \in ItemsOf(plan[q].run) \ Unmatched(q) : link'[f] # None
  BY <1>3 DEF Unmatched, Reused, ItemsOf
<1>7. \A f \in ItemsOf(plan[q].run) :
        link'[f] # None => link[f] # None \/ plan[q].reuse[f] # None
  BY <1>3 DEF ItemsOf
<1> QED BY <1>2, <1>4, <1>5, <1>6, <1>7

\* The bridge is complete when every item is reused.
LEMMA CompleteByReuseKeeps ==
  ASSUME BridgeInv, NEW q \in Requests, CompleteByReuse(q)
  PROVE  BridgeInv'
<1> DEFINE r == plan[q].run
<1>r. r \in Runs
  BY PlanIsOfRun DEF CompleteByReuse, Planning
<1>y. /\ BridgeTypes /\ LinksGood /\ setting \in Settings /\ bridgeState \in [Runs -> BridgeStates]
      /\ plan \in [Requests -> Snapshots] /\ DOMAIN pc = Requests
  BY DEF BridgeInv, BridgeTypes, BridgeTypeOK, IntakeTypes, Snapshots
<1>m. Moves(q, "idle", NoPlan)
  BY NoPlanType DEF CompleteByReuse, Finish, Forget, Moves, Goto, Planning
<1>0. /\ IntakeTypes' /\ RowsInUse' /\ ThreadsBound'
      /\ \A p \in Requests : RequestKnows(p)'
      /\ bound' \in [Runs -> Intakes \cup {None}] /\ bridgeOf' \in [Intakes -> Runs \cup {None}]
      /\ plan' \in [Requests -> Snapshots] /\ setting' \in Settings
  BY <1>m, MovesKeep
<1>u. /\ UNCHANGED <<library, setting, jobPc, bound>>
      /\ bridgeState' = [bridgeState EXCEPT ![r] = "completed"]
  BY DEF CompleteByReuse
<1>p. /\ plan'[q] = NoPlan /\ pc[q] = "planned" /\ pc'[q] = "idle"
      /\ \A p \in Requests : p # q => plan'[p] = plan[p] /\ pc'[p] = pc[p]
  BY <1>y DEF CompleteByReuse, Finish, Goto, Forget
<1>l. /\ link' \in Reuses
      /\ \A f \in Files : link'[f] # None => Linkable(f, link'[f])
      /\ \A f \in Files : RunOf[f] # r => link'[f] = link[f]
      /\ \A f \in ItemsOf(r) : link'[f] # None
  BY ReusedAreLinked DEF CompleteByReuse
<1> HIDE DEF r
<1>o. OnlyRun(r)
  BY <1>y, <1>u, <1>l DEF OnlyRun
<1>1. BridgeTypes'
  BY <1>y, <1>0, <1>u, <1>l DEF BridgeTypes, BridgeTypeOK, Snapshots, IntakeTypes, BridgeStates
<1>2. LinksGood'
  <2>1. \A p \in Requests, f \in Files : plan'[p].reuse[f] # None => plan'[p] = plan[p]
    BY <1>p, NoPlanType
  <2> QED BY <1>y, <1>r, <1>o, <1>u, <1>l, <2>1, LinksWritten
<1>3. RunningHasOwner'
  <2>1. \A p \in Requests : pc[p] \in Owning => pc'[p] = pc[p] /\ plan'[p] = plan[p]
    BY <1>p DEF Owning
  <2>2. \A x \in Runs : bridgeState'[x] = "running" => bridgeState[x] = "running"
    BY <1>u, <1>y
  <2> QED BY <1>u, <2>1, <2>2 DEF BridgeInv, RunningHasOwner, Owning
<1>4. (NoneHeld => OneOwner)'
  <2> SUFFICES ASSUME NoneHeld PROVE OneOwner'
    BY <1>u, SettingKept
  <2>1. OneOwner
    BY DEF BridgeInv
  <2>2. \A p \in Requests : pc'[p] \in Owning => pc[p] \in Owning /\ plan'[p] = plan[p]
    BY <1>p DEF Owning
  <2>3. bridgeState[r] = "not_started"
    BY DEF CompleteByReuse, SnapshotCurrent, NoneHeld, r
  <2>4. \A p \in Requests : pc[p] \in Owning => plan[p].run # r /\ plan[p].run \in Runs
    BY <2>1, <2>3, PlanIsOfRun DEF OneOwner, Owning, Planning
  <2>5. bridgeState'[r] # "not_started"
    BY <1>u, <1>y, <1>r
  <2> QED BY <1>r, <1>o, <2>1, <2>2, <2>4, <2>5, OwnerWrites
<1> QED BY <1>0, <1>1, <1>2, <1>3, <1>4 DEF BridgeInv

\* The run is marked by one request, and linked by it alone.
LEMMA MarkRunningKeeps ==
  ASSUME BridgeInv, NEW q \in Requests, MarkRunning(q)
  PROVE  BridgeInv'
<1> DEFINE r == plan[q].run
<1>r. r \in Runs
  BY PlanIsOfRun DEF MarkRunning, Planning
<1>y. /\ BridgeTypes /\ LinksGood /\ setting \in Settings /\ bridgeState \in [Runs -> BridgeStates]
      /\ plan \in [Requests -> Snapshots] /\ DOMAIN pc = Requests
  BY DEF BridgeInv, BridgeTypes, BridgeTypeOK, IntakeTypes, Snapshots
<1>u. /\ UNCHANGED <<library, setting, jobPc, bound, plan>>
      /\ bridgeState' = [bridgeState EXCEPT ![r] = "running"]
  BY DEF MarkRunning
<1>m. Moves(q, "marked", plan[q])
  <2>1. plan' = [plan EXCEPT ![q] = plan[q]] /\ plan[q] \in Snapshots
    BY <1>y, <1>u
  <2> QED BY <1>r, <2>1, RunsAssumption DEF MarkRunning, Moves, Goto, Planning
<1>0. /\ IntakeTypes' /\ RowsInUse' /\ ThreadsBound'
      /\ \A p \in Requests : RequestKnows(p)'
      /\ bound' \in [Runs -> Intakes \cup {None}] /\ bridgeOf' \in [Intakes -> Runs \cup {None}]
      /\ plan' \in [Requests -> Snapshots] /\ setting' \in Settings
  BY <1>m, MovesKeep
<1>p. pc[q] = "planned" /\ pc'[q] = "marked" /\ \A p \in Requests : p # q => pc'[p] = pc[p]
  BY <1>y DEF MarkRunning, Goto
<1>l. /\ link' \in Reuses
      /\ \A f \in Files : link'[f] # None => Linkable(f, link'[f])
      /\ \A f \in Files : RunOf[f] # r => link'[f] = link[f]
      /\ \A f \in ItemsOf(r) : link'[f] # None => link[f] # None \/ plan[q].reuse[f] # None
  BY ReusedAreLinked DEF MarkRunning
<1>q. plan[q].run = r
  OBVIOUS
<1> HIDE DEF r
<1>o. OnlyRun(r)
  BY <1>y, <1>u, <1>l DEF OnlyRun
<1>1. BridgeTypes'
  BY <1>y, <1>0, <1>u, <1>l DEF BridgeTypes, BridgeTypeOK, Snapshots, IntakeTypes, BridgeStates
<1>2. LinksGood'
  <2>1. bridgeState'[r] # "completed"
    BY <1>u, <1>y, <1>r
  <2> QED BY <1>y, <1>r, <1>o, <1>u, <1>l, <2>1, LinksWritten
<1>3. RunningHasOwner'
  <2> SUFFICES ASSUME NEW x \in Runs, bridgeState'[x] = "running"
               PROVE  \/ \E p \in Requests : plan[p].run = x /\ pc'[p] \in Owning
                      \/ bound[x] # None /\ jobPc[bound[x]] \notin {"none", "done"}
    BY <1>u DEF RunningHasOwner, Owning
  <2>1. CASE x = r
    BY <1>p, <1>q, <2>1 DEF Owning
  <2>2. CASE x # r
    <3>1. bridgeState[x] = "running"
      BY <1>y, <1>u, <2>2
    <3>2. \A p \in Requests : pc[p] \in Owning => pc'[p] = pc[p]
      BY <1>p DEF Owning
    <3> QED BY <3>1, <3>2 DEF BridgeInv, RunningHasOwner, Owning
  <2> QED BY <2>1, <2>2
<1>4. (NoneHeld => OneOwner)'
  <2> SUFFICES ASSUME NoneHeld PROVE OneOwner'
    BY <1>u, SettingKept
  <2>1. OneOwner
    BY DEF BridgeInv
  <2>2. \A p \in Requests : p # q /\ pc'[p] \in Owning => pc[p] \in Owning
    BY <1>p DEF Owning
  <2>3. bridgeState[r] = "not_started"
    BY <1>q DEF MarkRunning, SnapshotCurrent, NoneHeld
  <2>4. \A p \in Requests : pc[p] \in Owning => plan[p].run # r /\ plan[p].run \in Runs
    BY <2>1, <2>3, PlanIsOfRun DEF OneOwner, Owning, Planning
  <2>5. bridgeState'[r] = "running"
    BY <1>u, <1>y, <1>r
  <2>6. bound'[r] = None /\ \A f \in ItemsOf(r) : link'[f] # None => plan[q].reuse[f] # None
    BY <1>r, <1>u, <1>l, <2>1, <2>3 DEF OneOwner
  <2>7. \A p \in Requests : pc'[p] \in Owning => plan'[p].run \in Runs
    BY <1>q, <1>r, <1>u, <2>2, <2>4
  <2>8. \A p \in Requests : pc'[p] \in Owning /\ plan'[p].run # r => pc[p] \in Owning /\ plan'[p] = plan[p]
    BY <1>q, <1>u, <2>2
  <2>9. \A p \in Requests : pc'[p] \in Owning /\ plan'[p].run = r => p = q
    BY <1>u, <2>2, <2>4
  <2>10. \A p \in Requests : pc'[p] \in Owning /\ plan'[p].run = r =>
           /\ bridgeState'[r] = "running" /\ bound'[r] = None
           /\ \A o \in Requests : pc'[o] \in Owning /\ plan'[o].run = r => o = p
           /\ \A f \in ItemsOf(r) : link'[f] # None => plan'[p].reuse[f] # None
    BY <1>u, <2>5, <2>6, <2>9
  <2> QED BY <1>r, <1>o, <2>1, <2>5, <2>7, <2>8, <2>10, OwnerWrites
<1> QED BY <1>0, <1>1, <1>2, <1>3, <1>4 DEF BridgeInv

\* A request that gives up before an intake is bound unlinks what it has linked.
LEMMA GiveUpKeeps ==
  ASSUME BridgeInv, NEW q \in Requests, NEW s \in {"not_started", "failed"},
         pc[q] \in {"marked", "checked", "failed"},
         bridgeState' = [bridgeState EXCEPT ![plan[q].run] = s],
         UnlinkReused(q), Finish(q), Forget(q),
         UNCHANGED <<intakeRows, dropZone, library, jobPc, job, bound, bridgeOf, setting>>
  PROVE  BridgeInv'
<1> DEFINE r == plan[q].run
<1>r. r \in Runs
  BY PlanIsOfRun DEF Planning
<1>y. /\ BridgeTypes /\ LinksGood /\ setting \in Settings /\ bridgeState \in [Runs -> BridgeStates]
      /\ plan \in [Requests -> Snapshots] /\ DOMAIN pc = Requests /\ link \in Reuses
  BY DEF BridgeInv, BridgeTypes, BridgeTypeOK, IntakeTypes, Snapshots
<1>m. Moves(q, "idle", NoPlan)
  BY NoPlanType DEF Finish, Forget, Moves, Goto, Planning
<1>0. /\ IntakeTypes' /\ RowsInUse' /\ ThreadsBound'
      /\ \A p \in Requests : RequestKnows(p)'
      /\ bound' \in [Runs -> Intakes \cup {None}] /\ bridgeOf' \in [Intakes -> Runs \cup {None}]
      /\ plan' \in [Requests -> Snapshots] /\ setting' \in Settings
  BY <1>m, MovesKeep
<1>u. /\ UNCHANGED <<library, setting, jobPc, bound>>
      /\ bridgeState' = [bridgeState EXCEPT ![r] = s]
  OBVIOUS
<1>p. /\ plan'[q] = NoPlan /\ pc[q] \in Owning /\ pc'[q] = "idle"
      /\ \A p \in Requests : p # q => plan'[p] = plan[p] /\ pc'[p] = pc[p]
  BY <1>y DEF Finish, Goto, Forget, Owning
<1>l. /\ link' \in Reuses
      /\ \A f \in Files : link'[f] # None => link'[f] = link[f]
      /\ \A f \in Files : RunOf[f] # r => link'[f] = link[f]
      /\ \A f \in ItemsOf(r) : plan[q].reuse[f] # None => link'[f] = None
  BY <1>y DEF UnlinkReused, Reused, Reuses, ItemsOf
<1>q. plan[q].run = r
  OBVIOUS
<1> HIDE DEF r
<1>o. OnlyRun(r)
  BY <1>y, <1>u, <1>l DEF OnlyRun
<1>1. BridgeTypes'
  BY <1>y, <1>0, <1>u, <1>l DEF BridgeTypes, BridgeTypeOK, Snapshots, IntakeTypes, BridgeStates
<1>2. LinksGood'
  <2>1. \A p \in Requests, f \in Files : plan'[p].reuse[f] # None => plan'[p] = plan[p]
    BY <1>p, NoPlanType
  <2>2. \A f \in Files : link'[f] # None => Linkable(f, link'[f])
    BY <1>l, <1>y DEF LinksGood
  <2>3. bridgeState'[r] # "completed"
    BY <1>u, <1>y, <1>r
  <2> QED BY <1>y, <1>r, <1>o, <1>u, <2>1, <2>2, <2>3, LinksWritten
<1>3. RunningHasOwner'
  <2>1. \A x \in Runs : bridgeState'[x] = "running" => bridgeState[x] = "running" /\ x # r
    BY <1>u, <1>y
  <2>2. \A p \in Requests : pc[p] \in Owning /\ plan[p].run # r => pc'[p] = pc[p] /\ plan'[p] = plan[p]
    BY <1>p, <1>q
  <2> QED BY <1>u, <2>1, <2>2 DEF BridgeInv, RunningHasOwner, Owning
<1>4. (NoneHeld => OneOwner)'
  <2> SUFFICES ASSUME NoneHeld PROVE OneOwner'
    BY <1>u, SettingKept
  <2>1. OneOwner
    BY DEF BridgeInv
  <2>2. \A p \in Requests : pc'[p] \in Owning => p # q /\ pc[p] \in Owning /\ plan'[p] = plan[p]
    BY <1>p DEF Owning
  <2>3. \A p \in Requests : pc[p] \in Owning /\ plan[p].run = r => p = q
    BY <1>p, <1>q, <2>1 DEF OneOwner
  <2>4. \A p \in Requests : pc[p] \in Owning => plan[p].run \in Runs
    BY PlanIsOfRun DEF Owning, Planning
  <2>5. bound[r] = None /\ \A f \in ItemsOf(r) : link[f] # None => plan[q].reuse[f] # None
    BY <1>p, <1>q, <2>1 DEF OneOwner
  <2>6. bound'[r] = None /\ \A f \in ItemsOf(r) : link'[f] = None
    BY <1>l, <1>u, <2>5 DEF ItemsOf
  <2> QED BY <1>r, <1>o, <2>1, <2>2, <2>3, <2>4, <2>6, OwnerWrites
<1> QED BY <1>0, <1>1, <1>2, <1>3, <1>4 DEF BridgeInv

\* Both ways of giving up.
LEMMA UndoKeeps ==
  ASSUME BridgeInv, NEW q \in Requests, UndoMark(q) \/ FailLaunch(q)
  PROVE  BridgeInv'
BY GiveUpKeeps DEF UndoMark, FailLaunch

-------------------------------------------------------------------------------
(* Steps of a request that write an intake.                                  *)

\* The next id has left no traces.
LEMMA NextIsNew ==
  ASSUME RowsInUse, NEW k \in Intakes, k = Cardinality({i \in Intakes : status[i] # "none"}) + 1
  PROVE  /\ status[k] = "none"
         /\ \E n \in Nat : {i \in Intakes : status[i] # "none"} \cup {k} = 1..n
<1>1. PICK n \in Nat : {i \in Intakes : status[i] # "none"} = 1..n
  BY DEF RowsInUse
<1>2. Cardinality(1..n) = n
  BY FS_Interval
<1>3. k = n + 1
  BY <1>1, <1>2
<1>4. (1..n) \cup {n + 1} = 1..(n + 1) /\ n + 1 \in Nat
  OBVIOUS
<1>5. {i \in Intakes : status[i] # "none"} \cup {k} = 1..(n + 1)
  BY <1>1, <1>3, <1>4
<1>6. status[k] = "none"
  BY <1>1, <1>3
<1> QED BY <1>4, <1>5, <1>6

\* The intake is of the run, and not bound yet.
LEMMA InsertExplicitKeeps ==
  ASSUME BridgeInv, NEW q \in Requests, NEW k \in Intakes, InsertExplicit(q, k)
  PROVE  BridgeInv'
<1> DEFINE r == plan[q].run
<1>r. r \in Runs
  BY PlanIsOfRun DEF InsertExplicit, Planning
<1>y. /\ BridgeTypes /\ LinksGood /\ DOMAIN pc = Requests /\ RowsInUse /\ ThreadsBound
      /\ target \in [Requests -> Intakes \cup {None}] /\ bridgeOf \in [Intakes -> Runs \cup {None}]
      /\ job \in [Intakes -> JobRecords] /\ job[k] \in JobRecords /\ status \in [Intakes -> Statuses]
      /\ jobPc \in [Intakes -> JobPCs] /\ bound \in [Runs -> Intakes \cup {None}] /\ IntakeTypes
  BY DEF BridgeInv, BridgeTypes, BridgeTypeOK, IntakeTypes, IntakeTypeOK
<1>i. InsertRow(q, k, Unmatched(q), Cardinality(Unmatched(q)), TRUE) /\ Goto(q, "inserted")
  BY DEF InsertExplicit
<1>f. Unmatched(q) \subseteq ItemsOf(r) /\ Unmatched(q) \subseteq Files
      /\ Cardinality(Unmatched(q)) \in Nat
  <2>1. Unmatched(q) \subseteq ItemsOf(r) /\ Unmatched(q) \subseteq Files
    BY DEF Unmatched, ItemsOf
  <2> QED BY <2>1, FilesAssumption, FS_Subset, FS_CardinalityType
<1>n. /\ status[k] = "none"
      /\ \E n \in Nat : {i \in Intakes : status[i] # "none"} \cup {k} = 1..n
  BY <1>y, <1>i, NextIsNew DEF InsertRow
<1>u. /\ UNCHANGED <<dropZone, library, bound, bridgeState, link, plan, setting>>
      /\ status' = [status EXCEPT ![k] = "running"]
      /\ jobPc' = [jobPc EXCEPT ![k] = "created"]
      /\ target' = [target EXCEPT ![q] = k] /\ bridgeOf' = [bridgeOf EXCEPT ![k] = r]
      /\ pc' = [pc EXCEPT ![q] = "inserted"] /\ pc[q] = "checked"
  BY DEF InsertExplicit, InsertRow, JobGoto, Goto, bridgeRows
<1>j. job'[k].records = Unmatched(q) /\ \A i \in Intakes : i # k => job'[i] = job[i]
  BY <1>i, <1>y DEF InsertRow, JobRecords
<1>q. plan[q].run = r
  OBVIOUS
<1> HIDE DEF r
<1>1. BridgeTypes'
  <2>1. IntakeTypes'
    BY <1>y, <1>i, <1>f, InsertTypes
  <2> QED BY <1>y, <1>u, <1>r, <2>1 DEF BridgeTypes, BridgeTypeOK, IntakeTypes
<1>2. RowsInUse'
  <2>1. {i \in Intakes : status'[i] # "none"} = {i \in Intakes : status[i] # "none"} \cup {k}
    BY <1>u, <1>y
  <2>2. \A i \in Intakes : status'[i] = "none" => i # k /\ status[i] = "none"
    BY <1>u, <1>y
  <2>3. \A i \in Intakes : status'[i] = "none" => \A p \in Requests : target'[p] # i
    BY <1>u, <1>y, <2>2 DEF RowsInUse
  <2> QED BY <1>u, <1>y, <1>n, <2>1, <2>2, <2>3 DEF RowsInUse
<1>3. \A p \in Requests : RequestKnows(p)'
  <2> SUFFICES ASSUME NEW p \in Requests PROVE RequestKnows(p)'
    OBVIOUS
  <2>1. RequestKnows(p) /\ RequestKnows(q)
    BY DEF BridgeInv
  <2>2. \A o \in Requests : target[o] # k
    BY <1>n, <1>y DEF RowsInUse
  <2>3. target'[q] = k /\ pc'[q] = "inserted" /\ \A o \in Requests : o # q => target'[o] = target[o] /\ pc'[o] = pc[o]
    BY <1>u, <1>y
  <2>4. jobPc'[k] = "created" /\ bridgeOf'[k] = r /\ \A i \in Intakes : i # k => jobPc'[i] = jobPc[i] /\ bridgeOf'[i] = bridgeOf[i]
    BY <1>u, <1>y
  <2>5. CASE p = q
    <3>1. \A x \in Runs : bound'[x] # k
      BY <1>u, <1>n, <1>y DEF RowsInUse
    <3>2. \A o \in Requests : target'[o] = k => o = q
      BY <2>2, <2>3
    <3>3. plan'[q].run # None /\ pc'[q] \in Planning
      BY <1>q, <1>r, <1>u, <2>3, RunsAssumption DEF Planning
    <3> QED BY <1>q, <1>u, <2>3, <2>4, <2>5, <3>1, <3>2, <3>3 DEF RequestKnows
  <2>6. CASE p # q
    <3>1. pc[p] \in {"inserted", "launching"} => \A o \in Requests :
            pc'[o] \in {"inserted", "launching"} /\ target'[o] = target'[p] => o = p
      BY <2>1, <2>2, <2>3, <2>6 DEF RequestKnows
    <3>2. pc[p] \in {"inserted", "launching"} => target[p] \in Intakes
            /\ jobPc'[target[p]] = jobPc[target[p]] /\ bridgeOf'[target[p]] = bridgeOf[target[p]]
      BY <2>1, <2>2, <2>4 DEF RequestKnows
    <3> QED BY <1>u, <2>1, <2>3, <2>6, <3>1, <3>2 DEF RequestKnows
  <2> QED BY <2>5, <2>6
<1>4. ThreadsBound'
  <2>1. \A i \in Intakes : jobPc'[i] \notin {"none", "created", "done"} => Bound(i)'
    BY <1>u, <1>y DEF ThreadsBound, Bound
  <2>2. \A x : ItemsOf(x)' = ItemsOf(x)
    BY <1>u, SettingKept
  <2>3. \A i \in Intakes : bridgeOf'[i] # None => job'[i].records \subseteq ItemsOf(bridgeOf'[i])
    BY <1>u, <1>y, <1>j, <1>f DEF ThreadsBound
  <2>4. \A i \in Intakes : bridgeOf'[i] = None => job'[i].records = {}
    BY <1>u, <1>y, <1>j, <1>r, RunsAssumption DEF ThreadsBound
  <2>5. \A copy \in dropZone : copy[1] \in ItemsOf(bridgeOf'[copy[2]])
    BY <1>u, <1>y, <1>n DEF ThreadsBound, RowsInUse
  <2>6. \A x \in Runs : bound[x] # None => bridgeOf'[bound[x]] = x
    BY <1>u, <1>y, <1>n DEF ThreadsBound, RowsInUse
  <2>7. \A o \in library : o.original => RunOf[o.file] \in Runs /\ bound[RunOf[o.file]] = o.intake
    BY <1>y DEF ThreadsBound
  <2> QED BY <1>u, <2>1, <2>2, <2>3, <2>4, <2>5, <2>6, <2>7, SettingKept DEF ThreadsBound
<1>5. LinksGood'
  BY <1>u, <1>y, LinksKept
<1>6. RunningHasOwner'
  <2>1. \A p \in Requests : pc[p] \in Owning => pc'[p] \in Owning
    BY <1>u, <1>y DEF Owning
  <2>2. \A x \in Runs : bound[x] # None => jobPc'[bound[x]] = jobPc[bound[x]]
    BY <1>u, <1>y, <1>n DEF RowsInUse
  <2> QED BY <1>u, <2>1, <2>2 DEF BridgeInv, RunningHasOwner, Owning
<1>7. (NoneHeld => OneOwner)'
  <2>1. \A p \in Requests : pc'[p] \in Owning => pc[p] \in Owning /\ plan'[p] = plan[p]
    BY <1>u, <1>y DEF Owning
  <2> QED BY <1>u, <2>1, OwnersKept, SettingKept DEF BridgeInv
<1> QED BY <1>1, <1>2, <1>3, <1>4, <1>5, <1>6, <1>7 DEF BridgeInv

\* The run is bound to the intake of this request, for good.
LEMMA BindIntakeKeeps ==
  ASSUME BridgeInv, NEW q \in Requests, BindIntake(q)
  PROVE  BridgeInv'
<1> DEFINE r == plan[q].run
           k == target[q]
<1>r. r \in Runs
  BY PlanIsOfRun DEF BindIntake, Planning
<1>y. /\ BridgeTypes /\ LinksGood /\ DOMAIN pc = Requests /\ RowsInUse /\ ThreadsBound
      /\ setting \in Settings /\ plan \in [Requests -> Snapshots]
      /\ target \in [Requests -> Intakes \cup {None}] /\ library \subseteq Observations
      /\ bound \in [Runs -> Intakes \cup {None}] /\ IntakeTypes /\ None \notin Intakes
  BY IntakesAssumption DEF BridgeInv, BridgeTypes, BridgeTypeOK, IntakeTypes, IntakeTypeOK, Intakes, Snapshots
<1>k. /\ k \in Intakes /\ jobPc[k] = "created" /\ bridgeOf[k] = r
      /\ \A x \in Runs : bound[x] # k
      /\ \A p \in Requests : pc[p] \in {"inserted", "launching"} /\ target[p] = k => p = q
  BY DEF BridgeInv, RequestKnows, BindIntake
<1>b. bound[r] = None /\ bridgeState[r] = "running" /\ pc[q] = "inserted"
  BY DEF BindIntake, Bindable
<1>u. /\ UNCHANGED <<status, stopRequested, rejected, dropZone, library, jobPc, job, target,
                     bridgeState, link, bridgeOf, setting>>
      /\ bound' = [bound EXCEPT ![r] = k]
      /\ pc' = [pc EXCEPT ![q] = "launching"] /\ plan' = [plan EXCEPT ![q] = NoPlan]
  BY DEF BindIntake, Goto, Forget, intakeRows
<1>q. plan[q].run = r /\ target[q] = k
  OBVIOUS
<1> HIDE DEF r, k
<1>p. /\ plan'[q] = NoPlan /\ pc'[q] = "launching"
      /\ \A p \in Requests : p # q => plan'[p] = plan[p] /\ pc'[p] = pc[p]
  BY <1>u, <1>y
<1>x. bound'[r] = k /\ \A x \in Runs : x # r => bound'[x] = bound[x]
  BY <1>r, <1>u, <1>y
<1>1. BridgeTypes'
  BY <1>y, <1>u, <1>k, NoPlanType DEF BridgeTypes, BridgeTypeOK, IntakeTypes, IntakeTypeOK, Snapshots
<1>2. RowsInUse'
  <2>1. \A i \in Intakes : status'[i] = "none" => i # k
    BY <1>u, <1>y, <1>q DEF RowsInUse
  <2> QED BY <1>u, <1>y, <1>x, <2>1 DEF RowsInUse
<1>3. \A p \in Requests : RequestKnows(p)'
  <2> SUFFICES ASSUME NEW p \in Requests PROVE RequestKnows(p)'
    OBVIOUS
  <2>1. RequestKnows(p) /\ RequestKnows(q)
    BY DEF BridgeInv
  <2>2. CASE p = q
    BY <1>k, <1>p, <1>q, <1>r, <1>u, <1>x, <1>b, <2>1, <2>2, NoPlanType DEF RequestKnows, Planning
  <2>3. CASE p # q
    <3>1. pc[p] = "inserted" => \A x \in Runs : bound'[x] # target[p]
      BY <1>k, <1>b, <1>x, <2>1, <2>3 DEF RequestKnows
    <3>2. pc[p] = "launching" => bound'[bridgeOf[target[p]]] = target[p]
      BY <1>b, <1>x, <1>y, <2>1 DEF RequestKnows
    <3>3. pc[p] \in {"inserted", "launching"} => \A o \in Requests :
            pc'[o] \in {"inserted", "launching"} /\ target'[o] = target'[p] => o = p
      BY <1>u, <1>p, <1>b, <2>1 DEF RequestKnows
    <3> QED BY <1>u, <1>p, <2>1, <2>3, <3>1, <3>2, <3>3 DEF RequestKnows
  <2> QED BY <2>2, <2>3
<1>4. ThreadsBound'
  <2>1. \A x : ItemsOf(x)' = ItemsOf(x)
    BY <1>u, SettingKept
  <2>2. \A i \in Intakes : jobPc[i] \notin {"none", "created", "done"} =>
          bridgeOf[i] \in Runs /\ bound'[bridgeOf[i]] = i
    BY <1>b, <1>x, <1>y DEF ThreadsBound, Bound
  <2>3. \A x \in Runs : bound'[x] # None => bridgeOf[bound'[x]] = x
    BY <1>k, <1>x, <1>y DEF ThreadsBound
  <2>4. \A o \in library : o.original => RunOf[o.file] \in Runs /\ bound'[RunOf[o.file]] = o.intake
    <3>1. \A o \in library : o.intake \in Intakes
      BY <1>y DEF Observations
    <3> QED BY <1>b, <1>x, <1>y, <3>1 DEF ThreadsBound
  <2> QED BY <1>u, <1>y, <2>1, <2>2, <2>3, <2>4, SettingKept DEF ThreadsBound, Bound
<1>o. OnlyRun(r)
  BY <1>u, <1>x DEF OnlyRun
<1>5. LinksGood'
  <2>1. \A p \in Requests, f \in Files : plan'[p].reuse[f] # None => plan'[p] = plan[p]
    BY <1>p, NoPlanType
  <2> QED BY <1>u, <1>y, <2>1, SettingKept DEF LinksGood, Linkable
<1>6. RunningHasOwner'
  <2> SUFFICES ASSUME NEW x \in Runs, bridgeState[x] = "running"
               PROVE  \/ \E p \in Requests : plan'[p].run = x /\ pc'[p] \in Owning
                      \/ bound'[x] # None /\ jobPc[bound'[x]] \notin {"none", "done"}
    BY <1>u DEF RunningHasOwner, Owning
  <2>1. CASE x = r
    BY <1>k, <1>x, <1>y, <2>1
  <2>2. CASE x # r
    BY <1>p, <1>q, <1>x, <2>2 DEF BridgeInv, RunningHasOwner, Owning
  <2> QED BY <2>1, <2>2
<1>7. (NoneHeld => OneOwner)'
  <2> SUFFICES ASSUME NoneHeld PROVE OneOwner'
    BY <1>u, SettingKept
  <2>1. OneOwner
    BY DEF BridgeInv
  <2>2. \A p \in Requests : pc'[p] \in Owning => p # q /\ pc[p] \in Owning /\ plan'[p] = plan[p]
    BY <1>p DEF Owning
  <2>3. \A p \in Requests : pc[p] \in Owning /\ plan[p].run = r => p = q
    BY <1>b, <1>q, <2>1 DEF OneOwner, Owning
  <2>4. \A p \in Requests : pc[p] \in Owning => plan[p].run \in Runs
    BY PlanIsOfRun DEF Owning, Planning
  <2>5. bridgeState'[r] = "running"
    BY <1>b, <1>u
  <2> QED BY <1>r, <1>o, <2>1, <2>2, <2>3, <2>4, <2>5, OwnerWrites
<1> QED BY <1>1, <1>2, <1>3, <1>4, <1>5, <1>6, <1>7 DEF BridgeInv

\* The thread of an intake that cannot be bound never starts.
LEMMA BindFailsKeeps ==
  ASSUME BridgeInv, NEW q \in Requests, BindFails(q)
  PROVE  BridgeInv'
<1> DEFINE k == target[q]
<1>y. /\ BridgeTypes /\ LinksGood /\ DOMAIN pc = Requests /\ RowsInUse /\ ThreadsBound
      /\ status \in [Intakes -> Statuses] /\ jobPc \in [Intakes -> JobPCs]
      /\ job \in [Intakes -> JobRecords] /\ target \in [Requests -> Intakes \cup {None}]
      /\ bound \in [Runs -> Intakes \cup {None}] /\ IntakeTypes
  BY DEF BridgeInv, BridgeTypes, BridgeTypeOK, IntakeTypes, IntakeTypeOK
<1>k. /\ k \in Intakes /\ jobPc[k] = "created"
      /\ \A x \in Runs : bound[x] # k
      /\ \A p \in Requests : pc[p] \in {"inserted", "launching"} /\ target[p] = k => p = q
      /\ plan[q].run # None
  BY DEF BridgeInv, RequestKnows, BindFails, Planning
<1>u. /\ UNCHANGED <<stopRequested, rejected, dropZone, library, target, bound, bridgeState, link,
                     plan, bridgeOf, setting>>
      /\ status' = [status EXCEPT ![k] = "failed"] /\ jobPc' = [jobPc EXCEPT ![k] = "done"]
      /\ job' = [job EXCEPT ![k] = NoJob] /\ pc' = [pc EXCEPT ![q] = "failed"]
      /\ pc[q] = "inserted"
  BY DEF BindFails, Goto, bridgeVars
<1>q. target[q] = k
  OBVIOUS
<1> HIDE DEF k
<1>p. pc'[q] = "failed" /\ \A p \in Requests : p # q => pc'[p] = pc[p]
  BY <1>u, <1>y
<1>j. \A i \in Intakes : i # k => jobPc'[i] = jobPc[i] /\ job'[i] = job[i]
  BY <1>u, <1>y
<1>1. BridgeTypes'
  <2>1. IntakeTypes'
    BY <1>y, <1>u DEF IntakeTypes, IntakeTypeOK, Statuses, JobPCs, JobRecords, NoJob, Final
  <2> QED BY <1>y, <1>u, <2>1 DEF BridgeTypes, BridgeTypeOK, IntakeTypes
<1>2. RowsInUse'
  <2>1. status[k] # "none"
    BY <1>y, <1>q, <1>k DEF RowsInUse
  <2>2. \A i \in Intakes : status'[i] = "none" <=> status[i] = "none"
    BY <1>u, <1>y, <2>1
  <2>3. {i \in Intakes : status'[i] # "none"} = {i \in Intakes : status[i] # "none"}
    BY <2>2
  <2>4. \A i \in Intakes : status'[i] = "none" => jobPc'[i] = "none"
    BY <1>j, <1>y, <2>1, <2>2 DEF RowsInUse
  <2> QED BY <1>u, <1>y, <2>2, <2>3, <2>4 DEF RowsInUse
<1>3. \A p \in Requests : RequestKnows(p)'
  <2> SUFFICES ASSUME NEW p \in Requests PROVE RequestKnows(p)'
    OBVIOUS
  <2>1. RequestKnows(p)
    BY DEF BridgeInv
  <2>2. CASE p = q
    BY <1>k, <1>p, <1>u, <2>1, <2>2 DEF RequestKnows, Planning
  <2>3. CASE p # q
    <3>1. pc[p] \in {"inserted", "launching"} => jobPc'[target[p]] = jobPc[target[p]]
      BY <1>j, <1>k, <2>1, <2>3 DEF RequestKnows
    <3>2. pc[p] \in {"inserted", "launching"} => \A o \in Requests :
            pc'[o] \in {"inserted", "launching"} /\ target'[o] = target'[p] => o = p
      BY <1>u, <1>p, <2>1 DEF RequestKnows
    <3> QED BY <1>u, <1>p, <2>1, <2>3, <3>1, <3>2 DEF RequestKnows
  <2> QED BY <2>2, <2>3
<1>4. ThreadsBound'
  <2>1. \A i \in Intakes : jobPc'[i] \notin {"none", "created", "done"} => Bound(i)'
    BY <1>j, <1>u, <1>y, <1>k DEF ThreadsBound, Bound
  <2>2. \A i \in Intakes : job'[i].records \subseteq job[i].records
    <3>1. job'[k].records = {}
      BY <1>u, <1>y, <1>k DEF NoJob
    <3> QED BY <1>j, <3>1
  <2>3. (\A x : ItemsOf(x)' = ItemsOf(x)) /\ RunOf' = RunOf
    BY <1>u, SettingKept
  <2> QED BY <1>u, <1>y, <2>1, <2>2, <2>3 DEF ThreadsBound
<1>5. LinksGood'
  BY <1>u, <1>y, LinksKept
<1>6. RunningHasOwner'
  <2>1. \A p \in Requests : pc[p] \in Owning => pc'[p] \in Owning
    BY <1>p DEF Owning
  <2>2. \A x \in Runs : bound[x] # None => jobPc'[bound[x]] = jobPc[bound[x]]
    BY <1>j, <1>k, <1>y
  <2> QED BY <1>u, <2>1, <2>2 DEF BridgeInv, RunningHasOwner, Owning
<1>7. (NoneHeld => OneOwner)'
  <2>1. \A p \in Requests : pc'[p] \in Owning => pc[p] \in Owning /\ plan'[p] = plan[p]
    BY <1>u, <1>p DEF Owning
  <2> QED BY <1>u, <2>1, OwnersKept, SettingKept DEF BridgeInv
<1> QED BY <1>1, <1>2, <1>3, <1>4, <1>5, <1>6, <1>7 DEF BridgeInv

-------------------------------------------------------------------------------
(* The callback of an intake, and the end of the process.                    *)

\* The end of a thread.
Ends(k) ==
  /\ jobPc[k] = "callback" /\ EndThread(k)
  /\ UNCHANGED <<intakeRows, dropZone, library, pc, target, bound, plan, bridgeOf, setting>>

\* The intakes and the requests see no more of it.
LEMMA EndKeeps ==
  ASSUME BridgeInv, NEW k \in Intakes, Ends(k)
  PROVE  /\ IntakeTypes' /\ RowsInUse' /\ ThreadsBound'
         /\ \A p \in Requests : RequestKnows(p)'
<1>y. /\ BridgeTypes /\ RowsInUse /\ ThreadsBound /\ IntakeTypes
      /\ jobPc \in [Intakes -> JobPCs] /\ job \in [Intakes -> JobRecords]
  BY DEF BridgeInv, BridgeTypes, IntakeTypes, IntakeTypeOK
<1>u. /\ UNCHANGED <<status, stopRequested, rejected, dropZone, library, pc, target, bound, plan,
                     bridgeOf, setting>>
      /\ jobPc[k] = "callback" /\ jobPc' = [jobPc EXCEPT ![k] = "done"]
      /\ job' = [job EXCEPT ![k] = NoJob]
  BY DEF Ends, EndThread, JobGoto, intakeRows
<1>j. /\ jobPc'[k] = "done" /\ job'[k].records = {}
      /\ \A i \in Intakes : i # k => jobPc'[i] = jobPc[i] /\ job'[i] = job[i]
  BY <1>u, <1>y DEF NoJob
<1>1. IntakeTypes'
  BY <1>y, <1>u DEF IntakeTypes, IntakeTypeOK, JobPCs, JobRecords, NoJob, Final
<1>2. RowsInUse'
  BY <1>u, <1>j, <1>y DEF RowsInUse
<1>3. ThreadsBound'
  <2>1. \A i \in Intakes : jobPc'[i] \notin {"none", "created", "done"} => Bound(i)'
    BY <1>j, <1>u, <1>y DEF ThreadsBound, Bound
  <2>2. \A i \in Intakes : job'[i].records \subseteq job[i].records
    BY <1>j
  <2>3. (\A x : ItemsOf(x)' = ItemsOf(x)) /\ RunOf' = RunOf
    BY <1>u, SettingKept
  <2> QED BY <1>u, <1>y, <2>1, <2>2, <2>3 DEF ThreadsBound
<1>4. ASSUME NEW p \in Requests PROVE RequestKnows(p)'
  <2>1. RequestKnows(p)
    BY DEF BridgeInv
  <2>2. pc[p] \in {"inserted", "launching"} => jobPc'[target[p]] = jobPc[target[p]]
    BY <1>u, <1>j, <2>1 DEF RequestKnows
  <2> QED BY <1>u, <2>1, <2>2 DEF RequestKnows
<1> QED BY <1>1, <1>2, <1>3, <1>4

\* The result of the intake is that of the run bound to it, which no request owns.
LEMMA FinalizeKeeps ==
  ASSUME BridgeInv, NEW k \in Intakes, FinalizeComplete(k) \/ FinalizeFailed(k)
  PROVE  BridgeInv'
<1> DEFINE r == bridgeOf[k]
<1>y. /\ BridgeTypes /\ LinksGood /\ setting \in Settings /\ bridgeState \in [Runs -> BridgeStates]
      /\ jobPc \in [Intakes -> JobPCs] /\ bound \in [Runs -> Intakes \cup {None}] /\ link \in Reuses
      /\ bridgeOf \in [Intakes -> Runs \cup {None}] /\ library \subseteq Observations
      /\ None \notin Intakes
  BY IntakesAssumption DEF BridgeInv, BridgeTypes, BridgeTypeOK, IntakeTypes, IntakeTypeOK, Intakes
<1>r. r \in Runs /\ bound[r] = k /\ bridgeState[r] = "running" /\ jobPc[k] = "callback"
  BY <1>y DEF FinalizeComplete, FinalizeFailed, Awaited
<1>0. /\ IntakeTypes' /\ RowsInUse' /\ ThreadsBound'
      /\ \A p \in Requests : RequestKnows(p)'
  BY EndKeeps DEF FinalizeComplete, FinalizeFailed, Ends
<1>u. /\ UNCHANGED <<library, pc, bound, plan, bridgeOf, setting>>
      /\ bridgeState' = [bridgeState EXCEPT ![r] = "completed"]
         \/ bridgeState' = [bridgeState EXCEPT ![r] = "failed"]
      /\ jobPc' = [jobPc EXCEPT ![k] = "done"]
  BY DEF FinalizeComplete, FinalizeFailed, EndThread, JobGoto
<1>l. /\ link' \in Reuses
      /\ \A f \in Files : link'[f] # None => Linkable(f, link'[f])
      /\ \A f \in Files : RunOf[f] # r => link'[f] = link[f]
      /\ bridgeState'[r] = "completed" => \A f \in ItemsOf(r) : link'[f] # None
  <2>1. CASE FinalizeFailed(k)
    <3>1. link' = link /\ bridgeState' = [bridgeState EXCEPT ![r] = "failed"]
      BY <2>1 DEF FinalizeFailed
    <3> QED BY <1>y, <1>r, <3>1 DEF LinksGood
  <2>2. CASE FinalizeComplete(k)
    <3> DEFINE news == {f \in Files : RunOf[f] = r /\ link[f] = None}
    <3>1. \A f \in news : Observation(<<f, k>>, k) \in library
      BY <2>2 DEF FinalizeComplete, IntakeExact, ItemsOf
    <3>2. \A f \in news : LET o == Observation(<<f, k>>, k) IN
            o.file = f /\ o.original /\ o \in Observations /\ o # None
      BY <3>1, <1>y, RunsAssumption DEF Observation
    <3>3. \A f \in Files : link'[f] = IF f \in news THEN Observation(<<f, k>>, k) ELSE link[f]
      BY <2>2 DEF FinalizeComplete
    <3>4. link' = [f \in Files |-> IF f \in news THEN Observation(<<f, k>>, k) ELSE link[f]]
      BY <2>2 DEF FinalizeComplete
    <3>5. link' \in Reuses
      <4> HIDE DEF news
      <4> QED BY <1>y, <3>2, <3>4 DEF Reuses
    <3>6. \A f \in Files : link'[f] # None => Linkable(f, link'[f])
      <4> SUFFICES ASSUME NEW f \in Files, link'[f] # None PROVE Linkable(f, link'[f])
        OBVIOUS
      <4>1. CASE f \in news
        <5> DEFINE o == Observation(<<f, k>>, k)
        <5>1. o \in library /\ o.file = f /\ o.original /\ link'[f] = o
          BY <4>1, <3>1, <3>2, <3>3
        <5> QED BY <5>1 DEF Linkable
      <4>2. CASE f \notin news
        BY <1>y, <3>3, <4>2 DEF LinksGood
      <4> QED BY <4>1, <4>2
    <3>7. \A f \in ItemsOf(r) : link'[f] # None
      BY <3>2, <3>3 DEF ItemsOf
    <3> QED BY <3>3, <3>5, <3>6, <3>7
  <2> QED BY <2>1, <2>2
<1> HIDE DEF r
<1>o. OnlyRun(r)
  BY <1>y, <1>u, <1>l DEF OnlyRun
<1>s. bridgeState'[r] \in {"completed", "failed"}
  BY <1>y, <1>u, <1>r
<1>1. BridgeTypes'
  BY <1>y, <1>0, <1>u, <1>l DEF BridgeTypes, BridgeTypeOK, IntakeTypes, BridgeStates
<1>2. LinksGood'
  BY <1>y, <1>r, <1>o, <1>u, <1>l, LinksWritten
<1>3. RunningHasOwner'
  <2> SUFFICES ASSUME NEW x \in Runs, bridgeState'[x] = "running"
               PROVE  \/ \E p \in Requests : plan[p].run = x /\ pc[p] \in Owning
                      \/ bound[x] # None /\ jobPc'[bound[x]] \notin {"none", "done"}
    BY <1>u DEF RunningHasOwner, Owning
  <2>1. x # r /\ bridgeState[x] = "running"
    BY <1>s, <1>o DEF OnlyRun
  <2>2. bound[x] # k
    BY <1>r, <1>y, <2>1 DEF BridgeInv, ThreadsBound, r
  <2>3. bound[x] # None => jobPc'[bound[x]] = jobPc[bound[x]]
    BY <1>u, <1>y, <2>2
  <2> QED BY <2>1, <2>3 DEF BridgeInv, RunningHasOwner, Owning
<1>4. (NoneHeld => OneOwner)'
  <2> SUFFICES ASSUME NoneHeld PROVE OneOwner'
    BY <1>u, SettingKept
  <2>1. OneOwner
    BY DEF BridgeInv
  <2>2. \A p \in Requests : pc[p] \in Owning => plan[p].run # r /\ plan[p].run \in Runs
    BY <1>r, <1>y, <2>1, PlanIsOfRun DEF OneOwner, Owning, Planning
  <2> QED BY <1>r, <1>o, <1>u, <1>s, <2>1, <2>2, OwnerWrites
<1> QED BY <1>0, <1>1, <1>2, <1>3, <1>4 DEF BridgeInv

\* Nobody waits for this intake any more.
LEMMA FinalizeNothingKeeps ==
  ASSUME BridgeInv, NEW k \in Intakes, FinalizeNothing(k)
  PROVE  BridgeInv'
<1>y. /\ BridgeTypes /\ LinksGood /\ setting \in Settings /\ jobPc \in [Intakes -> JobPCs]
      /\ bound \in [Runs -> Intakes \cup {None}] /\ None \notin Runs
  BY RunsAssumption DEF BridgeInv, BridgeTypes, BridgeTypeOK, IntakeTypes, IntakeTypeOK
<1>0. /\ IntakeTypes' /\ RowsInUse' /\ ThreadsBound'
      /\ \A p \in Requests : RequestKnows(p)'
  BY EndKeeps DEF FinalizeNothing, Ends, bridgeVars
<1>u. /\ UNCHANGED <<library, pc, bound, plan, bridgeOf, setting, bridgeState, link>>
      /\ jobPc' = [jobPc EXCEPT ![k] = "done"]
  BY DEF FinalizeNothing, EndThread, JobGoto, bridgeVars
<1>1. BridgeTypes'
  BY <1>y, <1>0, <1>u DEF BridgeTypes, BridgeTypeOK, IntakeTypes
<1>2. LinksGood'
  BY <1>y, <1>u, LinksKept
<1>3. RunningHasOwner'
  <2>1. \A x \in Runs : bridgeState[x] = "running" => bound[x] # k
    <3> SUFFICES ASSUME NEW x \in Runs, bridgeState[x] = "running", bound[x] = k PROVE FALSE
      OBVIOUS
    <3>a. k # None
      BY IntakesAssumption DEF Intakes
    <3>b. ThreadsBound
      BY DEF BridgeInv
    <3>1. bridgeOf[k] = x
      BY <3>a, <3>b DEF ThreadsBound
    <3>2. Awaited(k)
      BY <1>y, <3>1 DEF Awaited
    <3> QED BY <3>2 DEF FinalizeNothing
  <2>2. \A x \in Runs : bridgeState[x] = "running" /\ bound[x] # None =>
          jobPc'[bound[x]] = jobPc[bound[x]]
    BY <1>u, <1>y, <2>1
  <2> QED BY <1>u, <2>2 DEF BridgeInv, RunningHasOwner
<1>4. (NoneHeld => OneOwner)'
  BY <1>u, OwnersKept, SettingKept DEF BridgeInv
<1> QED BY <1>0, <1>1, <1>2, <1>3, <1>4 DEF BridgeInv

\* A restart fails every bridge that was running: the row of its intake is final.
LEMMA RestartBridgeKeeps ==
  ASSUME BridgeInv, RestartBridge
  PROVE  BridgeInv'
<1>y. /\ BridgeTypes /\ LinksGood /\ setting \in Settings /\ bridgeState \in [Runs -> BridgeStates]
      /\ status \in [Intakes -> Statuses] /\ bound \in [Runs -> Intakes \cup {None}]
      /\ target \in [Requests -> Intakes \cup {None}] /\ IntakeTypes /\ None \notin Intakes
  BY IntakesAssumption DEF BridgeInv, BridgeTypes, BridgeTypeOK, IntakeTypes, IntakeTypeOK, Intakes
<1>t. IntakeTypes'
  BY <1>y, RestartTypes DEF RestartBridge
<1>u. /\ UNCHANGED <<dropZone, library, bound, link, bridgeOf, setting>>
      /\ status' = [k \in Intakes |-> IF Active(k) THEN "failed" ELSE status[k]]
      /\ jobPc' = [k \in Intakes |-> IF jobPc[k] = "none" THEN "none" ELSE "done"]
      /\ job' = [k \in Intakes |-> NoJob]
      /\ pc' = [q \in Requests |-> "idle"] /\ target' = [q \in Requests |-> None]
      /\ plan' = [q \in Requests |-> NoPlan]
  BY DEF RestartBridge, Restart
<1>b. bridgeState' = [r \in Runs |->
        IF bridgeState[r] = "running" /\ (bound[r] = None \/ status'[bound[r]] \in Final)
        THEN "failed" ELSE bridgeState[r]]
  BY DEF RestartBridge, ResetBridges
<1>1. BridgeTypes'
  BY <1>y, <1>t, <1>u, <1>b, NoPlanType DEF BridgeTypes, BridgeTypeOK, IntakeTypes, BridgeStates, Snapshots
<1>s. \A k \in Intakes : status'[k] = "none" <=> status[k] = "none"
  BY <1>u DEF Active
<1>2. RowsInUse'
  <2>1. {k \in Intakes : status'[k] # "none"} = {k \in Intakes : status[k] # "none"}
    BY <1>s
  <2>2. \A k \in Intakes : status'[k] = "none" => jobPc'[k] = "none" /\ \A q \in Requests : target'[q] # k
    BY <1>s, <1>u, <1>y DEF BridgeInv, RowsInUse
  <2>3. RowsInUse
    BY DEF BridgeInv
  <2> QED BY <1>s, <1>u, <2>1, <2>2, <2>3 DEF RowsInUse
<1>3. \A q \in Requests : RequestKnows(q)'
  BY <1>u, NoPlanType DEF RequestKnows, Planning
<1>4. ThreadsBound'
  <2>1. \A k \in Intakes : jobPc'[k] \in {"none", "done"} /\ job'[k].records = {}
    BY <1>u DEF NoJob
  <2> QED BY <1>u, <2>1, SettingKept DEF BridgeInv, ThreadsBound
<1>5. LinksGood'
  <2>1. \A q \in Requests, f \in Files : plan'[q].reuse[f] = None
    BY <1>u, NoPlanType
  <2>2. \A r \in Runs : bridgeState'[r] = "completed" => bridgeState[r] = "completed"
    BY <1>b
  <2>3. \A f \in Files : RunOf[f] # None => RunOf[f] \in Runs
    BY <1>y, SettingType
  <2> QED BY <1>y, <1>u, <2>1, <2>2, <2>3, SettingKept DEF LinksGood, Linkable
<1>6. RunningHasOwner'
  <2>1. ASSUME NEW r \in Runs PROVE bridgeState'[r] # "running"
    <3>1. bound[r] # None => status[bound[r]] # "none" /\ status[bound[r]] \in Statuses /\ bound[r] \in Intakes
      BY <1>y DEF BridgeInv, RowsInUse
    <3>2. bound[r] # None => status'[bound[r]] \in Final
      BY <3>1, <1>u DEF Active, Statuses, Final
    <3> QED BY <1>b, <3>2
  <2> QED BY <2>1 DEF RunningHasOwner
<1>7. (NoneHeld => OneOwner)'
  <2> SUFFICES ASSUME NoneHeld PROVE OneOwner'
    BY <1>u, SettingKept
  <2>1. OneOwner
    BY DEF BridgeInv
  <2>2. \A q \in Requests : pc'[q] \notin Owning
    BY <1>u DEF Owning
  <2>3. \A r \in Runs : bridgeState'[r] = "not_started" => bridgeState[r] = "not_started"
    BY <1>b
  <2> QED BY <1>u, <2>1, <2>2, <2>3, SettingKept DEF OneOwner
<1> QED BY <1>1, <1>2, <1>3, <1>4, <1>5, <1>6, <1>7 DEF BridgeInv

-------------------------------------------------------------------------------
(* The theorems.                                                             *)

\* Every step of the bridge.
LEMMA BridgeNextKeeps ==
  ASSUME BridgeInv, [BridgeNext]_allVars
  PROVE  BridgeInv'
<1>1. CASE UNCHANGED allVars
  BY <1>1, SettingKept DEF allVars, BridgeInv, BridgeTypes, BridgeTypeOK, IntakeTypes, IntakeTypeOK, RowsInUse, RequestKnows,
     ThreadsBound, Bound, LinksGood, Linkable, RunningHasOwner, OneOwner
<1>2. ASSUME NEW q \in Requests, BridgeStep(q) PROVE BridgeInv'
  BY <1>2, PlanBridgeKeeps, CompleteByReuseKeeps, MarkRunningKeeps, RefusePlanKeeps,
     CheckActiveKeeps, UndoKeeps, InsertExplicitKeeps, BindIntakeKeeps, BindFailsKeeps DEF BridgeStep
<1>3. ASSUME NEW k \in Intakes, FinalizeStep(k) PROVE BridgeInv'
  BY <1>3, FinalizeKeeps, FinalizeNothingKeeps DEF FinalizeStep
<1>4. CASE IntakeStep
  BY <1>4, StartThreadKeeps, StopKeeps, JobKeeps, ClearKeeps DEF IntakeStep
<1>5. CASE RestartBridge
  BY <1>5, RestartBridgeKeeps
<1> QED BY <1>1, <1>2, <1>3, <1>4, <1>5 DEF BridgeNext

\* The inductive invariant.
THEOREM BridgeInvariant == BridgeSpec => []BridgeInv
BY InitBridgeInv, BridgeNextKeeps, PTL DEF BridgeSpec

\* The intakes, the bridge columns, the snapshots and the callbacks keep their types.
THEOREM BridgeTypeCorrect == BridgeSpec => []BridgeTypeOK
<1>1. BridgeInv => BridgeTypeOK
  BY DEF BridgeInv, BridgeTypes
<1> QED BY <1>1, BridgeInvariant, PTL

\* No file is ingested twice under its runtime path, whatever rows the sessions hold.
THEOREM ObservedOnceCorrect == BridgeSpec => []ObservedOnce
<1>1. BridgeInv => ObservedOnce
  <2> SUFFICES ASSUME BridgeInv, NEW o1 \in library, NEW o2 \in library,
                      o1.original, o2.original, o1.file = o2.file
               PROVE  o1 = o2
    BY DEF ObservedOnce
  <2>1. o1.intake = o2.intake
    BY DEF BridgeInv, ThreadsBound
  <2>2. o1 \in Observations /\ o2 \in Observations
    BY DEF BridgeInv, BridgeTypes, IntakeTypes, IntakeTypeOK
  <2> QED BY <2>1, <2>2 DEF Observations
<1> QED BY <1>1, BridgeInvariant, PTL

\* A completed bridge has linked every item to a provenance row of the item itself, or of
\* a file of an earlier run with its content and path.
THEOREM CompletedIsLinkedCorrect == BridgeSpec => []CompletedIsLinked
<1>1. BridgeInv => CompletedIsLinked
  BY DEF BridgeInv, LinksGood, Linkable, CompletedIsLinked
<1> QED BY <1>1, BridgeInvariant, PTL

\* A running bridge has a request or a thread that will move it on.
THEOREM RunningHasOwnerCorrect == BridgeSpec => []RunningHasOwner
<1>1. BridgeInv => RunningHasOwner
  BY DEF BridgeInv
<1> QED BY <1>1, BridgeInvariant, PTL

\* A bridge that is undone leaves neither links nor provenance rows.
THEOREM NotStartedIsCleanCorrect == BridgeSpec => []NotStartedIsClean
<1>1. BridgeInv => NotStartedIsClean
  <2> SUFFICES ASSUME BridgeInv, NoneHeld, NEW r \in Runs, bridgeState[r] = "not_started"
               PROVE  NoPriorProvenance(r) /\ \A f \in ItemsOf(r) : link[f] = None
    BY DEF NotStartedIsClean
  <2>1. bound[r] = None /\ \A f \in ItemsOf(r) : link[f] = None
    BY DEF BridgeInv, OneOwner
  <2>2. \A o \in library : o.intake # None
    BY IntakesAssumption DEF BridgeInv, BridgeTypes, IntakeTypes, IntakeTypeOK, Observations, Intakes
  <2>3. NoPriorProvenance(r)
    BY <2>1, <2>2 DEF BridgeInv, ThreadsBound, NoPriorProvenance, ItemsOf
  <2> QED BY <2>1, <2>3
<1> QED BY <1>1, BridgeInvariant, PTL

\* What a step does to the bridges that have ended.
EndsKept ==
  \A r \in Runs : bridgeState[r] \in {"completed", "failed"} =>
    bridgeState'[r] = bridgeState[r] /\ \A f \in ItemsOf(r) : link'[f] = link[f]

\* A step that writes one run writes none that has ended, if that one has not.
LEMMA OthersKept ==
  ASSUME NEW r \in Runs, bridgeState[r] \in {"not_started", "running"},
         \A x \in Runs \ {r} : bridgeState'[x] = bridgeState[x],
         \A f \in Files : RunOf[f] # r => link'[f] = link[f]
  PROVE  EndsKept
BY DEF EndsKept, ItemsOf

\* Only a request that owns a running bridge, the callback of its intake, the restart or
\* the plan of one that has not started writes a bridge.
LEMMA StepKeepsEnds ==
  ASSUME BridgeInv, NoneHeld, BridgeNext
  PROVE  EndsKept
<1>o. OneOwner
  BY DEF BridgeInv
<1>y. bridgeState \in [Runs -> BridgeStates]
  BY DEF BridgeInv, BridgeTypes, BridgeTypeOK
<1>1. ASSUME bridgeState' = bridgeState, link' = link PROVE EndsKept
  BY <1>1 DEF EndsKept
<1>2. ASSUME NEW q \in Requests, BridgeStep(q) PROVE EndsKept
  <2> DEFINE r == plan[q].run
  <2>1. CASE \/ \E x \in Runs : PlanBridge(q, x)
             \/ RefusePlan(q) \/ CheckActive(q) \/ BindIntake(q) \/ BindFails(q)
             \/ \E k \in Intakes : InsertExplicit(q, k)
    BY <1>1, <2>1 DEF PlanBridge, RefusePlan, CheckActive, BindIntake, BindFails, InsertExplicit,
       bridgeRows, bridgeVars
  <2>2. CASE CompleteByReuse(q) \/ MarkRunning(q)
    <3>1. r \in Runs
      BY <2>2, PlanIsOfRun DEF CompleteByReuse, MarkRunning, Planning
    <3>2. bridgeState[r] = "not_started"
      BY <2>2 DEF CompleteByReuse, MarkRunning, SnapshotCurrent, NoneHeld
    <3>3. \A x \in Runs \ {r} : bridgeState'[x] = bridgeState[x]
      BY <2>2, <1>y DEF CompleteByReuse, MarkRunning
    <3>4. \A f \in Files : RunOf[f] # r => link'[f] = link[f]
      BY <2>2, ReusedAreLinked DEF CompleteByReuse, MarkRunning
    <3> QED BY <3>1, <3>2, <3>3, <3>4, OthersKept
  <2>3. CASE UndoMark(q) \/ FailLaunch(q)
    <3>1. r \in Runs
      BY <2>3, PlanIsOfRun DEF UndoMark, FailLaunch, Planning
    <3>2. bridgeState[r] = "running"
      BY <1>o, <2>3 DEF UndoMark, FailLaunch, OneOwner, Owning
    <3>3. \A x \in Runs \ {r} : bridgeState'[x] = bridgeState[x]
      BY <2>3, <1>y DEF UndoMark, FailLaunch
    <3>4. \A f \in Files : RunOf[f] # r => link'[f] = link[f]
      BY <2>3 DEF UndoMark, FailLaunch, UnlinkReused, Reused, ItemsOf
    <3> QED BY <3>1, <3>2, <3>3, <3>4, OthersKept
  <2> QED BY <1>2, <2>1, <2>2, <2>3 DEF BridgeStep
<1>3. ASSUME NEW k \in Intakes, FinalizeStep(k) PROVE EndsKept
  <2> DEFINE r == bridgeOf[k]
  <2>1. CASE FinalizeNothing(k)
    BY <1>1, <2>1 DEF FinalizeNothing, bridgeVars
  <2>2. CASE FinalizeComplete(k) \/ FinalizeFailed(k)
    <3>1. r \in Runs /\ bridgeState[r] = "running"
      BY <2>2 DEF FinalizeComplete, FinalizeFailed, Awaited, BridgeInv, BridgeTypes, BridgeTypeOK
    <3>2. \A x \in Runs \ {r} : bridgeState'[x] = bridgeState[x]
      BY <2>2, <1>y DEF FinalizeComplete, FinalizeFailed
    <3>3. \A f \in Files : RunOf[f] # r => link'[f] = link[f]
      BY <2>2 DEF FinalizeComplete, FinalizeFailed
    <3> QED BY <3>1, <3>2, <3>3, OthersKept
  <2> QED BY <1>3, <2>1, <2>2 DEF FinalizeStep
<1>4. CASE IntakeStep
  BY <1>1, <1>4 DEF IntakeStep, bridgeVars
<1>5. CASE RestartBridge
  BY <1>5 DEF RestartBridge, ResetBridges, EndsKept
<1> QED BY <1>2, <1>3, <1>4, <1>5 DEF BridgeNext

\* A bridge that has completed or failed keeps its state and its links, whatever the
\* requests, the callbacks and a restart do.
THEOREM BridgeEndIsFinalCorrect == BridgeSpec => BridgeEndIsFinal
<1>1. ASSUME BridgeInv, [BridgeNext]_allVars
      PROVE  [NoneHeld => EndsKept]_allVars
  BY <1>1, StepKeepsEnds
<1> QED BY <1>1, BridgeInvariant, PTL DEF BridgeSpec, BridgeEndIsFinal, EndsKept

===============================================================================
