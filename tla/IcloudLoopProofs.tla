--------------------------- MODULE IcloudLoopProofs ---------------------------
(***************************************************************************)
(* The safety of the internal iCloud loop, for every number of files, of   *)
(* batches and of cleanups: its steps keep the invariant of the cleanup,   *)
(* and a batch is completed only when every file of it was taken in and a  *)
(* dry run after its review has seen the folder empty.                     *)
(*                                                                         *)
(* The inductive invariant of the loop has three parts.  LoopTypes are the *)
(* types.  BatchTaken follows the evidence of the intake through the       *)
(* review, the refusals and the recovery: wherever the worker may be       *)
(* continued from, the files of the batch have their provenance.           *)
(* FinalSeen orders the dry runs: the one that a batch is completed by     *)
(* comes after the one that was reviewed, and its plan is never written    *)
(* again.                                                                  *)
(*                                                                         *)
(* The staging cleanup, whose runs the loop starts, comes first.           *)
(***************************************************************************)
EXTENDS IcloudLoop, FiniteSetTheorems, TLAPS

-------------------------------------------------------------------------------
(***************************************************************************)
(* The safety of the staging cleanup, for every number of files, callers   *)
(* and runs.                                                               *)
(*                                                                         *)
(* The inductive invariant has four parts.  RowOK says what a row and its  *)
(* thread may look like together, whatever the others are: it is what a    *)
(* step of a thread has to establish.  Linked ties an execution to the dry *)
(* run it consumed; Pending is what the lock gives to a start that was     *)
(* checked and not yet committed; Kept is what the last look at a file     *)
(* leaves true until the file is removed.                                  *)
(***************************************************************************)

Planned(thread)  == thread.pc \notin {"start", "plan"}
Removing(thread) == thread.pc \in {"check", "unlink"}

\* An execution that says it is completed, or will say so, has removed what it planned.
WholeOK(row, thread) ==
  /\ Removing(thread) /\ ~thread.issues =>
       row.deleted \cup thread.left \cup thread.file = Eligible(row.manifest)
  /\ thread.pc = "finish" /\ thread.outcome = "completed" => row.deleted = Eligible(row.manifest)
  /\ row.report = "completed" => row.deleted = Eligible(row.manifest)
  /\ row.status = "completed" => row.deleted = Eligible(row.manifest)

RowOK(row, thread) ==
  /\ row \in Row /\ thread \in Thread
  /\ row.deleted \cup thread.left \cup thread.file \subseteq Eligible(row.manifest)
  /\ \A f, g \in thread.file : f = g
  /\ thread.pc # "unlink" => thread.file = {}
  /\ ~Planned(thread) => /\ row.report = "none" /\ row.status \in Active
                         /\ row.deleted = {} /\ thread.left = {}
  /\ Removing(thread) => ~row.dry /\ row.report = "running"
  /\ row.dry => row.deleted = {}
  /\ ~row.dry => WholeOK(row, thread)

RowsOK ==
  /\ rows \in Seq(Row) /\ threads \in Seq(Thread) /\ Len(threads) = Len(rows)
  /\ \A r \in DOMAIN rows : RowOK(rows[r], threads[r])

\* An execution that removes, or has removed, follows the plan of its dry run.
Follows(row, thread) ==
  ~row.dry /\ (Removing(thread) \/ row.deleted # {}) => row.manifest = rows[row.auth].manifest

Linked ==
  /\ \A r \in DOMAIN rows :
       /\ rows[r].dry <=> rows[r].auth = 0
       /\ rows[r].auth < r
       /\ ~rows[r].dry => rows[rows[r].auth].consumed /\ Planned(threads[rows[r].auth])
       /\ Follows(rows[r], threads[r])
  /\ AuthorizedOnce

Pending ==
  /\ starts \in [Callers -> SUBSET Starts]
  /\ \A c, d \in Callers : starts[c] # {} /\ starts[d] # {} => c = d
  /\ \A c \in Callers : \A s, t \in starts[c] : s = t
  /\ \A c \in Callers : \A s \in starts[c] :
       ~s.dry => ~rows[s.auth].consumed /\ Planned(threads[s.auth])

KeptBy(thread) == thread.pc = "unlink" /\ ~thread.raced =>
  \A f \in thread.file : staged[f] = NoContent \/ staged[f] \in vault

Kept == (\A r \in DOMAIN rows : KeptBy(threads[r])) /\ lost = {}

OutsideOK ==
  /\ staged \in [Files -> Contents \cup {NoContent}]
  /\ vault \subseteq Contents /\ prov \in [Files -> SUBSET Contents]
  /\ evidence \subseteq Files /\ intake \in {"no", "clear", "active"}
  /\ changes \in 0..MaxChanges /\ faults \in 0..MaxFaults

TableInv == RowsOK /\ Linked /\ Pending
IInv == OutsideOK /\ TableInv /\ Kept

-------------------------------------------------------------------------------
(* What the invariant says of one row.                                       *)

\* The invariant is stronger than each of the properties.
LEMMA Implied == IInv =>
  CleanupTypeOK /\ NothingLost /\ AuthorizedOnce /\ RemovesWhatWasShown /\ CompletedRemovedAll
<1> SUFFICES ASSUME IInv
             PROVE CleanupTypeOK /\ NothingLost /\ AuthorizedOnce
                   /\ RemovesWhatWasShown /\ CompletedRemovedAll
  OBVIOUS
<1>1. CleanupTypeOK
  BY DEF IInv, OutsideOK, TableInv, RowsOK, RowOK, Linked, Pending, Kept, CleanupTypeOK
<1>2. NothingLost /\ AuthorizedOnce
  BY DEF IInv, Kept, NothingLost, TableInv, Linked
<1>3. RemovesWhatWasShown
  <2> SUFFICES ASSUME NEW r \in DOMAIN rows, rows[r].deleted # {}
               PROVE ~rows[r].dry /\ \A f \in rows[r].deleted :
                 rows[rows[r].auth].manifest[f]
                   = [reason |-> "eligible", content |-> rows[r].manifest[f].content]
    BY DEF RemovesWhatWasShown
  <2>1. RowOK(rows[r], threads[r]) /\ Follows(rows[r], threads[r])
    BY DEF IInv, TableInv, RowsOK, Linked
  <2>2. ~rows[r].dry /\ rows[r].manifest = rows[rows[r].auth].manifest
    BY <2>1 DEF RowOK, Follows
  <2>3. rows[r].manifest \in Manifests /\ rows[r].deleted \subseteq Eligible(rows[r].manifest)
    BY <2>1 DEF RowOK, Row
  <2>4. ASSUME NEW f \in rows[r].deleted
        PROVE rows[r].manifest[f]
                = [reason |-> "eligible", content |-> rows[r].manifest[f].content]
    <3>1. f \in Files /\ rows[r].manifest[f].reason = "eligible"
      BY <2>3 DEF Eligible
    <3>2. rows[r].manifest[f] \in
            [reason : {"absent", "protected", "verification_failed", "eligible"},
             content : Contents \cup {NoContent}]
      BY <2>3, <3>1 DEF Manifests
    <3> QED BY <3>1, <3>2
  <2> QED BY <2>2, <2>4
<1>4. CompletedRemovedAll
  BY DEF IInv, TableInv, RowsOK, RowOK, WholeOK, CompletedRemovedAll
<1> QED BY <1>1, <1>2, <1>3, <1>4

\* The plan has its type.
LEMMA PlanType ==
  ASSUME OutsideOK
  PROVE  Manifest \in Manifests /\ Eligible(Manifest) \subseteq Files
<1>1. ASSUME NEW f \in Files
      PROVE Reason(f) \in {"absent", "protected", "verification_failed", "eligible"}
  BY DEF Reason
<1>2. ASSUME NEW f \in Files
      PROVE (IF Reason(f) = "eligible" THEN staged[f] ELSE NoContent) \in Contents \cup {NoContent}
  BY DEF OutsideOK
<1>3. Manifest \in Manifests
  BY <1>1, <1>2 DEF Manifest, Manifests
<1> QED BY <1>3 DEF Eligible

\* So has the manifest of a row that has none yet.
LEMMA UnplannedType == Unplanned \in Manifests
  BY DEF Unplanned, Absent, Manifests

-------------------------------------------------------------------------------
(* A step of one row and its thread.                                         *)

Local(r, row, thread) ==
  /\ rows' = [rows EXCEPT ![r] = row]
  /\ threads' = [threads EXCEPT ![r] = thread]
  /\ starts' = starts
  /\ row.auth = rows[r].auth /\ (row.dry <=> rows[r].dry) /\ (row.consumed <=> rows[r].consumed)
  /\ Planned(threads[r]) => Planned(thread) /\ row.manifest = rows[r].manifest

\* It keeps what ties the rows together, when the row itself is right.
LEMMA LocalStep ==
  ASSUME TableInv, NEW r \in DOMAIN rows, NEW row, NEW thread,
         Local(r, row, thread), RowOK(row, thread), Follows(row, thread)
  PROVE  TableInv'
<1>1. /\ rows \in Seq(Row) /\ threads \in Seq(Thread) /\ Len(threads) = Len(rows)
      /\ DOMAIN rows = 1..Len(rows) /\ DOMAIN threads = 1..Len(rows)
      /\ \A s \in DOMAIN rows : rows[s].auth \in Nat
  <2>1. rows \in Seq(Row) /\ threads \in Seq(Thread) /\ Len(threads) = Len(rows)
    BY DEF TableInv, RowsOK
  <2>2. DOMAIN rows = 1..Len(rows) /\ DOMAIN threads = 1..Len(rows)
    BY <2>1
  <2>3. ASSUME NEW s \in DOMAIN rows PROVE rows[s].auth \in Nat
    <3>1. rows[s] \in Row
      BY <2>1
    <3> QED BY <3>1 DEF Row
  <2> QED BY <2>1, <2>2, <2>3
<1>2. rows' \in Seq(Row) /\ threads' \in Seq(Thread) /\ Len(threads') = Len(rows')
      /\ Len(rows') = Len(rows) /\ DOMAIN rows' = DOMAIN rows /\ DOMAIN threads' = DOMAIN rows
  BY <1>1 DEF Local, RowOK
<1>3. /\ rows'[r] = row /\ threads'[r] = thread
      /\ \A s \in DOMAIN rows : s # r => rows'[s] = rows[s] /\ threads'[s] = threads[s]
  BY <1>1 DEF Local
<1>4. \A s \in DOMAIN rows :
        /\ rows'[s].auth = rows[s].auth /\ (rows'[s].dry <=> rows[s].dry)
        /\ rows'[s].consumed <=> rows[s].consumed
        /\ Planned(threads[s]) => Planned(threads'[s]) /\ rows'[s].manifest = rows[s].manifest
  BY <1>3 DEF Local
<1>5. RowsOK'
  BY <1>2, <1>3 DEF TableInv, RowsOK, RowOK, WholeOK, Planned, Removing, Eligible
<1>6. Linked'
  <2>1. ASSUME NEW s \in DOMAIN rows
        PROVE /\ rows'[s].dry <=> rows'[s].auth = 0
              /\ rows'[s].auth < s
              /\ ~rows'[s].dry => rows[rows[s].auth].consumed /\ Planned(threads[rows[s].auth])
    BY <1>4 DEF TableInv, Linked
  <2>2. ASSUME NEW s \in DOMAIN rows, ~rows[s].dry
        PROVE rows[s].auth \in DOMAIN rows
    BY <1>1, <2>2 DEF TableInv, Linked
  <2>3. ASSUME NEW s \in DOMAIN rows, ~rows'[s].dry
        PROVE /\ rows'[rows'[s].auth].consumed /\ Planned(threads'[rows'[s].auth])
              /\ rows'[rows'[s].auth].manifest = rows[rows[s].auth].manifest
    BY <1>4, <2>1, <2>2, <2>3
  <2>4. ASSUME NEW s \in DOMAIN rows, ~rows'[s].dry,
               Removing(threads'[s]) \/ rows'[s].deleted # {}
        PROVE rows'[s].manifest = rows'[rows'[s].auth].manifest
    <3>1. CASE s = r
      <4>1. row.manifest = rows[row.auth].manifest
        BY <1>3, <2>4, <3>1 DEF Follows
      <4> QED BY <1>3, <2>3, <2>4, <3>1, <4>1 DEF Local
    <3>2. CASE s # r
      <4>1. rows[s].manifest = rows[rows[s].auth].manifest
        BY <1>3, <2>4, <3>2 DEF TableInv, Linked, Follows
      <4> QED BY <1>3, <2>3, <2>4, <3>2, <4>1
    <3> QED BY <3>1, <3>2
  <2>5. AuthorizedOnce'
    BY <1>2, <1>4 DEF TableInv, Linked, AuthorizedOnce
  <2> QED BY <1>2, <2>1, <2>3, <2>4, <2>5 DEF Linked, Follows
<1>7. Pending'
  <2>1. starts' \in [Callers -> SUBSET Starts'] /\ Starts' = Starts /\ starts' = starts
    BY <1>2 DEF TableInv, Pending, Starts, Local
  <2>2. ASSUME NEW c \in Callers, NEW s \in starts[c], ~s.dry
        PROVE ~rows'[s.auth].consumed /\ Planned(threads'[s.auth])
    <3>1. s \in Starts
      BY <2>1, <2>2
    <3>2. s.auth \in DOMAIN rows
      BY <1>1, <2>2, <3>1 DEF Starts
    <3>3. ~rows[s.auth].consumed /\ Planned(threads[s.auth])
      BY <2>2 DEF TableInv, Pending
    <3> QED BY <1>4, <3>2, <3>3
  <2> QED BY <2>1, <2>2 DEF TableInv, Pending
<1> QED BY <1>5, <1>6, <1>7 DEF TableInv

\* A step that touches no file keeps what was seen, unless it is a look itself.
LEMMA LocalKept ==
  ASSUME TableInv, Kept, NEW r \in DOMAIN rows, NEW row, NEW thread,
         Local(r, row, thread), KeptBy(thread), UNCHANGED <<staged, vault, lost>>
  PROVE  Kept'
<1>1. /\ DOMAIN rows' = DOMAIN rows /\ DOMAIN threads = DOMAIN rows
      /\ \A s \in DOMAIN rows : threads'[s] = IF s = r THEN thread ELSE threads[s]
  BY DEF TableInv, RowsOK, Local
<1>2. ASSUME NEW s \in DOMAIN rows PROVE KeptBy(threads'[s])
  BY <1>1 DEF Kept
<1> QED BY <1>1, <1>2 DEF Kept, KeptBy

\* A local step of a thread that keeps the four parts for its own row keeps the invariant.
LEMMA LocalInv ==
  ASSUME IInv, NEW r \in DOMAIN rows, NEW row, NEW thread, Local(r, row, thread),
         RowOK(row, thread), Follows(row, thread), KeptBy(thread),
         UNCHANGED <<outside, lost>>, faults' \in 0..MaxFaults
  PROVE  IInv'
<1>1. TableInv'
  BY LocalStep DEF IInv
<1>2. Kept'
  BY LocalKept DEF IInv, outside
<1>3. OutsideOK'
  BY DEF IInv, OutsideOK, outside
<1> QED BY <1>1, <1>2, <1>3 DEF IInv

\* What the invariant says of one row.
LEMMA OneRow ==
  ASSUME IInv, NEW r \in DOMAIN rows
  PROVE  /\ RowOK(rows[r], threads[r]) /\ Follows(rows[r], threads[r]) /\ KeptBy(threads[r])
         /\ r \in DOMAIN threads
         /\ rows = [rows EXCEPT ![r] = rows[r]] /\ threads = [threads EXCEPT ![r] = threads[r]]
<1>1. rows \in Seq(Row) /\ threads \in Seq(Thread) /\ Len(threads) = Len(rows)
  BY DEF IInv, TableInv, RowsOK
<1>2. RowOK(rows[r], threads[r]) /\ Follows(rows[r], threads[r]) /\ KeptBy(threads[r])
  BY DEF IInv, TableInv, RowsOK, Linked, Kept
<1> QED BY <1>1, <1>2


-------------------------------------------------------------------------------
(* The steps of a thread and the repairs: each is local, and its row stays   *)
(* right.                                                                    *)

\* The thread begins.
LEMMA RunStep ==
  ASSUME IInv, NEW r \in DOMAIN rows, Run(r)
  PROVE  IInv'
<1> DEFINE row == [rows[r] EXCEPT !.status = "running"]
           thread == [threads[r] EXCEPT !.pc = "plan",
                         !.fresh = ~rows[r].dry /\ rows[rows[r].auth].fresh]
<1>1. RowOK(rows[r], threads[r]) /\ Follows(rows[r], threads[r]) /\ KeptBy(threads[r])
      /\ r \in DOMAIN threads
  BY OneRow
<1>3. Local(r, row, thread)
  <2>1. rows' = [rows EXCEPT ![r] = row] /\ threads' = [threads EXCEPT ![r] = thread]
    BY OneRow DEF Run
  <2> QED BY <1>1, <2>1 DEF Run, Local, Planned, At, RowOK, Row, Thread
<1>4. RowOK(row, thread)
  BY <1>1 DEF Run, RowOK, WholeOK, Planned, Removing, At, Row, Thread, Active, Done
<1>5. Follows(row, thread) /\ KeptBy(thread)
  BY <1>1 DEF Run, Follows, KeptBy, RowOK, Removing, Planned, At
<1>6. UNCHANGED <<outside, lost>> /\ faults' \in 0..MaxFaults
  BY BoundsAssumption DEF Run, outside, IInv, OutsideOK
<1> QED BY <1>3, <1>4, <1>5, <1>6, LocalInv

\* A dry run plans and reports.
LEMMA PlanDryRunStep ==
  ASSUME IInv, NEW r \in DOMAIN rows, PlanDryRun(r)
  PROVE  IInv'
<1> DEFINE row == [rows[r] EXCEPT !.manifest = Manifest, !.report = "completed"]
           thread == [threads[r] EXCEPT !.pc = "finish", !.outcome = "completed"]
<1>1. RowOK(rows[r], threads[r]) /\ Follows(rows[r], threads[r]) /\ KeptBy(threads[r])
      /\ r \in DOMAIN threads
  BY OneRow
<1>2. Manifest \in Manifests
  BY PlanType DEF IInv
<1>3. Local(r, row, thread)
  <2>1. rows' = [rows EXCEPT ![r] = row] /\ threads' = [threads EXCEPT ![r] = thread]
    BY OneRow DEF PlanDryRun
  <2> QED BY <1>1, <2>1, <1>2 DEF PlanDryRun, Local, Planned, At, RowOK, Row, Thread
<1>4. RowOK(row, thread)
  BY <1>1, <1>2 DEF PlanDryRun, RowOK, WholeOK, Planned, Removing, At, Row, Thread, Active, Done
<1>5. Follows(row, thread) /\ KeptBy(thread)
  BY <1>1, <1>2 DEF PlanDryRun, Follows, KeptBy, RowOK, Removing, Planned, At
<1>6. UNCHANGED <<outside, lost>> /\ faults' \in 0..MaxFaults
  BY BoundsAssumption DEF PlanDryRun, outside, IInv, OutsideOK
<1> QED BY <1>3, <1>4, <1>5, <1>6, LocalInv

\* An execution whose plan is the approved one follows its dry run.
LEMMA PlanExecutionStep ==
  ASSUME IInv, NEW r \in DOMAIN rows, PlanExecution(r)
  PROVE  IInv'
<1> DEFINE row == [rows[r] EXCEPT !.manifest = Manifest, !.report = "running"]
           thread == [threads[r] EXCEPT !.pc = "check", !.left = Eligible(Manifest)]
<1>1. RowOK(rows[r], threads[r]) /\ Follows(rows[r], threads[r]) /\ KeptBy(threads[r])
      /\ r \in DOMAIN threads
  BY OneRow
<1>2. Manifest \in Manifests /\ Eligible(Manifest) \subseteq Files
  BY PlanType DEF IInv
<1>3. Local(r, row, thread)
  <2>1. rows' = [rows EXCEPT ![r] = row] /\ threads' = [threads EXCEPT ![r] = thread]
    BY OneRow DEF PlanExecution
  <2> QED BY <1>1, <2>1, <1>2 DEF PlanExecution, Local, Planned, At, RowOK, Row, Thread
<1>4. RowOK(row, thread)
  BY <1>1, <1>2 DEF PlanExecution, RowOK, WholeOK, Planned, Removing, At, Row, Thread, Active, Done
<1>5. Follows(row, thread) /\ KeptBy(thread)
  BY <1>1, <1>2 DEF PlanExecution, Follows, KeptBy, RowOK, Removing, Planned, At, Approved
<1>6. UNCHANGED <<outside, lost>> /\ faults' \in 0..MaxFaults
  BY BoundsAssumption DEF PlanExecution, outside, IInv, OutsideOK
<1> QED BY <1>3, <1>4, <1>5, <1>6, LocalInv

\* An execution whose plan is another one ends.
LEMMA PlanRefusedStep ==
  ASSUME IInv, NEW r \in DOMAIN rows, PlanRefused(r)
  PROVE  IInv'
<1> DEFINE row == [rows[r] EXCEPT !.manifest = Manifest, !.report = "failed"]
           thread == [threads[r] EXCEPT !.pc = "finish", !.outcome = "failed"]
<1>1. RowOK(rows[r], threads[r]) /\ Follows(rows[r], threads[r]) /\ KeptBy(threads[r])
      /\ r \in DOMAIN threads
  BY OneRow
<1>2. Manifest \in Manifests
  BY PlanType DEF IInv
<1>3. Local(r, row, thread)
  <2>1. rows' = [rows EXCEPT ![r] = row] /\ threads' = [threads EXCEPT ![r] = thread]
    BY OneRow DEF PlanRefused
  <2> QED BY <1>1, <2>1, <1>2 DEF PlanRefused, Local, Planned, At, RowOK, Row, Thread
<1>4. RowOK(row, thread)
  BY <1>1, <1>2 DEF PlanRefused, RowOK, WholeOK, Planned, Removing, At, Row, Thread, Active, Done
<1>5. Follows(row, thread) /\ KeptBy(thread)
  BY <1>1, <1>2 DEF PlanRefused, Follows, KeptBy, RowOK, Removing, Planned, At
<1>6. UNCHANGED <<outside, lost>> /\ faults' \in 0..MaxFaults
  BY BoundsAssumption DEF PlanRefused, outside, IInv, OutsideOK
<1> QED BY <1>3, <1>4, <1>5, <1>6, LocalInv

\* A file that could not be removed is an issue.
LEMMA UnlinkFailsStep ==
  ASSUME IInv, NEW r \in DOMAIN rows, UnlinkFails(r)
  PROVE  IInv'
<1> DEFINE row == rows[r]
           thread == [threads[r] EXCEPT !.pc = "check", !.file = {}, !.issues = TRUE]
<1>1. RowOK(rows[r], threads[r]) /\ Follows(rows[r], threads[r]) /\ KeptBy(threads[r])
      /\ r \in DOMAIN threads
  BY OneRow
<1>3. Local(r, row, thread)
  <2>1. rows' = [rows EXCEPT ![r] = row] /\ threads' = [threads EXCEPT ![r] = thread]
    BY OneRow DEF UnlinkFails
  <2> QED BY <1>1, <2>1 DEF UnlinkFails, Local, Planned, At, RowOK, Row, Thread
<1>4. RowOK(row, thread)
  BY <1>1 DEF UnlinkFails, RowOK, WholeOK, Planned, Removing, At, Row, Thread, Active, Done
<1>5. Follows(row, thread) /\ KeptBy(thread)
  BY <1>1 DEF UnlinkFails, Follows, KeptBy, RowOK, Removing, Planned, At
<1>6. UNCHANGED <<outside, lost>> /\ faults' \in 0..MaxFaults
  BY BoundsAssumption DEF UnlinkFails, outside, IInv, OutsideOK
<1> QED BY <1>3, <1>4, <1>5, <1>6, LocalInv

\* An execution that has dealt with every file reports.
LEMMA FinalReportStep ==
  ASSUME IInv, NEW r \in DOMAIN rows, FinalReport(r)
  PROVE  IInv'
<1> DEFINE row == [rows[r] EXCEPT !.report = Outcome(r)]
           thread == [threads[r] EXCEPT !.pc = "finish", !.outcome = Outcome(r)]
<1>1. RowOK(rows[r], threads[r]) /\ Follows(rows[r], threads[r]) /\ KeptBy(threads[r])
      /\ r \in DOMAIN threads
  BY OneRow
<1>2. /\ Outcome(r) \in {"completed", "completed_with_errors"}
      /\ Outcome(r) = "completed" => ~threads[r].issues
  BY DEF Outcome
<1>3. Local(r, row, thread)
  <2>1. rows' = [rows EXCEPT ![r] = row] /\ threads' = [threads EXCEPT ![r] = thread]
    BY OneRow DEF FinalReport
  <2> QED BY <1>1, <2>1, <1>2 DEF FinalReport, Local, Planned, At, RowOK, Row, Thread
<1>4. RowOK(row, thread)
  BY <1>1, <1>2 DEF FinalReport, RowOK, WholeOK, Planned, Removing, At, Row, Thread, Active, Done
<1>5. Follows(row, thread) /\ KeptBy(thread)
  BY <1>1, <1>2 DEF FinalReport, Follows, KeptBy, RowOK, Removing, Planned, At
<1>6. UNCHANGED <<outside, lost>> /\ faults' \in 0..MaxFaults
  BY BoundsAssumption DEF FinalReport, outside, IInv, OutsideOK
<1> QED BY <1>3, <1>4, <1>5, <1>6, LocalInv

\* The report could not be written.
LEMMA FinalReportFailsStep ==
  ASSUME IInv, NEW r \in DOMAIN rows, FinalReportFails(r)
  PROVE  IInv'
<1> DEFINE row == rows[r]
           thread == [threads[r] EXCEPT !.pc = "finish", !.outcome = "completed_with_errors"]
<1>1. RowOK(rows[r], threads[r]) /\ Follows(rows[r], threads[r]) /\ KeptBy(threads[r])
      /\ r \in DOMAIN threads
  BY OneRow
<1>3. Local(r, row, thread)
  <2>1. rows' = [rows EXCEPT ![r] = row] /\ threads' = [threads EXCEPT ![r] = thread]
    BY OneRow DEF FinalReportFails
  <2> QED BY <1>1, <2>1 DEF FinalReportFails, Local, Planned, At, RowOK, Row, Thread
<1>4. RowOK(row, thread)
  BY <1>1 DEF FinalReportFails, RowOK, WholeOK, Planned, Removing, At, Row, Thread, Active, Done
<1>5. Follows(row, thread) /\ KeptBy(thread)
  BY <1>1 DEF FinalReportFails, Follows, KeptBy, RowOK, Removing, Planned, At
<1>6. UNCHANGED <<outside, lost>> /\ faults' \in 0..MaxFaults
  BY BoundsAssumption DEF FinalReportFails, outside, IInv, OutsideOK
<1> QED BY <1>3, <1>4, <1>5, <1>6, LocalInv

\* The row says what the thread came to.
LEMMA FinishStep ==
  ASSUME IInv, NEW r \in DOMAIN rows, Finish(r)
  PROVE  IInv'
<1> DEFINE row == [rows[r] EXCEPT !.status = threads[r].outcome,
                      !.fresh = rows[r].dry /\ threads[r].outcome = "completed"]
           thread == Gone
<1>1. RowOK(rows[r], threads[r]) /\ Follows(rows[r], threads[r]) /\ KeptBy(threads[r])
      /\ r \in DOMAIN threads
  BY OneRow
<1>3. Local(r, row, thread)
  <2>1. rows' = [rows EXCEPT ![r] = row] /\ threads' = [threads EXCEPT ![r] = thread]
    BY OneRow DEF Finish, Gone
  <2> QED BY <1>1, <2>1 DEF Finish, Local, Planned, At, RowOK, Row, Thread, Gone
<1>4. RowOK(row, thread)
  BY <1>1 DEF Finish, RowOK, WholeOK, Planned, Removing, At, Row, Thread, Active, Done, Gone
<1>5. Follows(row, thread) /\ KeptBy(thread)
  BY <1>1 DEF Finish, Follows, KeptBy, RowOK, Removing, Planned, At, Gone
<1>6. UNCHANGED <<outside, lost>> /\ faults' \in 0..MaxFaults
  BY BoundsAssumption DEF Finish, outside, IInv, OutsideOK
<1> QED BY <1>3, <1>4, <1>5, <1>6, LocalInv

\* An exception ends the thread.
LEMMA FailsStep ==
  ASSUME IInv, NEW r \in DOMAIN rows, Fails(r)
  PROVE  IInv'
<1> DEFINE row == [rows[r] EXCEPT !.status =
                     IF rows[r].deleted # {} THEN "completed_with_errors" ELSE "failed"]
           thread == Gone
<1>1. RowOK(rows[r], threads[r]) /\ Follows(rows[r], threads[r]) /\ KeptBy(threads[r])
      /\ r \in DOMAIN threads
  BY OneRow
<1>3. Local(r, row, thread)
  <2>1. rows' = [rows EXCEPT ![r] = row] /\ threads' = [threads EXCEPT ![r] = thread]
    BY OneRow DEF Fails, Gone
  <2> QED BY <1>1, <2>1 DEF Fails, Local, Planned, At, RowOK, Row, Thread, Gone
<1>4. RowOK(row, thread)
  BY <1>1 DEF Fails, RowOK, WholeOK, Planned, Removing, At, Row, Thread, Active, Done, Gone
<1>5. Follows(row, thread) /\ KeptBy(thread)
  BY <1>1 DEF Fails, Follows, KeptBy, RowOK, Removing, Planned, At, Gone
<1>6. UNCHANGED <<outside, lost>> /\ faults' \in 0..MaxFaults
  BY BoundsAssumption DEF Fails, outside, IInv, OutsideOK
<1> QED BY <1>3, <1>4, <1>5, <1>6, LocalInv

\* The thread ends without a trace.
LEMMA DiesStep ==
  ASSUME IInv, NEW r \in DOMAIN rows, Dies(r)
  PROVE  IInv'
<1> DEFINE row == rows[r]
           thread == Gone
<1>1. RowOK(rows[r], threads[r]) /\ Follows(rows[r], threads[r]) /\ KeptBy(threads[r])
      /\ r \in DOMAIN threads
  BY OneRow
<1>3. Local(r, row, thread)
  <2>1. rows' = [rows EXCEPT ![r] = row] /\ threads' = [threads EXCEPT ![r] = thread]
    BY OneRow DEF Dies, Gone
  <2> QED BY <1>1, <2>1 DEF Dies, Local, Planned, At, RowOK, Row, Thread, Gone
<1>4. RowOK(row, thread)
  BY <1>1 DEF Dies, RowOK, WholeOK, Planned, Removing, At, Row, Thread, Active, Done, Gone
<1>5. Follows(row, thread) /\ KeptBy(thread)
  BY <1>1 DEF Dies, Follows, KeptBy, RowOK, Removing, Planned, At, Gone
<1>6. UNCHANGED <<outside, lost>> /\ faults' \in 0..MaxFaults
  BY BoundsAssumption DEF Dies, outside, IInv, OutsideOK
<1> QED BY <1>3, <1>4, <1>5, <1>6, LocalInv

\* A row is repaired from its report.
LEMMA ReconcileStep ==
  ASSUME IInv, NEW r \in DOMAIN rows, Reconcile(r)
  PROVE  IInv'
<1> DEFINE row == Repaired(rows[r])
           thread == threads[r]
<1>1. RowOK(rows[r], threads[r]) /\ Follows(rows[r], threads[r]) /\ KeptBy(threads[r])
      /\ r \in DOMAIN threads
  BY OneRow
<1>3. Local(r, row, thread)
  <2>1. rows' = [rows EXCEPT ![r] = row] /\ threads' = [threads EXCEPT ![r] = thread]
    BY OneRow DEF Reconcile, Repaired
  <2> QED BY <1>1, <2>1 DEF Reconcile, Local, Planned, At, RowOK, Row, Thread, Repaired
<1>4. RowOK(row, thread)
  BY <1>1 DEF Reconcile, RowOK, WholeOK, Planned, Removing, At, Row, Thread, Active, Done, Repaired
<1>5. Follows(row, thread) /\ KeptBy(thread)
  BY <1>1 DEF Reconcile, Follows, KeptBy, RowOK, Removing, Planned, At, Repaired
<1>6. UNCHANGED <<outside, lost>> /\ faults' \in 0..MaxFaults
  BY BoundsAssumption DEF Reconcile, outside, IInv, OutsideOK
<1> QED BY <1>3, <1>4, <1>5, <1>6, LocalInv

\* A dry run expires.
LEMMA ExpireStep ==
  ASSUME IInv, NEW r \in DOMAIN rows, Expire(r)
  PROVE  IInv'
<1> DEFINE row == [rows[r] EXCEPT !.fresh = FALSE]
           thread == threads[r]
<1>1. RowOK(rows[r], threads[r]) /\ Follows(rows[r], threads[r]) /\ KeptBy(threads[r])
      /\ r \in DOMAIN threads
  BY OneRow
<1>3. Local(r, row, thread)
  <2>1. rows' = [rows EXCEPT ![r] = row] /\ threads' = [threads EXCEPT ![r] = thread]
    BY OneRow DEF Expire
  <2> QED BY <1>1, <2>1 DEF Expire, Local, Planned, At, RowOK, Row, Thread
<1>4. RowOK(row, thread)
  BY <1>1 DEF Expire, RowOK, WholeOK, Planned, Removing, At, Row, Thread, Active, Done
<1>5. Follows(row, thread) /\ KeptBy(thread)
  BY <1>1 DEF Expire, Follows, KeptBy, RowOK, Removing, Planned, At
<1>6. UNCHANGED <<outside, lost>> /\ faults' \in 0..MaxFaults
  BY BoundsAssumption DEF Expire, outside, IInv, OutsideOK
<1> QED BY <1>3, <1>4, <1>5, <1>6, LocalInv

\* A look at a file: when it is whole and as planned, it is the next to be removed.
LEMMA RevalidateStep ==
  ASSUME IInv, NEW r \in DOMAIN rows, Revalidate(r)
  PROVE  IInv'
<1>1. RowOK(rows[r], threads[r]) /\ Follows(rows[r], threads[r]) /\ KeptBy(threads[r])
      /\ r \in DOMAIN threads
  BY OneRow
<1> DEFINE Taken(f)  == [threads[r] EXCEPT !.pc = "unlink", !.file = {f},
                          !.left = threads[r].left \ {f}, !.raced = FALSE]
           Passed(f) == [threads[r] EXCEPT !.left = threads[r].left \ {f}, !.issues = TRUE]
<1>2. PICK f \in threads[r].left :
        /\ Valid(r, f) => threads' = [threads EXCEPT ![r] = Taken(f)]
        /\ ~Valid(r, f) => threads' = [threads EXCEPT ![r] = Passed(f)]
  BY DEF Revalidate
<1>3. f \in Files /\ threads[r].file = {} /\ threads[r].pc = "check" /\ threads[r] \in Thread
  BY <1>1 DEF Revalidate, At, RowOK, Thread
<1>4. UNCHANGED <<outside, lost>> /\ faults' \in 0..MaxFaults /\ rows' = rows /\ starts' = starts
  BY DEF Revalidate, outside, IInv, OutsideOK
<1>5. CASE Valid(r, f)
  <2> DEFINE thread == Taken(f)
  <2>1. Local(r, rows[r], thread)
    <3>1. threads' = [threads EXCEPT ![r] = thread]
      BY <1>2, <1>5
    <3>2. rows' = [rows EXCEPT ![r] = rows[r]]
      BY <1>4, OneRow
    <3> QED BY <1>3, <1>4, <3>1, <3>2 DEF Local, Planned, Thread
  <2>2. /\ thread \in Thread /\ thread.pc = "unlink" /\ thread.file = {f}
        /\ thread.left = threads[r].left \ {f} /\ (thread.issues <=> threads[r].issues)
    BY <1>3 DEF Thread
  <2>3. rows[r].deleted \cup thread.left \cup thread.file
          = rows[r].deleted \cup threads[r].left \cup threads[r].file
    BY <1>3, <2>2
  <2> HIDE DEF thread
  <2>4. RowOK(rows[r], thread)
    <3>1. ~rows[r].dry => WholeOK(rows[r], thread)
      BY <1>1, <1>3, <2>2, <2>3 DEF RowOK, WholeOK, Removing
    <3> QED BY <1>1, <1>3, <2>2, <2>3, <3>1 DEF RowOK, Planned, Removing
  <2>5. Follows(rows[r], thread)
    BY <1>1, <1>3, <2>2 DEF Follows, Removing
  <2>6. KeptBy(thread)
    BY <1>5, <2>2 DEF KeptBy, Valid
  <2> QED BY <1>4, <2>1, <2>4, <2>5, <2>6, LocalInv
<1>6. CASE ~Valid(r, f)
  <2> DEFINE thread == Passed(f)
  <2>1. Local(r, rows[r], thread)
    <3>1. threads' = [threads EXCEPT ![r] = thread]
      BY <1>2, <1>6
    <3>2. rows' = [rows EXCEPT ![r] = rows[r]]
      BY <1>4, OneRow
    <3> QED BY <1>3, <1>4, <3>1, <3>2 DEF Local, Planned, Thread
  <2>2. RowOK(rows[r], thread)
    BY <1>1, <1>3 DEF RowOK, WholeOK, Planned, Removing, Thread
  <2>3. Follows(rows[r], thread) /\ KeptBy(thread)
    BY <1>1, <1>3 DEF Follows, Removing, KeptBy, Thread
  <2> QED BY <1>4, <2>1, <2>2, <2>3, LocalInv
<1> QED BY <1>5, <1>6

\* A removal: the file was seen whole, or changed since then, and another thread's file is
\* gone or as it was.
LEMMA UnlinkStep ==
  ASSUME IInv, NEW r \in DOMAIN rows, Unlink(r)
  PROVE  IInv'
<1>1. RowOK(rows[r], threads[r]) /\ Follows(rows[r], threads[r]) /\ KeptBy(threads[r])
      /\ r \in DOMAIN threads
  BY OneRow
<1>2. PICK f \in threads[r].file :
        /\ staged[f] # NoContent
        /\ staged' = [staged EXCEPT ![f] = NoContent]
        /\ rows' = [rows EXCEPT ![r].deleted = @ \cup {f}]
        /\ lost' = IF staged[f] \in vault \/ threads[r].raced THEN lost ELSE lost \cup {f}
        /\ threads' = [threads EXCEPT ![r].pc = "check", ![r].file = {}]
  BY DEF Unlink
<1> DEFINE row == [rows[r] EXCEPT !.deleted = rows[r].deleted \cup {f}]
           thread == [threads[r] EXCEPT !.pc = "check", !.file = {}]
<1>3. /\ f \in Files /\ threads[r].file = {f} /\ threads[r].pc = "unlink" /\ threads[r] \in Thread
      /\ rows[r] \in Row
  BY <1>1 DEF Unlink, At, RowOK, Thread
<1>4. Local(r, row, thread)
  <2>1. rows' = [rows EXCEPT ![r] = row] /\ threads' = [threads EXCEPT ![r] = thread]
    BY <1>2, OneRow
  <2> QED BY <1>3, <2>1 DEF Unlink, Local, Planned, Row, Thread
<1>5. RowOK(row, thread)
  <2>1. /\ thread \in Thread /\ thread.pc = "check" /\ thread.file = {}
        /\ thread.left = threads[r].left /\ (thread.issues <=> threads[r].issues)
    BY <1>3 DEF Thread
  <2>2. /\ row \in Row /\ row.deleted = rows[r].deleted \cup {f}
        /\ row.manifest = rows[r].manifest /\ row.report = rows[r].report
        /\ row.status = rows[r].status /\ (row.dry <=> rows[r].dry)
    BY <1>3 DEF Row
  <2>3. row.deleted \cup thread.left \cup thread.file
          = rows[r].deleted \cup threads[r].left \cup threads[r].file
    BY <1>3, <2>1, <2>2
  <2> HIDE DEF row, thread
  <2>4. f \in Eligible(row.manifest) /\ ~row.dry
    BY <1>1, <1>3, <2>2 DEF RowOK, Removing
  <2>5. WholeOK(row, thread)
    BY <1>1, <1>3, <2>1, <2>2, <2>3, <2>4 DEF RowOK, WholeOK, Removing
  <2> QED BY <1>1, <1>3, <2>1, <2>2, <2>3, <2>4, <2>5 DEF RowOK, Planned, Removing
<1>6. Follows(row, thread)
  BY <1>1, <1>3 DEF Follows, Removing, RowOK, Row, Thread
<1>7. TableInv'
  BY <1>4, <1>5, <1>6, LocalStep DEF IInv
<1>8. lost' = {}
  BY <1>1, <1>2, <1>3 DEF KeptBy, IInv, Kept
<1>9. ASSUME NEW s \in DOMAIN rows PROVE KeptBy(threads[s])'
  <2>1. vault' = vault /\ staged \in [Files -> Contents \cup {NoContent}]
    BY DEF Unlink, IInv, OutsideOK
  <2>2. CASE s = r
    BY <1>1, <1>2, <1>3, <2>2 DEF KeptBy, Thread
  <2>3. CASE s # r
    <3>1. threads'[s] = threads[s] /\ KeptBy(threads[s])
      <4>1. DOMAIN threads = DOMAIN rows
        BY DEF IInv, TableInv, RowsOK
      <4> QED BY <1>2, <2>3, <4>1, OneRow
    <3>2. \A g \in threads[s].file : staged'[g] = NoContent \/ staged'[g] = staged[g]
      <4>1. threads[s].file \subseteq Files
        BY OneRow DEF RowOK, Thread
      <4> QED BY <1>2, <1>3, <2>1, <4>1
    <3> QED BY <2>1, <3>1, <3>2 DEF KeptBy
  <2> QED BY <2>2, <2>3
<1>10. DOMAIN rows' = DOMAIN rows
  BY <1>4 DEF Local
<1>11. OutsideOK'
  BY <1>2, <1>3 DEF Unlink, IInv, OutsideOK
<1> QED BY <1>7, <1>8, <1>9, <1>10, <1>11 DEF IInv, Kept, KeptBy

-------------------------------------------------------------------------------
(* The starts.                                                               *)

\* A checked start is the only one, and its dry run is not consumed.
LEMMA CheckStartStep ==
  ASSUME IInv, NEW c \in Callers, NEW start \in Starts, CheckStart(c, start),
         ~start.dry => ~rows[start.auth].consumed /\ Planned(threads[start.auth])
  PROVE  IInv'
<1>1. /\ starts' = [starts EXCEPT ![c] = {start}] /\ \A d \in Callers : starts[d] = {}
      /\ rows' = rows /\ threads' = threads /\ Starts' = Starts
      /\ starts \in [Callers -> SUBSET Starts]
  BY DEF CheckStart, LockFree, Starts, IInv, TableInv, Pending
<1>2. \A d \in Callers : starts'[d] = IF d = c THEN {start} ELSE {}
  BY <1>1
<1>3. Pending'
  <2>1. starts' \in [Callers -> SUBSET Starts]
    BY <1>1
  <2>2. \A d, e \in Callers : starts'[d] # {} /\ starts'[e] # {} => d = e
    BY <1>2
  <2>3. \A d \in Callers : \A s, t \in starts'[d] : s = t
    BY <1>2
  <2>4. \A d \in Callers : \A s \in starts'[d] :
          ~s.dry => ~rows[s.auth].consumed /\ Planned(threads[s.auth])
    BY <1>2
  <2> QED BY <1>1, <2>1, <2>2, <2>3, <2>4 DEF Pending, Planned
<1>4. RowsOK' /\ Linked'
  BY <1>1 DEF IInv, TableInv, RowsOK, Linked, Follows, AuthorizedOnce
<1>5. Kept' /\ OutsideOK'
  BY <1>1 DEF CheckStart, outside, IInv, Kept, KeptBy, OutsideOK
<1> QED BY <1>3, <1>4, <1>5 DEF IInv, TableInv

\* A dry run is checked with no other active; an execution consumes a preview that is free.
LEMMA CheckStep ==
  ASSUME IInv, NEW c \in Callers, CheckDryRun(c) \/ CheckExecution(c)
  PROVE  IInv'
<1>1. rows \in Seq(Row)
  BY DEF IInv, TableInv, RowsOK
<1>2. CASE CheckDryRun(c)
  <2>1. NoStart \in Starts /\ NoStart.dry
    BY <1>1 DEF NoStart, Starts
  <2> QED BY <1>2, <2>1, CheckStartStep DEF CheckDryRun
<1>3. CASE CheckExecution(c)
  <2>1. PICK d \in DOMAIN rows : Authorizes(d) /\ CheckStart(c, [dry |-> FALSE, auth |-> d])
    BY <1>3 DEF CheckExecution
  <2> DEFINE start == [dry |-> FALSE, auth |-> d]
  <2>2. start \in Starts
    BY <1>1 DEF Starts
  <2>3. ~rows[d].consumed /\ Planned(threads[d])
    BY <2>1, OneRow DEF Authorizes, RowOK, Active
  <2> QED BY <2>1, <2>2, <2>3, CheckStartStep
<1> QED BY <1>2, <1>3

\* A committed start becomes a row of its own, and consumes its dry run: no row had done so.
LEMMA InsertStep ==
  ASSUME IInv, NEW c \in Callers, Insert(c)
  PROVE  IInv'
<1> DEFINE thread == [Gone EXCEPT !.pc = "start"]
<1>1. PICK start \in starts[c] :
        /\ rows' = Append(Consumed(start), NewRow(start))
        /\ threads' = Append(threads, thread)
        /\ starts' = [starts EXCEPT ![c] = {}]
  BY DEF Insert
<1>2. /\ rows \in Seq(Row) /\ threads \in Seq(Thread) /\ Len(threads) = Len(rows)
      /\ Len(rows) \in Nat /\ DOMAIN rows = 1..Len(rows)
  BY DEF IInv, TableInv, RowsOK
<1>3. /\ start.dry \in BOOLEAN /\ start.auth \in 0..Len(rows) /\ (start.dry <=> start.auth = 0)
      /\ ~start.dry => ~rows[start.auth].consumed /\ Planned(threads[start.auth])
  BY DEF IInv, TableInv, Pending, Starts
<1> DEFINE base == Consumed(start)
           new  == NewRow(start)
<1>4. /\ base \in Seq(Row) /\ Len(base) = Len(rows)
      /\ \A s \in DOMAIN rows :
           /\ base[s] = IF ~start.dry /\ s = start.auth
                        THEN [rows[s] EXCEPT !.consumed = TRUE] ELSE rows[s]
  <2>1. CASE start.dry
    BY <1>2, <2>1 DEF Consumed
  <2>2. CASE ~start.dry
    <3>1. start.auth \in DOMAIN rows
      BY <1>2, <1>3, <2>2
    <3>2. rows[start.auth] \in Row
      BY <1>2, <3>1
    <3>3. [rows[start.auth] EXCEPT !.consumed = TRUE] \in Row
      BY <3>2 DEF Row
    <3>4. base = [rows EXCEPT ![start.auth] = [rows[start.auth] EXCEPT !.consumed = TRUE]]
      BY <2>2 DEF Consumed
    <3> HIDE DEF base
    <3>5. base \in Seq(Row) /\ Len(base) = Len(rows)
      BY <1>2, <3>1, <3>3, <3>4
    <3> QED BY <1>2, <2>2, <3>1, <3>4, <3>5
  <2> QED BY <1>3, <2>1, <2>2
<1>5. new \in Row /\ thread \in Thread
  <2>1. start.auth \in Nat
    BY <1>2, <1>3
  <2>2. new \in Row
    BY <1>3, <2>1, UnplannedType DEF NewRow, Row, Active
  <2>3. thread \in Thread
    BY DEF Gone, Thread, Done
  <2> QED BY <2>2, <2>3
<1>6. RowOK(new, thread) /\ Follows(new, thread) /\ KeptBy(thread)
  BY <1>5 DEF RowOK, WholeOK, Follows, KeptBy, Planned, Removing, NewRow, Gone, Active
<1>7. ASSUME NEW s \in DOMAIN rows
      PROVE /\ RowOK(base[s], threads[s]) /\ base[s].auth = rows[s].auth
            /\ (base[s].dry <=> rows[s].dry) /\ base[s].manifest = rows[s].manifest
            /\ base[s].deleted = rows[s].deleted
            /\ rows[s].consumed \/ (~start.dry /\ s = start.auth) => base[s].consumed
  <2>1. RowOK(rows[s], threads[s]) /\ rows[s] \in Row
    BY OneRow DEF RowOK
  <2>2. CASE ~start.dry /\ s = start.auth
    <3>1. base[s] = [rows[s] EXCEPT !.consumed = TRUE]
      BY <1>4, <2>2
    <3> HIDE DEF base
    <3> QED BY <2>1, <3>1 DEF RowOK, WholeOK, Row
  <2>3. CASE ~(~start.dry /\ s = start.auth)
    BY <1>4, <2>1, <2>3
  <2> QED BY <2>2, <2>3
<1> HIDE DEF base, new, thread
<1>8. /\ rows' \in Seq(Row) /\ threads' \in Seq(Thread)
      /\ Len(rows') = Len(rows) + 1 /\ Len(threads') = Len(rows) + 1
      /\ DOMAIN rows' = DOMAIN rows \cup {Len(rows) + 1}
      /\ rows'[Len(rows) + 1] = new /\ threads'[Len(rows) + 1] = thread
      /\ \A s \in DOMAIN rows : rows'[s] = base[s] /\ threads'[s] = threads[s]
  BY <1>1, <1>2, <1>4, <1>5 DEF base, new
<1>9. RowsOK'
  <2>1. ASSUME NEW s \in DOMAIN rows' PROVE RowOK(rows'[s], threads'[s])
    BY <1>6, <1>7, <1>8
  <2> QED BY <1>8, <2>1 DEF RowsOK, RowOK, WholeOK, Planned, Removing, Eligible
<1>10. Linked'
  <2>1. new.auth = start.auth /\ (new.dry <=> start.dry)
    BY DEF new, NewRow
  <2>2. ASSUME NEW s \in DOMAIN rows'
        PROVE /\ rows'[s].dry <=> rows'[s].auth = 0
              /\ rows'[s].auth < s
              /\ ~rows'[s].dry => /\ rows'[s].auth \in DOMAIN rows
                                  /\ base[rows'[s].auth].consumed
                                  /\ Planned(threads[rows'[s].auth])
              /\ ~rows'[s].dry /\ (Removing(threads'[s]) \/ rows'[s].deleted # {})
                   => rows'[s].manifest = base[rows'[s].auth].manifest
    <3>1. CASE s \in DOMAIN rows
      <4>1. rows[s].auth \in Nat
        <5>1. rows[s] \in Row
          BY <1>2, <3>1
        <5> QED BY <5>1 DEF Row
      <4>2. /\ rows[s].dry <=> rows[s].auth = 0
            /\ rows[s].auth < s
            /\ ~rows[s].dry => rows[rows[s].auth].consumed /\ Planned(threads[rows[s].auth])
            /\ Follows(rows[s], threads[s])
        BY <3>1 DEF IInv, TableInv, Linked
      <4>3. ~rows[s].dry => rows[s].auth \in DOMAIN rows
        BY <1>2, <3>1, <4>1, <4>2
      <4> QED BY <1>7, <1>8, <3>1, <4>2, <4>3 DEF Follows
    <3>2. CASE s = Len(rows) + 1
      <4>1. /\ rows'[s] = new /\ threads'[s] = thread /\ start.auth < s
            /\ ~start.dry => start.auth \in DOMAIN rows
        BY <1>2, <1>3, <1>8, <3>2
      <4>2. new.deleted = {} /\ ~Removing(thread)
        BY DEF new, thread, NewRow, Gone, Removing
      <4> QED BY <1>3, <1>7, <2>1, <4>1, <4>2
    <3> QED BY <1>8, <3>1, <3>2
  <2>3. AuthorizedOnce'
    <3>1. ASSUME NEW s \in DOMAIN rows, ~start.dry, rows[s].auth = start.auth
          PROVE FALSE
      <4>1. rows[start.auth].consumed
        BY <1>3, <3>1 DEF IInv, TableInv, Linked
      <4> QED BY <1>3, <3>1, <4>1
    <3>2. ASSUME NEW s \in DOMAIN rows', NEW t \in DOMAIN rows',
                 ~rows'[s].dry, rows'[s].auth = rows'[t].auth
          PROVE s = t
      <4>1. CASE s \in DOMAIN rows /\ t \in DOMAIN rows
        BY <1>7, <1>8, <3>2, <4>1 DEF IInv, TableInv, Linked, AuthorizedOnce
      <4>2. CASE s \in DOMAIN rows /\ t = Len(rows) + 1
        <5>1. ~start.dry /\ rows[s].auth = start.auth
          BY <1>7, <1>8, <2>1, <2>2, <3>2, <4>2
        <5> QED BY <3>1, <4>2, <5>1
      <4>3. CASE s = Len(rows) + 1 /\ t \in DOMAIN rows
        <5>1. ~start.dry /\ rows[t].auth = start.auth
          BY <1>7, <1>8, <2>1, <3>2, <4>3
        <5> QED BY <3>1, <4>3, <5>1
      <4> QED BY <1>8, <4>1, <4>2, <4>3
    <3> QED BY <3>2 DEF AuthorizedOnce
  <2>4. ASSUME NEW s \in DOMAIN rows
        PROVE rows'[s] = base[s] /\ threads'[s] = threads[s]
    BY <1>8
  <2> QED BY <2>2, <2>3, <2>4 DEF Linked, Follows
<1>11. Pending'
  <2>1. \A d \in Callers : starts'[d] = {}
    BY <1>1 DEF IInv, TableInv, Pending
  <2>2. starts' \in [Callers -> SUBSET Starts']
    BY <1>1, <2>1 DEF IInv, TableInv, Pending
  <2> QED BY <2>1, <2>2 DEF Pending
<1>12. Kept'
  <2>1. UNCHANGED <<staged, vault, lost>>
    BY DEF Insert, outside
  <2>2. ASSUME NEW s \in DOMAIN rows' PROVE KeptBy(threads'[s])
    BY <1>6, <1>8, OneRow
  <2> QED BY <2>1, <2>2 DEF IInv, Kept, KeptBy
<1>13. OutsideOK'
  BY DEF IInv, OutsideOK, Insert, outside
<1> QED BY <1>9, <1>10, <1>11, <1>12, <1>13 DEF IInv, TableInv

-------------------------------------------------------------------------------
(* A restart, and what others do to files.                                   *)

\* A restart ends every thread and repairs or fails every active row.
LEMMA RestartStep ==
  ASSUME IInv, Restart
  PROVE  IInv'
<1>1. /\ rows \in Seq(Row) /\ threads \in Seq(Thread) /\ Len(threads) = Len(rows)
      /\ Len(rows) \in Nat /\ DOMAIN rows = 1..Len(rows) /\ DOMAIN threads = 1..Len(rows)
  BY DEF IInv, TableInv, RowsOK
<1>2. Gone \in Thread /\ Planned(Gone) /\ ~Removing(Gone) /\ KeptBy(Gone)
  BY DEF Gone, Thread, Planned, Removing, KeptBy, Done
<1>3. ASSUME NEW s \in DOMAIN rows
      PROVE /\ RowOK(Reset(rows[s]), Gone) /\ Reset(rows[s]).auth = rows[s].auth
            /\ (Reset(rows[s]).dry <=> rows[s].dry)
            /\ Reset(rows[s]).manifest = rows[s].manifest
            /\ Reset(rows[s]).deleted = rows[s].deleted
            /\ (Reset(rows[s]).consumed <=> rows[s].consumed)
  <2>1. RowOK(rows[s], threads[s]) /\ rows[s] \in Row
    BY OneRow DEF RowOK
  <2>2. CASE rows[s].status \notin Active
    <3>1. Reset(rows[s]) = rows[s]
      BY <2>2 DEF Reset
    <3> QED BY <2>1, <3>1 DEF RowOK, WholeOK, Planned, Removing, Gone, Thread, Done
  <2>3. CASE rows[s].status \in Active /\ rows[s].report \in Done
    <3>1. Reset(rows[s]) = Repaired(rows[s])
      BY <2>3 DEF Reset
    <3> QED BY <2>1, <2>3, <3>1
         DEF Repaired, RowOK, WholeOK, Planned, Removing, Gone, Thread, Row, Done
  <2>4. CASE rows[s].status \in Active /\ rows[s].report \notin Done
    <3>1. Reset(rows[s]) = [rows[s] EXCEPT !.status = "failed"]
      BY <2>4 DEF Reset
    <3> QED BY <2>1, <2>4, <3>1
         DEF RowOK, WholeOK, Planned, Removing, Gone, Thread, Row, Done
  <2> QED BY <2>2, <2>3, <2>4
<1>4. /\ rows' = [s \in 1..Len(rows) |-> Reset(rows[s])]
      /\ threads' = [s \in 1..Len(rows) |-> Gone]
      /\ starts' = [c \in Callers |-> {}]
  BY <1>1 DEF Restart
<1>5. ASSUME NEW s \in DOMAIN rows PROVE Reset(rows[s]) \in Row
  BY <1>3 DEF RowOK
<1>6. /\ rows' \in Seq(Row) /\ threads' \in Seq(Thread)
      /\ Len(rows') = Len(rows) /\ Len(threads') = Len(rows)
      /\ DOMAIN rows' = DOMAIN rows
      /\ \A s \in DOMAIN rows : rows'[s] = Reset(rows[s]) /\ threads'[s] = Gone
  BY <1>1, <1>2, <1>4, <1>5
<1>7. RowsOK'
  <2>1. ASSUME NEW s \in DOMAIN rows PROVE RowOK(rows'[s], threads'[s])
    BY <1>3, <1>6
  <2> QED BY <1>6, <2>1 DEF RowsOK, RowOK, WholeOK, Planned, Removing, Eligible
<1>8. Linked'
  <2>1. ASSUME NEW s \in DOMAIN rows, ~rows[s].dry PROVE rows[s].auth \in DOMAIN rows
    <3>1. rows[s] \in Row /\ rows[s].auth < s /\ (rows[s].dry <=> rows[s].auth = 0)
      BY <1>1 DEF IInv, TableInv, Linked
    <3> QED BY <1>1, <2>1, <3>1 DEF Row
  <2>2. ASSUME NEW s \in DOMAIN rows
        PROVE /\ rows[s].dry <=> rows[s].auth = 0
              /\ rows[s].auth < s
              /\ ~rows[s].dry => rows[rows[s].auth].consumed
              /\ Follows(rows[s], threads[s])
    BY DEF IInv, TableInv, Linked
  <2>3. ASSUME NEW s \in DOMAIN rows
        PROVE (/\ rows[s].dry <=> rows[s].auth = 0
               /\ rows[s].auth < s
               /\ ~rows[s].dry => rows[rows[s].auth].consumed /\ Planned(threads[rows[s].auth])
               /\ Follows(rows[s], threads[s]))'
    BY <1>2, <1>3, <1>6, <2>1, <2>2 DEF Follows, Planned, Removing
  <2>4. AuthorizedOnce'
    BY <1>3, <1>6 DEF IInv, TableInv, Linked, AuthorizedOnce
  <2> QED BY <1>6, <2>3, <2>4 DEF Linked
<1>9. Pending'
  BY <1>4 DEF Pending
<1>10. Kept' /\ OutsideOK'
  <2>1. UNCHANGED <<staged, vault, prov, evidence, lost, changes>> /\ intake' = "no"
        /\ faults' \in 0..MaxFaults
    BY BoundsAssumption DEF Restart, IInv, OutsideOK
  <2>2. \A s \in DOMAIN rows : KeptBy(threads[s])'
    BY <1>2, <1>6, <2>1 DEF KeptBy
  <2> QED BY <1>6, <2>1, <2>2 DEF IInv, Kept, OutsideOK
<1> QED BY <1>7, <1>8, <1>9, <1>10 DEF IInv, TableInv

\* A step that leaves the cleanup alone, and the copies of what was looked at.
LEMMA ElsewhereStep ==
  ASSUME IInv, UNCHANGED <<rows, threads, starts, lost, faults>>, OutsideOK',
         staged' = staged, vault \subseteq vault'
  PROVE  IInv'
<1>1. RowsOK' /\ Linked' /\ Pending'
  BY DEF IInv, TableInv, RowsOK, Linked, Follows, AuthorizedOnce, Pending, Starts
<1>2. Kept'
  BY DEF IInv, Kept, KeptBy
<1> QED BY <1>1, <1>2 DEF IInv, TableInv

\* A change of a copy is a race for whoever has looked at it.
LEMMA RacedStep ==
  ASSUME IInv, NEW touched, Raced(touched), UNCHANGED <<rows, starts, lost, faults>>, OutsideOK',
         \A f \in Files \ touched :
           staged'[f] = staged[f] /\ (staged[f] \in vault => staged'[f] \in vault')
  PROVE  IInv'
<1>1. /\ rows \in Seq(Row) /\ threads \in Seq(Thread) /\ Len(threads) = Len(rows)
      /\ Len(rows) \in Nat /\ DOMAIN rows = 1..Len(rows) /\ DOMAIN threads = 1..Len(rows)
  BY DEF IInv, TableInv, RowsOK
<1> DEFINE hit(s) == threads[s].raced \/ (threads[s].pc = "unlink" /\ threads[s].file \cap touched # {})
<1>2. threads' = [s \in 1..Len(rows) |-> [threads[s] EXCEPT !.raced = hit(s)]]
  BY <1>1 DEF Raced
<1>3. ASSUME NEW s \in DOMAIN rows
      PROVE threads[s] \in Thread /\ hit(s) \in BOOLEAN
  <2>1. threads[s] \in Thread
    BY <1>1
  <2> QED BY <2>1 DEF Thread
<1> HIDE DEF hit
<1>4. ASSUME NEW s \in DOMAIN rows
      PROVE /\ threads'[s] \in Thread /\ threads'[s].pc = threads[s].pc
            /\ threads'[s].file = threads[s].file /\ threads'[s].left = threads[s].left
            /\ (threads'[s].issues <=> threads[s].issues) /\ threads'[s].outcome = threads[s].outcome
            /\ (threads'[s].raced <=> hit(s))
  <2>1. threads'[s] = [threads[s] EXCEPT !.raced = hit(s)]
    BY <1>1, <1>2
  <2> QED BY <1>3, <2>1 DEF Thread
<1>5. threads' \in Seq(Thread) /\ Len(threads') = Len(rows)
  <2>1. \A s \in 1..Len(rows) : threads'[s] \in Thread
    BY <1>1, <1>4
  <2>2. \A s \in 1..Len(rows) : [threads[s] EXCEPT !.raced = hit(s)] \in Thread
    BY <1>2, <2>1
  <2>3. threads' \in [1..Len(rows) -> Thread]
    BY <1>2, <2>2
  <2> QED BY <1>1, <2>3
<1>6. RowsOK'
  <2>1. ASSUME NEW s \in DOMAIN rows PROVE RowOK(rows'[s], threads'[s])
    BY <1>4, OneRow DEF RowOK, WholeOK, Planned, Removing
  <2> QED BY <1>1, <1>5, <2>1 DEF RowsOK, RowOK, WholeOK, Planned, Removing, Eligible
<1>7. Linked'
  <2>1. ASSUME NEW s \in DOMAIN rows, ~rows[s].dry PROVE rows[s].auth \in DOMAIN rows
    <3>1. rows[s] \in Row /\ rows[s].auth < s /\ (rows[s].dry <=> rows[s].auth = 0)
      BY <1>1 DEF IInv, TableInv, Linked
    <3> QED BY <1>1, <2>1, <3>1 DEF Row
  <2>2. ASSUME NEW s \in DOMAIN rows
        PROVE (/\ rows[s].dry <=> rows[s].auth = 0
               /\ rows[s].auth < s
               /\ ~rows[s].dry => rows[rows[s].auth].consumed /\ Planned(threads[rows[s].auth])
               /\ Follows(rows[s], threads[s]))'
    BY <1>4, <2>1 DEF IInv, TableInv, Linked, Follows, Planned, Removing
  <2> QED BY <2>2 DEF IInv, TableInv, Linked, AuthorizedOnce
<1>8. Pending'
  <2>1. ASSUME NEW c \in Callers, NEW s \in starts[c], ~s.dry
        PROVE ~rows[s.auth].consumed /\ Planned(threads'[s.auth])
    <3>1. s \in Starts /\ ~rows[s.auth].consumed /\ Planned(threads[s.auth])
      BY <2>1 DEF IInv, TableInv, Pending
    <3>2. s.auth \in DOMAIN rows
      BY <1>1, <2>1, <3>1 DEF Starts
    <3> QED BY <1>4, <3>1, <3>2 DEF Planned
  <2> QED BY <2>1 DEF IInv, TableInv, Pending, Starts
<1>9. Kept'
  <2>1. ASSUME NEW s \in DOMAIN rows, threads'[s].pc = "unlink", ~threads'[s].raced,
               NEW f \in threads'[s].file
        PROVE staged'[f] = NoContent \/ staged'[f] \in vault'
    <3>1. /\ threads[s].pc = "unlink" /\ ~threads[s].raced /\ f \in threads[s].file /\ f \notin touched
          /\ f \in Files
      BY <1>4, <2>1 DEF hit, Thread
    <3>2. staged[f] = NoContent \/ staged[f] \in vault
      BY <3>1, OneRow DEF KeptBy
    <3> QED BY <3>1, <3>2
  <2> QED BY <2>1 DEF IInv, Kept, KeptBy
<1> QED BY <1>6, <1>7, <1>8, <1>9 DEF IInv, TableInv

\* What acquisition, the user, the disk and Source Intake do.
LEMMA OutsideStep ==
  ASSUME IInv, Outside
  PROVE  IInv'
<1>1. ASSUME NEW f \in Files, NEW c \in Contents \cup {NoContent}, Write(f, c)
      PROVE IInv'
  <2>1. OutsideOK'
    BY <1>1, BoundsAssumption DEF Write, Change, IInv, OutsideOK
  <2>2. \A g \in Files \ {f} : staged'[g] = staged[g]
    BY <1>1 DEF Write, IInv, OutsideOK
  <2>3. Raced({f}) /\ UNCHANGED <<rows, starts, lost, faults>> /\ vault' = vault
    BY <1>1 DEF Write
  <2> QED BY <2>1, <2>2, <2>3, RacedStep
<1>2. ASSUME NEW c \in Contents, Damage(c)
      PROVE IInv'
  <2> DEFINE touched == {f \in Files : staged[f] = c}
  <2>1. OutsideOK'
    BY <1>2, BoundsAssumption DEF Damage, Change, IInv, OutsideOK
  <2>2. \A g \in Files \ touched :
          staged'[g] = staged[g] /\ (staged[g] \in vault => staged'[g] \in vault')
    BY <1>2 DEF Damage
  <2>3. Raced(touched) /\ UNCHANGED <<rows, starts, lost, faults>>
    BY <1>2 DEF Damage
  <2> QED BY <2>1, <2>2, <2>3, RacedStep
<1>3. ASSUME NEW f \in Files, IntakeSaves(f) \/ IntakeDefers(f)
      PROVE IInv'
  <2>1. OutsideOK'
    BY <1>3, BoundsAssumption DEF IntakeSaves, IntakeDefers, Change, IInv, OutsideOK
  <2> QED BY <1>3, <2>1, ElsewhereStep DEF IntakeSaves, IntakeDefers
<1>4. ASSUME IntakeChecks \/ IntakeStarts \/ IntakeEnds
      PROVE IInv'
  <2>1. OutsideOK'
    BY <1>4 DEF IntakeChecks, IntakeStarts, IntakeEnds, IInv, OutsideOK
  <2> QED BY <1>4, <2>1, ElsewhereStep DEF IntakeChecks, IntakeStarts, IntakeEnds
<1> QED BY <1>1, <1>2, <1>3, <1>4 DEF Outside

-------------------------------------------------------------------------------
(* The theorems.                                                             *)

\* There is no row, no start and no removal.
LEMMA InitIInv == Init => IInv
<1> SUFFICES ASSUME Init PROVE IInv
  OBVIOUS
<1>1. OutsideOK
  <2>1. PICK saved \in SUBSET {f \in Files : staged[f] # NoContent} :
          /\ prov = [f \in Files |-> IF f \in saved THEN {staged[f]} ELSE {}]
          /\ vault = {staged[f] : f \in saved}
    BY DEF Init
  <2>2. vault \subseteq Contents /\ prov \in [Files -> SUBSET Contents]
    BY <2>1 DEF Init
  <2> QED BY <2>2, BoundsAssumption DEF Init, OutsideOK
<1>2. RowsOK /\ Linked /\ Kept
  BY DEF Init, RowsOK, Linked, AuthorizedOnce, Kept
<1>3. Pending
  BY DEF Init, Pending
<1> QED BY <1>1, <1>2, <1>3 DEF IInv, TableInv

\* Every step keeps the invariant.
LEMMA NextIInv == IInv /\ [Next]_vars => IInv'
<1> SUFFICES ASSUME IInv, [Next]_vars PROVE IInv'
  OBVIOUS
<1>1. CASE Cleanup
  <2>1. ASSUME NEW c \in Callers, CheckDryRun(c) \/ CheckExecution(c) \/ Insert(c) PROVE IInv'
    BY <2>1, CheckStep, InsertStep
  <2>2. ASSUME NEW r \in DOMAIN rows, Run(r) \/ PlanDryRun(r) \/ PlanExecution(r) \/ PlanRefused(r)
        PROVE IInv'
    BY <2>2, RunStep, PlanDryRunStep, PlanExecutionStep, PlanRefusedStep
  <2>3. ASSUME NEW r \in DOMAIN rows, Revalidate(r) \/ Unlink(r) \/ UnlinkFails(r) PROVE IInv'
    BY <2>3, RevalidateStep, UnlinkStep, UnlinkFailsStep
  <2>4. ASSUME NEW r \in DOMAIN rows,
               FinalReport(r) \/ FinalReportFails(r) \/ Finish(r) \/ Fails(r) \/ Dies(r)
        PROVE IInv'
    BY <2>4, FinalReportStep, FinalReportFailsStep, FinishStep, FailsStep, DiesStep
  <2>5. ASSUME NEW r \in DOMAIN rows, Reconcile(r) \/ Expire(r) PROVE IInv'
    BY <2>5, ReconcileStep, ExpireStep
  <2> QED BY <1>1, <2>1, <2>2, <2>3, <2>4, <2>5 DEF Cleanup
<1>2. CASE Outside
  BY <1>2, OutsideStep
<1>3. CASE Restart
  BY <1>3, RestartStep
<1>4. CASE UNCHANGED vars
  <2>1. UNCHANGED <<staged, vault, prov, evidence, intake, rows, threads, starts, lost, changes,
                    faults>>
    BY <1>4 DEF vars
  <2>2. OutsideOK'
    BY <2>1 DEF IInv, OutsideOK
  <2> QED BY <2>1, <2>2, ElsewhereStep
<1> QED BY <1>1, <1>2, <1>3, <1>4 DEF Next

\* The rows, the pending start and the copies of what is about to be removed fit together at
\* every step of the cleanup and of those around it.
THEOREM Invariance == Spec => []IInv
  BY InitIInv, NextIInv, PTL DEF Spec

\* The files of a cleanup are those of its plan (_run_cleanup_background).
THEOREM TypeCorrect == Spec => []CleanupTypeOK
  BY Invariance, Implied, PTL

\* A file is removed only when the vault has a whole copy of what it holds, unless one of the
\* two changes between the last look and the removal (_revalidate_candidate).
THEOREM NothingIsLost == Spec => []NothingLost
  BY Invariance, Implied, PTL

\* One preview authorizes one execution, whatever callers start at the same time
\* (protected_ingestion_operation_start, authorization_consumed_at).
THEOREM OneExecutionPerPreview == Spec => []AuthorizedOnce
  BY Invariance, Implied, PTL

\* An execution removes what its dry run has shown (manifest_fingerprint).
THEOREM OnlyWhatWasShown == Spec => []RemovesWhatWasShown
  BY Invariance, Implied, PTL

\* A row that says completed, written by its thread or repaired from the report, stands for an
\* execution that has removed its whole plan (_reconcile_row_from_terminal_report).
THEOREM CompletedIsWhole == Spec => []CompletedRemovedAll
  BY Invariance, Implied, PTL

-------------------------------------------------------------------------------
(* The loop over it.                                                         *)

LoopRuns    == [status : {"none", "running", "paused", "blocked", "failed", "completed"},
                stop : {"none", "review", "recovery", "manual", "other"},
                done : Nat, limit : Nat, mode : {"auto", "script", "page"}]
LoopBatches == [status : {"none", "planned", "acquired", "intaked", "review", "completed",
                          "blocked", "failed"},
                files : SUBSET Files,
                acquired : [Files -> Contents \cup {NoContent}],
                asset : [Files -> Contents \cup {NoContent}],
                dry : Nat, final : Nat]
TakingIn    == {"acquire", "verify", "intake", "intaking"}
TakenIn     == {"preview", "previewing", "pausing", "execute", "executing", "final", "checking"}
LoopWorkers == [pc : {"idle", "next"} \cup TakingIn \cup TakenIn, id : Nat,
                error : {"none", "recoverable"}]

LoopTypes == run \in LoopRuns /\ batch \in LoopBatches /\ worker \in LoopWorkers

\* A batch that is reviewed, may be continued or is completed has been taken in.
BatchTaken ==
  /\ worker.pc \in TakingIn => batch.status \in {"planned", "acquired"}
  /\ \/ worker.pc \in TakenIn
     \/ batch.status \in {"intaked", "review", "completed"}
     \/ batch.status = "blocked" /\ run.stop \in {"review", "recovery"}
     => Intaken
  /\ run.stop = "none" => run.status \in {"none", "running"}

\* The dry run that completes a batch is later than the one of its review.
FinalSeen ==
  /\ batch.dry \in 0..Len(rows)
  /\ worker.pc \in {"previewing", "execute", "executing", "checking"} =>
       worker.id \in DOMAIN rows
  /\ worker.pc = "checking" => worker.id > batch.dry
  /\ batch.status = "completed" =>
       /\ batch.final \in DOMAIN rows /\ batch.final > batch.dry
       /\ rows[batch.final].manifest = Unplanned /\ Planned(threads[batch.final])

LoopInv == IInv /\ LoopTypes /\ BatchTaken /\ FinalSeen


-------------------------------------------------------------------------------
(* What the steps of the cleanup leave to the loop.                          *)

\* A row that was planned keeps its plan, and no row goes away.
PlansKept ==
  /\ Len(rows') \in Nat /\ Len(rows) <= Len(rows')
  /\ \A r \in DOMAIN rows : Planned(threads[r]) =>
       Planned(threads'[r]) /\ rows'[r].manifest = rows[r].manifest

LEMMA RowsTyped ==
  ASSUME IInv
  PROVE  /\ rows \in Seq(Row) /\ threads \in Seq(Thread) /\ Len(threads) = Len(rows)
         /\ Len(rows) \in Nat /\ DOMAIN rows = 1..Len(rows) /\ DOMAIN threads = 1..Len(rows)
BY DEF IInv, TableInv, RowsOK

LEMMA SamePlans ==
  ASSUME IInv, UNCHANGED <<rows, threads>>
  PROVE  PlansKept
BY RowsTyped DEF PlansKept

\* The steps of a thread and the repairs.
LEMMA ThreadPlans ==
  ASSUME IInv, NEW r \in DOMAIN rows,
         \/ Run(r) \/ PlanDryRun(r) \/ PlanExecution(r) \/ PlanRefused(r)
         \/ Revalidate(r) \/ Unlink(r) \/ UnlinkFails(r)
         \/ FinalReport(r) \/ FinalReportFails(r) \/ Finish(r) \/ Fails(r) \/ Dies(r)
         \/ Reconcile(r) \/ Expire(r)
  PROVE  PlansKept
<1>1. /\ rows \in Seq(Row) /\ threads \in Seq(Thread) /\ Len(threads) = Len(rows)
      /\ Len(rows) \in Nat /\ DOMAIN rows = 1..Len(rows) /\ DOMAIN threads = 1..Len(rows)
  BY RowsTyped
<1>2. rows[r] \in Row /\ threads[r] \in Thread
  BY <1>1
<1> SUFFICES /\ rows' \in Seq(Row) \/ DOMAIN rows' = DOMAIN rows
             /\ Len(rows') = Len(rows)
             /\ \A s \in DOMAIN rows : Planned(threads[s]) =>
                  Planned(threads'[s]) /\ rows'[s].manifest = rows[s].manifest
  BY <1>1 DEF PlansKept
<1>3. CASE Run(r)
  <2>1. ~Planned(threads[r])
    BY <1>3 DEF Run, At, Planned
  <2>2. Len(rows') = Len(rows) /\ DOMAIN rows' = DOMAIN rows
        /\ \A s \in DOMAIN rows : s # r => rows'[s] = rows[s] /\ threads'[s] = threads[s]
    BY <1>1, <1>3 DEF Run
  <2> QED BY <2>1, <2>2
<1>4. CASE PlanDryRun(r) \/ PlanExecution(r) \/ PlanRefused(r)
  <2>1. ~Planned(threads[r])
    BY <1>4 DEF PlanDryRun, PlanExecution, PlanRefused, At, Planned
  <2>2. Len(rows') = Len(rows) /\ DOMAIN rows' = DOMAIN rows
        /\ \A s \in DOMAIN rows : s # r => rows'[s] = rows[s] /\ threads'[s] = threads[s]
    BY <1>1, <1>4 DEF PlanDryRun, PlanExecution, PlanRefused
  <2> QED BY <2>1, <2>2
<1>5. CASE Revalidate(r) \/ UnlinkFails(r) \/ FinalReportFails(r) \/ Dies(r)
  <2>1. rows' = rows /\ \A s \in DOMAIN rows : s # r => threads'[s] = threads[s]
    BY <1>1, <1>5 DEF Revalidate, UnlinkFails, FinalReportFails, Dies
  <2>2. Planned(threads'[r])
    <3>1. CASE Revalidate(r)
      <4>1. PICK file \in threads[r].left :
              \/ threads' = [threads EXCEPT ![r].pc = "unlink", ![r].file = {file},
                                            ![r].left = @ \ {file}, ![r].raced = FALSE]
              \/ threads' = [threads EXCEPT ![r].left = @ \ {file}, ![r].issues = TRUE]
        BY <3>1 DEF Revalidate
      <4>2. threads[r].pc = "check"
        BY <3>1 DEF Revalidate, At
      <4> QED BY <1>1, <1>2, <4>1, <4>2 DEF Thread, Planned
    <3>2. CASE UnlinkFails(r)
      BY <1>1, <1>2, <3>2 DEF UnlinkFails, Thread, Planned
    <3>3. CASE FinalReportFails(r)
      BY <1>1, <1>2, <3>3 DEF FinalReportFails, Thread, Planned
    <3>4. CASE Dies(r)
      BY <1>1, <1>2, <3>4 DEF Dies, Gone, Planned
    <3> QED BY <1>5, <3>1, <3>2, <3>3, <3>4
  <2> QED BY <2>1, <2>2
<1>6. CASE Unlink(r) \/ FinalReport(r) \/ Finish(r) \/ Fails(r)
  <2>1. Len(rows') = Len(rows) /\ DOMAIN rows' = DOMAIN rows
        /\ \A s \in DOMAIN rows : s # r => rows'[s] = rows[s] /\ threads'[s] = threads[s]
    BY <1>1, <1>6 DEF Unlink, FinalReport, Finish, Fails
  <2>2. Planned(threads'[r]) /\ rows'[r].manifest = rows[r].manifest
    <3>1. CASE Unlink(r)
      BY <1>1, <1>2, <3>1 DEF Unlink, Thread, Row, Planned
    <3>2. CASE FinalReport(r)
      BY <1>1, <1>2, <3>2 DEF FinalReport, Thread, Row, Planned
    <3>3. CASE Finish(r)
      BY <1>1, <1>2, <3>3 DEF Finish, Gone, Row, Planned
    <3>4. CASE Fails(r)
      BY <1>1, <1>2, <3>4 DEF Fails, Gone, Row, Planned
    <3> QED BY <1>6, <3>1, <3>2, <3>3, <3>4
  <2> QED BY <2>1, <2>2
<1>7. CASE Reconcile(r) \/ Expire(r)
  <2>1. threads' = threads /\ Len(rows') = Len(rows) /\ DOMAIN rows' = DOMAIN rows
        /\ \A s \in DOMAIN rows : s # r => rows'[s] = rows[s]
    BY <1>1, <1>7 DEF Reconcile, Expire
  <2>2. rows'[r].manifest = rows[r].manifest
    BY <1>1, <1>2, <1>7 DEF Reconcile, Expire, Repaired, Row
  <2> QED BY <2>1, <2>2
<1> QED BY <1>3, <1>4, <1>5, <1>6, <1>7

\* A start that is committed adds a row.
LEMMA InsertPlans ==
  ASSUME IInv, NEW c \in Callers, Insert(c)
  PROVE  PlansKept /\ Len(rows') = Len(rows) + 1
<1>1. /\ rows \in Seq(Row) /\ threads \in Seq(Thread) /\ Len(threads) = Len(rows)
      /\ Len(rows) \in Nat /\ DOMAIN rows = 1..Len(rows) /\ DOMAIN threads = 1..Len(rows)
  BY RowsTyped
<1> DEFINE thread == [Gone EXCEPT !.pc = "start"]
<1>2. PICK start \in starts[c] : rows' = Append(Consumed(start), NewRow(start))
                                 /\ threads' = Append(threads, thread)
  BY DEF Insert
<1> HIDE DEF thread
<1>3. \A s \in DOMAIN rows : threads'[s] = threads[s]
  BY <1>1, <1>2
<1> DEFINE base == Consumed(start)
           new  == NewRow(start)
<1>4. /\ Len(base) = Len(rows) /\ DOMAIN base = DOMAIN rows
      /\ \A s \in DOMAIN rows : base[s].manifest = rows[s].manifest
  <2>1. CASE start.dry
    BY <1>1, <2>1 DEF Consumed
  <2>2. CASE ~start.dry
    <3>1. base = [rows EXCEPT ![start.auth] = [rows[start.auth] EXCEPT !.consumed = TRUE]]
      BY <2>2 DEF Consumed
    <3> HIDE DEF base
    <3>2. ASSUME NEW s \in DOMAIN rows PROVE base[s].manifest = rows[s].manifest
      <4>1. rows[s] \in Row
        BY <1>1
      <4>2. base[s] = IF s = start.auth THEN [rows[s] EXCEPT !.consumed = TRUE] ELSE rows[s]
        BY <3>1
      <4> QED BY <4>1, <4>2 DEF Row
    <3> QED BY <1>1, <3>1, <3>2
  <2> QED BY <2>1, <2>2
<1>5. base \in Seq({base[s] : s \in DOMAIN rows})
  <2>1. base = [s \in 1..Len(rows) |-> base[s]]
    <3>1. CASE start.dry
      BY <1>1, <3>1 DEF Consumed
    <3>2. CASE ~start.dry
      BY <1>1, <3>2 DEF Consumed
    <3> QED BY <3>1, <3>2
  <2> HIDE DEF base
  <2>2. base \in [1..Len(rows) -> {base[s] : s \in DOMAIN rows}]
    BY <1>1, <2>1
  <2> QED BY <1>1, <2>2
<1> HIDE DEF base, new
<1>6. /\ Len(rows') = Len(rows) + 1
      /\ \A s \in DOMAIN rows : rows'[s] = base[s]
  BY <1>1, <1>2, <1>4, <1>5 DEF base, new
<1> QED BY <1>1, <1>3, <1>4, <1>6 DEF PlansKept

LEMMA RestartPlans ==
  ASSUME IInv, Restart
  PROVE  PlansKept
<1>1. /\ rows \in Seq(Row) /\ threads \in Seq(Thread) /\ Len(threads) = Len(rows)
      /\ Len(rows) \in Nat /\ DOMAIN rows = 1..Len(rows) /\ DOMAIN threads = 1..Len(rows)
  BY RowsTyped
<1>2. /\ rows' = [s \in 1..Len(rows) |-> Reset(rows[s])]
      /\ threads' = [s \in 1..Len(rows) |-> Gone]
  BY <1>1 DEF Restart
<1>3. ASSUME NEW s \in DOMAIN rows
      PROVE  rows'[s].manifest = rows[s].manifest /\ Planned(threads'[s])
  <2>1. rows[s] \in Row
    BY <1>1
  <2>2. Reset(rows[s]).manifest = rows[s].manifest
    BY <2>1 DEF Reset, Repaired, Row
  <2>3. Planned(Gone)
    BY DEF Planned, Gone
  <2> QED BY <1>1, <1>2, <2>2, <2>3
<1> QED BY <1>1, <1>2, <1>3 DEF PlansKept

LEMMA RacedPlans ==
  ASSUME IInv, NEW touched, Raced(touched), rows' = rows
  PROVE  PlansKept
<1>1. /\ threads \in Seq(Thread) /\ Len(rows) \in Nat /\ DOMAIN rows = 1..Len(rows)
      /\ DOMAIN threads = 1..Len(rows)
  BY RowsTyped
<1>2. ASSUME NEW s \in DOMAIN rows, Planned(threads[s]) PROVE Planned(threads'[s])
  <2>1. threads[s] \in Thread
    BY <1>1
  <2>2. threads'[s].pc = threads[s].pc
    BY <1>1, <2>1 DEF Raced, Thread
  <2> QED BY <1>2, <2>2 DEF Planned
<1> QED BY <1>1, <1>2 DEF PlansKept

-------------------------------------------------------------------------------
(* What the steps of the loop leave to its invariant.                        *)

Waiting == {"previewing", "execute", "executing", "checking"}

LEMMA LoopKept ==
  ASSUME LoopInv, IInv', PlansKept, LoopTypes', BatchTaken',
         batch'.dry = batch.dry, batch'.final = batch.final,
         batch'.status = "completed" => batch.status = "completed",
         worker'.pc \in Waiting => worker'.id \in DOMAIN rows',
         worker'.pc = "checking" => worker'.id > batch.dry
  PROVE  LoopInv'
<1>1. /\ Len(rows) \in Nat /\ Len(rows') \in Nat /\ Len(rows) <= Len(rows')
      /\ DOMAIN rows = 1..Len(rows) /\ DOMAIN rows' = 1..Len(rows')
  BY RowsTyped DEF LoopInv, PlansKept, IInv, TableInv, RowsOK
<1>2. batch.dry \in Nat /\ batch.final \in Nat
  BY DEF LoopInv, LoopTypes, LoopBatches
<1>3. batch'.dry \in 0..Len(rows')
  BY <1>1, <1>2 DEF LoopInv, FinalSeen
<1>4. batch'.status = "completed" =>
        /\ batch'.final \in DOMAIN rows' /\ batch'.final > batch'.dry
        /\ rows'[batch'.final].manifest = Unplanned /\ Planned(threads'[batch'.final])
  <2> SUFFICES ASSUME batch'.status = "completed"
               PROVE  /\ batch.final \in DOMAIN rows' /\ batch.final > batch.dry
                      /\ rows'[batch.final].manifest = Unplanned
                      /\ Planned(threads'[batch.final])
    OBVIOUS
  <2>1. /\ batch.final \in DOMAIN rows /\ batch.final > batch.dry
        /\ rows[batch.final].manifest = Unplanned /\ Planned(threads[batch.final])
    BY DEF LoopInv, FinalSeen
  <2> QED BY <1>1, <2>1 DEF PlansKept
<1>5. FinalSeen'
  BY <1>3, <1>4 DEF FinalSeen, Waiting, Unplanned, Planned
<1> QED BY <1>5 DEF LoopInv

\* What a step of the cleanup, of the user or of a fault leaves as it was.
LEMMA LoopFrame ==
  ASSUME LoopInv, IInv', PlansKept, prov' = prov,
         run' = run, batch' = batch, worker' = worker \/ worker' = Idle
  PROVE  LoopInv'
<1>1. LoopTypes'
  BY DEF LoopInv, LoopTypes, LoopWorkers, Idle, TakingIn, TakenIn
<1>2. BatchTaken'
  BY DEF LoopInv, BatchTaken, Intaken, Idle, TakingIn, TakenIn
<1>3. worker'.pc \in Waiting => worker' = worker /\ worker'.id \in DOMAIN rows
  BY DEF LoopInv, FinalSeen, Waiting, Idle
<1>4. DOMAIN rows \subseteq DOMAIN rows'
  BY RowsTyped DEF LoopInv, PlansKept, IInv, TableInv, RowsOK
<1>5. worker'.pc = "checking" => worker'.id > batch.dry
  BY <1>3 DEF LoopInv, FinalSeen, Waiting
<1> QED BY <1>1, <1>2, <1>3, <1>4, <1>5, LoopKept DEF LoopInv

\* The run ends, and with it the work on its batch.
LEMMA EndStep ==
  ASSUME LoopInv, UNCHANGED vars, NEW status, NEW stop, FinishRun(status, stop),
         status \in {"completed", "blocked", "failed", "paused"}, stop \in {"other", "manual", "recovery"},
         NEW ended \in {"same", "blocked", "failed"},
         batch' = IF ended = "same" THEN batch ELSE [batch EXCEPT !.status = ended],
         stop = "recovery" => Intaken
  PROVE  LoopInv'
<1>t. run \in LoopRuns /\ batch \in LoopBatches
  BY DEF LoopInv, LoopTypes
<1>i. IInv' /\ PlansKept /\ prov' = prov
  BY NextIInv, SamePlans DEF LoopInv, vars
<1>1. run' \in LoopRuns /\ run'.status = status /\ run'.stop = stop /\ worker' = Idle
  BY <1>t DEF FinishRun, LoopRuns
<1>2. /\ batch' \in LoopBatches /\ batch'.files = batch.files /\ batch'.asset = batch.asset
      /\ batch'.dry = batch.dry /\ batch'.final = batch.final
      /\ batch'.status = IF ended = "same" THEN batch.status ELSE ended
  BY <1>t DEF LoopBatches
<1>3. LoopTypes'
  BY <1>1, <1>2 DEF LoopTypes, LoopWorkers, Idle
<1>4. Intaken' <=> Intaken
  BY <1>i, <1>2 DEF Intaken
<1>5. Idle.pc = "idle"
  BY DEF Idle
<1>6. BatchTaken'
  BY <1>1, <1>2, <1>4, <1>5 DEF LoopInv, BatchTaken, TakingIn, TakenIn
<1> QED BY <1>i, <1>1, <1>2, <1>3, <1>5, <1>6, LoopKept DEF Waiting

\* The worker goes on with the run and the batch as they are.
LEMMA GoStep ==
  ASSUME LoopInv, UNCHANGED <<vars, run, batch>>, worker' \in LoopWorkers,
         worker'.pc \notin TakingIn, worker'.pc \in TakenIn => worker.pc \in TakenIn \/ batch.status = "review",
         worker'.pc \in Waiting => worker'.id \in DOMAIN rows,
         worker'.pc # "checking"
  PROVE  LoopInv'
<1>i. IInv' /\ PlansKept /\ prov' = prov /\ rows' = rows
  BY NextIInv, SamePlans DEF LoopInv, vars
<1>1. LoopTypes'
  BY DEF LoopInv, LoopTypes
<1>2. BatchTaken'
  BY <1>i DEF LoopInv, BatchTaken, Intaken
<1> QED BY <1>i, <1>1, <1>2, LoopKept

-------------------------------------------------------------------------------
(* The steps of the loop.                                                    *)

LEMMA BeginStep ==
  ASSUME LoopInv, NEW mode \in {"auto", "script", "page"}, NEW limit \in TotalLimits,
         Begin(mode, limit)
  PROVE  LoopInv'
<1>t. run \in LoopRuns /\ batch \in LoopBatches /\ worker \in LoopWorkers /\ limit \in Nat
  BY LoopAssumption DEF LoopInv, LoopTypes
<1>i. IInv' /\ PlansKept /\ prov' = prov /\ batch' = batch
  BY NextIInv, SamePlans DEF LoopInv, Begin, vars
<1>1. run' \in LoopRuns /\ run'.status = "running" /\ run'.stop = "none"
  BY <1>t DEF Begin, NoRun, LoopRuns
<1>2. worker' \in LoopWorkers /\ worker'.pc = "next"
  BY <1>t DEF Begin, GoTo, LoopWorkers
<1>3. LoopTypes'
  BY <1>t, <1>i, <1>1, <1>2 DEF LoopTypes
<1>4. BatchTaken'
  BY <1>i, <1>1, <1>2 DEF LoopInv, BatchTaken, TakingIn, TakenIn, Intaken
<1> QED BY <1>i, <1>2, <1>3, <1>4, LoopKept DEF Waiting

LEMMA NextBatchStep ==
  ASSUME LoopInv, NextBatch
  PROVE  LoopInv'
<1>t. run \in LoopRuns /\ batch \in LoopBatches /\ worker \in LoopWorkers
  BY DEF LoopInv, LoopTypes
<1>i. IInv' /\ PlansKept /\ prov' = prov /\ run' = run
  BY NextIInv, SamePlans DEF LoopInv, NextBatch, vars
<1>1. batch' \in LoopBatches /\ batch'.status = "planned" /\ batch'.dry = 0
  <2>1. NoBatch \in LoopBatches /\ NoBatch.dry = 0
    BY DEF NoBatch, LoopBatches
  <2> QED BY <2>1 DEF NextBatch, LoopBatches
<1>2. worker' \in LoopWorkers /\ worker'.pc = "acquire"
  BY <1>t DEF NextBatch, GoTo, LoopWorkers, TakingIn
<1>3. LoopTypes'
  BY <1>t, <1>i, <1>1, <1>2 DEF LoopTypes
<1>4. BatchTaken'
  BY <1>i, <1>1, <1>2 DEF LoopInv, BatchTaken, TakingIn, TakenIn
<1>5. FinalSeen'
  <2>1. 0 \in 0..Len(rows')
    BY <1>i DEF PlansKept
  <2> QED BY <1>1, <1>2, <2>1 DEF FinalSeen
<1> QED BY <1>i, <1>3, <1>4, <1>5 DEF LoopInv

-------------------------------------------------------------------------------
(* Acquisition and Source Intake: no cleanup removes files meanwhile.        *)

\* A step that changes files while nothing is about to be removed.
LEMMA FilesStep ==
  ASSUME IInv, ~Cleaning, UNCHANGED <<rows, threads, starts, lost, faults>>, OutsideOK'
  PROVE  IInv' /\ PlansKept
<1>1. RowsOK' /\ Linked' /\ Pending'
  BY DEF IInv, TableInv, RowsOK, Linked, Follows, AuthorizedOnce, Pending, Starts
<1>2. Kept'
  BY DEF IInv, Kept, KeptBy, Cleaning
<1> QED BY <1>1, <1>2, SamePlans DEF IInv, TableInv

LEMMA AcquireStep ==
  ASSUME LoopInv, ~Cleaning, Acquire
  PROVE  LoopInv'
<1>t. batch \in LoopBatches /\ worker \in LoopWorkers /\ worker.pc = "acquire" /\ OutsideOK
  BY DEF LoopInv, LoopTypes, Acquire, Pc, IInv
<1> PICK taken \in SUBSET Files : \E content \in [taken -> Contents] :
        /\ staged' = [f \in Files |-> IF f \in taken THEN content[f] ELSE staged[f]]
        /\ batch' = [batch EXCEPT !.files = taken,
             !.acquired = [f \in Files |-> IF f \in taken THEN content[f] ELSE NoContent]]
  BY DEF Acquire
<1>1. PICK content \in [taken -> Contents] :
        /\ staged' = [f \in Files |-> IF f \in taken THEN content[f] ELSE staged[f]]
        /\ batch' = [batch EXCEPT !.files = taken,
             !.acquired = [f \in Files |-> IF f \in taken THEN content[f] ELSE NoContent]]
  OBVIOUS
<1>2. \A f \in taken : content[f] \in Contents
  OBVIOUS
<1>3. /\ staged' \in [Files -> Contents \cup {NoContent}]
      /\ [f \in Files |-> IF f \in taken THEN content[f] ELSE NoContent]
           \in [Files -> Contents \cup {NoContent}]
  BY <1>t, <1>1, <1>2 DEF OutsideOK
<1>4. /\ batch' \in LoopBatches /\ batch'.status = batch.status
      /\ batch'.dry = batch.dry /\ batch'.final = batch.final
  BY <1>t, <1>1, <1>3 DEF LoopBatches
<1>5. worker' \in LoopWorkers /\ worker'.pc = "verify"
  BY <1>t DEF Acquire, GoTo, LoopWorkers, TakingIn
<1>6. OutsideOK'
  BY <1>t, <1>3 DEF Acquire, OutsideOK
<1>i. IInv' /\ PlansKept
  BY <1>6, FilesStep DEF LoopInv, Acquire
<1>7. LoopTypes'
  BY <1>4, <1>5 DEF LoopInv, LoopTypes, Acquire
<1>8. batch.status \in {"planned", "acquired"}
  BY <1>t DEF LoopInv, BatchTaken, TakingIn
<1>9. BatchTaken'
  BY <1>4, <1>5, <1>8 DEF LoopInv, BatchTaken, TakingIn, TakenIn, Acquire
<1> QED BY <1>i, <1>4, <1>5, <1>7, <1>9, LoopKept DEF Waiting

\* The batch has failed: nothing is continued from it.
LEMMA FailedBatch ==
  ASSUME LoopInv, IInv', PlansKept, FailBatch
  PROVE  LoopInv'
<1>t. run \in LoopRuns /\ batch \in LoopBatches
  BY DEF LoopInv, LoopTypes
<1>1. run' \in LoopRuns /\ run'.stop = "other" /\ worker' = Idle
  BY <1>t DEF FailBatch, FinishRun, LoopRuns
<1>2. /\ batch' \in LoopBatches /\ batch'.status = "failed"
      /\ batch'.dry = batch.dry /\ batch'.final = batch.final
  BY <1>t DEF FailBatch, LoopBatches
<1>3. Idle \in LoopWorkers /\ Idle.pc = "idle"
  BY DEF Idle, LoopWorkers
<1>4. LoopTypes' /\ BatchTaken'
  BY <1>1, <1>2, <1>3 DEF LoopTypes, BatchTaken, TakingIn, TakenIn
<1> QED BY <1>1, <1>2, <1>3, <1>4, LoopKept DEF Waiting

LEMMA AcquireFailsStep ==
  ASSUME LoopInv, ~Cleaning, AcquireFails
  PROVE  LoopInv'
<1>1. OutsideOK'
  BY DEF AcquireFails, LoopInv, IInv, OutsideOK
<1>2. IInv' /\ PlansKept
  BY <1>1, FilesStep DEF LoopInv, AcquireFails
<1> QED BY <1>2, FailedBatch DEF AcquireFails

LEMMA VerifyStep ==
  ASSUME LoopInv, Verify
  PROVE  LoopInv'
<1>t. batch \in LoopBatches /\ worker \in LoopWorkers
  BY DEF LoopInv, LoopTypes
<1>i. IInv' /\ PlansKept /\ run' = run
  BY NextIInv, SamePlans DEF LoopInv, Verify, vars
<1>1. /\ batch' \in LoopBatches /\ batch'.status = "acquired"
      /\ batch'.dry = batch.dry /\ batch'.final = batch.final
  BY <1>t DEF Verify, LoopBatches
<1>2. worker' \in LoopWorkers /\ worker'.pc = "intake"
  BY <1>t DEF Verify, GoTo, LoopWorkers, TakingIn
<1>3. LoopTypes' /\ BatchTaken'
  BY <1>i, <1>1, <1>2 DEF LoopInv, LoopTypes, BatchTaken, TakingIn, TakenIn
<1> QED BY <1>i, <1>1, <1>2, <1>3, LoopKept DEF Waiting

LEMMA IntakeLooksStep ==
  ASSUME LoopInv, ~Cleaning, IntakeLooks
  PROVE  LoopInv'
<1>t. worker \in LoopWorkers /\ worker.pc = "intake"
  BY DEF LoopInv, LoopTypes, IntakeLooks, Pc
<1>1. OutsideOK'
  BY DEF IntakeLooks, LoopInv, IInv, OutsideOK
<1>i. IInv' /\ PlansKept /\ run' = run /\ batch' = batch
  BY <1>1, FilesStep DEF LoopInv, IntakeLooks
<1>2. worker' \in LoopWorkers /\ worker'.pc = "intaking"
  BY <1>t DEF IntakeLooks, GoTo, LoopWorkers, TakingIn
<1>3. LoopTypes' /\ BatchTaken'
  BY <1>t, <1>i, <1>2 DEF LoopInv, LoopTypes, BatchTaken, TakingIn, TakenIn, Intaken, IntakeLooks
<1> QED BY <1>i, <1>2, <1>3, LoopKept DEF Waiting

LEMMA IntakeBeginsStep ==
  ASSUME LoopInv, ~Cleaning, IntakeBegins
  PROVE  LoopInv'
<1>1. OutsideOK'
  BY DEF IntakeBegins, IntakeStarts, LoopInv, IInv, OutsideOK
<1>2. IInv' /\ PlansKept
  BY <1>1, FilesStep DEF LoopInv, IntakeBegins, IntakeStarts
<1> QED BY <1>2, LoopFrame DEF IntakeBegins, IntakeStarts, loopVars

LEMMA IntakeTakesStep ==
  ASSUME LoopInv, ~Cleaning, NEW f \in Files, IntakeTakes(f)
  PROVE  LoopInv'
<1>t. batch \in LoopBatches /\ worker.pc = "intaking" /\ OutsideOK /\ staged[f] \in Contents
  BY DEF LoopInv, LoopTypes, IntakeTakes, Pc, IInv, OutsideOK
<1>1. /\ batch' \in LoopBatches /\ batch'.status = batch.status
      /\ batch'.dry = batch.dry /\ batch'.final = batch.final
  BY <1>t DEF IntakeTakes, LoopBatches
<1>2. OutsideOK'
  BY <1>t DEF IntakeTakes, OutsideOK
<1>i. IInv' /\ PlansKept /\ run' = run /\ worker' = worker
  BY <1>2, FilesStep DEF LoopInv, IntakeTakes
<1>3. batch.status \in {"planned", "acquired"}
  BY <1>t DEF LoopInv, BatchTaken, TakingIn
<1>4. LoopTypes' /\ BatchTaken'
  BY <1>t, <1>i, <1>1, <1>3 DEF LoopInv, LoopTypes, BatchTaken, TakingIn, TakenIn
<1> QED BY <1>t, <1>i, <1>1, <1>4, LoopKept DEF Waiting

LEMMA IntakeEndedStep ==
  ASSUME LoopInv, ~Cleaning, IntakeEnded
  PROVE  LoopInv'
<1>t. batch \in LoopBatches /\ worker \in LoopWorkers
  BY DEF LoopInv, LoopTypes
<1>1. OutsideOK'
  BY DEF IntakeEnded, LoopInv, IInv, OutsideOK
<1>i. IInv' /\ PlansKept /\ prov' = prov
  BY <1>1, FilesStep DEF LoopInv, IntakeEnded
<1>2. CASE ~Intaken
  BY <1>i, <1>2, FailedBatch DEF IntakeEnded
<1>3. CASE Intaken
  <2>1. /\ batch' \in LoopBatches /\ batch'.status = "intaked"
        /\ batch'.files = batch.files /\ batch'.asset = batch.asset
        /\ batch'.dry = batch.dry /\ batch'.final = batch.final
    BY <1>t, <1>3 DEF IntakeEnded, LoopBatches
  <2>2. worker' \in LoopWorkers /\ worker'.pc = "preview" /\ run' = run
    BY <1>t, <1>3 DEF IntakeEnded, GoTo, LoopWorkers, TakenIn
  <2>3. Intaken'
    BY <1>i, <1>3, <2>1 DEF Intaken
  <2>4. LoopTypes' /\ BatchTaken'
    BY <2>1, <2>2, <2>3 DEF LoopInv, LoopTypes, BatchTaken, TakingIn, TakenIn
  <2> QED BY <1>i, <2>1, <2>2, <2>4, LoopKept DEF Waiting
<1> QED BY <1>2, <1>3

-------------------------------------------------------------------------------
(* The cleanups that the loop starts and waits for.                          *)

\* The row of a cleanup that is committed now is later than every row the batch knows.
LEMMA StartsStep ==
  ASSUME LoopInv, NEW start, NEW pc, NEW next, StartsCleanup(start, pc, next),
         <<pc, next>> \in {<<"preview", "previewing">>, <<"execute", "executing">>,
                           <<"final", "checking">>},
         CheckStart(Loop, start) => IInv'
  PROVE  LoopInv'
<1>t. worker \in LoopWorkers /\ worker.pc = pc /\ pc \in TakenIn /\ next \in TakenIn
  BY DEF LoopInv, LoopTypes, StartsCleanup, Pc, TakenIn
<1>1. CASE CheckStart(Loop, start) /\ UNCHANGED loopVars
  <2>1. PlansKept
    BY <1>1, SamePlans DEF LoopInv, CheckStart
  <2> QED BY <1>1, <2>1, LoopFrame DEF CheckStart, outside, loopVars
<1>2. CASE /\ starts[Loop] # {} /\ Insert(Loop)
           /\ worker' = [worker EXCEPT !.pc = next, !.id = Len(rows) + 1]
           /\ UNCHANGED <<run, batch>>
  <2>1. IInv' /\ PlansKept /\ Len(rows') = Len(rows) + 1
    BY <1>2, InsertStep, InsertPlans, LoopAssumption DEF LoopInv
  <2>2. Len(rows) \in Nat /\ DOMAIN rows' = 1..Len(rows')
    BY <2>1, RowsTyped DEF LoopInv, IInv, TableInv, RowsOK
  <2>3. worker' \in LoopWorkers /\ worker'.pc = next /\ worker'.id = Len(rows) + 1
    <3> DEFINE id == Len(rows) + 1
    <3>1. id \in Nat /\ worker' = [worker EXCEPT !.pc = next, !.id = id]
      BY <1>2, <2>2
    <3> HIDE DEF id
    <3>2. worker' \in LoopWorkers /\ worker'.pc = next /\ worker'.id = id
      BY <1>t, <3>1 DEF LoopWorkers
    <3> QED BY <3>2 DEF id
  <2>4. Len(rows) + 1 \in DOMAIN rows' /\ Len(rows) + 1 > batch.dry
    BY <2>1, <2>2 DEF LoopInv, FinalSeen
  <2>5. LoopTypes'
    BY <1>2, <2>3 DEF LoopInv, LoopTypes
  <2>6. next \notin TakingIn
    BY DEF TakingIn
  <2>7. BatchTaken'
    BY <1>t, <1>2, <2>3, <2>6 DEF LoopInv, BatchTaken, Intaken, Insert, outside
  <2> QED BY <1>2, <2>1, <2>3, <2>4, <2>5, <2>7, LoopKept
<1> QED BY <1>1, <1>2 DEF StartsCleanup

LEMMA StartStep ==
  ASSUME LoopInv, StartPreview \/ StartExecution \/ StartFinal
  PROVE  LoopInv'
<1>1. CheckStart(Loop, NoStart) => IInv'
  BY CheckStep, LoopAssumption DEF CheckDryRun, LoopInv
<1>2. CASE StartPreview
  BY <1>1, <1>2, StartsStep DEF StartPreview
<1>3. CASE StartFinal
  BY <1>1, <1>3, StartsStep DEF StartFinal
<1>4. CASE StartExecution
  <2> DEFINE start == [dry |-> FALSE, auth |-> worker.id]
  <2>1. ASSUME CheckStart(Loop, start) PROVE IInv'
    <3>1. starts[Loop] = {}
      BY <2>1 DEF CheckStart
    <3>2. worker.pc = "execute" /\ Authorizes(worker.id)
      BY <1>4, <3>1 DEF StartExecution
    <3>3. worker.id \in DOMAIN rows
      BY <3>2 DEF LoopInv, FinalSeen
    <3>4. CheckExecution(Loop)
      BY <2>1, <3>2, <3>3 DEF CheckExecution
    <3> QED BY <3>4, CheckStep, LoopAssumption DEF LoopInv
  <2>2. StartsCleanup(start, "execute", "executing")
    BY <1>4 DEF StartExecution
  <2> HIDE DEF start
  <2> QED BY <2>1, <2>2, StartsStep
<1> QED BY <1>2, <1>3, <1>4

LEMMA PreviewedStep ==
  ASSUME LoopInv, Previewed
  PROVE  LoopInv'
<1>t. /\ run \in LoopRuns /\ batch \in LoopBatches /\ worker \in LoopWorkers
      /\ worker.pc = "previewing" /\ worker.id \in DOMAIN rows
  BY DEF LoopInv, LoopTypes, FinalSeen, Previewed, Ended, Pc
<1>i. IInv' /\ PlansKept /\ prov' = prov /\ rows' = rows
  BY NextIInv, SamePlans DEF LoopInv, Previewed, vars
<1>1. /\ batch' \in LoopBatches /\ batch'.status = "review" /\ batch'.dry = worker.id
      /\ batch'.files = batch.files /\ batch'.asset = batch.asset
  BY <1>t DEF Previewed, LoopBatches, LoopWorkers
<1>2. run' \in LoopRuns /\ run'.stop = "review"
  BY <1>t DEF Previewed, LoopRuns
<1>3. /\ worker' \in LoopWorkers /\ worker'.pc \in {"execute", "pausing", "idle"}
      /\ worker'.pc = "execute" => worker'.id = worker.id
  <2>1. run.mode \in {"auto", "script", "page"}
    BY <1>t DEF LoopRuns
  <2>2. CASE run.mode = "auto"
    BY <1>t, <2>2 DEF Previewed, LoopWorkers, TakenIn
  <2>3. CASE run.mode = "page"
    BY <2>3 DEF Previewed, LoopWorkers, TakenIn, Idle
  <2>4. CASE run.mode = "script"
    BY <2>4 DEF Previewed, LoopWorkers, Idle
  <2> QED BY <2>1, <2>2, <2>3, <2>4
<1>4. Intaken /\ (Intaken' <=> Intaken)
  BY <1>t, <1>i, <1>1 DEF LoopInv, BatchTaken, TakenIn, Intaken
<1>5. LoopTypes' /\ BatchTaken'
  BY <1>1, <1>2, <1>3, <1>4 DEF LoopTypes, BatchTaken, TakingIn
<1>6. FinalSeen'
  <2>1. worker.id \in 0..Len(rows')
    BY <1>t, <1>i, RowsTyped DEF LoopInv
  <2> QED BY <1>t, <1>i, <1>1, <1>3, <2>1 DEF FinalSeen
<1> QED BY <1>i, <1>5, <1>6 DEF LoopInv

\* The page's thread writes that the run waits for the user, who can no longer continue it.
LEMMA PausePageStep ==
  ASSUME LoopInv, PausePage
  PROVE  LoopInv'
<1>1. UNCHANGED vars /\ FinishRun("paused", "manual") /\ batch' = batch
  BY DEF PausePage
<1> QED BY <1>1, EndStep

\* A run that is continued has a batch that was taken in, or has lost the right to.
LEMMA ContinueStep ==
  ASSUME LoopInv, NEW d \in DOMAIN rows, Continue(d)
  PROVE  LoopInv'
<1>t. /\ run \in LoopRuns /\ batch \in LoopBatches /\ d \in Nat
      /\ d \in 0..Len(rows)
  BY RowsTyped DEF LoopInv, LoopTypes
<1>i. IInv' /\ PlansKept /\ prov' = prov /\ rows' = rows
  BY NextIInv, SamePlans DEF LoopInv, Continue, vars
<1>1. Intaken /\ batch.status # "completed"
  <2>1. /\ run.status \in {"paused", "blocked"} /\ run.stop \in {"none", "review", "recovery"}
        /\ batch.status \in {"review", "blocked"}
    BY DEF Continue, Supported
  <2> QED BY <2>1 DEF LoopInv, BatchTaken
<1>2. worker' \in LoopWorkers /\ worker'.pc = "execute" /\ worker'.id = d
  BY <1>t DEF Continue, Idle, LoopWorkers, TakenIn
<1>3. /\ batch' \in LoopBatches /\ batch'.status # "completed" /\ batch'.dry = d
      /\ batch'.files = batch.files /\ batch'.asset = batch.asset
      /\ run' \in LoopRuns /\ (run'.stop = "none" => run'.status \in {"none", "running"})
  <2>1. CASE batch.dry = d /\ UNCHANGED <<run, batch>>
    BY <1>t, <1>1, <2>1 DEF LoopInv, BatchTaken
  <2>2. CASE /\ batch' = [batch EXCEPT !.dry = d, !.status = "review"]
             /\ run' = [run EXCEPT !.status = "paused", !.stop = "review"]
    BY <1>t, <2>2 DEF LoopBatches, LoopRuns
  <2> QED BY <2>1, <2>2 DEF Continue
<1>4. Intaken'
  BY <1>i, <1>1, <1>3 DEF Intaken
<1>5. LoopTypes' /\ BatchTaken'
  BY <1>2, <1>3, <1>4 DEF LoopTypes, BatchTaken, TakingIn
<1>6. FinalSeen'
  BY <1>t, <1>i, <1>2, <1>3 DEF FinalSeen
<1> QED BY <1>i, <1>5, <1>6 DEF LoopInv

\* A consumed or expired preview leads to the final dry run as an executed one does.
LEMMA ToFinalStep ==
  ASSUME LoopInv, Recover \/ Executed
  PROVE  LoopInv'
<1>1. worker \in LoopWorkers /\ worker.pc \in {"execute", "executing"}
  BY DEF LoopInv, LoopTypes, Recover, Executed, Ended, Pc
<1>2. worker' \in LoopWorkers /\ worker'.pc = "final"
  BY <1>1 DEF Recover, Executed, GoTo, LoopWorkers, TakenIn
<1>3. UNCHANGED <<vars, run, batch>>
  BY DEF Recover, Executed
<1> QED BY <1>1, <1>2, <1>3, GoStep DEF TakingIn, TakenIn, Waiting

LEMMA FinalGivesUpStep ==
  ASSUME LoopInv, FinalGivesUp
  PROVE  LoopInv'
<1>1. /\ worker' \in LoopWorkers /\ worker'.pc = "idle"
      /\ UNCHANGED <<vars, run, batch>>
  BY DEF FinalGivesUp, Idle, LoopWorkers
<1> QED BY <1>1, GoStep DEF TakingIn, TakenIn, Waiting

\* A batch is completed by the row it waited for, which came after its review and whose plan is
\* empty and final.
LEMMA CompleteStep ==
  ASSUME LoopInv, Complete
  PROVE  LoopInv'
<1>t. /\ run \in LoopRuns /\ batch \in LoopBatches /\ worker.pc = "checking"
      /\ worker.id \in DOMAIN rows /\ worker.id > batch.dry /\ worker.id \in Nat
  BY DEF LoopInv, LoopTypes, LoopWorkers, FinalSeen, Complete, Ended, Pc
<1>i. IInv' /\ PlansKept /\ prov' = prov /\ UNCHANGED <<rows, threads>>
  BY NextIInv, SamePlans DEF LoopInv, Complete, vars
<1>1. /\ batch' \in LoopBatches /\ batch'.status = "completed" /\ batch'.dry = batch.dry
      /\ batch'.files = batch.files /\ batch'.asset = batch.asset
      /\ batch'.final = worker.id
  BY <1>t DEF Complete, LoopBatches
<1>2. run' \in LoopRuns /\ run'.status = "running" /\ run'.stop = "none"
  <2>1. batch.files \in SUBSET Files
    BY <1>t DEF LoopBatches
  <2>2. IsFiniteSet(batch.files)
    BY <2>1, LoopAssumption, FS_Subset
  <2>3. Counted \in Nat
    BY <2>2, FS_CardinalityType DEF Counted
  <2> DEFINE done == run.done + Counted
  <2>4. run.done \in Nat /\ done \in Nat
    BY <1>t, <2>3 DEF LoopRuns
  <2>5. run' = [run EXCEPT !.status = "running", !.stop = "none", !.done = done]
    BY DEF Complete
  <2> HIDE DEF done
  <2> QED BY <1>t, <2>4, <2>5 DEF LoopRuns
<1>3. worker' \in LoopWorkers /\ worker'.pc \in {"idle", "next"}
  BY DEF Complete, Idle, LoopWorkers
<1>4. Intaken'
  <2>1. Intaken
    BY <1>t DEF LoopInv, BatchTaken, TakenIn
  <2> QED BY <1>i, <1>1, <2>1 DEF Intaken
<1>5. LoopTypes' /\ BatchTaken'
  BY <1>1, <1>2, <1>3, <1>4 DEF LoopTypes, BatchTaken, TakingIn
<1>6. rows[worker.id].manifest = Unplanned /\ Planned(threads[worker.id])
  <2>1. rows[worker.id].manifest = Unplanned /\ rows[worker.id].status = "completed"
    BY DEF Complete, SeenClean
  <2>2. RowOK(rows[worker.id], threads[worker.id])
    BY <1>t, OneRow DEF LoopInv
  <2> QED BY <2>1, <2>2 DEF RowOK, Active
<1>7. FinalSeen'
  BY <1>t, <1>i, <1>1, <1>3, <1>6 DEF LoopInv, FinalSeen, Unplanned, Planned
<1> QED BY <1>i, <1>5, <1>7 DEF LoopInv

\* The run ends, completed or refused.
LEMMA EndsStep ==
  ASSUME LoopInv,
         \/ LimitReached \/ NextRefused \/ NothingNew \/ VerifyFails \/ PreviewNotSafe
         \/ ContinueRefused \/ FinalDirty
  PROVE  LoopInv'
<1>1. CASE LimitReached \/ NextRefused \/ NothingNew
  <2>1. UNCHANGED vars /\ batch' = batch
        /\ \E status \in {"completed", "blocked"} : FinishRun(status, "other")
    BY <1>1 DEF LimitReached, NextRefused, NothingNew
  <2> QED BY <2>1, EndStep
<1>2. CASE VerifyFails \/ PreviewNotSafe \/ ContinueRefused
  <2>1. UNCHANGED vars /\ batch' = [batch EXCEPT !.status = "blocked"]
        /\ FinishRun("blocked", "other")
    BY <1>2 DEF VerifyFails, PreviewNotSafe, ContinueRefused, BlockBatch
  <2> QED BY <2>1, EndStep
<1>3. CASE FinalDirty
  <2>1. Intaken
    BY <1>3 DEF FinalDirty, Ended, Pc, LoopInv, BatchTaken, TakenIn
  <2>2. UNCHANGED vars /\ batch' = [batch EXCEPT !.status = "blocked"]
        /\ \E stop \in {"other", "recovery"} : FinishRun("blocked", stop)
    BY <1>3 DEF FinalDirty, BlockBatch
  <2> QED BY <2>1, <2>2, EndStep
<1> QED BY <1>1, <1>2, <1>3

LEMMA FailsBatchStep ==
  ASSUME LoopInv,
         IntakeRefused \/ PreviewFails \/ ExecutionRefused \/ ExecutionFails
  PROVE  LoopInv'
<1>1. UNCHANGED vars /\ FailBatch
  BY DEF IntakeRefused, PreviewFails, ExecutionRefused, ExecutionFails
<1>2. IInv' /\ PlansKept
  BY <1>1, NextIInv, SamePlans DEF LoopInv, vars
<1> QED BY <1>1, <1>2, FailedBatch

-------------------------------------------------------------------------------
(* The user, the cleanup's threads and the faults leave the run alone.       *)

LEMMA UserStep ==
  ASSUME LoopInv, UserCleanup
  PROVE  LoopInv'
<1>1. User \in Callers
  BY LoopAssumption
<1>2. CASE CheckDryRun(User) \/ CheckExecution(User)
  <2>1. UNCHANGED <<outside, rows, threads>>
    BY <1>2 DEF CheckDryRun, CheckExecution, CheckStart
  <2>2. IInv' /\ PlansKept
    BY <1>1, <1>2, <2>1, CheckStep, SamePlans DEF LoopInv
  <2> QED BY <2>1, <2>2, LoopFrame DEF UserCleanup, loopVars, outside
<1>3. CASE Insert(User)
  <2>1. IInv' /\ PlansKept
    BY <1>1, <1>3, InsertStep, InsertPlans DEF LoopInv
  <2> QED BY <1>3, <2>1, LoopFrame DEF UserCleanup, Insert, loopVars, outside
<1> QED BY <1>2, <1>3 DEF UserCleanup

LEMMA UserWritesStep ==
  ASSUME LoopInv, NEW f \in Files, NEW c \in Contents \cup {NoContent}, UserWrites(f, c)
  PROVE  LoopInv'
<1>1. Write(f, c) /\ UNCHANGED loopVars
  BY DEF UserWrites
<1>2. IInv'
  BY <1>1, OutsideStep DEF Outside, LoopInv
<1>3. PlansKept
  BY <1>1, RacedPlans DEF Write, LoopInv
<1> QED BY <1>1, <1>2, <1>3, LoopFrame DEF Write, loopVars

LEMMA CleanupThreadStep ==
  ASSUME LoopInv, NEW r \in DOMAIN rows, CleanupThread(r)
  PROVE  LoopInv'
<1> DEFINE Step ==
      \/ Run(r) \/ PlanDryRun(r) \/ PlanExecution(r) \/ PlanRefused(r)
      \/ Revalidate(r) \/ Unlink(r) \/ UnlinkFails(r)
      \/ FinalReport(r) \/ FinalReportFails(r) \/ Finish(r) \/ Fails(r) \/ Dies(r)
      \/ Reconcile(r) \/ Expire(r)
<1>1. Step /\ UNCHANGED loopVars
  BY DEF CleanupThread
<1>2. IInv'
  <2>1. Next
    BY <1>1 DEF Next, Cleanup
  <2> QED BY <2>1, NextIInv DEF LoopInv
<1>3. PlansKept
  BY <1>1, ThreadPlans DEF LoopInv
<1>4. prov' = prov
  BY <1>1 DEF Run, PlanDryRun, PlanExecution, PlanRefused, Revalidate, Unlink, UnlinkFails,
     FinalReport, FinalReportFails, Finish, Fails, Dies, Reconcile, Expire, outside
<1> QED BY <1>1, <1>2, <1>3, <1>4, LoopFrame DEF loopVars

LEMMA FaultStep ==
  ASSUME LoopInv, RestartAll \/ WorkerDies
  PROVE  LoopInv'
<1>1. CASE RestartAll
  <2>1. IInv' /\ PlansKept
    BY <1>1, RestartStep, RestartPlans DEF RestartAll, LoopInv
  <2> QED BY <1>1, <2>1, LoopFrame DEF RestartAll, Restart
<1>2. CASE WorkerDies
  <2>1. /\ UNCHANGED <<staged, vault, prov, evidence, rows, threads, lost, changes>>
        /\ starts' = [starts EXCEPT ![Loop] = {}] /\ UNCHANGED <<run, batch>> /\ worker' = Idle
    BY <1>2 DEF WorkerDies
  <2>2. OutsideOK'
    BY <1>2, BoundsAssumption DEF WorkerDies, LoopInv, IInv, OutsideOK
  <2>3. RowsOK' /\ Linked' /\ Kept'
    BY <2>1 DEF LoopInv, IInv, TableInv, RowsOK, Linked, Follows, AuthorizedOnce, Kept, KeptBy
  <2>4. Pending'
    <3>1. /\ starts \in [Callers -> SUBSET Starts] /\ Starts' = Starts /\ Loop \in Callers
      BY <2>1, LoopAssumption DEF LoopInv, IInv, TableInv, Pending, Starts
    <3>2. \A c \in Callers : starts'[c] = IF c = Loop THEN {} ELSE starts[c]
      BY <2>1, <3>1
    <3>3. starts' \in [Callers -> SUBSET Starts']
      BY <2>1, <3>1
    <3> QED BY <2>1, <3>2, <3>3 DEF LoopInv, IInv, TableInv, Pending
  <2>5. IInv' /\ PlansKept
    BY <2>1, <2>2, <2>3, <2>4, SamePlans DEF LoopInv, IInv, TableInv
  <2> QED BY <2>1, <2>5, LoopFrame
<1> QED BY <1>1, <1>2

-------------------------------------------------------------------------------
(* The theorems.                                                             *)

LEMMA LoopInitInv == LoopInit => LoopInv
<1> SUFFICES ASSUME LoopInit PROVE LoopInv
  OBVIOUS
<1>1. IInv
  BY InitIInv DEF LoopInit
<1>2. LoopTypes
  <2>1. NoRun \in LoopRuns
    BY DEF NoRun, LoopRuns
  <2>2. NoBatch \in LoopBatches
    BY DEF NoBatch, LoopBatches
  <2>3. Idle \in LoopWorkers
    BY DEF Idle, LoopWorkers
  <2> QED BY <2>1, <2>2, <2>3 DEF LoopInit, LoopTypes
<1>3. BatchTaken
  BY DEF LoopInit, BatchTaken, NoRun, NoBatch, Idle, TakingIn, TakenIn
<1>4. FinalSeen
  <2>1. 0 \in 0..Len(rows)
    BY <1>1, RowsTyped
  <2> QED BY <2>1 DEF LoopInit, FinalSeen, NoBatch, Idle
<1> QED BY <1>1, <1>2, <1>3, <1>4 DEF LoopInv

LEMMA LoopNextInv == LoopInv /\ [LoopNext]_allVars => LoopInv'
<1> SUFFICES ASSUME LoopInv, [LoopNext]_allVars PROVE LoopInv'
  OBVIOUS
<1>1. CASE ~Cleaning /\ LoopStep
  <2>1. ASSUME NEW mode \in {"auto", "script", "page"}, NEW limit \in TotalLimits,
               Begin(mode, limit)
        PROVE  LoopInv'
    BY <2>1, BeginStep
  <2>2. CASE \/ LimitReached \/ NextRefused \/ NothingNew \/ VerifyFails \/ PreviewNotSafe
             \/ ContinueRefused \/ FinalDirty
    BY <2>2, EndsStep
  <2>3. CASE IntakeRefused \/ PreviewFails \/ ExecutionRefused \/ ExecutionFails
    BY <2>3, FailsBatchStep
  <2>4. CASE NextBatch \/ Verify \/ Previewed \/ PausePage \/ Complete
    BY <2>4, NextBatchStep, VerifyStep, PreviewedStep, PausePageStep, CompleteStep
  <2>5. CASE Acquire \/ AcquireFails \/ IntakeLooks \/ IntakeBegins \/ IntakeEnded
    BY <1>1, <2>5, AcquireStep, AcquireFailsStep, IntakeLooksStep, IntakeBeginsStep,
       IntakeEndedStep
  <2>6. ASSUME NEW f \in Files, IntakeTakes(f) PROVE LoopInv'
    BY <1>1, <2>6, IntakeTakesStep
  <2>7. ASSUME NEW d \in DOMAIN rows, Continue(d) PROVE LoopInv'
    BY <2>7, ContinueStep
  <2>8. CASE StartPreview \/ StartExecution \/ StartFinal
    BY <2>8, StartStep
  <2>9. CASE Recover \/ Executed \/ FinalGivesUp
    BY <2>9, ToFinalStep, FinalGivesUpStep
  <2> QED BY <1>1, <2>1, <2>2, <2>3, <2>4, <2>5, <2>6, <2>7, <2>8, <2>9 DEF LoopStep
<1>2. CASE UserCleanup
  BY <1>2, UserStep
<1>3. ASSUME NEW f \in Files, NEW c \in Contents \cup {NoContent}, UserWrites(f, c)
      PROVE  LoopInv'
  BY <1>3, UserWritesStep
<1>4. ASSUME NEW r \in DOMAIN rows, CleanupThread(r) PROVE LoopInv'
  BY <1>4, CleanupThreadStep
<1>5. CASE RestartAll \/ WorkerDies
  BY <1>5, FaultStep
<1>6. CASE UNCHANGED allVars
  <2>1. IInv' /\ PlansKept
    BY <1>6, NextIInv, SamePlans DEF allVars, vars, LoopInv
  <2> QED BY <1>6, <2>1, LoopFrame DEF allVars, vars, loopVars
<1> QED BY <1>1, <1>2, <1>3, <1>4, <1>5, <1>6 DEF LoopNext

\* The run, its batch and the rows of its cleanups fit together, whatever is refused, killed
\* or continued.
THEOREM LoopInvariant == LoopSpec => []LoopInv
  BY LoopInitInv, LoopNextInv, PTL DEF LoopSpec

\* A completed batch is whole and was seen clean: every file of it has an asset and a
\* provenance row, and a dry run later than the one of the review found nothing, whether the
\* loop, a continued run or the recovery completed it.
THEOREM CompletedBatchIsSafeCorrect == LoopSpec => []CompletedBatchIsSafe
<1>1. LoopInv => CompletedBatchIsSafe
  BY DEF LoopInv, BatchTaken, FinalSeen, CompletedBatchIsSafe, Intaken
<1> QED BY <1>1, LoopInvariant, PTL

\* What the cleanup promises holds under the loop: acquisition and intake by the loop, and
\* the death of its worker, lose no file that the vault has not.
THEOREM LoopLosesNothing == LoopSpec => [](NothingLost /\ AuthorizedOnce)
<1>1. LoopInv => NothingLost /\ AuthorizedOnce
  BY Implied DEF LoopInv
<1> QED BY <1>1, LoopInvariant, PTL
===============================================================================
