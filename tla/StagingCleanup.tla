---------------------------- MODULE StagingCleanup ----------------------------
(***************************************************************************)
(* The cleanup of the local iCloud staging folder of a source              *)
(* (services/admin/icloud_staging_cleanup_execution_service.py).  A dry    *)
(* run plans which staged files may go, because the vault has a whole copy *)
(* of what they hold; an execution consumes one dry run, plans again,      *)
(* stops when the plan has changed, and then looks at each file once more  *)
(* before it removes it.  Each is a row and a thread; a report file says   *)
(* how far a thread came, and the rows are repaired from it.               *)
(*                                                                         *)
(* A start holds the lock for the start of ingestion operations            *)
(* (services/admin/ingestion_operation_guardrail_service.py).  The user,   *)
(* acquisition, Source Intake and the disk change files meanwhile.         *)
(*                                                                         *)
(* The plan is read in one step: a file that changes after it was read and *)
(* before the plan is whole is, for the plan, a file that changes after.   *)
(* The reasons of a verdict are kept by category.                          *)
(*                                                                         *)
(* Left out: counters and samples, the audit journal, other sources.       *)
(***************************************************************************)
EXTENDS Integers, Sequences, FiniteSets

CONSTANTS
  Files,       \* relative paths under the staging root
  Contents,    \* what a file can hold: its hash
  NoContent,   \* no file at this path
  Callers,     \* sessions that start cleanups
  MaxRuns,     \* bounds the rows
  MaxChanges,  \* bounds the changes from outside
  MaxFaults    \* bounds restarts and dead threads

ASSUME ContentsAssumption == NoContent \notin Contents
ASSUME BoundsAssumption   == MaxRuns \in Nat /\ MaxChanges \in Nat /\ MaxFaults \in Nat

VARIABLES
  \* the disk and the assets
  staged,      \* the file at a path, or NoContent
  vault,       \* the contents of which the vault has a whole file and the database an asset
  prov,        \* the asset hashes of the provenance rows of a path
  evidence,    \* paths that a report calls failed or deferred
  intake,      \* a Source Intake: "no", "clear" (it found nothing active), "active"
  \* the cleanup
  rows,        \* its rows, in the order of their ids
  threads,     \* the thread of each row
  starts,      \* per caller: the start it has checked and not yet committed
  lost,        \* files removed though the vault had no whole copy
  changes,     \* changes so far
  faults       \* faults so far

vars    == <<staged, vault, prov, evidence, intake, rows, threads, starts, lost, changes, faults>>
outside == <<staged, vault, prov, evidence, intake, changes>>

Active == {"pending", "running"}
Done   == {"completed", "completed_with_errors", "failed"}

NoActive == \A r \in DOMAIN rows : rows[r].status \notin Active
NoStart  == [dry |-> TRUE, auth |-> 0]
Gone     == [pc |-> "gone", file |-> {}, left |-> {}, fresh |-> FALSE, raced |-> FALSE,
             issues |-> FALSE, outcome |-> "failed"]

Absent    == [reason |-> "absent", content |-> NoContent]
Unplanned == [f \in Files |-> Absent]
Eligible(manifest) == {f \in Files : manifest[f].reason = "eligible"}

-------------------------------------------------------------------------------
(* The plan: a file may go when its only provenance is what it holds, the    *)
(* vault has that, and no report calls it failed or deferred.                *)

Reason(f) ==
  IF staged[f] = NoContent THEN "absent"
  ELSE IF prov[f] = {} THEN "protected"
  ELSE IF prov[f] # {staged[f]} \/ staged[f] \notin vault THEN "verification_failed"
  ELSE IF f \in evidence THEN "protected" ELSE "eligible"

Manifest == [f \in Files |->
  [reason |-> Reason(f), content |-> IF Reason(f) = "eligible" THEN staged[f] ELSE NoContent]]

\* Mutant: the vault is not looked at again before the removal.
ValidStaged(r, f) == staged[f] = rows[r].manifest[f].content

Valid(r, f) == staged[f] = rows[r].manifest[f].content /\ staged[f] \in vault

-------------------------------------------------------------------------------
Init ==
  /\ staged \in [Files -> Contents \cup {NoContent}]
  /\ \E saved \in SUBSET {f \in Files : staged[f] # NoContent} :
       /\ prov = [f \in Files |-> IF f \in saved THEN {staged[f]} ELSE {}]
       /\ vault = {staged[f] : f \in saved}
  /\ evidence = {} /\ intake = "no"
  /\ rows = <<>> /\ threads = <<>> /\ starts = [c \in Callers |-> {}]
  /\ lost = {} /\ changes = 0 /\ faults = 0

-------------------------------------------------------------------------------
(* A caller checks under the lock, and commits the row.                      *)

\* Mutant: a start does not take the lock.
NoLock == TRUE

LockFree == \A c \in Callers : starts[c] = {}

Authorizes(d) ==
  /\ rows[d].dry /\ rows[d].status = "completed"
  /\ ~rows[d].consumed /\ rows[d].fresh
  /\ Eligible(rows[d].manifest) # {}

CheckStart(c, start) ==
  /\ LockFree /\ starts[c] = {} /\ Len(rows) < MaxRuns
  /\ NoActive /\ intake # "active"
  /\ starts' = [starts EXCEPT ![c] = {start}]
  /\ UNCHANGED <<outside, rows, threads, lost, faults>>

CheckDryRun(c) == CheckStart(c, NoStart)

CheckExecution(c) == \E d \in DOMAIN rows :
  Authorizes(d) /\ CheckStart(c, [dry |-> FALSE, auth |-> d])

NewRow(start) ==
  [dry |-> start.dry, auth |-> start.auth, status |-> "pending", manifest |-> Unplanned,
   fresh |-> FALSE, consumed |-> FALSE, deleted |-> {}, report |-> "none"]

Consumed(start) ==
  IF start.dry THEN rows ELSE [rows EXCEPT ![start.auth].consumed = TRUE]

Insert(c) == \E start \in starts[c] :
  /\ rows' = Append(Consumed(start), NewRow(start))
  /\ threads' = Append(threads, [Gone EXCEPT !.pc = "start"])
  /\ starts' = [starts EXCEPT ![c] = {}]
  /\ UNCHANGED <<outside, lost, faults>>

-------------------------------------------------------------------------------
(* The thread of a row.                                                      *)

At(r, pc) == threads[r].pc = pc

Run(r) ==
  /\ At(r, "start")
  /\ rows' = [rows EXCEPT ![r].status = "running"]
  /\ threads' = [threads EXCEPT ![r].pc = "plan",
                   ![r].fresh = ~rows[r].dry /\ rows[rows[r].auth].fresh]
  /\ UNCHANGED <<outside, starts, lost, faults>>

PlanDryRun(r) ==
  /\ At(r, "plan") /\ rows[r].dry
  /\ rows' = [rows EXCEPT ![r].manifest = Manifest, ![r].report = "completed"]
  /\ threads' = [threads EXCEPT ![r].pc = "finish", ![r].outcome = "completed"]
  /\ UNCHANGED <<outside, starts, lost, faults>>

\* Mutant: an execution does not compare its plan with the one that was approved.
ApprovedAnyPlan(r) == threads[r].fresh /\ rows[rows[r].auth].consumed

Approved(r) ==
  threads[r].fresh /\ rows[rows[r].auth].consumed /\ rows[rows[r].auth].manifest = Manifest

\* Mutant: an execution does not keep the plan it follows.
PlanExecutionUnkept(r) ==
  /\ At(r, "plan") /\ ~rows[r].dry /\ Approved(r)
  /\ rows' = [rows EXCEPT ![r].report = "running"]
  /\ threads' = [threads EXCEPT ![r].pc = "check", ![r].left = Eligible(Manifest)]
  /\ UNCHANGED <<outside, starts, lost, faults>>

PlanExecution(r) ==
  /\ At(r, "plan") /\ ~rows[r].dry /\ Approved(r)
  /\ rows' = [rows EXCEPT ![r].manifest = Manifest, ![r].report = "running"]
  /\ threads' = [threads EXCEPT ![r].pc = "check", ![r].left = Eligible(Manifest)]
  /\ UNCHANGED <<outside, starts, lost, faults>>

PlanRefused(r) ==
  /\ At(r, "plan") /\ ~rows[r].dry /\ ~Approved(r)
  /\ rows' = [rows EXCEPT ![r].manifest = Manifest, ![r].report = "failed"]
  /\ threads' = [threads EXCEPT ![r].pc = "finish", ![r].outcome = "failed"]
  /\ UNCHANGED <<outside, starts, lost, faults>>

\* A candidate is looked at again.
Revalidate(r) == At(r, "check") /\ \E f \in threads[r].left :
  /\ \/ /\ Valid(r, f)
        /\ threads' = [threads EXCEPT ![r].pc = "unlink", ![r].file = {f},
                                      ![r].left = @ \ {f}, ![r].raced = FALSE]
     \/ /\ ~Valid(r, f)
        /\ threads' = [threads EXCEPT ![r].left = @ \ {f}, ![r].issues = TRUE]
  /\ UNCHANGED <<outside, rows, starts, lost, faults>>

Unlink(r) == At(r, "unlink") /\ \E f \in threads[r].file :
  /\ staged[f] # NoContent
  /\ staged' = [staged EXCEPT ![f] = NoContent]
  /\ rows' = [rows EXCEPT ![r].deleted = @ \cup {f}]
  /\ lost' = IF staged[f] \in vault \/ threads[r].raced THEN lost ELSE lost \cup {f}
  /\ threads' = [threads EXCEPT ![r].pc = "check", ![r].file = {}]
  /\ UNCHANGED <<vault, prov, evidence, intake, starts, changes, faults>>

\* The file is gone, or the system refuses.
UnlinkFails(r) ==
  /\ At(r, "unlink")
  /\ threads' = [threads EXCEPT ![r].pc = "check", ![r].file = {}, ![r].issues = TRUE]
  /\ UNCHANGED <<outside, rows, starts, lost, faults>>

Outcome(r) == IF threads[r].issues THEN "completed_with_errors" ELSE "completed"

FinalReport(r) ==
  /\ At(r, "check") /\ threads[r].left = {}
  /\ rows' = [rows EXCEPT ![r].report = Outcome(r)]
  /\ threads' = [threads EXCEPT ![r].pc = "finish", ![r].outcome = Outcome(r)]
  /\ UNCHANGED <<outside, starts, lost, faults>>

FinalReportFails(r) ==
  /\ At(r, "check") /\ threads[r].left = {}
  /\ threads' = [threads EXCEPT ![r].pc = "finish", ![r].outcome = "completed_with_errors"]
  /\ UNCHANGED <<outside, rows, starts, lost, faults>>

Finish(r) ==
  /\ At(r, "finish")
  /\ rows' = [rows EXCEPT ![r].status = threads[r].outcome,
                ![r].fresh = rows[r].dry /\ threads[r].outcome = "completed"]
  /\ threads' = [threads EXCEPT ![r] = Gone]
  /\ UNCHANGED <<outside, starts, lost, faults>>

\* An exception at any step.
Fails(r) ==
  /\ ~At(r, "gone") /\ faults < MaxFaults /\ faults' = faults + 1
  /\ rows' = [rows EXCEPT ![r].status =
                IF rows[r].deleted # {} THEN "completed_with_errors" ELSE "failed"]
  /\ threads' = [threads EXCEPT ![r] = Gone]
  /\ UNCHANGED <<outside, starts, lost>>

\* An exception whose handler fails as well: the row stays active.
Dies(r) ==
  /\ ~At(r, "gone") /\ faults < MaxFaults /\ faults' = faults + 1
  /\ threads' = [threads EXCEPT ![r] = Gone]
  /\ UNCHANGED <<outside, rows, starts, lost>>

-------------------------------------------------------------------------------
(* Rows are repaired from their reports, by the historical routine and at a  *)
(* restart; the dry run of a caller expires.                                 *)

Repaired(row) ==
  [row EXCEPT !.status = row.report, !.fresh = row.dry /\ row.report = "completed"]

Reconcile(r) ==
  /\ rows[r].status \in Active /\ rows[r].report \in Done
  /\ rows' = [rows EXCEPT ![r] = Repaired(@)]
  /\ UNCHANGED <<outside, threads, starts, lost, faults>>

\* Mutant: a restart takes an execution that had begun to remove files for completed.
ResetToCompleted(row) ==
  IF row.status \notin Active THEN row
  ELSE IF row.report # "none" THEN [row EXCEPT !.status = "completed"]
  ELSE [row EXCEPT !.status = "failed"]

Reset(row) ==
  IF row.status \notin Active THEN row
  ELSE IF row.report \in Done THEN Repaired(row)
  ELSE [row EXCEPT !.status = "failed"]

Restart ==
  /\ faults < MaxFaults /\ faults' = faults + 1
  /\ rows' = [r \in DOMAIN rows |-> Reset(rows[r])]
  /\ threads' = [r \in DOMAIN threads |-> Gone]
  /\ starts' = [c \in Callers |-> {}]
  /\ intake' = "no"
  /\ UNCHANGED <<staged, vault, prov, evidence, lost, changes>>

\* An execution may read when the dry run expires.
Expire(r) ==
  /\ rows[r].fresh /\ Eligible(rows[r].manifest) # {}
  /\ rows[r].consumed => \E s \in DOMAIN rows : rows[s].auth = r /\ At(s, "start")
  /\ rows' = [rows EXCEPT ![r].fresh = FALSE]
  /\ UNCHANGED <<outside, threads, starts, lost, faults>>

-------------------------------------------------------------------------------
(* What others do to files meanwhile.                                        *)

Change == changes < MaxChanges /\ changes' = changes + 1

\* The copies of f changed between the last look at it and its removal.
Raced(touched) == threads' = [r \in DOMAIN threads |->
  [threads[r] EXCEPT !.raced = @ \/ (threads[r].pc = "unlink" /\ threads[r].file \cap touched # {})]]

\* Acquisition or the user writes a file, or the user removes it.
Write(f, c) ==
  /\ Change /\ staged[f] # c
  /\ staged' = [staged EXCEPT ![f] = c]
  /\ Raced({f})
  /\ UNCHANGED <<vault, prov, evidence, intake, rows, starts, lost, faults>>

\* The vault's file of a content is lost or damaged.
Damage(c) ==
  /\ Change /\ c \in vault
  /\ vault' = vault \ {c}
  /\ Raced({f \in Files : staged[f] = c})
  /\ UNCHANGED <<staged, prov, evidence, intake, rows, starts, lost, faults>>

\* Source Intake looks for active operations, and starts without the lock.
IntakeChecks ==
  /\ intake = "no" /\ NoActive
  /\ intake' = "clear"
  /\ UNCHANGED <<staged, vault, prov, evidence, rows, threads, starts, lost, changes, faults>>

IntakeStarts ==
  /\ intake = "clear"
  /\ intake' = "active"
  /\ UNCHANGED <<staged, vault, prov, evidence, rows, threads, starts, lost, changes, faults>>

IntakeEnds ==
  /\ intake # "no"
  /\ intake' = "no"
  /\ UNCHANGED <<staged, vault, prov, evidence, rows, threads, starts, lost, changes, faults>>

IntakeSaves(f) ==
  /\ intake = "active" /\ staged[f] # NoContent /\ Change
  /\ vault' = vault \cup {staged[f]}
  /\ prov' = [prov EXCEPT ![f] = @ \cup {staged[f]}]
  /\ UNCHANGED <<staged, evidence, intake, rows, threads, starts, lost, faults>>

IntakeDefers(f) ==
  /\ intake = "active" /\ f \notin evidence /\ Change
  /\ evidence' = evidence \cup {f}
  /\ UNCHANGED <<staged, vault, prov, intake, rows, threads, starts, lost, faults>>

-------------------------------------------------------------------------------
Cleanup ==
  \/ \E c \in Callers : CheckDryRun(c) \/ CheckExecution(c) \/ Insert(c)
  \/ \E r \in DOMAIN rows :
       \/ Run(r) \/ PlanDryRun(r) \/ PlanExecution(r) \/ PlanRefused(r)
       \/ Revalidate(r) \/ Unlink(r) \/ UnlinkFails(r)
       \/ FinalReport(r) \/ FinalReportFails(r) \/ Finish(r) \/ Fails(r) \/ Dies(r)
       \/ Reconcile(r) \/ Expire(r)

Outside ==
  \/ \E f \in Files :
       \/ \E c \in Contents \cup {NoContent} : Write(f, c)
       \/ IntakeSaves(f) \/ IntakeDefers(f)
  \/ \E c \in Contents : Damage(c)
  \/ IntakeChecks \/ IntakeStarts \/ IntakeEnds

Next == Cleanup \/ Outside \/ Restart

Spec == Init /\ [][Next]_vars

-------------------------------------------------------------------------------
Starts    == {start \in [dry : BOOLEAN, auth : 0..Len(rows)] : start.dry <=> start.auth = 0}
Manifests == [Files -> [reason : {"absent", "protected", "verification_failed", "eligible"},
                        content : Contents \cup {NoContent}]]
Row    == [dry : BOOLEAN, auth : Nat, status : Active \cup Done, manifest : Manifests,
           fresh : BOOLEAN, consumed : BOOLEAN, deleted : SUBSET Files,
           report : {"none", "running"} \cup Done]
Thread == [pc : {"start", "plan", "check", "unlink", "finish", "gone"},
           file : SUBSET Files, left : SUBSET Files, fresh : BOOLEAN,
           raced : BOOLEAN, issues : BOOLEAN, outcome : Done]

\* The state has its type; the files of a cleanup are those of its plan.
CleanupTypeOK ==
  /\ staged \in [Files -> Contents \cup {NoContent}]
  /\ vault \subseteq Contents /\ prov \in [Files -> SUBSET Contents]
  /\ evidence \subseteq Files /\ intake \in {"no", "clear", "active"}
  /\ lost \subseteq Files /\ changes \in 0..MaxChanges /\ faults \in 0..MaxFaults
  /\ starts \in [Callers -> SUBSET Starts]
  /\ rows \in Seq(Row) /\ threads \in Seq(Thread) /\ Len(threads) = Len(rows)
  /\ \A r \in DOMAIN rows :
       /\ rows[r].dry <=> rows[r].auth = 0
       /\ rows[r].auth < r
       /\ rows[r].deleted \cup threads[r].left \cup threads[r].file
            \subseteq Eligible(rows[r].manifest)

\* A staged file is removed only when the vault has a whole copy of what it holds, unless one
\* of the two was changed in the moment between the last look and the removal
\* (_revalidate_candidate, _run_cleanup_background).
NothingLost == lost = {}

\* A dry run that a user has reviewed authorizes one execution
\* (start_cleanup_execution: authorization_consumed_at).
AuthorizedOnce == \A r, s \in DOMAIN rows :
  ~rows[r].dry /\ rows[r].auth = rows[s].auth => r = s

\* An execution removes only files that its dry run has shown, with the content it has shown
\* (_run_cleanup_background: the manifest fingerprints).
RemovesWhatWasShown == \A r \in DOMAIN rows : rows[r].deleted # {} =>
  /\ ~rows[r].dry
  /\ \A f \in rows[r].deleted :
       rows[rows[r].auth].manifest[f] = [reason |-> "eligible", content |-> rows[r].manifest[f].content]

\* An execution that says it is completed has removed every file of its plan, also when its
\* row was repaired from a report (_reconcile_row_from_terminal_report).
CompletedRemovedAll == \A r \in DOMAIN rows :
  ~rows[r].dry /\ rows[r].status = "completed" => rows[r].deleted = Eligible(rows[r].manifest)

===============================================================================
