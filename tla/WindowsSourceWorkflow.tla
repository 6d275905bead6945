------------------------- MODULE WindowsSourceWorkflow -------------------------
(***************************************************************************)
(* The Windows Source workflow (services/windows_helper/source_workflow.py *)
(* and services/source_acquisition/workflow.py): one parent that lists the *)
(* whole Source page by page, is approved once, and receives the approved  *)
(* files in bounded children, one acquisition run and one bridge each.     *)
(*                                                                         *)
(* One thread at a time works on a parent.  Each round of its loop opens a *)
(* session, reads the parent and advances it; an error ends the thread     *)
(* after it has written blocked or failed.  HTTP requests approve, resume  *)
(* or poll; each first reads the parent without a lock (ui_facade.py), and *)
(* the locked read that follows does not refresh that object.              *)
(*                                                                         *)
(* The child's run and bridge are abstract here: DurableReceiving and      *)
(* AcquisitionBridge are their modules.  An operation a crash separates    *)
(* from the page that was to name it is dropped: the reset at startup      *)
(* fails the inventory and nothing reads the operation again.              *)
(***************************************************************************)
EXTENDS Integers, Sequences, FiniteSets, SequencesExt

CONSTANTS
  Requests,    \* HTTP requests in flight at once
  Files,       \* the entries the helper may report
  Eligible,    \* those a run may acquire
  ChildLimit,  \* CHILD_CANDIDATE_LIMIT
  MaxEntries,  \* windows_inventory_max_entries
  MaxPages,    \* bound: pages of an inventory
  MaxFaults    \* bound: operations lost, intakes found busy, attestations expired

ASSUME WorkflowAssumption ==
  /\ IsFiniteSet(Files) /\ Eligible \subseteq Files
  /\ ChildLimit \in Nat \ {0}
  /\ MaxEntries \in Nat /\ MaxPages \in Nat \ {0} /\ MaxFaults \in Nat

VARIABLES
  \* windows_source_workflows
  state, approved, counts,
  \* windows_source_workflow_pages, _candidates (the eligible ones, by ordinal), _children
  pages, listed, children,
  \* source_acquisition_runs: what child_index -> run, by idempotency key, has reached
  runs,
  worker,      \* the thread of the parent: where it is, or "none"
  pc, seen,    \* each request, and the state its session has read
  faults

row   == <<state, approved, counts>>
proposal == <<pages, listed>>
vars  == <<state, approved, counts, pages, listed, children, runs, worker, pc, seen, faults>>

States == {"inventorying", "awaiting_confirmation", "running", "blocked", "completed", "failed"}
NoCounts == [children |-> 0, items |-> 0, new |-> 0, already |-> 0]

\* A page's operation: listing it, or first attesting the Source again.
NewPage(kind) == [kind |-> kind, op |-> "pending", items |-> {}, last |-> FALSE, done |-> FALSE]

NewRun(k, files) ==
  [key |-> k, files |-> files, state |-> "planned", dir |-> FALSE, ready |-> 0, op |-> FALSE,
   verifying |-> FALSE, attest |-> "none", bridge |-> "not_started", new |-> 0]

\* create_inventory_workflow has committed the parent and its first page and started the thread.
Init ==
  /\ state = "inventorying" /\ approved = FALSE /\ counts = NoCounts
  /\ pages = <<NewPage("page")>> /\ listed = <<>> /\ children = <<>>
  /\ runs = <<>>
  /\ worker = "loop"
  /\ pc = [q \in Requests |-> "idle"] /\ seen = [q \in Requests |-> "none"]
  /\ faults = 0

Fault == faults < MaxFaults /\ faults' = faults + 1

-----------------------------------------------------------------------------
(* The thread.                                                               *)

Raise(resumable) == worker' = IF resumable THEN "paused" ELSE "broken"

\* _worker_main: a new session reads the parent.
ReadParent ==
  /\ worker = "loop"
  /\ worker' = CASE state = "inventorying" -> "inventory"
                 [] state = "running" -> "execute"
                 [] OTHER -> "ending"
  /\ UNCHANGED <<row, proposal, children, runs, pc, seen, faults>>

\* Mutant: an error ends the thread and leaves the row as it is.
HandleErrorSilently ==
  /\ worker \in {"paused", "broken"}
  /\ worker' = "ending"
  /\ UNCHANGED <<row, proposal, children, runs, pc, seen, faults>>

\* The except branches, on the parent as the database has it now.  Only a thread that
\* has not returned yet runs them; a parent in blocked has no other.
HandleError ==
  /\ worker \in {"paused", "broken"}
  /\ worker' = "ending"
  /\ state' = IF state \in {"completed", "failed"} THEN state
              ELSE IF worker = "paused" /\ approved THEN "blocked" ELSE "failed"
  /\ UNCHANGED <<approved, counts, proposal, children, runs, pc, seen, faults>>

\* The finally branch: the thread is alive until it has taken itself off the list.
EndWorker ==
  /\ worker = "ending"
  /\ worker' = "none"
  /\ UNCHANGED <<row, proposal, children, runs, pc, seen, faults>>

\* start_or_resume_worker.
StartWorker == worker' = IF worker = "none" THEN "loop" ELSE worker

-----------------------------------------------------------------------------
(* _advance_inventory.                                                       *)

Current    == pages[Len(pages)]
SetPage(p) == pages' = [pages EXCEPT ![Len(pages)] = p]
Listed     == UNION {pages[i].items : i \in {j \in DOMAIN pages : pages[j].done}}

InInventory == worker = "inventory" /\ UNCHANGED <<children, runs, approved, pc, seen>>

WaitPage ==
  /\ InInventory /\ Current.op = "pending"
  /\ worker' = "loop"
  /\ UNCHANGED <<state, counts, proposal, faults>>

\* Mutant: a page is not compared with the pages before it.
RefusableAlone(p) ==
  \/ p.op \in {"lost", "invalid"}
  \/ p.op = "completed" /\ p.kind = "page" /\ ~p.done
     /\ Cardinality(Listed) + Cardinality(p.items) > MaxEntries

\* inventory_chain_interrupted, source_limit_exceeded or chain_ambiguous.
Refusable(p) ==
  \/ p.op \in {"lost", "invalid"}
  \/ p.op = "completed" /\ p.kind = "page" /\ ~p.done
     /\ (p.items \cap Listed # {} \/ Cardinality(Listed) + Cardinality(p.items) > MaxEntries)

RefuseInventory ==
  /\ InInventory /\ Refusable(Current)
  /\ Raise(FALSE)
  /\ UNCHANGED <<state, counts, proposal, faults>>

\* The Source was attested again: the page is asked for once more.
AskAgain ==
  /\ InInventory /\ Current.kind = "attest" /\ Current.op = "completed"
  /\ SetPage(NewPage("page"))
  /\ worker' = "loop"
  /\ UNCHANGED <<state, counts, listed, faults>>

\* The helper has asked for an attestation before it lists the page.
AttestAgain ==
  /\ InInventory /\ Current.op = "attestation_required"
  /\ SetPage(NewPage("attest"))
  /\ worker' = "loop"
  /\ UNCHANGED <<state, counts, listed, faults>>

AcceptPage ==
  /\ InInventory /\ Current.kind = "page" /\ Current.op = "completed" /\ ~Current.done
  /\ ~Refusable(Current)
  /\ SetPage([Current EXCEPT !.done = TRUE])
  /\ listed' = listed \o SetToSeq(Current.items \cap Eligible)
  /\ UNCHANGED <<state, counts, worker, faults>>

\* The operation of the next page, or an attestation when the last one has expired.
NextPage ==
  /\ InInventory /\ Current.done /\ ~Current.last
  /\ \/ pages' = Append(pages, NewPage("page")) /\ UNCHANGED faults
     \/ pages' = Append(pages, NewPage("attest")) /\ Fault
  /\ worker' = "loop"
  /\ UNCHANGED <<state, counts, listed>>

Propose ==
  /\ InInventory /\ Current.done /\ Current.last
  /\ state' = "awaiting_confirmation"
  /\ worker' = "loop"
  /\ UNCHANGED <<counts, proposal, faults>>

\* The receiving storage lacks the reserve.
RefuseCapacity ==
  /\ InInventory /\ Current.done /\ Current.last
  /\ Fault /\ Raise(FALSE)
  /\ UNCHANGED <<state, counts, proposal>>

Inventory ==
  \/ WaitPage \/ RefuseInventory \/ AskAgain \/ AttestAgain
  \/ AcceptPage \/ NextPage \/ Propose \/ RefuseCapacity

-----------------------------------------------------------------------------
(* _advance_execution and advance_source_acquisition_workflow.               *)

\* Mutant: a child that was started is taken for done.
Unstarted == {k \in DOMAIN children : children[k].state = "pending"}

Open == {k \in DOMAIN children : children[k].state # "completed"}
Child    == CHOOSE k \in Open : \A j \in Open : k <= j
RunIds(k) == {i \in DOMAIN runs : runs[i].key = k}

\* Mutant: the remainder has no child.
WholeChunkSizes(n) == [k \in 1 .. n \div ChildLimit |-> ChildLimit]

\* The bounded shape of the approved parent.
ChunkSizes(n) == [k \in 1 .. (n + ChildLimit - 1) \div ChildLimit |->
                    IF k * ChildLimit <= n THEN ChildLimit ELSE n - (k - 1) * ChildLimit]

ChunkFiles(k) == LET c == children[k] IN ToSet(SubSeq(listed, c.first, c.first + c.count - 1))

InExecution == /\ worker \in {"execute", "bound"}
               /\ UNCHANGED <<approved, proposal, pc, seen>>

FinishParent ==
  /\ InExecution /\ Open = {}
  /\ state' = "completed" /\ worker' = "loop"
  /\ UNCHANGED <<counts, children, runs, faults>>

\* Mutant: every call plans a new run, as with a random key.
PlanChildAnew ==
  /\ InExecution /\ Open # {} /\ children[Child].run = 0
  /\ runs' = Append(runs, NewRun(Child, ChunkFiles(Child)))
  /\ worker' = "planned"
  /\ UNCHANGED <<state, counts, children, faults>>

\* create_planned_child_run commits the run before the child row names it.
PlanChild ==
  /\ InExecution /\ Open # {} /\ children[Child].run = 0
  /\ runs' = IF RunIds(Child) # {} THEN runs ELSE Append(runs, NewRun(Child, ChunkFiles(Child)))
  /\ worker' = "planned"
  /\ UNCHANGED <<state, counts, children, faults>>

BindChild ==
  /\ worker = "planned"
  /\ \E i \in RunIds(Child) :
       children' = [children EXCEPT ![Child].run = i, ![Child].state = "running"]
  /\ worker' = "bound"
  /\ UNCHANGED <<row, proposal, runs, pc, seen, faults>>

\* The run of the child at hand, and the steps that change nothing else of the parent.
Run     == runs[children[Child].run]
AtRun   == InExecution /\ Open # {} /\ children[Child].run # 0
SetRun(r) == runs' = [runs EXCEPT ![children[Child].run] = r]
Receiving == AtRun /\ Run.state = "active"
Stay    == UNCHANGED <<state, counts, children>>

\* activate_run makes the directory, then commits; a directory that is there already
\* is a conflict (receiving_path_conflict).
ActivateDir ==
  /\ AtRun /\ Run.state = "planned" /\ ~Run.dir
  /\ SetRun([Run EXCEPT !.dir = TRUE])
  /\ worker' = "activating"
  /\ Stay /\ UNCHANGED faults

ActivateRun ==
  /\ worker = "activating"
  /\ SetRun([Run EXCEPT !.state = "active"])
  /\ worker' = "bound"
  /\ UNCHANGED <<row, proposal, children, pc, seen, faults>>

ActivationConflict ==
  /\ AtRun /\ Run.state = "planned" /\ Run.dir
  /\ Raise(FALSE)
  /\ Stay /\ UNCHANGED <<runs, faults>>

\* An operation or an attestation is with the helper.
WaitHelper ==
  /\ Receiving /\ (Run.op \/ Run.attest = "pending")
  /\ worker' = "loop"
  /\ Stay /\ UNCHANGED <<runs, faults>>

AttestChild ==
  /\ Receiving /\ ~Run.op /\ Run.attest = "none"
  /\ SetRun([Run EXCEPT !.attest = "pending"])
  /\ worker' = "loop"
  /\ Stay /\ UNCHANGED faults

\* Also without an attestation, for a helper that does not report the capability.
CreateAcquire ==
  /\ Receiving /\ ~Run.op /\ Run.attest \in {"none", "ready"} /\ ~Run.verifying
  /\ SetRun([Run EXCEPT !.op = TRUE])
  /\ worker' = "loop"
  /\ Stay /\ UNCHANGED faults

\* The attestation failed, or the item is in verifying and its operation is gone
\* (acquisition_state_inconsistent).
ReceivingStuck ==
  /\ Receiving /\ ~Run.op
  /\ (Run.attest = "failed" \/ (Run.verifying /\ Run.attest # "pending"))
  /\ Raise(FALSE)
  /\ Stay /\ UNCHANGED <<runs, faults>>

\* helper_offline, acquisition_operation_active or source_intake_already_running; or a
\* check of a service that fails.
Interrupted ==
  /\ AtRun /\ Run.state \in {"active", "completed"} /\ Run.bridge = "not_started"
  /\ Fault
  /\ \E resumable \in BOOLEAN : Raise(resumable)
  /\ Stay /\ UNCHANGED runs

\* plan_acquisition_bridge and execute_acquisition_bridge: completed at once when every
\* observation is reused.
StartBridge ==
  /\ AtRun /\ Run.state = "completed" /\ Run.bridge = "not_started"
  /\ \E b \in {"running", "completed"} : SetRun([Run EXCEPT !.bridge = b])
  /\ worker' = "bound"
  /\ Stay /\ UNCHANGED faults

WaitBridge ==
  /\ AtRun /\ Run.bridge = "running"
  /\ worker' = "loop"
  /\ Stay /\ UNCHANGED <<runs, faults>>

\* The number of failed items, which only the panel shows, is left out.
FailChild ==
  /\ AtRun /\ (Run.state = "failed" \/ Run.bridge = "failed")
  /\ state' = "failed"
  /\ worker' = "loop"
  /\ UNCHANGED <<counts, children, runs, faults>>

\* Mutant: a child that needed no intake is completed and not counted.
CompleteUncounted ==
  /\ AtRun /\ Run.bridge = "completed"
  /\ children' = [children EXCEPT ![Child].state = "completed"]
  /\ counts' = IF Run.new = 0 THEN counts
               ELSE [counts EXCEPT !.children = @ + 1, !.items = @ + Run.ready, !.new = @ + Run.new,
                                   !.already = @ + Cardinality(Run.files) - Run.new]
  /\ worker' = "loop"
  /\ UNCHANGED <<state, runs, faults>>

CompleteChild ==
  /\ AtRun /\ Run.bridge = "completed"
  /\ children' = [children EXCEPT ![Child].state = "completed"]
  /\ counts' = [counts EXCEPT !.children = @ + 1, !.items = @ + Run.ready, !.new = @ + Run.new,
                              !.already = @ + Cardinality(Run.files) - Run.new]
  /\ worker' = "loop"
  /\ UNCHANGED <<state, runs, faults>>

Execution ==
  \/ FinishParent \/ PlanChild \/ BindChild
  \/ ActivateDir \/ ActivateRun \/ ActivationConflict
  \/ WaitHelper \/ AttestChild \/ CreateAcquire \/ ReceivingStuck \/ Interrupted
  \/ StartBridge \/ WaitBridge \/ FailChild \/ CompleteChild

Work == ReadParent \/ Inventory \/ Execution \/ HandleError \/ EndWorker

-----------------------------------------------------------------------------
(* The helper, Source Intake and the process.                                *)

HelperLists ==
  /\ Current.op = "pending" /\ Current.kind = "page"
  /\ \E items \in SUBSET Files, last \in BOOLEAN :
       /\ Len(pages) = MaxPages => last
       /\ SetPage([Current EXCEPT !.op = "completed", !.items = items, !.last = last])
  /\ UNCHANGED <<row, listed, children, runs, worker, pc, seen, faults>>

HelperAttests ==
  /\ Current.op = "pending" /\ Current.kind = "attest"
  /\ SetPage([Current EXCEPT !.op = "completed"])
  /\ UNCHANGED <<row, listed, children, runs, worker, pc, seen, faults>>

\* The operation expires, fails, reports an error, or asks for an attestation.
PageLost ==
  /\ Current.op = "pending" /\ Fault
  /\ \E end \in {"lost", "invalid", "attestation_required"} :
       /\ end = "attestation_required" => Current.kind = "page"
       /\ SetPage([Current EXCEPT !.op = end])
  /\ UNCHANGED <<row, listed, children, runs, worker, pc, seen>>

RunStep(r) == /\ SetRun(r)
              /\ UNCHANGED <<row, proposal, children, worker, pc, seen>>
Bound == Open # {} /\ children[Child].run # 0

ChildAttested ==
  /\ Bound /\ Run.attest = "pending"
  /\ \/ RunStep([Run EXCEPT !.attest = "ready"]) /\ UNCHANGED faults
     \/ Fault /\ \E end \in {"none", "failed"} : RunStep([Run EXCEPT !.attest = end])

\* The last chunk is committed; then the item is verified and the operation completed.
ReceiveItem ==
  /\ Bound /\ Run.op
  /\ \/ ~Run.verifying /\ RunStep([Run EXCEPT !.verifying = TRUE])
     \/ Run.verifying /\ RunStep(
          [Run EXCEPT !.verifying = FALSE, !.op = FALSE, !.ready = @ + 1,
                      !.state = IF Run.ready + 1 = Cardinality(Run.files) THEN "completed"
                                ELSE "active"])
  /\ UNCHANGED faults

\* The operation is lost, the item fails, or the helper wants a fresh attestation.
ReceiveFails ==
  /\ Bound /\ Run.op /\ Fault
  /\ \/ RunStep([Run EXCEPT !.op = FALSE])
     \/ RunStep([Run EXCEPT !.op = FALSE, !.verifying = FALSE, !.state = "failed"])
     \/ ~Run.verifying /\ RunStep([Run EXCEPT !.op = FALSE, !.attest = "none"])

BridgeEnds ==
  /\ Bound /\ Run.bridge = "running"
  /\ \/ \E n \in 0 .. Cardinality(Run.files) :
          RunStep([Run EXCEPT !.bridge = "completed", !.new = n]) /\ UNCHANGED faults
     \/ RunStep([Run EXCEPT !.bridge = "failed"]) /\ Fault

Helper == HelperLists \/ HelperAttests \/ ChildAttested \/ ReceiveItem \/ BridgeEnds
Faulty == PageLost \/ ReceiveFails

\* The process stops; at startup the bridges and then the parents are reset
\* (reset_stale_acquisition_bridges, reset_interrupted_workflows).
Restart ==
  /\ worker' = "none"
  /\ pc' = [q \in Requests |-> "idle"] /\ seen' = [q \in Requests |-> "none"]
  /\ state' = CASE state = "inventorying" -> "failed"
                [] state = "running" -> "blocked"
                [] OTHER -> state
  /\ runs' = [i \in DOMAIN runs |-> IF runs[i].bridge = "running"
                                    THEN [runs[i] EXCEPT !.bridge = "failed"] ELSE runs[i]]
  /\ UNCHANGED <<approved, counts, proposal, children, faults>>

-----------------------------------------------------------------------------
(* Requests.                                                                 *)

\* advance_workflow reads the parent to see that it is one.  A request that reads another
\* state changes nothing and is left out.
BeginRequest(q) ==
  /\ pc[q] = "idle" /\ state \in {"awaiting_confirmation", "running", "blocked"}
  /\ pc' = [pc EXCEPT ![q] = "read"] /\ seen' = [seen EXCEPT ![q] = state]
  /\ UNCHANGED <<row, proposal, children, runs, worker, faults>>

\* approve_or_resume_workflow: the row is locked, and is the object read before.
Answer(q) ==
  /\ pc[q] = "read"
  /\ pc' = [pc EXCEPT ![q] = "idle"] /\ seen' = [seen EXCEPT ![q] = "none"]
  /\ UNCHANGED <<counts, proposal, runs, faults>>

\* Mutant: a confirmation that comes twice plans the children again.
ApproveAgain(q) ==
  /\ Answer(q) /\ seen[q] = "awaiting_confirmation"
  /\ LET sizes == ChunkSizes(Len(listed)) IN
     children' = [k \in DOMAIN sizes |-> [first |-> (k - 1) * ChildLimit + 1, count |-> sizes[k],
                                          state |-> "pending", run |-> 0]]
  /\ state' = "running" /\ approved' = TRUE
  /\ StartWorker

\* The unique child_index refuses a second approval with children.
Approve(q) ==
  /\ Answer(q) /\ seen[q] = "awaiting_confirmation" /\ children = <<>>
  /\ LET sizes == ChunkSizes(Len(listed)) IN
     children' = [k \in DOMAIN sizes |-> [first |-> (k - 1) * ChildLimit + 1, count |-> sizes[k],
                                          state |-> "pending", run |-> 0]]
  /\ state' = "running" /\ approved' = TRUE
  /\ StartWorker

\* It tries to start a thread twice, once for its answer (workflow_status).
Resume(q) ==
  /\ Answer(q) /\ seen[q] = "blocked"
  /\ state' = "running" /\ StartWorker
  /\ UNCHANGED <<approved, children>>

\* Nothing to change: an answer, or a refusal.
AnswerOnly(q) ==
  /\ Answer(q)
  /\ seen[q] # "blocked" /\ (seen[q] = "awaiting_confirmation" => children # <<>>)
  /\ IF seen[q] = "running" THEN StartWorker ELSE UNCHANGED worker
  /\ UNCHANGED <<state, approved, children>>

\* workflow_status and workflow_operation_status: a poll of the page that shows the run.
Poll ==
  /\ state \in {"inventorying", "running"} /\ StartWorker
  /\ UNCHANGED <<row, proposal, children, runs, pc, seen, faults>>

Reply(q)   == Approve(q) \/ Resume(q) \/ AnswerOnly(q)
Request(q) == BeginRequest(q) \/ Reply(q)

Next == Work \/ Helper \/ Faulty \/ Restart \/ Poll \/ \E q \in Requests : Request(q)

Spec == Init /\ [][Next]_vars

\* The thread runs on, and what is asked of the helper and of Source Intake is answered.
WorkSpec == Spec /\ WF_vars(Work) /\ WF_vars(Helper)
\* Somebody looks at the run from time to time.
PolledSpec == WorkSpec /\ WF_vars(Poll)

-----------------------------------------------------------------------------
(* Properties.                                                               *)

\* What is proposed, and so what is approved, is one unbroken chain of pages: every page
\* was read to its end, only the last one ends it, and no entry comes twice, whatever the
\* helper answered and however often a page was asked for again.
ProposalIsWhole ==
  state \notin {"inventorying", "failed"} =>
    /\ \A i \in DOMAIN pages : pages[i].done /\ (pages[i].last <=> i = Len(pages))
    /\ \A i, j \in DOMAIN pages : i # j => pages[i].items \cap pages[j].items = {}
    /\ Len(listed) = Cardinality(ToSet(listed))
    /\ ToSet(listed) = Listed \cap Eligible
    /\ Cardinality(Listed) <= MaxEntries

\* A child has one acquisition run, although the process may stop after the run is
\* committed and before the child names it.
OneRunPerChild ==
  \A k \in DOMAIN children :
    /\ Cardinality(RunIds(k)) <= 1
    /\ children[k].run # 0 => runs[children[k].run].key = k

\* A child is planned when the one before it has gone through Source Intake; no child
\* follows one that failed, whatever was resumed.
ChildrenInOrder ==
  \A i \in DOMAIN runs :
    \/ i = Len(runs)
    \/ runs[i].bridge = "completed" /\ runs[i].key = i

\* When the run is completed, the aggregate the panel shows adds up to the approved
\* proposal, each child counted once, although the thread that counts them may be
\* replaced after a restart at any step.
CompletedCountsAll ==
  state = "completed" =>
    /\ counts.children = Len(children) /\ counts.items = Len(listed)
    /\ counts.new + counts.already = Len(listed)

\* A completed run has taken every file of the approved proposal through one bridge.
EveryFileOnce ==
  state = "completed" =>
    \A f \in ToSet(listed) :
      \E i \in DOMAIN runs :
        /\ f \in runs[i].files /\ runs[i].bridge = "completed"
        /\ \A j \in DOMAIN runs : f \in runs[j].files => j = i

\* Completed children are never recreated or reopened, and nothing of an approved proposal
\* changes: not by a confirmation that comes twice, a resume or a restart.
CompletedChildKept ==
  [][/\ approved => approved' /\ proposal' = proposal
     /\ children # <<>> => DOMAIN children' = DOMAIN children
     /\ \A k \in DOMAIN children :
          children[k].state = "completed" => children'[k] = children[k]]_vars

\* An approved run that is running comes to an end or a pause.  Under PolledSpec, where
\* somebody asks for its status from time to time, this holds; under WorkSpec it does not:
\* a resume that finds the old thread about to return starts no other one.
ApprovedRunEnds == (state = "running") ~> (state # "running")

=============================================================================
