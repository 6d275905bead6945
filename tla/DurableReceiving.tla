--------------------------- MODULE DurableReceiving ---------------------------
(***************************************************************************)
(* Durable acquisition of the files of one Windows Source run into the     *)
(* Linux receiving directory (services/source_acquisition/receiving.py,    *)
(* activate_run in service.py, and the acquire_item part of                *)
(* services/windows_helper/operations.py).                                 *)
(*                                                                         *)
(* Two stores are written without a common transaction: the database rows  *)
(* (run, items, helper operations) and the files partial/<item>.part and   *)
(* ready/<item>.  A request handler runs in several steps, holds PostgreSQL *)
(* row locks between some of them, and may stop for good after any of them *)
(* (Abandon): an error reply, a lost connection or the death of the server *)
(* process all roll the database back and leave the files as they are.     *)
(*                                                                         *)
(* The Helper is any client that holds an operation: it may send any chunk *)
(* at any time, repeat requests, and report any digest.                    *)
(***************************************************************************)
EXTENDS Integers, Sequences, FiniteSets, FiniteSetsExt

CONSTANTS
  Items,      \* items selected for the run
  Size,       \* Size[i]: expected_size_bytes of item i, in units of storage
  Byte,       \* the values one unit of file content can take
  Ops,        \* rows of windows_helper_operations (bounds the retries)
  Handlers,   \* requests the server can be executing at the same time
  MaxChunk,   \* MAX_ACQUISITION_CHUNK_BYTES, in units
  None        \* no file, no item, no operation

ASSUME ItemsAssumption    == Items # {} /\ IsFiniteSet(Items) /\ None \notin Items
ASSUME SizeAssumption     == Size \in [Items -> Nat \ {0}]
ASSUME OpsAssumption      == None \notin Ops \cup Handlers
ASSUME ContentAssumption  == None \notin Seq(Byte)
ASSUME MaxChunkAssumption == MaxChunk \in Nat \ {0}

VARIABLES
  \* source_acquisition_runs
  runState,     \* state
  runRoot,      \* the run's receiving directory exists
  runCommitted, \* committed_byte_count
  readyCount,   \* ready_item_count
  failedCount,  \* failed_item_count
  \* source_acquisition_items
  itemState,    \* state
  offset,       \* committed_offset
  verified,     \* linux_verified_sha256, as the content it is the digest of
  \* the receiving directory
  partial,      \* partial/<item>.part: its content, or None
  ready,        \* ready/<item>: its content, or None
  linked,       \* partial and ready are two names of one inode
  \* windows_helper_operations of type acquire_item
  opState,      \* state ("none": the row is not created yet)
  opItem,       \* acquisition_item_id of request_json
  lapsed,       \* expires_at (pending) or lease_expires_at (claimed) has passed
  sweeping,     \* rows some _expire_stale has read as past their deadline
  \* handlers
  pc,           \* where each handler is
  job,          \* what it is working on
  \* history
  acked         \* acked[i]: <<position, byte>> pairs the client was told are durable

rows  == <<runState, runCommitted, readyCount, failedCount, itemState, offset, verified>>
files == <<runRoot, partial, ready, linked>>
ops   == <<opState, opItem, lapsed, sweeping>>
vars  == <<runState, runRoot, runCommitted, readyCount, failedCount, itemState, offset,
           verified, partial, ready, linked, opState, opItem, lapsed, sweeping, pc, job,
           acked>>

-----------------------------------------------------------------------------
(* Contents and chunks.  A digest is collision free, so a digest is modelled *)
(* by the content it was computed from.                                      *)

Contents == Seq(Byte)
Full(i)  == [1..Size[i] -> Byte]                        \* complete files of item i
Chunks   == UNION {[1..n -> Byte] : n \in 1..MaxChunk}  \* bodies commit_chunk accepts

Existing(i) == IF partial[i] = None THEN <<>> ELSE partial[i]

\* The received bytes of an item, under whichever name they have.
Stored(i) == IF ready[i] # None THEN ready[i] ELSE Existing(i)

RunStates  == {"planned", "active", "completed", "failed"}
ItemStates == {"pending", "transferring", "verifying", "ready", "failed"}
OpStates   == {"none", "pending", "claimed", "completed", "failed", "expired"}
LiveOp     == {"pending", "claimed"}

PCs == {"idle", "activating", "creating", "claiming", "chunk", "wrote", "final", "linked",
        "unlinked", "recorded", "leased", "replayed", "cleaning"}

\* What a completion reports; "changed" is a success whose evidence does not match.
Kinds == {"none", "attestation", "failure", "changed", "success"}

\* The body of a chunk, the kind and digest of a completion, the items a cleanup
\* has unlinked: what a handler keeps between its steps.
Jobs == [op : Ops \cup {None}, item : Items \cup {None}, body : Contents,
         kind : Kinds, digest : Contents \cup {None},
         removed : SUBSET Items]

NoJob == [op |-> None, item |-> None, body |-> <<>>, kind |-> "none", digest |-> None,
          removed |-> {}]

-----------------------------------------------------------------------------
(* Row locks held by the handlers.  _load_bound locks the item and the run   *)
(* until the transaction ends; complete_acquire_operation locks the          *)
(* operation row first; claim_operation locks that row only,                 *)
(* create_acquire_operation the item only, activate_run and                  *)
(* cleanup_failed_partials the run only.                                     *)

RunFree == \A h \in Handlers :
             pc[h] \notin {"activating", "wrote", "linked", "unlinked", "cleaning"}

\* Mutant: no SELECT ... FOR UPDATE on the item.
ItemUnlocked(i) == TRUE

ItemFree(i) == \A h \in Handlers :
                 job[h].item = i => pc[h] \notin {"creating", "wrote", "linked", "unlinked"}

\* No other handler than h holds the operation row.
OpFree(h, o) ==
  \A g \in Handlers \ {h} :
    job[g].op = o => pc[g] \notin {"claiming", "final", "linked", "unlinked", "replayed"}

\* The operations that still hold an item: create_acquire_operation refuses a second one.
LiveOps(i) == {o \in Ops : opItem[o] = i /\ opState[o] \in LiveOp}

Goto(h, label)      == pc' = [pc EXCEPT ![h] = label]
Finish(h)           == /\ pc' = [pc EXCEPT ![h] = "idle"]
                       /\ job' = [job EXCEPT ![h] = NoJob]
Start(h, label, j)  == /\ pc[h] = "idle"
                       /\ pc' = [pc EXCEPT ![h] = label]
                       /\ job' = [job EXCEPT ![h] = j]

Init ==
  /\ runState = "planned" /\ runRoot = FALSE
  /\ runCommitted = 0 /\ readyCount = 0 /\ failedCount = 0
  /\ itemState = [i \in Items |-> "pending"]
  /\ offset = [i \in Items |-> 0]
  /\ verified = [i \in Items |-> None]
  /\ partial = [i \in Items |-> None]
  /\ ready = [i \in Items |-> None]
  /\ linked = [i \in Items |-> FALSE]
  /\ opState = [o \in Ops |-> "none"]
  /\ opItem = [o \in Ops |-> None]
  /\ lapsed = [o \in Ops |-> FALSE]
  /\ sweeping = {}
  /\ pc = [h \in Handlers |-> "idle"]
  /\ job = [h \in Handlers |-> NoJob]
  /\ acked = [i \in Items |-> {}]

-----------------------------------------------------------------------------
(* activate_run: the directories are made before the state is committed.     *)

BeginActivation(h) ==
  /\ runState = "planned" /\ ~runRoot /\ RunFree
  /\ Start(h, "activating", NoJob)
  /\ runRoot' = TRUE
  /\ UNCHANGED <<rows, partial, ready, linked, ops, acked>>

CommitActivation(h) ==
  /\ pc[h] = "activating"
  /\ runState' = "active"
  /\ Finish(h)
  /\ UNCHANGED <<runCommitted, readyCount, failedCount, itemState, offset, verified, files,
                 ops, acked>>

-----------------------------------------------------------------------------
(* create_acquire_operation.  The item is locked before its state is read;   *)
(* the run is read without a lock.                                           *)

CanCreate(i) ==
  /\ runState = "active"
  /\ itemState[i] \in {"pending", "transferring"}
  /\ LiveOps(i) = {}

BeginCreate(h, i) ==
  /\ ItemFree(i) /\ CanCreate(i)
  /\ Start(h, "creating", [NoJob EXCEPT !.item = i])
  /\ UNCHANGED <<rows, files, ops, acked>>

CommitCreate(h) ==
  LET i == job[h].item IN
  /\ pc[h] = "creating"
  /\ \E o \in Ops :
       /\ opState[o] = "none"
       /\ opState' = [opState EXCEPT ![o] = "pending"]
       /\ opItem' = [opItem EXCEPT ![o] = i]
  /\ itemState' = [itemState EXCEPT ![i] = "transferring"]
  /\ Finish(h)
  /\ UNCHANGED <<runState, runCommitted, readyCount, failedCount, offset, verified, files,
                 lapsed, sweeping, acked>>

-----------------------------------------------------------------------------
(* Operation rows: claim, deadlines, the expiry sweep, failure reports.      *)

BeginClaim(h, o) ==
  /\ opState[o] = "pending" /\ ~lapsed[o] /\ OpFree(h, o)
  /\ Start(h, "claiming", [NoJob EXCEPT !.op = o])
  /\ UNCHANGED <<rows, files, ops, acked>>

\* The commit replaces the deadline of the pending row by a new lease.
CommitClaim(h) ==
  LET o == job[h].op IN
  /\ pc[h] = "claiming"
  /\ opState' = [opState EXCEPT ![o] = "claimed"]
  /\ lapsed' = [lapsed EXCEPT ![o] = FALSE]
  /\ Finish(h)
  /\ UNCHANGED <<opItem, sweeping, rows, files, acked>>

\* Time passes the deadline of a pending or claimed operation.
DeadlinePasses(o) ==
  /\ opState[o] \in LiveOp /\ ~lapsed[o]
  /\ lapsed' = [lapsed EXCEPT ![o] = TRUE]
  /\ UNCHANGED <<opState, opItem, sweeping, rows, files, pc, job, acked>>

\* _expire_stale, which every request for work runs first, selects without locks
\* and updates by primary key: the state it read may have changed when its
\* UPDATE gets the row.
SweepRead(o) ==
  /\ opState[o] \in LiveOp /\ lapsed[o]
  /\ sweeping' = sweeping \cup {o}
  /\ UNCHANGED <<opState, opItem, lapsed, rows, files, pc, job, acked>>

SweepWrite(o) ==
  /\ o \in sweeping /\ OpFree(None, o)
  /\ opState' = [opState EXCEPT ![o] = "expired"]
  /\ sweeping' = sweeping \ {o}
  /\ UNCHANGED <<opItem, lapsed, rows, files, pc, job, acked>>

FailOperation(o) ==
  /\ opState[o] = "claimed" /\ OpFree(None, o)
  /\ opState' = [opState EXCEPT ![o] = IF lapsed[o] THEN "expired" ELSE "failed"]
  /\ UNCHANGED <<opItem, lapsed, sweeping, rows, files, pc, job, acked>>

-----------------------------------------------------------------------------
(* commit_chunk.  _load_bound checks the operation, whose row it does not    *)
(* lock, and only then waits for the item and the run.                       *)

OpAccepted(o) == opState[o] = "completed" \/ (opState[o] = "claimed" /\ ~lapsed[o])

AdmitChunk(h, o) ==
  /\ OpAccepted(o)
  /\ Start(h, "chunk", [NoJob EXCEPT !.op = o, !.item = opItem[o]])
  /\ UNCHANGED <<rows, files, ops, acked>>

\* Mutant: the state of the run is not looked at.
ChunkExpectedAnyRun(h, body) ==
  LET i == job[h].item IN
  /\ pc[h] = "chunk" /\ RunFree /\ ItemFree(i)
  /\ itemState[i] \in {"transferring", "verifying"}
  /\ offset[i] + Len(body) <= Size[i]

\* Under the locks: the item may receive this chunk at its committed offset.
ChunkExpected(h, body) ==
  LET i == job[h].item IN
  /\ pc[h] = "chunk" /\ RunFree /\ ItemFree(i)
  /\ runState = "active" /\ itemState[i] \in {"transferring", "verifying"}
  /\ offset[i] + Len(body) <= Size[i]

\* Mutant: the part that is in the file is compared, not that all of it is there.
AlreadyStarted(i, body) ==
  /\ Len(Existing(i)) > offset[i] /\ Len(Existing(i)) <= offset[i] + Len(body)
  /\ SubSeq(Existing(i), offset[i] + 1, Len(Existing(i)))
       = SubSeq(body, 1, Len(Existing(i)) - offset[i])

\* Mutant: the size is compared and the bytes are not.
SameSizeWritten(i, body) == Len(Existing(i)) = offset[i] + Len(body)

\* An earlier attempt wrote exactly these bytes and was lost before its commit.
AlreadyWritten(i, body) ==
  /\ Len(Existing(i)) = offset[i] + Len(body)
  /\ SubSeq(Existing(i), offset[i] + 1, Len(Existing(i))) = body

Appendable(i) == (partial[i] = None => offset[i] = 0) /\ Len(Existing(i)) = offset[i]

WriteChunk(h, body) ==
  LET i == job[h].item IN
  /\ ChunkExpected(h, body)
  /\ \/ AlreadyWritten(i, body) /\ UNCHANGED <<partial, linked>>
     \/ /\ Appendable(i)
        /\ partial' = [partial EXCEPT ![i] = Existing(i) \o body]
        /\ linked' = [linked EXCEPT ![i] = IF partial[i] = None THEN FALSE ELSE @]
  /\ Goto(h, "wrote")
  /\ job' = [job EXCEPT ![h].body = body]
  /\ UNCHANGED <<rows, runRoot, ready, ops, acked>>

\* The disk fills up or the server dies after n units of the body.
TornWrite(h, body, n) ==
  LET i == job[h].item IN
  /\ ChunkExpected(h, body) /\ Appendable(i) /\ n < Len(body)
  /\ partial' = [partial EXCEPT ![i] = Existing(i) \o SubSeq(body, 1, n)]
  /\ linked' = [linked EXCEPT ![i] = IF partial[i] = None THEN FALSE ELSE @]
  /\ Finish(h)
  /\ UNCHANGED <<rows, runRoot, ready, ops, acked>>

Told(at, body) == {<<at + n, body[n]>> : n \in 1..Len(body)}

CommitChunk(h) ==
  LET i    == job[h].item
      body == job[h].body
      next == offset[i] + Len(body) IN
  /\ pc[h] = "wrote"
  /\ offset' = [offset EXCEPT ![i] = next]
  /\ itemState' = [itemState EXCEPT
                     ![i] = IF next = Size[i] THEN "verifying" ELSE "transferring"]
  /\ runCommitted' = runCommitted + Len(body)
  /\ acked' = [acked EXCEPT ![i] = @ \cup Told(offset[i], body)]
  /\ Finish(h)
  /\ UNCHANGED <<runState, readyCount, failedCount, verified, files, ops>>

\* A chunk below the committed offset is acknowledged when the stored bytes are
\* the same; a ready item accepts nothing else.
CanReplay(h, at, body) ==
  LET i      == job[h].item
      target == IF itemState[i] = "ready" THEN ready[i] ELSE partial[i] IN
  /\ pc[h] = "chunk" /\ RunFree /\ ItemFree(i)
  /\ \/ runState = "active" /\ itemState[i] \in {"transferring", "verifying"}
     \/ itemState[i] = "ready" /\ ready[i] # None /\ verified[i] = ready[i]
  /\ at < offset[i] /\ at + Len(body) <= offset[i]
  /\ target # None /\ Len(target) >= at + Len(body)
  /\ SubSeq(target, at + 1, at + Len(body)) = body

\* Mutant: a repeated chunk is counted again.
ReplayCounting(h, at, body) ==
  /\ CanReplay(h, at, body)
  /\ runCommitted' = runCommitted + Len(body)
  /\ acked' = [acked EXCEPT ![job[h].item] = @ \cup Told(at, body)]
  /\ Finish(h)
  /\ UNCHANGED <<runState, readyCount, failedCount, itemState, offset, verified, files, ops>>

ReplayChunk(h, at, body) ==
  /\ CanReplay(h, at, body)
  /\ acked' = [acked EXCEPT ![job[h].item] = @ \cup Told(at, body)]
  /\ Finish(h)
  /\ UNCHANGED <<rows, files, ops>>

-----------------------------------------------------------------------------
(* complete_acquire_operation and finalize_item.  A completion of an already *)
(* completed operation is answered without any effect and has no action.     *)

AdmitFinal(h, o, kind, digest) ==
  /\ opState[o] = "claimed" /\ ~lapsed[o] /\ OpFree(h, o)
  /\ Start(h, "final", [NoJob EXCEPT !.op = o, !.item = opItem[o], !.kind = kind,
                                     !.digest = digest])
  /\ UNCHANGED <<rows, files, ops, acked>>

FinalLocked(h, kind) ==
  /\ pc[h] = "final" /\ job[h].kind = kind
  /\ RunFree /\ ItemFree(job[h].item)

\* Mutant: an item that failed before is counted again.
FailItemAgain(i) ==
  /\ itemState[i] # "ready"
  /\ itemState' = [itemState EXCEPT ![i] = "failed"]
  /\ failedCount' = failedCount + 1
  /\ runState' = "failed"

\* Mutant: a ready item is taken back.
FailAnyItem(i) ==
  /\ itemState' = [itemState EXCEPT ![i] = "failed"]
  /\ failedCount' = failedCount + (IF itemState[i] = "failed" THEN 0 ELSE 1)
  /\ runState' = "failed"

FailItem(i) ==
  /\ itemState[i] # "ready"
  /\ itemState' = [itemState EXCEPT ![i] = "failed"]
  /\ failedCount' = failedCount + (IF itemState[i] = "failed" THEN 0 ELSE 1)
  /\ runState' = "failed"

\* The Helper reports a failure: the item fails, then the operation completes.
FinalFailure(h) ==
  /\ FinalLocked(h, "failure")
  /\ FailItem(job[h].item)
  /\ Goto(h, "recorded")
  /\ UNCHANGED <<runCommitted, readyCount, offset, verified, files, ops, job, acked>>

\* The evidence of a success changed: the item fails and the request is refused.
FinalChanged(h) ==
  /\ FinalLocked(h, "changed")
  /\ FailItem(job[h].item)
  /\ Finish(h)
  /\ UNCHANGED <<runCommitted, readyCount, offset, verified, files, ops, acked>>

\* The item is ready already: the operation completes if the digests agree.
FinalReplay(h) ==
  LET i == job[h].item IN
  /\ FinalLocked(h, "success") /\ itemState[i] = "ready"
  /\ ready[i] = verified[i] /\ verified[i] = job[h].digest
  /\ ~lapsed[job[h].op]
  /\ Goto(h, "replayed")
  /\ UNCHANGED <<rows, files, ops, job, acked>>

\* The Helper wants a new attestation of its source: the item is left alone.
FinalAttestation(h) ==
  /\ pc[h] = "final" /\ job[h].kind = "attestation" /\ ~lapsed[job[h].op]
  /\ Goto(h, "replayed")
  /\ UNCHANGED <<rows, files, ops, job, acked>>

Finalizable(i) == itemState[i] = "verifying" /\ offset[i] = Size[i]

\* Publication: the digest of the complete partial file is compared first.
PublishLink(h) ==
  LET i == job[h].item IN
  /\ FinalLocked(h, "success") /\ Finalizable(i)
  /\ ready[i] = None /\ partial[i] # None
  /\ Len(partial[i]) = Size[i] /\ partial[i] = job[h].digest
  /\ ready' = [ready EXCEPT ![i] = partial[i]]
  /\ linked' = [linked EXCEPT ![i] = TRUE]
  /\ Goto(h, "linked")
  /\ UNCHANGED <<rows, runRoot, partial, ops, job, acked>>

FinalMismatch(h) ==
  LET i == job[h].item IN
  /\ FinalLocked(h, "success") /\ Finalizable(i)
  /\ ready[i] = None /\ partial[i] # None
  /\ Len(partial[i]) = Size[i] /\ partial[i] # job[h].digest
  /\ FailItem(i)
  /\ Finish(h)
  /\ UNCHANGED <<runCommitted, readyCount, offset, verified, files, ops, acked>>

PublishUnlink(h) ==
  LET i == job[h].item IN
  /\ pc[h] = "linked"
  /\ partial' = [partial EXCEPT ![i] = None]
  /\ linked' = [linked EXCEPT ![i] = FALSE]
  /\ Goto(h, "unlinked")
  /\ UNCHANGED <<rows, runRoot, ready, ops, job, acked>>

\* An earlier finalization published the file and was lost before its commit: the
\* second name is removed, if it is still there and is the same inode.
PublishResume(h) ==
  LET i == job[h].item IN
  /\ FinalLocked(h, "success") /\ Finalizable(i)
  /\ ready[i] # None /\ (partial[i] # None => linked[i])
  /\ partial' = [partial EXCEPT ![i] = None]
  /\ linked' = [linked EXCEPT ![i] = FALSE]
  /\ Goto(h, "unlinked")
  /\ UNCHANGED <<rows, runRoot, ready, ops, job, acked>>

\* Mutant: the digest the Helper reports is recorded without hashing again.
RecordReported(h) ==
  LET i == job[h].item
      n == Cardinality({j \in Items : j = i \/ itemState[j] = "ready"}) IN
  /\ pc[h] = "unlinked"
  /\ itemState' = [itemState EXCEPT ![i] = "ready"]
  /\ verified' = [verified EXCEPT ![i] = job[h].digest]
  /\ readyCount' = n
  /\ runState' = IF n = Cardinality(Items) /\ failedCount = 0 THEN "completed" ELSE runState
  /\ Goto(h, "recorded")
  /\ UNCHANGED <<runCommitted, failedCount, offset, files, ops, job, acked>>

\* The published file is hashed again and the item, the counters and the run committed.
RecordReady(h) ==
  LET i == job[h].item
      n == Cardinality({j \in Items : j = i \/ itemState[j] = "ready"}) IN
  /\ pc[h] = "unlinked"
  /\ Len(ready[i]) = Size[i] /\ ready[i] = job[h].digest
  /\ itemState' = [itemState EXCEPT ![i] = "ready"]
  /\ verified' = [verified EXCEPT ![i] = ready[i]]
  /\ readyCount' = n
  /\ runState' = IF n = Cardinality(Items) /\ failedCount = 0 THEN "completed" ELSE runState
  /\ Goto(h, "recorded")
  /\ UNCHANGED <<runCommitted, failedCount, offset, files, ops, job, acked>>

\* _complete checks the row and the lease it loaded before finalize_item, whose
\* commit released the operation row ...
ConfirmLease(h) ==
  /\ pc[h] = "recorded" /\ ~lapsed[job[h].op]
  /\ Goto(h, "leased")
  /\ UNCHANGED <<rows, files, ops, job, acked>>

\* ... and writes "completed" over whatever the row holds by then.
CompleteOperation(h) ==
  LET o == job[h].op IN
  /\ pc[h] \in {"leased", "replayed"} /\ OpFree(h, o)
  /\ opState' = [opState EXCEPT ![o] = "completed"]
  /\ Finish(h)
  /\ UNCHANGED <<opItem, lapsed, sweeping, rows, files, acked>>

-----------------------------------------------------------------------------
(* cleanup_failed_partials of a failed run.                                  *)

HoldsRun(o) == opState[o] \in LiveOp /\ ~lapsed[o]

\* Mutant: the run need not have failed.
BeginCleanupAnyRun(h) ==
  /\ runRoot /\ RunFree
  /\ \A o \in Ops : ~HoldsRun(o)
  /\ Start(h, "cleaning", NoJob)
  /\ UNCHANGED <<rows, files, ops, acked>>

BeginCleanup(h) ==
  /\ runState = "failed" /\ RunFree
  /\ \A o \in Ops : ~HoldsRun(o)
  /\ Start(h, "cleaning", NoJob)
  /\ UNCHANGED <<rows, files, ops, acked>>

CleanupUnlink(h, i) ==
  /\ pc[h] = "cleaning"
  /\ itemState[i] # "ready" /\ ready[i] = None /\ partial[i] # None
  /\ partial' = [partial EXCEPT ![i] = None]
  /\ linked' = [linked EXCEPT ![i] = FALSE]
  /\ job' = [job EXCEPT ![h].removed = @ \cup {i}]
  /\ UNCHANGED <<rows, runRoot, ready, ops, pc, acked>>

CommitCleanup(h) ==
  /\ pc[h] = "cleaning"
  /\ \A i \in Items : itemState[i] = "ready" \/ (ready[i] = None /\ partial[i] = None)
  /\ \A i \in job[h].removed : ItemFree(i)
  /\ itemState' = [i \in Items |-> IF i \in job[h].removed THEN "failed" ELSE itemState[i]]
  /\ Finish(h)
  /\ UNCHANGED <<runState, runCommitted, readyCount, failedCount, offset, verified, files,
                 ops, acked>>

-----------------------------------------------------------------------------
\* A handler ends without a commit: a refused request, an I/O or database
\* error, a deadlock victim, a lost connection or the end of the process.
Abandon(h) ==
  /\ pc[h] # "idle"
  /\ Finish(h)
  /\ UNCHANGED <<rows, files, ops, acked>>

OperationStep(o) ==
  \/ DeadlinePasses(o) \/ SweepRead(o) \/ SweepWrite(o) \/ FailOperation(o)

ChunkStep(h) ==
  \/ \E o \in Ops : AdmitChunk(h, o)
  \/ \E body \in Chunks :
       \/ WriteChunk(h, body)
       \/ \E n \in 0..MaxChunk : TornWrite(h, body, n)
       \/ pc[h] = "chunk" /\ \E at \in 0..Size[job[h].item] : ReplayChunk(h, at, body)
  \/ CommitChunk(h)

FinalStep(h) ==
  \/ \E o \in Ops, kind \in Kinds \ {"none", "success"} : AdmitFinal(h, o, kind, None)
  \/ \E o \in Ops, i \in Items :
       opItem[o] = i /\ \E digest \in Full(i) : AdmitFinal(h, o, "success", digest)
  \/ FinalFailure(h) \/ FinalChanged(h) \/ FinalMismatch(h)
  \/ FinalReplay(h) \/ FinalAttestation(h)
  \/ PublishLink(h) \/ PublishUnlink(h) \/ PublishResume(h)
  \/ RecordReady(h) \/ ConfirmLease(h) \/ CompleteOperation(h)

CleanupStep(h) ==
  \/ BeginCleanup(h) \/ CommitCleanup(h)
  \/ \E i \in Items : CleanupUnlink(h, i)

HandlerStep(h) ==
  \/ BeginActivation(h) \/ CommitActivation(h)
  \/ (\E i \in Items : BeginCreate(h, i)) \/ CommitCreate(h)
  \/ (\E o \in Ops : BeginClaim(h, o)) \/ CommitClaim(h)
  \/ ChunkStep(h) \/ FinalStep(h) \/ CleanupStep(h) \/ Abandon(h)

Next == (\E o \in Ops : OperationStep(o)) \/ (\E h \in Handlers : HandlerStep(h))

Spec == Init /\ [][Next]_vars

-----------------------------------------------------------------------------
(* Properties.                                                               *)

\* Every variable has its type (the schema of models/source_acquisition.py and
\* models/windows_helper.py).
TypeOK ==
  /\ runState \in RunStates /\ runRoot \in BOOLEAN
  /\ runCommitted \in Nat /\ readyCount \in Nat /\ failedCount \in Nat
  /\ itemState \in [Items -> ItemStates]
  /\ offset \in [Items -> Nat]
  /\ verified \in [Items -> Contents \cup {None}]
  /\ partial \in [Items -> Contents \cup {None}]
  /\ ready \in [Items -> Contents \cup {None}]
  /\ linked \in [Items -> BOOLEAN]
  /\ opState \in [Ops -> OpStates]
  /\ opItem \in [Ops -> Items \cup {None}]
  /\ lapsed \in [Ops -> BOOLEAN]
  /\ sweeping \in SUBSET Ops
  /\ pc \in [Handlers -> PCs]
  /\ job \in [Handlers -> Jobs]
  /\ acked \in [Items -> SUBSET (Nat \X Byte)]

\* While the run can still be resumed, the received bytes of an item reach at
\* least its committed offset: the database never claims bytes that are not in
\* a file, whatever step a handler stopped after.
DatabaseNeverAhead ==
  \A i \in Items :
    runState = "active" \/ itemState[i] = "ready" => offset[i] <= Len(Stored(i))

\* A byte the client was told is durable is in the received file, at its
\* position, for as long as the run can be resumed or the item is ready.
AckedBytesKept ==
  \A i \in Items : runState = "active" \/ itemState[i] = "ready" =>
    \A t \in acked[i] : t[1] <= Len(Stored(i)) /\ Stored(i)[t[1]] = t[2]

\* A ready item is a complete published file whose content is the one that was verified.
ReadyIsVerified ==
  \A i \in Items : itemState[i] = "ready" =>
    ready[i] # None /\ ready[i] = verified[i] /\ Len(ready[i]) = Size[i]
      /\ offset[i] = Size[i]

\* The two names of an item are never two different files, so the
\* "ready_path_conflict" exits of finalize_item are not taken after a crash.
OneInode == \A i \in Items : partial[i] # None /\ ready[i] # None => linked[i]

\* At most one live operation moves an item.
OneLiveOperation == \A i \in Items : \A o1, o2 \in LiveOps(i) : o1 = o2

\* The run's state agrees with its items: completed exactly when all are ready,
\* and never failed without a failed item.
RunSummarisesItems ==
  /\ runState = "completed" <=> \A i \in Items : itemState[i] = "ready"
  /\ runState = "failed" <=> failedCount > 0
  /\ readyCount = Cardinality({i \in Items : itemState[i] = "ready"})
  /\ failedCount <= Cardinality({i \in Items : itemState[i] = "failed"})

\* committed_byte_count is the sum of the items' committed offsets.
CountsCommittedBytes == runCommitted = MapThenSumSet(LAMBDA i : offset[i], Items)

\* A ready item stays ready and its file is never changed or removed, by no
\* late request, failure report or cleanup.
ReadyForever ==
  [][\A i \in Items : itemState[i] = "ready" =>
       itemState'[i] = "ready" /\ ready'[i] = ready[i]]_vars

Rank(s) == CASE s = "pending" -> 0 [] s = "transferring" -> 1 [] s = "verifying" -> 2
             [] OTHER -> 3

\* The committed offset and the state of an item never move backward, and no late request,
\* failure report or cleanup takes a ready item back.
ItemNeverBackward ==
  [][\A i \in Items : /\ offset'[i] >= offset[i]
                      /\ Rank(itemState'[i]) >= Rank(itemState[i])
                      /\ itemState[i] = "ready" => itemState'[i] = "ready"]_vars

\* No byte is committed to a run that is not active.
OnlyActiveRunsReceive == [][runState # "active" => offset' = offset]_vars

\* The run as its callers see it: an item of a failed run that is not ready
\* answers for no bytes.
Phase(i) == IF itemState[i] \in {"ready", "failed"} THEN itemState[i] ELSE "open"

Received(i) == IF runState = "failed" /\ itemState[i] # "ready" THEN <<>>
               ELSE SubSeq(Stored(i), 1, Min({offset[i], Len(Stored(i))}))

Promise == INSTANCE AcquisitionPromise WITH
             run <- runState, phase <- [i \in Items |-> Phase(i)],
             received <- [i \in Items |-> Received(i)]

\* Every step of the handlers, lost or not, is a step of the promised run or
\* changes nothing its callers see: bytes are appended and never replaced, an item
\* is published once and as received.
KeepsPromise == Promise!Spec

\* "Expired or lost transfer-control operations can be replaced for the same
\* durable item": an unfinished item of an active run without a live operation
\* can be given a new one.  An item whose last chunk is committed cannot.
LostOperationReplaceable ==
  \A i \in Items :
    /\ runState = "active" /\ itemState[i] \in {"transferring", "verifying"}
    /\ LiveOps(i) = {}
    => CanCreate(i)

\* "immutable completed result": a completed operation stays completed.
CompletedResultImmutable ==
  [][\A o \in Ops : opState[o] = "completed" => opState'[o] = "completed"]_vars

=============================================================================
