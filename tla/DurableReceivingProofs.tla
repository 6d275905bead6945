------------------------ MODULE DurableReceivingProofs ------------------------
(***************************************************************************)
(* The proofs of DurableReceiving, for every set of items, sizes,          *)
(* contents, operations and requests, in five parts: its types; the row    *)
(* locks exclude each other and the requests in flight stay bound to the   *)
(* items they were admitted for; the files and the rows stay consistent,   *)
(* and the safety properties follow; the committed bytes of a run are the  *)
(* sum over its items; the run implements AcquisitionPromise.              *)
(***************************************************************************)
EXTENDS DurableReceivingInvariant, FiniteSetTheorems, WellFoundedInduction, TLAPS

Handling == /\ pc \in [Handlers -> PCs]
            /\ job \in [Handlers -> Jobs]

LEMMA StartType ==
  ASSUME Handling, NEW h \in Handlers, NEW label \in PCs, NEW j \in Jobs, Start(h, label, j)
  PROVE  Handling'
BY DEF Handling, Start

LEMMA GotoType ==
  ASSUME Handling, NEW h \in Handlers, NEW label \in PCs, Goto(h, label), job' = job
  PROVE  Handling'
BY DEF Handling, Goto

LEMMA NoJobType == NoJob \in Jobs
BY DEF NoJob, Jobs, Contents, Kinds

LEMMA FinishType ==
  ASSUME Handling, NEW h \in Handlers, Finish(h)
  PROVE  Handling'
BY NoJobType DEF Handling, Finish, PCs

LEMMA JobFields ==
  ASSUME Handling, NEW h \in Handlers
  PROVE  /\ job[h].op \in Ops \cup {None}
         /\ job[h].item \in Items \cup {None}
         /\ job[h].body \in Seq(Byte)
         /\ job[h].kind \in Kinds
         /\ job[h].digest \in Seq(Byte) \cup {None}
         /\ job[h].removed \in SUBSET Items
BY DEF Handling, Jobs, Contents

LEMMA ChunkType == \A body \in Chunks : body \in Seq(Byte) /\ Len(body) \in 1..MaxChunk
<1> SUFFICES ASSUME NEW n \in 1..MaxChunk, NEW body \in [1..n -> Byte]
             PROVE  body \in Seq(Byte) /\ Len(body) \in 1..MaxChunk
    BY DEF Chunks
<1> QED BY SMT

LEMMA ChunkTypes ==
  ASSUME NEW body \in Chunks
  PROVE  body \in Seq(Byte) /\ Len(body) \in Nat \ {0}
BY ChunkType, MaxChunkAssumption

LEMMA TypeInit == Init => TypeOK
<1> SUFFICES ASSUME Init PROVE TypeOK
  OBVIOUS
<1> USE DEF Init
<1>1. /\ runState \in RunStates /\ runRoot \in BOOLEAN
      /\ runCommitted \in Nat /\ readyCount \in Nat /\ failedCount \in Nat
      /\ itemState \in [Items -> ItemStates] /\ offset \in [Items -> Nat]
  BY DEF RunStates, ItemStates
<1>2. /\ verified \in [Items -> Contents \cup {None}]
      /\ partial \in [Items -> Contents \cup {None}]
      /\ ready \in [Items -> Contents \cup {None}]
  OBVIOUS
<1>3. linked \in [Items -> BOOLEAN] /\ lapsed \in [Ops -> BOOLEAN]
  OBVIOUS
<1>4. /\ opState \in [Ops -> OpStates] /\ opItem \in [Ops -> Items \cup {None}]
      /\ sweeping \in SUBSET Ops
  BY DEF OpStates
<1>5. pc \in [Handlers -> PCs] /\ job \in [Handlers -> Jobs]
  BY NoJobType DEF PCs
<1>6. acked \in [Items -> SUBSET (Nat \X Byte)]
  OBVIOUS
<1> QED
  BY <1>1, <1>2, <1>3, <1>4, <1>5, <1>6 DEF TypeOK

LEMMA AppendType ==
  ASSUME TypeOK, NEW i \in Items, NEW s \in Seq(Byte)
  PROVE  Existing(i) \in Seq(Byte) /\ Existing(i) \o s \in Seq(Byte)
<1>1. Existing(i) \in Seq(Byte)
  BY DEF Existing, TypeOK, Contents
<1> QED
  BY <1>1

LEMMA TypeOperation ==
  ASSUME TypeOK, NEW o \in Ops, OperationStep(o)
  PROVE  TypeOK'
BY DEF TypeOK, OperationStep, DeadlinePasses, SweepRead, SweepWrite, FailOperation,
   OpStates,
       rows, files

LEMMA HandlingOK == TypeOK => Handling
BY DEF TypeOK, Handling

LEMMA FailItemType ==
  ASSUME TypeOK, NEW i, FailItem(i)
  PROVE  /\ runState' \in RunStates
         /\ itemState' \in [Items -> ItemStates]
         /\ failedCount' \in Nat
<1>1. itemState \in [Items -> ItemStates] /\ failedCount \in Nat
  BY DEF TypeOK
<1>2. runState' \in RunStates
  BY DEF FailItem, RunStates
<1>3. itemState' \in [Items -> ItemStates]
  BY <1>1 DEF FailItem, ItemStates
<1>4. failedCount' \in Nat
  <2>1. failedCount' = failedCount \/ failedCount' = failedCount + 1
    BY <1>1 DEF FailItem
  <2> QED
    BY <1>1, <2>1
<1> QED
  BY <1>2, <1>3, <1>4

LEMMA ItemNumber ==
  ASSUME NEW S \in SUBSET Items
  PROVE  /\ IsFiniteSet(S)
         /\ Cardinality(S) \in Nat /\ Cardinality(Items) \in Nat
         /\ Cardinality(S) <= Cardinality(Items)
         /\ Cardinality(S) = Cardinality(Items) => S = Items
<1>1. IsFiniteSet(Items)
  BY ItemsAssumption
<1> QED
  BY <1>1, FS_Subset, FS_CardinalityType

\* A new job, and what a handler adds to its job, are jobs.
LEMMA JobType ==
  ASSUME NEW o \in Ops \cup {None}, NEW i \in Items \cup {None}, NEW kind \in Kinds,
         NEW digest \in Contents \cup {None}
  PROVE  /\ [NoJob EXCEPT !.op = o, !.item = i, !.kind = kind, !.digest = digest] \in Jobs
         /\ [NoJob EXCEPT !.op = o, !.item = i] \in Jobs
         /\ [NoJob EXCEPT !.op = o] \in Jobs
         /\ [NoJob EXCEPT !.item = i] \in Jobs
<1>1. ASSUME NEW j \in Jobs
      PROVE  /\ [j EXCEPT !.op = o, !.item = i, !.kind = kind, !.digest = digest] \in Jobs
             /\ [j EXCEPT !.op = o, !.item = i] \in Jobs
             /\ [j EXCEPT !.op = o] \in Jobs
             /\ [j EXCEPT !.item = i] \in Jobs
  BY Zenon DEF Jobs
<1> QED
  BY <1>1, NoJobType

LEMMA JobUpdateType ==
  ASSUME Handling, NEW h \in Handlers, NEW body \in Contents, NEW i \in Items
  PROVE  /\ [job EXCEPT ![h].body = body] \in [Handlers -> Jobs]
         /\ [job EXCEPT ![h].removed = @ \cup {i}] \in [Handlers -> Jobs]
<1>1. job \in [Handlers -> Jobs]
  BY DEF Handling
<1>2. job[h] \in Jobs
  BY <1>1
<1>3. [job[h] EXCEPT !.body = body] \in Jobs
  BY <1>2, Zenon DEF Jobs
<1>4. job[h].removed \cup {i} \in SUBSET Items
  BY <1>2 DEF Jobs
<1>5. [job[h] EXCEPT !.removed = @ \cup {i}] \in Jobs
  BY <1>2, <1>4, Zenon DEF Jobs
<1> QED
  BY <1>1, <1>3, <1>5

LEMMA ToldType ==
  ASSUME NEW at \in Nat, NEW body \in Seq(Byte)
  PROVE  Told(at, body) \in SUBSET (Nat \X Byte)
BY DEF Told

LEMMA TypeHandler ==
  ASSUME TypeOK, NEW h \in Handlers, HandlerStep(h)
  PROVE  TypeOK'
<1> USE HandlingOK
<1>1. ASSUME BeginActivation(h) PROVE TypeOK'
  <2>1. Handling'
    BY <1>1, StartType, NoJobType DEF BeginActivation, PCs
  <2> QED
    BY <1>1, <2>1, JobFields DEF BeginActivation, Handling, TypeOK, rows, files, ops,
       RunStates, ItemStates, OpStates, Contents
<1>2. ASSUME CommitActivation(h) PROVE TypeOK'
  <2>1. Handling'
    BY <1>2, FinishType DEF CommitActivation, PCs
  <2> QED
    BY <1>2, <2>1, JobFields DEF CommitActivation, Handling, TypeOK, rows, files, ops,
       RunStates, ItemStates, OpStates, Contents
<1>3. ASSUME NEW i \in Items, BeginCreate(h, i) PROVE TypeOK'
  <2>1. Handling'
    BY <1>3, JobType, StartType DEF BeginCreate, PCs, TypeOK, Kinds
  <2> QED
    BY <1>3, <2>1, JobFields DEF BeginCreate, Handling, TypeOK, rows, files, ops,
       RunStates, ItemStates, OpStates, Contents
<1>4. ASSUME CommitCreate(h) PROVE TypeOK'
  <2>1. Handling'
    BY <1>4, FinishType DEF CommitCreate, PCs
  <2> QED
    BY <1>4, <2>1, JobFields DEF CommitCreate, Handling, TypeOK, rows, files, ops,
       RunStates, ItemStates, OpStates, Contents
<1>5. ASSUME NEW o \in Ops, BeginClaim(h, o) PROVE TypeOK'
  <2>1. Handling'
    BY <1>5, JobType, StartType DEF BeginClaim, PCs, TypeOK, Kinds
  <2> QED
    BY <1>5, <2>1, JobFields DEF BeginClaim, Handling, TypeOK, rows, files, ops,
       RunStates, ItemStates, OpStates, Contents
<1>6. ASSUME CommitClaim(h) PROVE TypeOK'
  <2>1. Handling'
    BY <1>6, FinishType DEF CommitClaim, PCs
  <2> QED
    BY <1>6, <2>1, JobFields DEF CommitClaim, Handling, TypeOK, rows, files, ops,
       RunStates, ItemStates, OpStates, Contents
<1>7. ASSUME NEW o \in Ops, AdmitChunk(h, o) PROVE TypeOK'
  <2>1. Handling'
    BY <1>7, JobType, StartType DEF AdmitChunk, PCs, TypeOK, Kinds
  <2> QED
    BY <1>7, <2>1, JobFields DEF AdmitChunk, Handling, TypeOK, rows, files, ops,
       RunStates, ItemStates, OpStates, Contents
<1>8. ASSUME NEW body \in Chunks, WriteChunk(h, body) PROVE TypeOK'
  <2>1. Handling'
    <3>1. body \in Contents /\ Items # {}
      BY ChunkTypes, ItemsAssumption DEF Contents
    <3>2. job' \in [Handlers -> Jobs]
      BY <1>8, <3>1, JobUpdateType DEF WriteChunk
    <3> QED
      BY <1>8, <3>2 DEF WriteChunk, Goto, Handling, PCs
  <2>2. partial' \in [Items -> Contents \cup {None}]
    <3>1. \A i \in Items : Existing(i) \o body \in Seq(Byte)
      BY ChunkTypes, AppendType
    <3>2. partial \in [Items -> Contents \cup {None}]
      BY DEF TypeOK
    <3>3. CASE UNCHANGED partial
      BY <3>2, <3>3
    <3>4. CASE partial' = [partial EXCEPT ![job[h].item] = Existing(job[h].item) \o body]
      BY <3>1, <3>2, <3>4 DEF Contents
    <3> QED
      BY <1>8, <3>3, <3>4 DEF WriteChunk
  <2>3. linked' \in [Items -> BOOLEAN]
    BY <1>8 DEF WriteChunk, TypeOK
  <2> QED
    BY <1>8, <2>1, <2>2, <2>3 DEF WriteChunk, Handling, TypeOK, rows, ops
<1>9. ASSUME NEW body \in Chunks, NEW n \in 0..MaxChunk,
            TornWrite(h, body, n)
     PROVE  TypeOK'
  <2>1. Handling'
    BY <1>9, FinishType DEF TornWrite
  <2>2. SubSeq(body, 1, n) \in Seq(Byte)
    BY <1>9, ChunkTypes DEF TornWrite
  <2>3. partial' \in [Items -> Contents \cup {None}]
    BY <1>9, <2>2, AppendType DEF TornWrite, TypeOK, Contents
  <2>4. linked' \in [Items -> BOOLEAN]
    BY <1>9 DEF TornWrite, TypeOK
  <2> QED
    BY <1>9, <2>1, <2>3, <2>4 DEF TornWrite, Handling, TypeOK, rows, ops
<1>10. ASSUME CommitChunk(h) PROVE TypeOK'
  <2>1. Handling'
    BY <1>10, FinishType DEF CommitChunk
  <2>2. job[h].body \in Seq(Byte)
    BY JobFields
  <2>0. Len(job[h].body) \in Nat
    BY <2>2
  <2>1a. runCommitted' \in Nat
    BY <1>10, <2>0 DEF CommitChunk, TypeOK
  <2>3. offset' \in [Items -> Nat]
    <3>1. offset \in [Items -> Nat]
      BY DEF TypeOK
    <3>2. offset' = [offset EXCEPT ![job[h].item] = @ + Len(job[h].body)]
      BY <1>10 DEF CommitChunk
    <3>3. CASE job[h].item \in Items
      BY <2>0, <3>1, <3>2, <3>3
    <3>4. CASE job[h].item \notin Items
      BY <3>1, <3>2, <3>4
    <3> QED
      BY <3>3, <3>4
  <2>5. itemState' \in [Items -> ItemStates]
    BY <1>10 DEF CommitChunk, TypeOK, ItemStates
  <2>4. acked' \in [Items -> SUBSET (Nat \X Byte)]
    <3> SUFFICES ASSUME job[h].item \in Items
                 PROVE  Told(offset[job[h].item], job[h].body) \in SUBSET (Nat \X Byte)
      BY <1>10 DEF CommitChunk, TypeOK
    <3> QED
      BY <2>2, ToldType DEF TypeOK
  <2> QED
    BY <1>10, <2>1, <2>1a, <2>3, <2>4, <2>5 DEF CommitChunk, Handling, TypeOK, files, ops
<1>11. ASSUME NEW at \in Nat, NEW body \in Chunks, ReplayChunk(h, at, body) PROVE TypeOK'
  <2>1. Handling'
    BY <1>11, FinishType DEF ReplayChunk
  <2>2. acked' \in [Items -> SUBSET (Nat \X Byte)]
    BY <1>11, ToldType, ChunkTypes DEF ReplayChunk, TypeOK
  <2> QED
    BY <1>11, <2>1, <2>2 DEF ReplayChunk, Handling, TypeOK, rows, files, ops
<1>12. ASSUME NEW o \in Ops, NEW kind \in Kinds, NEW digest \in Contents \cup {None},
            AdmitFinal(h, o, kind, digest)
     PROVE  TypeOK'
  <2>1. Handling'
    BY <1>12, JobType, OpsAssumption, StartType DEF AdmitFinal, PCs, TypeOK, Kinds
  <2> QED
    BY <1>12, <2>1, JobFields DEF AdmitFinal, Handling, TypeOK, rows, files, ops,
       RunStates, ItemStates, OpStates, Contents
<1>13. ASSUME FinalFailure(h) PROVE TypeOK'
  <2>1. Handling'
    BY <1>13, GotoType DEF FinalFailure, PCs
  <2> QED
    BY <1>13, <2>1, FailItemType DEF FinalFailure, Handling, TypeOK, files, ops
<1>14. ASSUME FinalChanged(h) PROVE TypeOK'
  <2>1. Handling'
    BY <1>14, FinishType DEF FinalChanged, PCs
  <2> QED
    BY <1>14, <2>1, FailItemType DEF FinalChanged, Handling, TypeOK, files, ops
<1>15. ASSUME FinalReplay(h) PROVE TypeOK'
  <2>1. Handling'
    BY <1>15, GotoType DEF FinalReplay, PCs
  <2> QED
    BY <1>15, <2>1, JobFields DEF FinalReplay, Handling, TypeOK, rows, files, ops,
       RunStates, ItemStates, OpStates, Contents
<1>16. ASSUME FinalAttestation(h) PROVE TypeOK'
  <2>1. Handling'
    BY <1>16, GotoType DEF FinalAttestation, PCs
  <2> QED
    BY <1>16, <2>1, JobFields DEF FinalAttestation, Handling, TypeOK, rows, files, ops,
       RunStates, ItemStates, OpStates, Contents
<1>17. ASSUME PublishLink(h) PROVE TypeOK'
  <2>1. Handling'
    BY <1>17, GotoType DEF PublishLink, PCs
  <2> QED
    BY <1>17, <2>1, JobFields DEF PublishLink, Handling, TypeOK, rows, files, ops,
       RunStates, ItemStates, OpStates, Contents
<1>18. ASSUME FinalMismatch(h) PROVE TypeOK'
  <2>1. Handling'
    BY <1>18, FinishType DEF FinalMismatch, PCs
  <2> QED
    BY <1>18, <2>1, FailItemType DEF FinalMismatch, Handling, TypeOK, files, ops
<1>19. ASSUME PublishUnlink(h) PROVE TypeOK'
  <2>1. Handling'
    BY <1>19, GotoType DEF PublishUnlink, PCs
  <2> QED
    BY <1>19, <2>1, JobFields DEF PublishUnlink, Handling, TypeOK, rows, files, ops,
       RunStates, ItemStates, OpStates, Contents
<1>20. ASSUME PublishResume(h) PROVE TypeOK'
  <2>1. Handling'
    BY <1>20, GotoType DEF PublishResume, PCs
  <2> QED
    BY <1>20, <2>1, JobFields DEF PublishResume, Handling, TypeOK, rows, files, ops,
       RunStates, ItemStates, OpStates, Contents
<1>21. ASSUME RecordReady(h) PROVE TypeOK'
  <2>1. Handling'
    BY <1>21, GotoType DEF RecordReady, PCs
  <2>2. readyCount' \in Nat
    BY <1>21, ItemNumber DEF RecordReady
  <2> QED
    BY <1>21, <2>1, <2>2, JobFields DEF RecordReady, Handling, TypeOK, files, ops,
       RunStates, ItemStates,
       Contents
<1>22. ASSUME ConfirmLease(h) PROVE TypeOK'
  <2>1. Handling'
    BY <1>22, GotoType DEF ConfirmLease, PCs
  <2> QED
    BY <1>22, <2>1, JobFields DEF ConfirmLease, Handling, TypeOK, rows, files, ops,
       RunStates, ItemStates, OpStates, Contents
<1>23. ASSUME CompleteOperation(h) PROVE TypeOK'
  <2>1. Handling'
    BY <1>23, FinishType DEF CompleteOperation, PCs
  <2> QED
    BY <1>23, <2>1, JobFields DEF CompleteOperation, Handling, TypeOK, rows, files, ops,
       RunStates, ItemStates, OpStates, Contents
<1>24. ASSUME BeginCleanup(h) PROVE TypeOK'
  <2>1. Handling'
    BY <1>24, StartType, NoJobType DEF BeginCleanup, PCs
  <2> QED
    BY <1>24, <2>1, JobFields DEF BeginCleanup, Handling, TypeOK, rows, files, ops,
       RunStates, ItemStates, OpStates, Contents
<1>25. ASSUME NEW i \in Items, CleanupUnlink(h, i) PROVE TypeOK'
  <2>1. Handling'
    <3>1. <<>> \in Contents
      BY DEF Contents
    <3> QED
      BY <1>25, <3>1, JobUpdateType DEF CleanupUnlink, Handling
  <2>2. linked' \in [Items -> BOOLEAN]
    BY <1>25 DEF CleanupUnlink, TypeOK
  <2>3. partial' \in [Items -> Contents \cup {None}]
    BY <1>25 DEF CleanupUnlink, TypeOK
  <2> QED
    BY <1>25, <2>1, <2>2, <2>3 DEF CleanupUnlink, Handling, TypeOK, rows, ops
<1>26. ASSUME CommitCleanup(h) PROVE TypeOK'
  <2>1. Handling'
    BY <1>26, FinishType DEF CommitCleanup, PCs
  <2> QED
    BY <1>26, <2>1, JobFields DEF CommitCleanup, Handling, TypeOK, rows, files, ops,
       RunStates, ItemStates, OpStates, Contents
<1>27. ASSUME Abandon(h) PROVE TypeOK'
  <2>1. Handling'
    BY <1>27, FinishType DEF Abandon, PCs
  <2> QED
    BY <1>27, <2>1, JobFields DEF Abandon, Handling, TypeOK, rows, files, ops, RunStates,
       ItemStates, OpStates, Contents
<1>28. ASSUME NEW o \in Ops, NEW i \in Items, NEW digest \in Full(i),
             AdmitFinal(h, o, "success", digest)
      PROVE  TypeOK'
  <2>1. digest \in Contents
    BY SizeAssumption DEF Full, Contents
  <2> QED
    BY <2>1, <1>12, <1>28 DEF Kinds
<1>29. ASSUME NEW body \in Chunks, NEW at \in 0..Size[job[h].item], ReplayChunk(h, at, body)
      PROVE  TypeOK'
  BY <1>11, <1>29
<1> QED
  BY <1>1, <1>2, <1>3, <1>4, <1>5, <1>6, <1>7, <1>8, <1>9, <1>10, <1>11, <1>12, <1>13,
     <1>14, <1>15, <1>16, <1>17, <1>18, <1>19, <1>20, <1>21, <1>22, <1>23, <1>24, <1>25,
     <1>26, <1>27, <1>28, <1>29
     DEF HandlerStep, ChunkStep, FinalStep, CleanupStep

LEMMA TypeStep == TypeOK /\ [Next]_vars => TypeOK'
<1>1. ASSUME TypeOK, UNCHANGED vars PROVE TypeOK'
  BY <1>1 DEF TypeOK, vars
<1> QED
  BY <1>1, TypeOperation, TypeHandler DEF Next

\* Every reachable state of the receiving is well typed, for any items, sizes,
\* operations and requests.
THEOREM TypeCorrect == Spec => []TypeOK
  BY TypeInit, TypeStep, PTL DEF Spec

-----------------------------------------------------------------------------
(***************************************************************************)
(* The row locks exclude each other, and the operations and the requests   *)
(* in flight stay bound to the items they were created and admitted for.   *)
(***************************************************************************)

\* The steps of a handler, one disjunct each.
LEMMA HandlerCases ==
  ASSUME NEW h \in Handlers, HandlerStep(h)
  PROVE  \/ BeginActivation(h) \/ CommitActivation(h)
         \/ (\E i \in Items : BeginCreate(h, i)) \/ CommitCreate(h)
         \/ (\E o \in Ops : BeginClaim(h, o)) \/ CommitClaim(h)
         \/ (\E o \in Ops : AdmitChunk(h, o))
         \/ (\E body \in Chunks : WriteChunk(h, body))
         \/ (\E body \in Chunks : \E n \in 0..MaxChunk : TornWrite(h, body, n))
         \/ CommitChunk(h)
         \/ (\E body \in Chunks : \E at \in Nat : ReplayChunk(h, at, body))
         \/ (\E o \in Ops, kind \in Kinds, digest \in Contents \cup {None} :
               AdmitFinal(h, o, kind, digest))
         \/ FinalFailure(h) \/ FinalChanged(h) \/ FinalMismatch(h)
         \/ FinalReplay(h) \/ FinalAttestation(h)
         \/ PublishLink(h) \/ PublishUnlink(h) \/ PublishResume(h)
         \/ RecordReady(h) \/ ConfirmLease(h) \/ CompleteOperation(h)
         \/ BeginCleanup(h) \/ (\E i \in Items : CleanupUnlink(h, i)) \/ CommitCleanup(h)
         \/ Abandon(h)
<1>1. \A i \in Items : Full(i) \subseteq Contents
  <2> SUFFICES ASSUME NEW i \in Items, NEW digest \in [1..Size[i] -> Byte]
               PROVE  digest \in Seq(Byte)
    BY DEF Full, Contents
  <2>1. Size[i] \in Nat
    BY SizeAssumption
  <2> QED
    BY <2>1
<1>2. ASSUME FinalStep(h), \A o \in Ops, kind \in Kinds, digest \in Contents \cup {None} :
                             ~AdmitFinal(h, o, kind, digest)
      PROVE  \/ FinalFailure(h) \/ FinalChanged(h) \/ FinalMismatch(h)
             \/ FinalReplay(h) \/ FinalAttestation(h)
             \/ PublishLink(h) \/ PublishUnlink(h) \/ PublishResume(h)
             \/ RecordReady(h) \/ ConfirmLease(h) \/ CompleteOperation(h)
  BY <1>1, <1>2 DEF FinalStep, Kinds
<1>3. ASSUME ChunkStep(h)
      PROVE  \/ \E o \in Ops : AdmitChunk(h, o)
             \/ \E body \in Chunks : WriteChunk(h, body)
             \/ \E body \in Chunks : \E n \in 0..MaxChunk : TornWrite(h, body, n)
             \/ \E body \in Chunks : \E at \in Nat : ReplayChunk(h, at, body)
             \/ CommitChunk(h)
  BY <1>3 DEF ChunkStep
<1> QED
  BY <1>2, <1>3 DEF HandlerStep, CleanupStep

-----------------------------------------------------------------------------
(* What a handler's step does to the locks: other handlers keep theirs, and  *)
(* a lock is either held already, for the same row, or was free.             *)

LockStep(h) ==
  /\ \A g \in Handlers : g # h => pc'[g] = pc[g] /\ job'[g] = job[g]
  /\ pc'[h] \in RunLocked => pc[h] \in RunLocked \/ RunFree
  /\ pc'[h] \in ItemLocked => \/ pc[h] \in ItemLocked /\ job'[h].item = job[h].item
                              \/ ItemFree(job'[h].item)
  /\ pc'[h] \in OpLocked => \/ pc[h] \in OpLocked /\ job'[h].op = job[h].op
                            \/ OpFree(h, job'[h].op)

LEMMA LockSteps ==
  ASSUME TypeOK, NEW h \in Handlers, HandlerStep(h)
  PROVE  LockStep(h)
<1> USE HandlingOK DEF Handling, LockStep, RunLocked, ItemLocked, OpLocked
<1>1. CASE \/ BeginActivation(h) \/ CommitActivation(h) \/ CommitCreate(h) \/ CommitClaim(h)
           \/ CommitChunk(h) \/ FinalChanged(h) \/ FinalMismatch(h) \/ CompleteOperation(h)
           \/ BeginCleanup(h) \/ CommitCleanup(h) \/ Abandon(h)
  BY <1>1 DEF BeginActivation, CommitActivation, CommitCreate, CommitClaim, CommitChunk,
     FinalChanged, FinalMismatch, CompleteOperation, BeginCleanup, CommitCleanup, Abandon,
     Start, Finish
<1>2. CASE \E i \in Items : BeginCreate(h, i) \/ CleanupUnlink(h, i)
  BY <1>2 DEF BeginCreate, CleanupUnlink, Start, NoJob
<1>3. CASE \E o \in Ops : BeginClaim(h, o) \/ AdmitChunk(h, o)
  BY <1>3 DEF BeginClaim, AdmitChunk, Start, NoJob
<1>4. CASE \E o \in Ops, kind \in Kinds, digest \in Contents \cup {None} :
             AdmitFinal(h, o, kind, digest)
  BY <1>4 DEF AdmitFinal, Start, NoJob
<1>5. CASE \E body \in Chunks : WriteChunk(h, body)
  BY <1>5 DEF WriteChunk, ChunkExpected, Goto
<1>6. CASE \E body \in Chunks : \/ \E n \in 0..MaxChunk : TornWrite(h, body, n)
                                \/ \E at \in Nat : ReplayChunk(h, at, body)
  BY <1>6 DEF TornWrite, ReplayChunk, Finish
<1>7. CASE \/ FinalFailure(h) \/ FinalReplay(h) \/ FinalAttestation(h) \/ PublishLink(h)
           \/ PublishUnlink(h) \/ PublishResume(h) \/ RecordReady(h) \/ ConfirmLease(h)
  BY <1>7 DEF FinalFailure, FinalReplay, FinalAttestation, PublishLink, PublishUnlink,
     PublishResume, RecordReady, ConfirmLease, FinalLocked, Goto
<1> QED
  BY HandlerCases, <1>1, <1>2, <1>3, <1>4, <1>5, <1>6, <1>7

LEMMA LocksInit == Init => LocksExclusive
BY DEF Init, LocksExclusive, RunLocked, ItemLocked, OpLocked

LEMMA LocksHandler ==
  ASSUME TypeOK, LocksExclusive, NEW h \in Handlers, LockStep(h)
  PROVE  LocksExclusive'
<1> SUFFICES ASSUME NEW g \in Handlers, g # h
             PROVE  /\ ~(pc'[g] \in RunLocked /\ pc'[h] \in RunLocked)
                    /\ pc'[g] \in ItemLocked /\ pc'[h] \in ItemLocked =>
                         job'[g].item # job'[h].item
                    /\ pc'[g] \in OpLocked /\ pc'[h] \in OpLocked => job'[g].op # job'[h].op
  BY DEF LocksExclusive, LockStep
<1>1. pc'[g] = pc[g] /\ job'[g] = job[g]
  BY DEF LockStep
<1>2. ~(pc'[g] \in RunLocked /\ pc'[h] \in RunLocked)
  BY <1>1 DEF LocksExclusive, LockStep, RunFree, RunLocked
<1>3. pc'[g] \in ItemLocked /\ pc'[h] \in ItemLocked => job'[g].item # job'[h].item
  BY <1>1 DEF LocksExclusive, LockStep, ItemFree, ItemLocked
<1>4. pc'[g] \in OpLocked /\ pc'[h] \in OpLocked => job'[g].op # job'[h].op
  BY <1>1 DEF LocksExclusive, LockStep, OpFree, OpLocked
<1> QED
  BY <1>2, <1>3, <1>4

-----------------------------------------------------------------------------
(* What a handler's step does to its job, and to the operations.             *)

JobStep(h) ==
  /\ pc'[h] \in Admitted =>
       \/ pc[h] \in Admitted /\ job'[h].op = job[h].op /\ job'[h].item = job[h].item
       \/ /\ job'[h].op \in Ops /\ opState[job'[h].op] # "none"
          /\ job'[h].item = opItem[job'[h].op]
  /\ pc'[h] = "claiming" => job'[h].op \in Ops /\ opState[job'[h].op] = "pending"
  /\ pc'[h] = "creating" => job'[h].item \in Items /\ CanCreate(job'[h].item)

LEMMA JobSteps ==
  ASSUME TypeOK, NEW h \in Handlers, HandlerStep(h)
  PROVE  JobStep(h)
<1> USE HandlingOK DEF Handling, JobStep, Admitted
<1>1. CASE \/ BeginActivation(h) \/ CommitActivation(h) \/ CommitCreate(h) \/ CommitClaim(h)
           \/ CommitChunk(h) \/ FinalChanged(h) \/ FinalMismatch(h) \/ CompleteOperation(h)
           \/ BeginCleanup(h) \/ CommitCleanup(h) \/ Abandon(h)
  BY <1>1 DEF BeginActivation, CommitActivation, CommitCreate, CommitClaim, CommitChunk,
     FinalChanged, FinalMismatch, CompleteOperation, BeginCleanup, CommitCleanup, Abandon,
     Start, Finish
<1>2. CASE \E i \in Items : BeginCreate(h, i) \/ CleanupUnlink(h, i)
  BY <1>2 DEF BeginCreate, CleanupUnlink, Start, NoJob
<1>3. CASE \E o \in Ops : BeginClaim(h, o)
  <2> PICK o \in Ops : BeginClaim(h, o)
    BY <1>3
  <2>1. pc'[h] = "claiming" /\ job'[h].op = o /\ opState[o] = "pending"
    BY DEF BeginClaim, Start, NoJob
  <2> QED
    BY <2>1
<1>8. CASE \E o \in Ops : AdmitChunk(h, o)
  <2> PICK o \in Ops : AdmitChunk(h, o)
    BY <1>8
  <2>1. pc'[h] = "chunk" /\ job'[h].op = o /\ job'[h].item = opItem[o]
    BY DEF AdmitChunk, Start, NoJob
  <2>2. opState[o] # "none"
    BY DEF AdmitChunk, OpAccepted
  <2> QED
    BY <2>1, <2>2
<1>4. CASE \E o \in Ops, kind \in Kinds, digest \in Contents \cup {None} :
             AdmitFinal(h, o, kind, digest)
  BY <1>4 DEF AdmitFinal, Start, NoJob
<1>5. CASE \E body \in Chunks : WriteChunk(h, body)
  BY <1>5 DEF WriteChunk, ChunkExpected, Goto
<1>6. CASE \E body \in Chunks : \/ \E n \in 0..MaxChunk : TornWrite(h, body, n)
                                \/ \E at \in Nat : ReplayChunk(h, at, body)
  BY <1>6 DEF TornWrite, ReplayChunk, Finish
<1>7. CASE \/ FinalFailure(h) \/ FinalReplay(h) \/ FinalAttestation(h) \/ PublishLink(h)
           \/ PublishUnlink(h) \/ PublishResume(h) \/ RecordReady(h) \/ ConfirmLease(h)
  BY <1>7 DEF FinalFailure, FinalReplay, FinalAttestation, PublishLink, PublishUnlink,
     PublishResume, RecordReady, ConfirmLease, FinalLocked, Goto
<1> QED
  BY HandlerCases, <1>1, <1>2, <1>3, <1>4, <1>5, <1>6, <1>7, <1>8

\* Only these steps of a handler write operation rows.
OpRowStep(h) == CommitCreate(h) \/ CommitClaim(h) \/ CompleteOperation(h)

LEMMA OperationFrame ==
  ASSUME NEW h \in Handlers, HandlerStep(h), ~OpRowStep(h)
  PROVE  UNCHANGED <<opState, opItem, lapsed, sweeping>>
BY HandlerCases DEF OpRowStep, BeginActivation, CommitActivation, CommitChunk, FinalChanged,
   FinalMismatch, BeginCleanup, CommitCleanup, Abandon, BeginCreate, CleanupUnlink, BeginClaim,
   AdmitChunk, AdmitFinal, WriteChunk, TornWrite, ReplayChunk, FinalFailure, FinalReplay,
   FinalAttestation, PublishLink, PublishUnlink, PublishResume, RecordReady, ConfirmLease, ops

\* Only these steps of a handler write the state of an item.
ItemStateStep(h) ==
  \/ CommitCreate(h) \/ CommitChunk(h) \/ FinalFailure(h) \/ FinalChanged(h)
  \/ FinalMismatch(h) \/ RecordReady(h) \/ CommitCleanup(h)

LEMMA ItemStateFrame ==
  ASSUME NEW h \in Handlers, HandlerStep(h), ~ItemStateStep(h)
  PROVE  UNCHANGED itemState
BY HandlerCases DEF ItemStateStep, BeginActivation, CommitActivation, BeginCleanup, Abandon,
   BeginCreate, CleanupUnlink, BeginClaim, CommitClaim, CompleteOperation, AdmitChunk,
   AdmitFinal, WriteChunk, TornWrite, ReplayChunk, FinalReplay, FinalAttestation, PublishLink,
   PublishUnlink, PublishResume, ConfirmLease, rows

LEMMA NeverPending ==
  ASSUME TypeOK, NEW h \in Handlers, HandlerStep(h)
  PROVE  \A i \in Items : itemState'[i] = "pending" => itemState[i] = "pending"
<1>1. itemState \in [Items -> ItemStates]
  BY DEF TypeOK
<1>2. CASE ~ItemStateStep(h)
  BY <1>2, ItemStateFrame
<1>3. CASE ItemStateStep(h)
  BY <1>1, <1>3 DEF ItemStateStep, CommitCreate, CommitChunk, FinalFailure, FinalChanged,
     FinalMismatch, RecordReady, CommitCleanup, FailItem
<1> QED
  BY <1>2, <1>3

-----------------------------------------------------------------------------
(* Operations and requests stay bound to their items.                        *)

LEMMA OperationBounds ==
  ASSUME TypeOK, OperationsBound, HandlersBound, NEW o \in Ops, OperationStep(o)
  PROVE  OperationsBound' /\ HandlersBound'
<1>1. UNCHANGED <<itemState, opItem, pc, job>>
  BY DEF OperationStep, DeadlinePasses, SweepRead, SweepWrite, FailOperation, rows
<1>2. opState \in [Ops -> OpStates] /\ None \notin Handlers
  BY OpsAssumption DEF TypeOK
<1>3. \A p \in Ops : /\ opState'[p] = "none" <=> opState[p] = "none"
                     /\ opState'[p] \in LiveOp => opState[p] \in LiveOp
                     /\ opState[p] = "pending" => \/ opState'[p] = "pending"
                                                  \/ OpFree(None, p)
  <2>1. CASE DeadlinePasses(o) \/ SweepRead(o)
    BY <2>1 DEF DeadlinePasses, SweepRead
  <2>2. CASE SweepWrite(o)
    BY <1>2, <2>2 DEF SweepWrite, LiveOp, OperationsBound
  <2>3. CASE FailOperation(o)
    BY <1>2, <2>3 DEF FailOperation, LiveOp
  <2> QED
    BY <2>1, <2>2, <2>3 DEF OperationStep
<1>4. sweeping' \subseteq {p \in Ops : opState[p] # "none"}
  BY <1>2 DEF OperationStep, DeadlinePasses, SweepRead, SweepWrite, FailOperation, LiveOp,
     OperationsBound
<1>5. OperationsBound'
  BY <1>1, <1>3, <1>4 DEF OperationsBound
<1>6. \A g \in Handlers : pc[g] = "claiming" => opState'[job[g].op] = "pending"
  BY <1>2, <1>3 DEF HandlersBound, OpFree
<1> QED
  BY <1>1, <1>3, <1>5, <1>6 DEF HandlersBound

\* What a step does to the operation rows, for the handlers that work on them.
OpRowsKept(h) ==
  /\ \A o \in Ops : opState[o] # "none" => opState'[o] # "none" /\ opItem'[o] = opItem[o]
  /\ \A o \in Ops : opState'[o] # "none" =>
       \/ opState[o] # "none"
       \/ opItem'[o] = job[h].item /\ pc[h] = "creating" /\ itemState'[job[h].item] # "pending"
  /\ \A o \in Ops : opState'[o] \in LiveOp =>
       opState[o] \in LiveOp \/ (opItem'[o] = job[h].item /\ pc[h] = "creating")
  /\ \A o1, o2 \in Ops : /\ opState[o1] \notin LiveOp /\ opState'[o1] \in LiveOp
                         /\ opState[o2] \notin LiveOp /\ opState'[o2] \in LiveOp
                         => o1 = o2
  /\ \A o \in Ops : opState[o] = "pending" => \/ opState'[o] = "pending"
                                              \/ job[h].op = o /\ pc[h] = "claiming"
                                              \/ OpFree(h, o)
  /\ sweeping' = sweeping

LEMMA OpRows ==
  ASSUME TypeOK, HandlersBound, NEW h \in Handlers, HandlerStep(h)
  PROVE  OpRowsKept(h)
<1>1. /\ opState \in [Ops -> OpStates] /\ opItem \in [Ops -> Items \cup {None}]
  BY DEF TypeOK
<1>2. CASE ~OpRowStep(h)
  <2>1. opState' = opState /\ opItem' = opItem /\ sweeping' = sweeping
    BY <1>2, OperationFrame
  <2> QED
    BY <2>1 DEF OpRowsKept
<1>3. CASE CommitCreate(h)
  <2>1. pc[h] = "creating" /\ sweeping' = sweeping
    BY <1>3 DEF CommitCreate
  <2>2. PICK o \in Ops : /\ opState[o] = "none"
                         /\ opState' = [opState EXCEPT ![o] = "pending"]
                         /\ opItem' = [opItem EXCEPT ![o] = job[h].item]
    BY <1>3 DEF CommitCreate
  <2>3. /\ opState'[o] = "pending" /\ opItem'[o] = job[h].item
        /\ \A p \in Ops : p # o => opState'[p] = opState[p] /\ opItem'[p] = opItem[p]
    BY <1>1, <2>2
  <2>4. itemState'[job[h].item] # "pending"
    BY <1>3, <2>1 DEF CommitCreate, HandlersBound, TypeOK
  <2> QED
    BY <2>1, <2>2, <2>3, <2>4 DEF OpRowsKept, LiveOp
<1>4. CASE CommitClaim(h)
  <2> DEFINE o == job[h].op
  <2>1. pc[h] = "claiming" /\ o \in Ops /\ opState[o] = "pending"
    BY <1>4 DEF CommitClaim, HandlersBound
  <2>2. /\ opState'[o] = "claimed" /\ opItem' = opItem /\ sweeping' = sweeping
        /\ \A p \in Ops : p # o => opState'[p] = opState[p]
    BY <1>1, <1>4, <2>1 DEF CommitClaim
  <2> QED
    BY <2>1, <2>2 DEF OpRowsKept, LiveOp
<1>5. CASE CompleteOperation(h)
  <2> DEFINE o == job[h].op
  <2>1. OpFree(h, o) /\ o \in Ops /\ opState[o] # "none"
    BY <1>5 DEF CompleteOperation, HandlersBound, Admitted
  <2>2. /\ opState'[o] = "completed" /\ opItem' = opItem /\ sweeping' = sweeping
        /\ \A p \in Ops : p # o => opState'[p] = opState[p]
    BY <1>1, <1>5, <2>1 DEF CompleteOperation
  <2> QED
    BY <2>1, <2>2 DEF OpRowsKept, LiveOp
<1> QED
  BY <1>2, <1>3, <1>4, <1>5 DEF OpRowStep

LEMMA HandlerBounds ==
  ASSUME TypeOK, LocksExclusive, OperationsBound, HandlersBound,
         NEW h \in Handlers, HandlerStep(h)
  PROVE  OperationsBound' /\ HandlersBound'
<1>1. OpRowsKept(h)
  BY OpRows
<1>2. \A i \in Items : itemState'[i] = "pending" => itemState[i] = "pending"
  BY NeverPending
<1>3. LockStep(h) /\ JobStep(h)
  BY LockSteps, JobSteps
<1>4. OperationsBound'
  <2>1. \A o \in Ops : opState'[o] # "none" =>
          opItem'[o] \in Items /\ itemState'[opItem'[o]] # "pending"
    BY <1>1, <1>2 DEF OpRowsKept, OperationsBound, HandlersBound
  <2>2. ASSUME NEW o1 \in Ops, NEW o2 \in Ops, opItem'[o1] = opItem'[o2],
               opState'[o1] \in LiveOp, opState'[o2] \in LiveOp
        PROVE  o1 = o2
    BY <1>1, <2>2 DEF OpRowsKept, OperationsBound, HandlersBound, LiveOp
  <2>3. sweeping' \subseteq {o \in Ops : opState'[o] # "none"}
    BY <1>1 DEF OpRowsKept, OperationsBound
  <2> QED
    BY <2>1, <2>2, <2>3 DEF OperationsBound
<1>5. ASSUME NEW g \in Handlers, g # h
      PROVE  HandlersBound!(g)'
  <2>1. pc'[g] = pc[g] /\ job'[g] = job[g]
    BY <1>3, <1>5 DEF LockStep
  <2>2. pc[g] = "claiming" => opState'[job[g].op] = "pending"
    BY <1>1, <1>5 DEF OpRowsKept, HandlersBound, LocksExclusive, OpLocked, OpFree
  <2>3. ASSUME pc[g] = "creating", NEW o \in Ops, opItem'[o] = job[g].item
        PROVE  opState'[o] \notin LiveOp
    BY <1>1, <1>5, <2>3 DEF OpRowsKept, HandlersBound, LocksExclusive, ItemLocked, LiveOp
  <2> QED
    BY <1>1, <1>2, <2>1, <2>2, <2>3 DEF OpRowsKept, HandlersBound
<1>6. pc'[h] \in {"claiming", "creating"} => opState' = opState /\ opItem' = opItem
  <2>1. OpRowStep(h) => pc'[h] = "idle"
    BY DEF OpRowStep, CommitCreate, CommitClaim, CompleteOperation, Finish, TypeOK
  <2> QED
    BY <2>1, OperationFrame
<1>7. HandlersBound!(h)'
  <2>1. pc'[h] \in Admitted => /\ job'[h].op \in Ops /\ opState'[job'[h].op] # "none"
                               /\ job'[h].item \in Items
                               /\ itemState'[job'[h].item] # "pending"
    BY <1>1, <1>2, <1>3 DEF OpRowsKept, JobStep, HandlersBound, OperationsBound
  <2>2. pc'[h] = "claiming" => job'[h].op \in Ops /\ opState'[job'[h].op] = "pending"
    BY <1>3, <1>6 DEF JobStep
  <2>3. pc'[h] = "creating" =>
          /\ job'[h].item \in Items
          /\ \A o \in Ops : opItem'[o] = job'[h].item => opState'[o] \notin LiveOp
    BY <1>3, <1>6 DEF JobStep, CanCreate, LiveOps
  <2> QED
    BY <2>1, <2>2, <2>3
<1> QED
  BY <1>4, <1>5, <1>7 DEF HandlersBound

-----------------------------------------------------------------------------
(***************************************************************************)
(* The files, the rows and the counters of a run stay consistent at every  *)
(* step, and the safety properties follow.                                 *)
(***************************************************************************)

-----------------------------------------------------------------------------
(* Sequences of bytes.                                                       *)

LEMMA Appended ==
  ASSUME NEW s \in Seq(Byte), NEW t \in Seq(Byte)
  PROVE  /\ Len(s \o t) = Len(s) + Len(t)
         /\ \A k \in 1..Len(s) : (s \o t)[k] = s[k]
         /\ \A k \in 1..Len(t) : (s \o t)[Len(s) + k] = t[k]
OBVIOUS

LEMMA Prefix ==
  ASSUME NEW s \in Seq(Byte), NEW n \in Nat, n <= Len(s)
  PROVE  SubSeq(s, 1, n) \in Seq(Byte) /\ Len(SubSeq(s, 1, n)) = n
OBVIOUS

LEMMA SameBytes ==
  ASSUME NEW s \in Seq(Byte), NEW at \in Nat, NEW body \in Seq(Byte), NEW end \in Nat,
         end <= Len(s), SubSeq(s, at + 1, end) = body
  PROVE  \A k \in 1..Len(body) : body[k] = s[at + k]
OBVIOUS

-----------------------------------------------------------------------------
(* A step that leaves an item alone.                                         *)

ItemSame(i) ==
  /\ itemState'[i] = itemState[i] /\ offset'[i] = offset[i] /\ verified'[i] = verified[i]
  /\ partial'[i] = partial[i] /\ ready'[i] = ready[i] /\ linked'[i] = linked[i]
  /\ acked'[i] = acked[i]

StaysFailed == runState = "failed" => runState' = "failed"

LEMMA ItemKept ==
  ASSUME NEW i \in Items, ItemSame(i), StaysFailed, ItemConsistent(i)
  PROVE  ItemConsistent(i)'
<1>1. Stored(i)' = Stored(i) /\ (HasFile(i)' => HasFile(i))
  BY DEF ItemSame, StaysFailed, Stored, Existing, HasFile
<1>2. OffsetConsistent(i)'
  BY DEF ItemSame, ItemConsistent, OffsetConsistent
<1>3. FilesConsistent(i)'
  BY <1>1 DEF ItemSame, ItemConsistent, FilesConsistent
<1>4. AckedConsistent(i)'
  BY <1>1 DEF ItemSame, ItemConsistent, AckedConsistent
<1> QED
  BY <1>2, <1>3, <1>4 DEF ItemConsistent

\* The item a step touches stays consistent, and so do the others.
LEMMA OneItemStep ==
  ASSUME NEW i \in Items, StaysFailed, \A j \in Items : ItemConsistent(j),
         \A j \in Items \ {i} : ItemSame(j), ItemConsistent(i)'
  PROVE  \A j \in Items : ItemConsistent(j)'
BY ItemKept

-----------------------------------------------------------------------------
(* The steps that write a file or acknowledge bytes.                         *)

LEMMA WriteItem ==
  ASSUME TypeOK, NEW i \in Items, ItemConsistent(i), NEW s \in Seq(Byte),
         runState = "active", runState' = runState,
         itemState[i] = "transferring", Appendable(i),
         partial' = [partial EXCEPT ![i] = Existing(i) \o s],
         UNCHANGED <<itemState, offset, verified, ready, acked>>
  PROVE  ItemConsistent(i)'
<1>1. /\ Existing(i) \in Seq(Byte) /\ Existing(i) \o s \in Seq(Byte)
      /\ Existing(i) \o s # None
  BY AppendType, ContentAssumption
<1>2. /\ partial'[i] = Existing(i) \o s /\ ready'[i] = None /\ ready[i] = None
      /\ offset[i] \in Nat
  <2>1. partial'[i] = Existing(i) \o s
    BY DEF TypeOK
  <2>2. ready'[i] = None /\ ready[i] = None
    BY DEF ItemConsistent, FilesConsistent
  <2>3. offset[i] \in Nat
    BY DEF TypeOK
  <2> QED
    BY <2>1, <2>2, <2>3
<1>3. Stored(i)' = Existing(i) \o s /\ Stored(i) = Existing(i)
  BY <1>1, <1>2 DEF Stored, Existing
<1>4. Len(Existing(i)) = offset[i] /\ HasFile(i)
  BY DEF Appendable, HasFile
<1>5. /\ Len(Stored(i)') >= offset[i]
      /\ \A k \in 1..offset[i] : Stored(i)'[k] = Stored(i)[k]
  BY <1>1, <1>2, <1>3, <1>4, Appended
<1>6. OffsetConsistent(i)'
  BY DEF ItemConsistent, OffsetConsistent
<1>7. FilesConsistent(i)'
  BY <1>2, <1>5 DEF ItemConsistent, FilesConsistent
<1>8. AckedConsistent(i)'
  BY <1>4, <1>5 DEF ItemConsistent, AckedConsistent
<1> QED
  BY <1>6, <1>7, <1>8 DEF ItemConsistent

\* A request that holds the locks of its item: the item is not being received
\* while it is published, and has no published file while it is received.
LEMMA WriteChunkItems ==
  ASSUME TypeOK, HandlersBound, \A j \in Items : ItemConsistent(j),
         NEW h \in Handlers, NEW body \in Chunks, WriteChunk(h, body)
  PROVE  /\ \A j \in Items : ItemConsistent(j)'
         /\ ChunkWritten(h)'
<1> PICK i \in Items : job[h].item = i
  BY DEF WriteChunk, ChunkExpected, HandlersBound, Admitted
<1>1. i \in Items /\ runState = "active" /\ offset[i] + Len(body) <= Size[i]
  BY DEF WriteChunk, ChunkExpected, HandlersBound, Admitted
<1>2. /\ body \in Seq(Byte) /\ Len(body) \in Nat \ {0}
      /\ offset[i] \in Nat /\ Size[i] \in Nat
  BY <1>1, ChunkTypes, SizeAssumption DEF TypeOK
<1>3. itemState[i] = "transferring"
  BY <1>1, <1>2 DEF WriteChunk, ChunkExpected, ItemConsistent, OffsetConsistent
<1>4. ready[i] = None
  BY <1>1, <1>3 DEF ItemConsistent, FilesConsistent
<1>5. /\ runState' = runState
      /\ UNCHANGED <<itemState, offset, verified, ready, acked>>
      /\ job'[h].item = i /\ job'[h].body = body
  BY HandlingOK DEF WriteChunk, rows, Handling, Jobs
<1>6. CASE AlreadyWritten(i, body) /\ UNCHANGED <<partial, linked>>
  <2>1. \A j \in Items : ItemConsistent(j)'
    BY <1>5, <1>6, ItemKept DEF ItemSame, StaysFailed
  <2>2. partial[i] # None /\ partial[i] \in Seq(Byte) /\ Existing(i) = partial[i]
    BY <1>1, <1>2, <1>6 DEF AlreadyWritten, Existing, TypeOK, Contents
  <2>3. Len(partial[i]) = offset[i] + Len(body)
    BY <1>6, <2>2 DEF AlreadyWritten
  <2>4. \A n \in 1..Len(body) : body[n] = partial[i][offset[i] + n]
    <3>1. /\ Len(partial[i]) \in Nat
          /\ SubSeq(partial[i], offset[i] + 1, Len(partial[i])) = body
      BY <1>6, <2>2 DEF AlreadyWritten
    <3>2. \A end \in Nat : end <= Len(partial[i])
                             /\ SubSeq(partial[i], offset[i] + 1, end) = body
                             => \A n \in 1..Len(body) : body[n] = partial[i][offset[i] + n]
      BY <1>2, <2>2, SameBytes
    <3> QED
      BY <3>1, <3>2
  <2> QED
    BY <1>1, <1>2, <1>3, <1>4, <1>5, <1>6, <2>1, <2>2, <2>3, <2>4 DEF ChunkWritten
<1>7. CASE /\ Appendable(i)
           /\ partial' = [partial EXCEPT ![i] = Existing(i) \o body]
           /\ linked' = [linked EXCEPT ![i] = IF partial[i] = None THEN FALSE ELSE @]
  <2>1. ItemConsistent(i)'
    BY <1>1, <1>2, <1>3, <1>5, <1>7, WriteItem
  <2>2. \A j \in Items \ {i} : ItemSame(j)
    BY <1>1, <1>5, <1>7 DEF ItemSame, TypeOK
  <2>3. \A j \in Items : ItemConsistent(j)'
    BY <1>1, <1>5, <2>1, <2>2, OneItemStep DEF StaysFailed
  <2>4. /\ partial'[i] = Existing(i) \o body /\ Existing(i) \in Seq(Byte)
        /\ Len(Existing(i)) = offset[i] /\ partial'[i] \in Seq(Byte)
    BY <1>1, <1>2, <1>7, AppendType DEF TypeOK, Appendable
  <2>5. /\ Len(partial'[i]) = offset[i] + Len(body) /\ partial'[i] # None
        /\ \A n \in 1..Len(body) : partial'[i][offset[i] + n] = body[n]
    <3>1. /\ Len(Existing(i) \o body) = Len(Existing(i)) + Len(body)
          /\ \A n \in 1..Len(body) : (Existing(i) \o body)[Len(Existing(i)) + n] = body[n]
      BY <1>2, <2>4, Appended
    <3>2. partial'[i] # None
      BY <2>4, ContentAssumption
    <3> QED
      BY <2>4, <3>1, <3>2
  <2> QED
    BY <1>1, <1>2, <1>3, <1>4, <1>5, <2>3, <2>5 DEF ChunkWritten
<1> QED
  BY <1>6, <1>7 DEF WriteChunk

LEMMA TornWriteItems ==
  ASSUME TypeOK, HandlersBound, \A j \in Items : ItemConsistent(j),
         NEW h \in Handlers, NEW body \in Chunks, NEW n \in 0..MaxChunk, TornWrite(h, body, n)
  PROVE  \A j \in Items : ItemConsistent(j)'
<1> PICK i \in Items : job[h].item = i
  BY DEF TornWrite, ChunkExpected, HandlersBound, Admitted
<1> DEFINE s == SubSeq(body, 1, n)
<1>1. i \in Items /\ runState = "active" /\ offset[i] + Len(body) <= Size[i]
  BY DEF TornWrite, ChunkExpected, HandlersBound, Admitted
<1>2. /\ body \in Seq(Byte) /\ Len(body) \in Nat \ {0}
      /\ offset[i] \in Nat /\ Size[i] \in Nat
  BY <1>1, ChunkTypes, SizeAssumption DEF TypeOK
<1>3. itemState[i] = "transferring"
  BY <1>1, <1>2 DEF TornWrite, ChunkExpected, ItemConsistent, OffsetConsistent
<1>4. /\ runState' = runState /\ Appendable(i)
      /\ partial' = [partial EXCEPT ![i] = Existing(i) \o s]
      /\ linked' = [linked EXCEPT ![i] = IF partial[i] = None THEN FALSE ELSE @]
      /\ UNCHANGED <<itemState, offset, verified, ready, acked>>
  BY DEF TornWrite, rows
<1>5. s \in Seq(Byte)
  BY <1>2, MaxChunkAssumption, Prefix DEF TornWrite
<1> HIDE DEF s
<1>6. ItemConsistent(i)'
  BY <1>1, <1>3, <1>4, <1>5, WriteItem
<1>7. \A j \in Items \ {i} : ItemSame(j)
  BY <1>1, <1>4 DEF ItemSame, TypeOK
<1> QED
  BY <1>1, <1>4, <1>6, <1>7, OneItemStep DEF StaysFailed

LEMMA CommitChunkItems ==
  ASSUME TypeOK, HandlersBound, HandlersConsistent, \A j \in Items : ItemConsistent(j),
         NEW h \in Handlers, CommitChunk(h)
  PROVE  \A j \in Items : ItemConsistent(j)'
<1> PICK i \in Items : job[h].item = i
  BY DEF CommitChunk, HandlersBound, Admitted
<1> PICK body \in Seq(Byte) : job[h].body = body
  BY JobFields, HandlingOK
<1>1. ChunkWritten(h)
  BY DEF CommitChunk, HandlersConsistent
<1>2. /\ runState = "active" /\ body # <<>> /\ offset[i] + Len(body) <= Size[i]
      /\ ready[i] = None /\ partial[i] # None /\ Len(partial[i]) = offset[i] + Len(body)
      /\ \A n \in 1..Len(body) : partial[i][offset[i] + n] = body[n]
  BY <1>1 DEF ChunkWritten
<1>3. /\ offset[i] \in Nat /\ Size[i] \in Nat /\ Len(body) \in Nat \ {0}
      /\ partial[i] \in Seq(Byte) /\ Len(partial[i]) \in Nat
  BY <1>2, SizeAssumption DEF TypeOK, Contents
<1>4. /\ UNCHANGED <<runState, partial, ready, linked, verified>>
      /\ \A j \in Items \ {i} : ItemSame(j)
  BY DEF CommitChunk, files, ItemSame, TypeOK
<1>5. /\ offset'[i] = offset[i] + Len(body)
      /\ itemState'[i] = IF offset'[i] = Size[i] THEN "verifying" ELSE "transferring"
      /\ acked'[i] = acked[i] \cup Told(offset[i], body)
  BY DEF CommitChunk, TypeOK
<1>6. Stored(i) = partial[i] /\ Stored(i)' = partial[i] /\ HasFile(i)
  BY <1>2, <1>4 DEF Stored, Existing, HasFile
<1>7. OffsetConsistent(i)'
  BY <1>2, <1>3, <1>5 DEF OffsetConsistent
<1>8. FilesConsistent(i)'
  BY <1>2, <1>3, <1>4, <1>5, <1>6 DEF FilesConsistent
<1>9. ASSUME NEW t \in acked'[i]
      PROVE  t[1] \in 1..offset'[i] /\ Stored(i)'[t[1]] = t[2]
  <2>1. CASE t \in acked[i]
    BY <1>3, <1>5, <1>6, <2>1 DEF ItemConsistent, AckedConsistent
  <2>2. CASE t \in Told(offset[i], body)
    <3> PICK n \in 1..Len(body) : t = <<offset[i] + n, body[n]>>
      BY <2>2 DEF Told
    <3> QED
      BY <1>2, <1>3, <1>5, <1>6
  <2> QED
    BY <1>5, <2>1, <2>2
<1>10. ItemConsistent(i)'
  BY <1>7, <1>8, <1>9 DEF ItemConsistent, AckedConsistent
<1> QED
  BY <1>4, <1>10, OneItemStep DEF StaysFailed

LEMMA ReplayChunkItems ==
  ASSUME TypeOK, HandlersBound, \A j \in Items : ItemConsistent(j),
         NEW h \in Handlers, NEW body \in Chunks, NEW at \in Nat, ReplayChunk(h, at, body)
  PROVE  \A j \in Items : ItemConsistent(j)'
<1> PICK i \in Items : job[h].item = i
  BY DEF ReplayChunk, CanReplay, HandlersBound, Admitted
<1> DEFINE target == IF itemState[i] = "ready" THEN ready[i] ELSE partial[i]
<1>1. /\ at + Len(body) <= offset[i] /\ target # None /\ Len(target) >= at + Len(body)
      /\ SubSeq(target, at + 1, at + Len(body)) = body
  BY DEF ReplayChunk, CanReplay
<1>2. /\ UNCHANGED <<runState, itemState, offset, verified, partial, ready, linked>>
      /\ \A j \in Items \ {i} : ItemSame(j)
      /\ acked'[i] = acked[i] \cup Told(at, body)
  BY DEF ReplayChunk, rows, files, ItemSame, TypeOK
<1>3. /\ target \in Seq(Byte) /\ body \in Seq(Byte) /\ Len(body) \in Nat
      /\ offset[i] \in Nat
  BY <1>1, ChunkTypes DEF TypeOK, Contents
<1>4. Stored(i) = target /\ Stored(i)' = target
  BY <1>1, <1>2 DEF ItemConsistent, FilesConsistent, Stored, Existing
<1> HIDE DEF target
<1>5. \A n \in 1..Len(body) : body[n] = target[at + n]
  <2>1. at + Len(body) \in Nat
    BY <1>3
  <2> QED
    BY <1>1, <1>3, <2>1, SameBytes
<1>6. OffsetConsistent(i)' /\ FilesConsistent(i)' /\ (HasFile(i)' <=> HasFile(i))
  BY <1>2, <1>4 DEF ItemConsistent, OffsetConsistent, FilesConsistent, HasFile
<1>7. ASSUME NEW t \in acked'[i]
      PROVE  t[1] \in 1..offset[i] /\ (HasFile(i) => target[t[1]] = t[2])
  <2>1. CASE t \in acked[i]
    BY <1>4, <2>1 DEF ItemConsistent, AckedConsistent
  <2>2. CASE t \in Told(at, body)
    <3> PICK n \in 1..Len(body) : t = <<at + n, body[n]>>
      BY <2>2 DEF Told
    <3> QED
      BY <1>1, <1>3, <1>5
  <2> QED
    BY <1>2, <2>1, <2>2
<1>8. ItemConsistent(i)'
  BY <1>2, <1>4, <1>6, <1>7 DEF ItemConsistent, AckedConsistent
<1> QED
  BY <1>2, <1>8, OneItemStep DEF StaysFailed

-----------------------------------------------------------------------------
(* Publication, failure and cleanup.                                         *)

LEMMA PublishLinkItems ==
  ASSUME TypeOK, HandlersBound, \A j \in Items : ItemConsistent(j),
         NEW h \in Handlers, PublishLink(h)
  PROVE  \A j \in Items : ItemConsistent(j)'
<1> PICK i \in Items : job[h].item = i
  BY DEF PublishLink, FinalLocked, HandlersBound, Admitted
<1>1. /\ itemState[i] = "verifying" /\ offset[i] = Size[i]
      /\ ready[i] = None /\ partial[i] # None /\ Len(partial[i]) = Size[i]
  BY DEF PublishLink, Finalizable
<1>2. /\ UNCHANGED <<runState, itemState, offset, verified, partial, acked>>
      /\ \A j \in Items \ {i} : ItemSame(j)
  BY DEF PublishLink, rows, ItemSame, TypeOK
<1>3. ready'[i] = partial[i] /\ linked'[i]
  BY DEF PublishLink, TypeOK
<1>4. Stored(i) = partial[i] /\ Stored(i)' = partial[i] /\ HasFile(i)
  BY <1>1, <1>2, <1>3 DEF Stored, Existing, HasFile
<1>5. OffsetConsistent(i)' /\ FilesConsistent(i)'
  BY <1>1, <1>2, <1>3, <1>4 DEF ItemConsistent, OffsetConsistent, FilesConsistent
<1>6. AckedConsistent(i)'
  BY <1>2, <1>4 DEF ItemConsistent, AckedConsistent
<1> QED
  BY <1>2, <1>5, <1>6, OneItemStep DEF StaysFailed, ItemConsistent

\* The second name goes away: the published file keeps what was received.
LEMMA UnlinkItems ==
  ASSUME TypeOK, \A j \in Items : ItemConsistent(j), NEW i \in Items, ready[i] # None,
         partial' = [partial EXCEPT ![i] = None], linked' = [linked EXCEPT ![i] = FALSE],
         UNCHANGED <<runState, itemState, offset, verified, ready, acked>>
  PROVE  \A j \in Items : ItemConsistent(j)'
<1>1. \A j \in Items \ {i} : ItemSame(j)
  BY DEF ItemSame, TypeOK
<1>2. partial'[i] = None
  BY DEF TypeOK
<1>3. Stored(i)' = Stored(i) /\ HasFile(i)' /\ HasFile(i)
  BY DEF Stored, HasFile
<1>4. OffsetConsistent(i)' /\ FilesConsistent(i)'
  BY <1>2, <1>3 DEF ItemConsistent, OffsetConsistent, FilesConsistent
<1>5. AckedConsistent(i)'
  BY <1>3 DEF ItemConsistent, AckedConsistent
<1> QED
  BY <1>1, <1>4, <1>5, OneItemStep DEF StaysFailed, ItemConsistent

LEMMA PublishItems ==
  ASSUME TypeOK, HandlersBound, HandlersConsistent, \A j \in Items : ItemConsistent(j),
         NEW h \in Handlers, PublishUnlink(h) \/ PublishResume(h)
  PROVE  \A j \in Items : ItemConsistent(j)'
<1> PICK i \in Items : job[h].item = i
  BY DEF PublishUnlink, PublishResume, FinalLocked, HandlersBound, Admitted
<1>1. ready[i] # None
  BY DEF PublishUnlink, PublishResume, HandlersConsistent
<1>2. /\ partial' = [partial EXCEPT ![i] = None] /\ linked' = [linked EXCEPT ![i] = FALSE]
      /\ UNCHANGED <<runState, itemState, offset, verified, ready, acked>>
  BY DEF PublishUnlink, PublishResume, rows
<1> QED
  BY <1>1, <1>2, UnlinkItems

\* An item that is not ready and is published or failed now, or was cleaned up.
LEMMA FailedItems ==
  ASSUME TypeOK, \A j \in Items : ItemConsistent(j),
         StaysFailed, NEW S \in SUBSET Items,
         \A j \in S : itemState[j] # "ready" /\ itemState'[j] = "failed",
         \A j \in Items \ S : itemState'[j] = itemState[j],
         UNCHANGED <<offset, verified, partial, ready, linked, acked>>
  PROVE  \A j \in Items : ItemConsistent(j)'
<1>1. ASSUME NEW j \in Items \ S PROVE ItemConsistent(j)'
  BY <1>1, ItemKept DEF ItemSame
<1>2. ASSUME NEW j \in S PROVE ItemConsistent(j)'
  <2>1. itemState'[j] = "failed"
    BY <1>2
  <2>2. Stored(j)' = Stored(j) /\ (HasFile(j)' => HasFile(j))
    BY DEF Stored, Existing, HasFile, StaysFailed
  <2>3. OffsetConsistent(j)' /\ FilesConsistent(j)'
    BY <2>1, <2>2 DEF ItemConsistent, OffsetConsistent, FilesConsistent
  <2>4. AckedConsistent(j)'
    BY <2>2 DEF ItemConsistent, AckedConsistent
  <2> QED
    BY <2>3, <2>4 DEF ItemConsistent
<1> QED
  BY <1>1, <1>2

LEMMA FailItemItems ==
  ASSUME TypeOK, HandlersBound, \A j \in Items : ItemConsistent(j),
         NEW h \in Handlers, FinalFailure(h) \/ FinalChanged(h) \/ FinalMismatch(h)
  PROVE  \A j \in Items : ItemConsistent(j)'
<1> PICK i \in Items : job[h].item = i
  BY DEF FinalFailure, FinalChanged, FinalMismatch, FinalLocked, HandlersBound, Admitted
<1>1. FailItem(i) /\ UNCHANGED <<offset, verified, partial, ready, linked, acked>>
  BY DEF FinalFailure, FinalChanged, FinalMismatch, files
<1>2. /\ itemState[i] # "ready" /\ itemState'[i] = "failed" /\ StaysFailed
      /\ \A j \in Items \ {i} : itemState'[j] = itemState[j]
  BY <1>1 DEF FailItem, TypeOK, StaysFailed
<1> PICK S \in SUBSET Items : S = {i}
  OBVIOUS
<1> QED
  BY <1>1, <1>2, FailedItems

LEMMA CommitCleanupItems ==
  ASSUME TypeOK, HandlersConsistent, \A j \in Items : ItemConsistent(j),
         NEW h \in Handlers, CommitCleanup(h)
  PROVE  \A j \in Items : ItemConsistent(j)'
<1> PICK S \in SUBSET Items : job[h].removed = S
  BY JobFields, HandlingOK
<1>1. \A j \in S : itemState[j] # "ready"
  BY DEF CommitCleanup, HandlersConsistent
<1>2. /\ itemState' = [j \in Items |-> IF j \in S THEN "failed" ELSE itemState[j]]
      /\ UNCHANGED <<runState, offset, verified, partial, ready, linked, acked>>
  BY DEF CommitCleanup, files
<1> QED
  BY <1>1, <1>2, FailedItems DEF StaysFailed

LEMMA CleanupUnlinkItems ==
  ASSUME TypeOK, HandlersConsistent, \A j \in Items : ItemConsistent(j),
         NEW h \in Handlers, NEW i \in Items, CleanupUnlink(h, i)
  PROVE  \A j \in Items : ItemConsistent(j)'
<1>1. /\ runState = "failed" /\ itemState[i] # "ready" /\ ready[i] = None
  BY DEF CleanupUnlink, HandlersConsistent
<1>2. /\ UNCHANGED <<runState, itemState, offset, verified, ready, acked>>
      /\ \A j \in Items \ {i} : ItemSame(j)
  BY DEF CleanupUnlink, rows, ItemSame, TypeOK
<1>3. partial'[i] = None
  BY DEF CleanupUnlink, TypeOK
<1>4. ~HasFile(i)'
  BY <1>1, <1>2, <1>3 DEF HasFile
<1>5. ItemConsistent(i)'
  BY <1>1, <1>2, <1>3, <1>4 DEF ItemConsistent, OffsetConsistent, FilesConsistent,
     AckedConsistent
<1> QED
  BY <1>2, <1>5, OneItemStep DEF StaysFailed

LEMMA CommitCreateItems ==
  ASSUME TypeOK, HandlersBound, HandlersConsistent, \A j \in Items : ItemConsistent(j),
         NEW h \in Handlers, CommitCreate(h)
  PROVE  \A j \in Items : ItemConsistent(j)'
<1> PICK i \in Items : job[h].item = i
  BY DEF CommitCreate, HandlersBound
<1>1. itemState[i] \in {"pending", "transferring"}
  BY DEF CommitCreate, HandlersConsistent
<1>2. /\ UNCHANGED <<runState, offset, verified, partial, ready, linked, acked>>
      /\ \A j \in Items \ {i} : ItemSame(j)
      /\ itemState'[i] = "transferring"
  BY DEF CommitCreate, files, ItemSame, TypeOK
<1>3. offset[i] < Size[i] /\ ready[i] = None
  <2>1. offset[i] \in Nat /\ Size[i] \in Nat \ {0}
    BY SizeAssumption DEF TypeOK
  <2> QED
    BY <1>1, <2>1 DEF ItemConsistent, OffsetConsistent, FilesConsistent
<1>4. Stored(i)' = Stored(i) /\ (HasFile(i)' <=> HasFile(i))
  BY <1>2 DEF Stored, Existing, HasFile
<1>5. OffsetConsistent(i)' /\ FilesConsistent(i)'
  BY <1>2, <1>3, <1>4 DEF ItemConsistent, OffsetConsistent, FilesConsistent
<1>6. AckedConsistent(i)'
  BY <1>2, <1>4 DEF ItemConsistent, AckedConsistent
<1> QED
  BY <1>2, <1>5, <1>6, OneItemStep DEF StaysFailed, ItemConsistent

LEMMA RecordReadyItems ==
  ASSUME TypeOK, HandlersBound, HandlersConsistent, RunConsistent,
         \A j \in Items : ItemConsistent(j), NEW h \in Handlers, RecordReady(h)
  PROVE  StaysFailed /\ \A j \in Items : ItemConsistent(j)'
<1> PICK i \in Items : job[h].item = i
  BY DEF RecordReady, HandlersBound, Admitted
<1>1. /\ itemState[i] = "verifying" /\ ready[i] # None /\ Len(ready[i]) = Size[i]
  BY DEF RecordReady, HandlersConsistent
<1>2. /\ UNCHANGED <<failedCount, offset, partial, ready, linked, acked>>
      /\ \A j \in Items \ {i} : ItemSame(j)
      /\ itemState'[i] = "ready" /\ verified'[i] = ready[i]
  BY DEF RecordReady, files, ItemSame, TypeOK
<1>3. StaysFailed
  BY DEF StaysFailed, RecordReady, RunConsistent, RunSummarisesItems
<1>4. Stored(i)' = Stored(i) /\ (HasFile(i)' <=> HasFile(i))
  BY <1>1, <1>2 DEF Stored, Existing, HasFile
<1>5. OffsetConsistent(i)' /\ FilesConsistent(i)'
  BY <1>1, <1>2, <1>4 DEF ItemConsistent, OffsetConsistent, FilesConsistent
<1>6. AckedConsistent(i)'
  BY <1>2, <1>4 DEF ItemConsistent, AckedConsistent
<1> QED
  BY <1>2, <1>3, <1>5, <1>6, OneItemStep DEF ItemConsistent

\* The steps that leave the rows and the files of every item alone.
ItemFrameStep(h) ==
  \/ BeginActivation(h) \/ CommitActivation(h)
  \/ (\E i \in Items : BeginCreate(h, i))
  \/ (\E o \in Ops : BeginClaim(h, o)) \/ CommitClaim(h)
  \/ (\E o \in Ops : AdmitChunk(h, o))
  \/ (\E o \in Ops, kind \in Kinds, digest \in Contents \cup {None} :
        AdmitFinal(h, o, kind, digest))
  \/ FinalReplay(h) \/ FinalAttestation(h) \/ ConfirmLease(h) \/ CompleteOperation(h)
  \/ BeginCleanup(h) \/ Abandon(h)

LEMMA ItemFrame ==
  ASSUME NEW h \in Handlers, ItemFrameStep(h)
  PROVE  /\ UNCHANGED <<itemState, offset, verified, partial, ready, linked, acked>>
         /\ UNCHANGED <<readyCount, failedCount>>
         /\ runState' = runState \/ CommitActivation(h)
BY DEF ItemFrameStep, BeginActivation, CommitActivation, BeginCreate, BeginClaim, CommitClaim,
   AdmitChunk, AdmitFinal, FinalReplay, FinalAttestation, ConfirmLease, CompleteOperation,
   BeginCleanup, Abandon, rows, files

LEMMA FrameItems ==
  ASSUME TypeOK, HandlersConsistent, \A j \in Items : ItemConsistent(j),
         NEW h \in Handlers, ItemFrameStep(h)
  PROVE  \A j \in Items : ItemConsistent(j)'
<1>1. StaysFailed
  BY ItemFrame DEF StaysFailed, CommitActivation, HandlersConsistent
<1>2. \A j \in Items : ItemSame(j)
  BY ItemFrame DEF ItemSame
<1> QED
  BY <1>1, <1>2, ItemKept

LEMMA ItemSteps ==
  ASSUME TypeOK, HandlersBound, HandlersConsistent, RunConsistent,
         \A j \in Items : ItemConsistent(j), NEW h \in Handlers, HandlerStep(h)
  PROVE  \A j \in Items : ItemConsistent(j)'
<1>1. CASE ItemFrameStep(h)
  BY <1>1, FrameItems
<1>2. CASE \E body \in Chunks : \/ WriteChunk(h, body)
                                \/ \E n \in 0..MaxChunk : TornWrite(h, body, n)
                                \/ \E at \in Nat : ReplayChunk(h, at, body)
  BY <1>2, WriteChunkItems, TornWriteItems, ReplayChunkItems
<1>3. CASE \/ CommitCreate(h) \/ CommitChunk(h) \/ PublishLink(h) \/ PublishUnlink(h)
           \/ PublishResume(h) \/ RecordReady(h)
  BY <1>3, CommitCreateItems, CommitChunkItems, PublishLinkItems, PublishItems,
     RecordReadyItems
<1>4. CASE \/ FinalFailure(h) \/ FinalChanged(h) \/ FinalMismatch(h) \/ CommitCleanup(h)
           \/ \E i \in Items : CleanupUnlink(h, i)
  BY <1>4, FailItemItems, CommitCleanupItems, CleanupUnlinkItems
<1> QED
  BY HandlerCases, <1>1, <1>2, <1>3, <1>4 DEF ItemFrameStep

-----------------------------------------------------------------------------
(* The state of the run and its counters.                                    *)

ReadyItems  == {i \in Items : itemState[i] = "ready"}
FailedItemSet == {i \in Items : itemState[i] = "failed"}

\* A step that neither publishes nor fails an item.
LEMMA RunKept ==
  ASSUME RunConsistent,
         UNCHANGED <<readyCount, failedCount>>,
         runState' = runState \/ (runState = "planned" /\ runState' = "active"),
         \A i \in Items : (itemState'[i] = "ready" <=> itemState[i] = "ready")
                          /\ (itemState'[i] = "failed" <=> itemState[i] = "failed"),
         runState' = "planned" => itemState' = itemState
  PROVE  RunConsistent'
<1>1. ReadyItems' = ReadyItems /\ FailedItemSet' = FailedItemSet
  BY DEF ReadyItems, FailedItemSet
<1>2. runState' = "completed" <=> \A i \in Items : itemState'[i] = "ready"
  BY DEF RunConsistent, RunSummarisesItems
<1>3. runState' = "failed" <=> failedCount' > 0
  BY DEF RunConsistent, RunSummarisesItems
<1>4. RunSummarisesItems'
  BY <1>1, <1>2, <1>3 DEF RunConsistent, RunSummarisesItems, ReadyItems, FailedItemSet
<1>5. runState' = "planned" => \A i \in Items : itemState'[i] = "pending"
  BY DEF RunConsistent
<1>6. \A i \in Items : itemState'[i] = "failed" => runState' = "failed"
  BY DEF RunConsistent
<1> QED
  BY <1>4, <1>5, <1>6 DEF RunConsistent

LEMMA RecordReadyRun ==
  ASSUME TypeOK, HandlersBound, HandlersConsistent, RunConsistent,
         NEW h \in Handlers, RecordReady(h)
  PROVE  RunConsistent'
<1> PICK i \in Items : job[h].item = i
  BY DEF RecordReady, HandlersBound, Admitted
<1> DEFINE n == Cardinality(ReadyItems')
<1>1. itemState[i] = "verifying" /\ failedCount \in Nat
  BY DEF RecordReady, HandlersConsistent, TypeOK
<1>2. /\ itemState'[i] = "ready" /\ \A j \in Items \ {i} : itemState'[j] = itemState[j]
      /\ failedCount' = failedCount
  BY DEF RecordReady, TypeOK
<1>3. ReadyItems' = {j \in Items : j = i \/ itemState[j] = "ready"}
  BY <1>2 DEF ReadyItems
<1>4. /\ readyCount' = n
      /\ runState' = IF n = Cardinality(Items) /\ failedCount = 0 THEN "completed"
                     ELSE runState
  BY <1>3 DEF RecordReady
<1>5. FailedItemSet' = FailedItemSet
  BY <1>1, <1>2 DEF FailedItemSet
<1>6. failedCount <= Cardinality(FailedItemSet) /\ (runState = "failed" <=> failedCount > 0)
  BY DEF RunConsistent, RunSummarisesItems, FailedItemSet
<1>7. runState # "planned" /\ runState # "completed"
  BY <1>1 DEF RunConsistent, RunSummarisesItems
<1>8. n = Cardinality(Items) <=> \A j \in Items : itemState'[j] = "ready"
  <2>1. ReadyItems' \in SUBSET Items
    BY DEF ReadyItems
  <2>2. n = Cardinality(Items) => ReadyItems' = Items
    BY <2>1, ItemNumber
  <2>3. ReadyItems' = Items <=> \A j \in Items : itemState'[j] = "ready"
    BY DEF ReadyItems
  <2> QED
    BY <2>2, <2>3
<1>9. (\A j \in Items : itemState'[j] = "ready") => failedCount = 0
  <2>1. ASSUME \A j \in Items : itemState'[j] = "ready" PROVE FailedItemSet' = {}
    BY <2>1 DEF FailedItemSet
  <2>2. Cardinality({}) = 0
    BY FS_EmptySet
  <2> QED
    BY <1>1, <1>5, <1>6, <2>1, <2>2
<1>10. RunSummarisesItems'
  <2>1. runState' = "completed" <=> \A j \in Items : itemState'[j] = "ready"
    BY <1>4, <1>7, <1>8, <1>9
  <2>2. runState' = "failed" <=> failedCount' > 0
    BY <1>1, <1>2, <1>4, <1>6
  <2>3. failedCount' <= Cardinality(FailedItemSet')
    BY <1>2, <1>5, <1>6
  <2> QED
    BY <1>4, <2>1, <2>2, <2>3 DEF RunSummarisesItems, ReadyItems, FailedItemSet
<1>11. \A j \in Items : itemState'[j] = "failed" => runState' = "failed"
  <2> SUFFICES ASSUME NEW j \in Items, itemState'[j] = "failed" PROVE runState' = "failed"
    OBVIOUS
  <2>1. itemState[j] = "failed"
    BY <1>1, <1>2
  <2>2. runState = "failed" /\ failedCount > 0
    BY <1>6, <2>1 DEF RunConsistent
  <2> QED
    BY <1>1, <1>4, <2>2
<1> QED
  BY <1>4, <1>7, <1>10, <1>11 DEF RunConsistent

LEMMA FailItemRun ==
  ASSUME TypeOK, RunConsistent, NEW i \in Items, FailItem(i), UNCHANGED readyCount
  PROVE  RunConsistent'
<1>1. /\ itemState'[i] = "failed" /\ itemState[i] # "ready" /\ runState' = "failed"
      /\ \A j \in Items \ {i} : itemState'[j] = itemState[j]
      /\ failedCount' = failedCount + (IF itemState[i] = "failed" THEN 0 ELSE 1)
      /\ failedCount \in Nat
  BY DEF FailItem, TypeOK
<1>2. ReadyItems' = ReadyItems /\ FailedItemSet' = FailedItemSet \cup {i}
  BY <1>1 DEF ReadyItems, FailedItemSet
<1>3. failedCount' > 0
  BY <1>1 DEF RunConsistent, RunSummarisesItems
<1>4. failedCount' <= Cardinality(FailedItemSet')
  <2>1. FailedItemSet \in SUBSET Items /\ failedCount <= Cardinality(FailedItemSet)
    BY DEF FailedItemSet, RunConsistent, RunSummarisesItems
  <2>2. IsFiniteSet(FailedItemSet) /\ Cardinality(FailedItemSet) \in Nat
    BY <2>1, ItemNumber
  <2>3. CASE itemState[i] = "failed"
    <3>1. FailedItemSet' = FailedItemSet
      BY <1>2, <2>3 DEF FailedItemSet
    <3> QED
      BY <1>1, <2>1, <2>3, <3>1
  <2>4. CASE itemState[i] # "failed"
    <3>1. Cardinality(FailedItemSet \cup {i}) = Cardinality(FailedItemSet) + 1
      BY <2>2, <2>4, FS_AddElement DEF FailedItemSet
    <3> QED
      BY <1>1, <1>2, <2>1, <2>2, <2>4, <3>1
  <2> QED
    BY <2>3, <2>4
<1>5. readyCount' = Cardinality(ReadyItems')
  BY <1>2 DEF RunConsistent, RunSummarisesItems, ReadyItems
<1> QED
  BY <1>1, <1>3, <1>4, <1>5 DEF RunConsistent, RunSummarisesItems, ReadyItems, FailedItemSet

LEMMA CommitCleanupRun ==
  ASSUME TypeOK, HandlersConsistent, RunConsistent, NEW h \in Handlers, CommitCleanup(h)
  PROVE  RunConsistent'
<1> PICK S \in SUBSET Items : job[h].removed = S
  BY JobFields, HandlingOK
<1>1. /\ itemState' = [j \in Items |-> IF j \in S THEN "failed" ELSE itemState[j]]
      /\ UNCHANGED <<runState, readyCount, failedCount>>
      /\ \A j \in S : itemState[j] # "ready" /\ runState = "failed"
      /\ runState = "failed"
  BY DEF CommitCleanup, HandlersConsistent
<1>2. ReadyItems' = ReadyItems /\ FailedItemSet' = FailedItemSet \cup S
  BY <1>1 DEF ReadyItems, FailedItemSet
<1>3. failedCount' <= Cardinality(FailedItemSet')
  <2>1. /\ FailedItemSet \in SUBSET Items /\ FailedItemSet' \in SUBSET Items
        /\ failedCount <= Cardinality(FailedItemSet) /\ failedCount \in Nat
    BY DEF FailedItemSet, RunConsistent, RunSummarisesItems, TypeOK
  <2>2. IsFiniteSet(FailedItemSet') /\ FailedItemSet \subseteq FailedItemSet'
    BY <1>2, <2>1, ItemNumber
  <2>3. Cardinality(FailedItemSet) <= Cardinality(FailedItemSet')
    BY <2>2, FS_Subset
  <2>4. Cardinality(FailedItemSet) \in Nat /\ Cardinality(FailedItemSet') \in Nat
    BY <2>1, ItemNumber
  <2> QED
    BY <1>1, <2>1, <2>3, <2>4
<1>4. runState' = "completed" <=> \A j \in Items : itemState'[j] = "ready"
  <2>1. PICK j \in Items : itemState[j] # "ready"
    BY <1>1 DEF RunConsistent, RunSummarisesItems
  <2> QED
    BY <1>1, <2>1
<1>5. readyCount' = Cardinality(ReadyItems') /\ (runState' = "failed" <=> failedCount' > 0)
  BY <1>1, <1>2 DEF RunConsistent, RunSummarisesItems, ReadyItems
<1> QED
  BY <1>1, <1>3, <1>4, <1>5 DEF RunConsistent, RunSummarisesItems, ReadyItems, FailedItemSet

LEMMA RunSteps ==
  ASSUME TypeOK, HandlersBound, HandlersConsistent, RunConsistent,
         NEW h \in Handlers, HandlerStep(h)
  PROVE  RunConsistent'
<1>1. CASE ItemFrameStep(h)
  <2>1. runState' = runState \/ (runState = "planned" /\ runState' = "active")
    BY <1>1, ItemFrame DEF CommitActivation, HandlersConsistent
  <2>2. UNCHANGED <<itemState, readyCount, failedCount>>
    BY <1>1, ItemFrame
  <2> QED
    BY <2>1, <2>2, RunKept
<1>2. CASE \/ \E body \in Chunks : \/ WriteChunk(h, body)
                                   \/ \E n \in 0..MaxChunk : TornWrite(h, body, n)
                                   \/ \E at \in Nat : ReplayChunk(h, at, body)
           \/ PublishLink(h) \/ PublishUnlink(h) \/ PublishResume(h)
           \/ \E i \in Items : CleanupUnlink(h, i)
  <2>1. UNCHANGED <<runState, itemState, readyCount, failedCount>>
    BY <1>2 DEF WriteChunk, TornWrite, ReplayChunk, PublishLink, PublishUnlink, PublishResume,
       CleanupUnlink, rows
  <2> QED
    BY <2>1, RunKept
<1>3. CASE CommitCreate(h) \/ CommitChunk(h)
  <2> PICK i \in Items : job[h].item = i
    BY <1>3 DEF CommitCreate, CommitChunk, HandlersBound, Admitted
  <2>1. /\ UNCHANGED <<runState, readyCount, failedCount>>
        /\ runState # "planned" /\ itemState[i] \in {"pending", "transferring"}
    BY <1>3 DEF CommitCreate, CommitChunk, HandlersConsistent, ChunkWritten
  <2>2. /\ itemState'[i] \in {"transferring", "verifying"}
        /\ \A j \in Items \ {i} : itemState'[j] = itemState[j]
    BY <1>3 DEF CommitCreate, CommitChunk, TypeOK
  <2> QED
    BY <2>1, <2>2, RunKept
<1>4. CASE FinalFailure(h) \/ FinalChanged(h) \/ FinalMismatch(h)
  <2> PICK i \in Items : job[h].item = i
    BY <1>4 DEF FinalFailure, FinalChanged, FinalMismatch, FinalLocked, HandlersBound, Admitted
  <2>1. FailItem(i) /\ readyCount' = readyCount
    BY <1>4 DEF FinalFailure, FinalChanged, FinalMismatch
  <2> QED
    BY <2>1, FailItemRun
<1>5. CASE RecordReady(h)
  BY <1>5, RecordReadyRun
<1>6. CASE CommitCleanup(h)
  BY <1>6, CommitCleanupRun
<1> QED
  BY HandlerCases, <1>1, <1>2, <1>3, <1>4, <1>5, <1>6 DEF ItemFrameStep

-----------------------------------------------------------------------------
(* What the handlers rely on.                                                *)

\* Rows and files are written under the locks of the run and of the item.
RowStep(h) ==
  /\ pc[h] \in RunLocked \/ RunFree \/ UNCHANGED <<runState, offset, partial, ready>>
  /\ runState' = "planned" => runState = "planned"
  /\ \A i \in Items : \/ itemState'[i] = itemState[i]
                      \/ ItemFree(i)
                      \/ pc[h] \in ItemLocked /\ job[h].item = i
  /\ \A i \in Items : \/ itemState'[i] = itemState[i]
                      \/ pc[h] \in RunLocked
                      \/ RunFree
                      \/ itemState'[i] = "transferring"

LEMMA RowSteps ==
  ASSUME TypeOK, HandlersBound, NEW h \in Handlers, HandlerStep(h)
  PROVE  RowStep(h)
<1> USE DEF RowStep, RunLocked, ItemLocked
<1>1. CASE ItemFrameStep(h) /\ ~CommitActivation(h)
  BY <1>1, ItemFrame
<1>2. CASE CommitActivation(h)
  BY <1>2 DEF CommitActivation, files
<1>3. CASE \/ \E body \in Chunks : \/ WriteChunk(h, body)
                                   \/ \E n \in 0..MaxChunk : TornWrite(h, body, n)
                                   \/ \E at \in Nat : ReplayChunk(h, at, body)
           \/ PublishLink(h) \/ PublishUnlink(h) \/ PublishResume(h)
           \/ \E i \in Items : CleanupUnlink(h, i)
  <2>1. UNCHANGED <<runState, itemState>> /\ (pc[h] \in RunLocked \/ RunFree)
    BY <1>3 DEF WriteChunk, TornWrite, ReplayChunk, CanReplay, ChunkExpected, PublishLink,
       PublishUnlink, PublishResume, FinalLocked, CleanupUnlink, rows
  <2> QED
    BY <2>1
<1>4. CASE CommitCreate(h)
  BY <1>4 DEF CommitCreate, HandlersBound, TypeOK, files
<1>5. CASE CommitChunk(h) \/ RecordReady(h)
  BY <1>5 DEF CommitChunk, RecordReady, HandlersBound, Admitted, TypeOK
<1>6. CASE FinalFailure(h) \/ FinalChanged(h) \/ FinalMismatch(h)
  BY <1>6 DEF FinalFailure, FinalChanged, FinalMismatch, FinalLocked, FailItem, HandlersBound,
     Admitted, TypeOK
<1>7. CASE CommitCleanup(h)
  BY <1>7 DEF CommitCleanup
<1> QED
  BY HandlerCases, <1>1, <1>2, <1>3, <1>4, <1>5, <1>6, <1>7 DEF ItemFrameStep

\* The other handlers can go on: what they hold is not written.
LEMMA OthersConsistent ==
  ASSUME TypeOK, LocksExclusive, HandlersBound, HandlersConsistent,
         NEW h \in Handlers, LockStep(h), RowStep(h), NEW g \in Handlers, g # h
  PROVE  HandlersConsistent!(g)'
<1>1. pc'[g] = pc[g] /\ job'[g] = job[g]
  BY DEF LockStep
<1>2. pc[g] \in RunLocked => UNCHANGED <<runState, offset, partial, ready>>
  BY DEF RowStep, LocksExclusive, RunFree, RunLocked
<1>3. pc[g] \in ItemLocked /\ job[g].item \in Items =>
        itemState'[job[g].item] = itemState[job[g].item]
  BY DEF RowStep, LocksExclusive, ItemFree, ItemLocked
<1>4. pc[g] \in Admitted \cup {"creating"} => job[g].item \in Items
  BY DEF HandlersBound
<1>5. pc'[g] = "activating" => runState' = "planned"
  BY <1>1, <1>2 DEF HandlersConsistent, RunLocked
<1>6. pc'[g] = "creating" => /\ runState' # "planned"
                             /\ itemState'[job'[g].item] \in {"pending", "transferring"}
  BY <1>1, <1>3, <1>4 DEF HandlersConsistent, ItemLocked, RowStep
<1>7. ASSUME pc'[g] = "wrote" PROVE ChunkWritten(g)'
  <2> PICK i \in Items : job[g].item = i
    BY <1>1, <1>4, <1>7 DEF Admitted
  <2>1. /\ UNCHANGED <<runState, offset, partial, ready>>
        /\ itemState'[i] = itemState[i] /\ ChunkWritten(g)
    BY <1>1, <1>2, <1>3, <1>7 DEF RunLocked, ItemLocked, HandlersConsistent
  <2> QED
    BY <1>1, <2>1 DEF ChunkWritten
<1>8. pc'[g] \in {"linked", "unlinked"} => /\ itemState'[job'[g].item] = "verifying"
                                           /\ ready'[job'[g].item] # None
  BY <1>1, <1>2, <1>3, <1>4 DEF HandlersConsistent, ItemLocked, RunLocked, Admitted
<1>9. ASSUME pc'[g] = "cleaning"
      PROVE  /\ runState' = "failed"
             /\ \A i \in job'[g].removed : itemState'[i] # "ready" /\ ready'[i] = None
  <2>1. job[g].removed \in SUBSET Items
    BY JobFields, HandlingOK
  <2>2. \A i \in Items : itemState'[i] = itemState[i] \/ itemState'[i] = "transferring"
    BY <1>1, <1>9 DEF RowStep, LocksExclusive, RunFree, RunLocked
  <2> QED
    BY <1>1, <1>2, <1>9, <2>1, <2>2 DEF HandlersConsistent, RunLocked
<1> QED
  BY <1>5, <1>6, <1>7, <1>8, <1>9

LEMMA HandlerConsistent ==
  ASSUME TypeOK, HandlersBound, HandlersConsistent, \A j \in Items : ItemConsistent(j),
         NEW h \in Handlers, HandlerStep(h)
  PROVE  HandlersConsistent!(h)'
<1> USE HandlingOK DEF Handling
<1>1. CASE BeginActivation(h)
  BY <1>1 DEF BeginActivation, Start, NoJob, rows
<1>2. CASE \E i \in Items : BeginCreate(h, i)
  <2> PICK i \in Items : BeginCreate(h, i)
    BY <1>2
  <2>1. /\ pc'[h] = "creating" /\ job'[h].item = i
        /\ UNCHANGED <<runState, itemState>>
        /\ runState = "active" /\ itemState[i] \in {"pending", "transferring"}
    BY DEF BeginCreate, CanCreate, Start, NoJob, rows
  <2> QED
    BY <2>1
<1>3. CASE \E body \in Chunks : WriteChunk(h, body)
  <2>1. ChunkWritten(h)'
    BY <1>3, WriteChunkItems
  <2>2. pc'[h] = "wrote"
    BY <1>3 DEF WriteChunk, Goto
  <2> QED
    BY <2>1, <2>2
<1>4. CASE PublishLink(h) \/ PublishUnlink(h) \/ PublishResume(h)
  <2> PICK i \in Items : job[h].item = i
    BY <1>4 DEF PublishLink, PublishUnlink, PublishResume, FinalLocked, HandlersBound, Admitted
  <2>1. /\ pc'[h] \in {"linked", "unlinked"} /\ job' = job /\ itemState' = itemState
        /\ itemState[i] = "verifying"
    BY <1>4 DEF PublishLink, PublishUnlink, PublishResume, Finalizable, Goto,
       HandlersConsistent, rows
  <2>2. ready'[i] # None
    BY <1>4 DEF PublishLink, PublishUnlink, PublishResume, HandlersConsistent, TypeOK
  <2> QED
    BY <2>1, <2>2
<1>5. CASE BeginCleanup(h)
  BY <1>5 DEF BeginCleanup, Start, NoJob, rows
<1>6. CASE \E i \in Items : CleanupUnlink(h, i)
  <2> PICK i \in Items : CleanupUnlink(h, i)
    BY <1>6
  <2>1. /\ pc'[h] = "cleaning" /\ UNCHANGED <<runState, itemState, ready>>
        /\ itemState[i] # "ready" /\ ready[i] = None /\ pc[h] = "cleaning"
    BY DEF CleanupUnlink, rows
  <2>2. job'[h].removed = job[h].removed \cup {i}
    BY DEF CleanupUnlink, Jobs
  <2> QED
    BY <2>1, <2>2 DEF HandlersConsistent
<1>7. CASE \/ (\E o \in Ops : BeginClaim(h, o) \/ AdmitChunk(h, o))
           \/ (\E o \in Ops, kind \in Kinds, digest \in Contents \cup {None} :
                 AdmitFinal(h, o, kind, digest))
           \/ FinalFailure(h) \/ FinalReplay(h) \/ FinalAttestation(h) \/ RecordReady(h)
           \/ ConfirmLease(h)
  <2>1. pc'[h] \in {"claiming", "chunk", "final", "recorded", "leased", "replayed"}
    BY <1>7 DEF BeginClaim, AdmitChunk, AdmitFinal, FinalFailure, FinalReplay,
       FinalAttestation, RecordReady, ConfirmLease, Start, Goto
  <2> QED
    BY <2>1
<1>8. CASE \/ CommitActivation(h) \/ CommitCreate(h) \/ CommitClaim(h) \/ CommitChunk(h)
           \/ FinalChanged(h) \/ FinalMismatch(h) \/ CompleteOperation(h) \/ CommitCleanup(h)
           \/ Abandon(h)
           \/ \E body \in Chunks : \/ \E n \in 0..MaxChunk : TornWrite(h, body, n)
                                   \/ \E at \in Nat : ReplayChunk(h, at, body)
  <2>1. pc'[h] = "idle"
    BY <1>8 DEF CommitActivation, CommitCreate, CommitClaim, CommitChunk, FinalChanged,
       FinalMismatch, CompleteOperation, CommitCleanup, Abandon, TornWrite, ReplayChunk, Finish
  <2> QED
    BY <2>1
<1> QED
  BY HandlerCases, <1>1, <1>2, <1>3, <1>4, <1>5, <1>6, <1>7, <1>8

-----------------------------------------------------------------------------
(* The inductive invariant, and what it says.                                *)

LEMMA InvariantInit == Init => IInv
<1> SUFFICES ASSUME Init PROVE IInv
  OBVIOUS
<1>1. TypeOK
  BY TypeInit
<1>2. LocksExclusive
  BY LocksInit
<1>3. OperationsBound /\ HandlersBound /\ HandlersConsistent
  BY DEF Init, OperationsBound, HandlersBound, HandlersConsistent, Admitted, LiveOp
<1>4. ASSUME NEW i \in Items PROVE ItemConsistent(i)
  <2>1. /\ offset[i] = 0 /\ itemState[i] = "pending" /\ Size[i] \in Nat \ {0}
        /\ partial[i] = None /\ ready[i] = None /\ acked[i] = {}
    BY SizeAssumption DEF Init
  <2>2. Stored(i) = <<>> /\ Len(Stored(i)) = 0
    BY <2>1 DEF Stored, Existing
  <2> QED
    BY <2>1, <2>2 DEF ItemConsistent, OffsetConsistent, FilesConsistent, AckedConsistent
<1>5. RunConsistent
  <2>1. ReadyItems = {} /\ FailedItemSet = {} /\ Cardinality({}) = 0
    BY FS_EmptySet DEF Init, ReadyItems, FailedItemSet
  <2>2. Items # {}
    BY ItemsAssumption
  <2> QED
    BY <2>1, <2>2 DEF Init, RunConsistent, RunSummarisesItems, ReadyItems, FailedItemSet
<1> QED
  BY <1>1, <1>2, <1>3, <1>4, <1>5 DEF IInv

\* An operation row changes by the clock, a sweep or a failure report.
LEMMA OperationInvariant ==
  ASSUME IInv, NEW o \in Ops, OperationStep(o)
  PROVE  IInv'
<1>1. TypeOK'
  BY TypeOperation DEF IInv
<1>2. UNCHANGED <<rows, files, pc, job, acked>>
  BY DEF OperationStep, DeadlinePasses, SweepRead, SweepWrite, FailOperation
<1>3. /\ UNCHANGED <<runState, readyCount, failedCount, itemState, offset, verified>>
      /\ UNCHANGED <<partial, ready, linked, pc, job, acked>>
  BY <1>2 DEF rows, files
<1>4. LocksExclusive'
  BY <1>3 DEF IInv, LocksExclusive
<1>5. OperationsBound' /\ HandlersBound'
  BY OperationBounds DEF IInv
<1>6. HandlersConsistent'
  BY <1>3 DEF IInv, HandlersConsistent, ChunkWritten
<1>7. \A i \in Items : ItemConsistent(i)'
  BY <1>3, ItemKept DEF IInv, ItemSame, StaysFailed
<1>8. RunConsistent'
  BY <1>3 DEF IInv, RunConsistent, RunSummarisesItems
<1> QED
  BY <1>1, <1>4, <1>5, <1>6, <1>7, <1>8 DEF IInv

LEMMA HandlerInvariant ==
  ASSUME IInv, NEW h \in Handlers, HandlerStep(h)
  PROVE  IInv'
<1> USE DEF IInv
<1>1. LockStep(h) /\ RowStep(h)
  BY LockSteps, RowSteps
<1>2. TypeOK' /\ LocksExclusive'
  BY <1>1, TypeHandler, LocksHandler
<1>3. OperationsBound' /\ HandlersBound'
  BY HandlerBounds
<1>4. (\A i \in Items : ItemConsistent(i)') /\ RunConsistent'
  BY ItemSteps, RunSteps
<1>5. HandlersConsistent'
  <2>1. HandlersConsistent!(h)'
    BY HandlerConsistent
  <2>2. \A g \in Handlers \ {h} : HandlersConsistent!(g)'
    BY <1>1, OthersConsistent
  <2> QED
    BY <2>1, <2>2 DEF HandlersConsistent
<1> QED
  BY <1>2, <1>3, <1>4, <1>5

LEMMA StutterInvariant == IInv /\ UNCHANGED vars => IInv'
<1> SUFFICES ASSUME IInv, UNCHANGED vars PROVE IInv'
  OBVIOUS
<1> USE DEF IInv, vars
<1>1. TypeOK'
  BY DEF TypeOK
<1>2. LocksExclusive' /\ OperationsBound' /\ HandlersBound'
  BY DEF LocksExclusive, OperationsBound, HandlersBound
<1>3. HandlersConsistent'
  BY DEF HandlersConsistent, ChunkWritten
<1>4. \A i \in Items : ItemConsistent(i)'
  BY ItemKept DEF ItemSame, StaysFailed
<1>5. RunConsistent'
  BY DEF RunConsistent, RunSummarisesItems
<1> QED
  BY <1>1, <1>2, <1>3, <1>4, <1>5

\* The inductive invariant holds in every reachable state: locks exclude each
\* other, requests stay bound to their items, files and rows stay consistent.
THEOREM InvariantCorrect == Spec => []IInv
<1>1. IInv /\ [Next]_vars => IInv'
  BY OperationInvariant, HandlerInvariant, StutterInvariant DEF Next
<1> QED
  BY <1>1, InvariantInit, PTL DEF Spec

\* After any crash or lost commit of receiving.py, a resumable run never has a
\* committed offset beyond the bytes that are in the item's file.
THEOREM DatabaseNeverAheadCorrect == Spec => []DatabaseNeverAhead
<1>1. IInv => DatabaseNeverAhead
  BY DEF IInv, ItemConsistent, FilesConsistent, HasFile, DatabaseNeverAhead
<1> QED
  BY <1>1, InvariantCorrect, PTL

\* A chunk that commit_chunk acknowledged is in the file, at its position, as
\* long as the run can be resumed or the item is ready.
THEOREM AckedBytesKeptCorrect == Spec => []AckedBytesKept
<1>1. ASSUME IInv PROVE AckedBytesKept
  <2> SUFFICES ASSUME NEW i \in Items, runState = "active" \/ itemState[i] = "ready",
                      NEW t \in acked[i]
               PROVE  t[1] <= Len(Stored(i)) /\ Stored(i)[t[1]] = t[2]
    BY DEF AckedBytesKept
  <2>1. HasFile(i) /\ offset[i] \in Nat
    BY <1>1 DEF IInv, TypeOK, ItemConsistent, FilesConsistent, HasFile
  <2>2. offset[i] <= Len(Stored(i)) /\ t[1] \in 1..offset[i] /\ Stored(i)[t[1]] = t[2]
    BY <1>1, <2>1 DEF IInv, ItemConsistent, FilesConsistent, AckedConsistent
  <2>3. Len(Stored(i)) \in Nat
    BY <1>1 DEF IInv, TypeOK, Stored, Existing, Contents
  <2> QED
    BY <2>1, <2>2, <2>3
<1> QED
  BY <1>1, InvariantCorrect, PTL

\* What finalize_item records as ready is a complete file, the one it verified.
THEOREM ReadyIsVerifiedCorrect == Spec => []ReadyIsVerified
<1>1. IInv => ReadyIsVerified
  BY DEF IInv, ItemConsistent, OffsetConsistent, FilesConsistent, ReadyIsVerified
<1> QED
  BY <1>1, InvariantCorrect, PTL

\* The partial and the ready name of an item are never two different files.
THEOREM OneInodeCorrect == Spec => []OneInode
<1>1. IInv => OneInode
  BY DEF IInv, ItemConsistent, FilesConsistent, OneInode
<1> QED
  BY <1>1, InvariantCorrect, PTL

\* create_acquire_operation never leaves two live operations on one item.
THEOREM OneLiveOperationCorrect == Spec => []OneLiveOperation
<1>1. IInv => OneLiveOperation
  BY DEF IInv, OperationsBound, OneLiveOperation, LiveOps
<1> QED
  BY <1>1, InvariantCorrect, PTL

\* The state and the counters of the run always agree with its items.
THEOREM RunSummarisesItemsCorrect == Spec => []RunSummarisesItems
<1>1. IInv => RunSummarisesItems
  BY DEF IInv, RunConsistent
<1> QED
  BY <1>1, InvariantCorrect, PTL

-----------------------------------------------------------------------------
(* What a step may never do.                                                 *)

Progress ==
  /\ offset' = offset \/ runState = "active"
  /\ \A i \in Items :
       /\ offset'[i] >= offset[i]
       /\ \/ itemState'[i] = itemState[i]
          \/ itemState[i] \in {"pending", "transferring"}
             /\ itemState'[i] \in {"transferring", "verifying"}
          \/ itemState[i] # "ready" /\ itemState'[i] \in {"ready", "failed"}
       /\ itemState[i] = "ready" => ready'[i] = ready[i]

LEMMA HandlerProgress ==
  ASSUME IInv, NEW h \in Handlers, HandlerStep(h)
  PROVE  Progress
<1>1. /\ itemState \in [Items -> ItemStates] /\ ready \in [Items -> Contents \cup {None}]
      /\ offset \in [Items -> Nat]
  BY DEF IInv, TypeOK
<1>2. offset' = offset => \A i \in Items : offset'[i] >= offset[i]
  BY <1>1
<1>3. CASE ItemFrameStep(h)
  BY <1>2, <1>3, ItemFrame DEF Progress
<1>4. CASE \/ \E body \in Chunks : \/ WriteChunk(h, body)
                                   \/ \E n \in 0..MaxChunk : TornWrite(h, body, n)
                                   \/ \E at \in Nat : ReplayChunk(h, at, body)
           \/ PublishUnlink(h) \/ PublishResume(h)
           \/ \E i \in Items : CleanupUnlink(h, i)
  <2>1. UNCHANGED <<offset, itemState, ready>>
    BY <1>4 DEF WriteChunk, TornWrite, ReplayChunk, PublishUnlink, PublishResume,
       CleanupUnlink, rows, files
  <2> QED
    BY <1>2, <2>1 DEF Progress
<1>5. CASE PublishLink(h)
  <2> PICK i \in Items : job[h].item = i
    BY <1>5 DEF PublishLink, FinalLocked, IInv, HandlersBound, Admitted
  <2>1. UNCHANGED <<offset, itemState>> /\ itemState[i] = "verifying"
    BY <1>5 DEF PublishLink, Finalizable, rows
  <2>2. \A j \in Items \ {i} : ready'[j] = ready[j]
    BY <1>1, <1>5 DEF PublishLink
  <2> QED
    BY <1>2, <2>1, <2>2 DEF Progress
<1>6. CASE CommitCreate(h)
  <2> PICK i \in Items : job[h].item = i
    BY <1>6 DEF CommitCreate, IInv, HandlersBound
  <2>1. /\ UNCHANGED <<offset, ready>> /\ itemState[i] \in {"pending", "transferring"}
        /\ itemState' = [itemState EXCEPT ![i] = "transferring"]
    BY <1>6 DEF CommitCreate, files, IInv, HandlersConsistent
  <2> QED
    BY <1>1, <1>2, <2>1 DEF Progress
<1>7. CASE CommitChunk(h)
  <2> PICK i \in Items : job[h].item = i
    BY <1>7 DEF CommitChunk, IInv, HandlersBound, Admitted
  <2>1. runState = "active" /\ itemState[i] = "transferring" /\ ready' = ready
    BY <1>7 DEF CommitChunk, IInv, HandlersConsistent, ChunkWritten, files
  <2>2. \A j \in Items \ {i} : itemState'[j] = itemState[j] /\ offset'[j] = offset[j]
    BY <1>1, <1>7 DEF CommitChunk
  <2>3. itemState'[i] \in {"transferring", "verifying"}
    BY <1>1, <1>7 DEF CommitChunk
  <2>4. offset'[i] >= offset[i]
    <3>1. job[h].body \in Seq(Byte)
      BY JobFields, HandlingOK DEF IInv
    <3> QED
      BY <1>1, <1>7, <3>1 DEF CommitChunk
  <2>5. \A j \in Items : offset'[j] >= offset[j]
    BY <1>1, <2>2, <2>4
  <2> QED
    BY <2>1, <2>2, <2>3, <2>5 DEF Progress
<1>8. CASE FinalFailure(h) \/ FinalChanged(h) \/ FinalMismatch(h)
  <2> PICK i \in Items : job[h].item = i
    BY <1>8 DEF FinalFailure, FinalChanged, FinalMismatch, FinalLocked, IInv, HandlersBound,
       Admitted
  <2>1. FailItem(i) /\ UNCHANGED <<offset, ready>>
    BY <1>8 DEF FinalFailure, FinalChanged, FinalMismatch, files
  <2> QED
    BY <1>1, <1>2, <2>1 DEF Progress, FailItem
<1>9. CASE RecordReady(h)
  <2> PICK i \in Items : job[h].item = i
    BY <1>9 DEF RecordReady, IInv, HandlersBound, Admitted
  <2>1. /\ UNCHANGED <<offset, ready>> /\ itemState[i] = "verifying"
        /\ itemState' = [itemState EXCEPT ![i] = "ready"]
    BY <1>9 DEF RecordReady, files, IInv, HandlersConsistent
  <2> QED
    BY <1>1, <1>2, <2>1 DEF Progress
<1>10. CASE CommitCleanup(h)
  <2>1. /\ UNCHANGED <<offset, ready>>
        /\ \A i \in job[h].removed : itemState[i] # "ready"
        /\ itemState' = [i \in Items |-> IF i \in job[h].removed THEN "failed"
                                         ELSE itemState[i]]
    BY <1>10 DEF CommitCleanup, files, IInv, HandlersConsistent
  <2> QED
    BY <1>1, <1>2, <2>1 DEF Progress
<1> QED
  BY HandlerCases, <1>3, <1>4, <1>5, <1>6, <1>7, <1>8, <1>9, <1>10 DEF ItemFrameStep

LEMMA StepProgress == IInv /\ [Next]_vars => Progress
<1> SUFFICES ASSUME IInv, [Next]_vars PROVE Progress
  OBVIOUS
<1>1. CASE \E h \in Handlers : HandlerStep(h)
  BY <1>1, HandlerProgress
<1>2. CASE UNCHANGED vars \/ \E o \in Ops : OperationStep(o)
  <2>1. UNCHANGED <<offset, itemState, ready>>
    BY <1>2 DEF vars, OperationStep, DeadlinePasses, SweepRead, SweepWrite, FailOperation,
       rows, files
  <2>2. offset \in [Items -> Nat]
    BY DEF IInv, TypeOK
  <2> QED
    BY <2>1, <2>2 DEF Progress
<1> QED
  BY <1>1, <1>2 DEF Next

\* No request, failure report or cleanup takes a ready item back or touches its file.
THEOREM ReadyForeverCorrect == Spec => ReadyForever
<1>1. Progress => \A i \in Items : itemState[i] = "ready" =>
                    itemState'[i] = "ready" /\ ready'[i] = ready[i]
  BY DEF Progress
<1> QED
  BY <1>1, StepProgress, InvariantCorrect, PTL DEF Spec, ReadyForever

\* No request moves the committed offset or the state of an item backward, or takes a ready
\* item back.
THEOREM ItemNeverBackwardCorrect == Spec => ItemNeverBackward
<1>1. ASSUME IInv, Progress
      PROVE  \A i \in Items : /\ offset'[i] >= offset[i]
                              /\ Rank(itemState'[i]) >= Rank(itemState[i])
                              /\ itemState[i] = "ready" => itemState'[i] = "ready"
  <2> SUFFICES ASSUME NEW i \in Items
               PROVE  Rank(itemState'[i]) >= Rank(itemState[i])
    BY <1>1 DEF Progress
  <2>1. itemState[i] \in ItemStates
    BY <1>1 DEF IInv, TypeOK
  <2>2. CASE itemState'[i] = itemState[i]
    BY <2>1, <2>2 DEF Rank, ItemStates
  <2>3. CASE itemState[i] \in {"pending", "transferring"}
             /\ itemState'[i] \in {"transferring", "verifying"}
             /\ itemState'[i] # itemState[i]
    BY <2>3 DEF Rank
  <2>4. CASE itemState'[i] \in {"ready", "failed"}
    BY <2>1, <2>4 DEF Rank, ItemStates
  <2> QED
    BY <1>1, <2>2, <2>3, <2>4 DEF Progress
<1> QED
  BY <1>1, StepProgress, InvariantCorrect, PTL DEF Spec, ItemNeverBackward

\* Bytes are committed for active runs only.
THEOREM OnlyActiveRunsReceiveCorrect == Spec => OnlyActiveRunsReceive
<1>1. Progress => (runState # "active" => offset' = offset)
  BY DEF Progress
<1> QED
  BY <1>1, StepProgress, InvariantCorrect, PTL DEF Spec, OnlyActiveRunsReceive

-----------------------------------------------------------------------------
(***************************************************************************)
(* The counter of a run: its committed bytes are the sum of its items'     *)
(* offsets.  The sum is MapThenSumSet, which picks the elements of the set *)
(* one by one; that it exists for every finite set is shown by a least     *)
(* counterexample, as an induction over the subsets.                       *)
(***************************************************************************)

\* The element that a sum takes from a set first.
Picked(s) == CHOOSE x \in s : TRUE

\* The sums of the values of h over the subsets of S, as MapThenSumSet computes them.
SumsOf(h, S) == CHOOSE sums :
  sums = [s \in SUBSET S |-> IF s = {} THEN 0 ELSE h[Picked(s)] + sums[s \ {Picked(s)}]]

\* MapThenSumSet is the sum of the whole set.
LEMMA SumIs ==
  ASSUME NEW h, NEW S
  PROVE  MapThenSumSet(LAMBDA i : h[i], S) = SumsOf(h, S)[S]
BY DEF MapThenSumSet, MapThenFoldSet, SumsOf, Picked

\* A set of natural numbers has a least one.
LEMMA LeastExists ==
  ASSUME NEW T, T \subseteq Nat, T # {}
  PROVE  \E x \in T : \A y \in T : x <= y
<1> DEFINE R == OpToRel(<, Nat)
<1>1. IsWellFoundedOn(R, Nat)
  BY NatLessThanWellFounded
<1>2. PICK x \in T : \A y \in T : ~ (<<y, x>> \in R)
  <2> HIDE DEF R
  <2> QED BY <1>1, WFMin
<1>3. R = {ss \in Nat \X Nat : ss[1] < ss[2]}
  BY DEF OpToRel
<1>4. \A y \in T : ~(y < x)
  <2> SUFFICES ASSUME NEW y \in T, y < x PROVE FALSE
    OBVIOUS
  <2>1. <<y, x>> \in R
    BY <1>3
  <2> QED BY <1>2, <2>1
<1> QED BY <1>4

\* A set without its picked element is smaller.
LEMMA PickedRest ==
  ASSUME NEW S, IsFiniteSet(S), NEW s \in SUBSET S, s # {}
  PROVE  /\ Picked(s) \in s /\ s \ {Picked(s)} \in SUBSET S
         /\ Cardinality(s) \in Nat \ {0} /\ Cardinality(s \ {Picked(s)}) = Cardinality(s) - 1
<1>1. Picked(s) \in s
  BY DEF Picked
<1>2. IsFiniteSet(s)
  BY FS_Subset
<1>3. Cardinality(s) \in Nat /\ Cardinality(s \ {Picked(s)}) = Cardinality(s) - 1
  BY <1>1, <1>2, FS_CardinalityType, FS_RemoveElement
<1>4. Cardinality(s) # 0
  BY <1>2, FS_EmptySet
<1> QED BY <1>1, <1>3, <1>4

\* The sums exist: those of the sets of up to n elements extend those of up to n - 1.
LEMMA SumsAt ==
  ASSUME NEW h, NEW S, IsFiniteSet(S)
  PROVE  /\ SumsOf(h, S)[{}] = 0
         /\ \A s \in SUBSET S : s # {} =>
              SumsOf(h, S)[s] = h[Picked(s)] + SumsOf(h, S)[s \ {Picked(s)}]
<1> DEFINE UpTo(n) == {s \in SUBSET S : Cardinality(s) <= n}
           Next_(f, n) == [s \in UpTo(n) |-> IF s = {} THEN 0 ELSE h[Picked(s)] + f[s \ {Picked(s)}]]
           Missing == {n \in Nat : ~\E f : f = Next_(f, n)}
<1>1. Missing = {}
  <2> SUFFICES ASSUME Missing # {} PROVE FALSE
    OBVIOUS
  <2>1. PICK n \in Missing : \A m \in Missing : n <= m
    <3>1. Missing \subseteq Nat
      OBVIOUS
    <3> HIDE DEF Missing
    <3> QED BY <3>1, LeastExists
  <2>2. CASE n = 0
    <3> DEFINE f == [s \in UpTo(0) |-> 0]
    <3>1. \A s \in UpTo(0) : s = {}
      <4> SUFFICES ASSUME NEW s \in SUBSET S, Cardinality(s) <= 0, s # {} PROVE FALSE
        OBVIOUS
      <4>1. Cardinality(s) \in Nat \ {0}
        BY PickedRest
      <4> QED BY <4>1
    <3>2. f = Next_(f, 0)
      BY <3>1
    <3> QED BY <2>1, <2>2, <3>2
  <2>3. CASE n # 0
    <3>1. n - 1 \in Nat /\ n - 1 \notin Missing
      <4>1. n \in Nat
        BY <2>1
      <4> HIDE DEF Missing
      <4> QED BY <2>1, <2>3, <4>1
    <3>2. PICK f : f = Next_(f, n - 1)
      BY <3>1
    <3> DEFINE g == Next_(f, n)
    <3>3. ASSUME NEW s \in UpTo(n), s # {}
          PROVE  s \ {Picked(s)} \in UpTo(n - 1) /\ s \ {Picked(s)} \in UpTo(n)
      BY <3>1, <3>3, PickedRest
    <3>4. ASSUME NEW s \in UpTo(n - 1) PROVE s \in UpTo(n) /\ g[s] = f[s]
      <4>1. s \in UpTo(n)
        BY <3>1, <3>4, FS_Subset, FS_CardinalityType
      <4>2. f[s] = IF s = {} THEN 0 ELSE h[Picked(s)] + f[s \ {Picked(s)}]
        BY <3>2, <3>4
      <4>3. g[s] = IF s = {} THEN 0 ELSE h[Picked(s)] + f[s \ {Picked(s)}]
        BY <4>1
      <4> QED BY <4>1, <4>2, <4>3
    <3>5. \A s \in UpTo(n) : g[s] = IF s = {} THEN 0 ELSE h[Picked(s)] + g[s \ {Picked(s)}]
      BY <3>3, <3>4
    <3>6. g = Next_(g, n)
      <4>1. g = [s \in UpTo(n) |-> g[s]]
        OBVIOUS
      <4> HIDE DEF g, UpTo
      <4> QED BY <3>5, <4>1
    <3> QED BY <2>1, <3>6
  <2> QED BY <2>2, <2>3
<1>2. Cardinality(S) \in Nat /\ UpTo(Cardinality(S)) = SUBSET S
  BY FS_CardinalityType, FS_Subset
<1>3. \E f : f = [s \in SUBSET S |-> IF s = {} THEN 0 ELSE h[Picked(s)] + f[s \ {Picked(s)}]]
  <2>1. \E f : f = Next_(f, Cardinality(S))
    <3> HIDE DEF Next_
    <3> QED BY <1>1, <1>2
  <2> QED BY <1>2, <2>1
<1> DEFINE F == SumsOf(h, S)
<1>4. F = [s \in SUBSET S |-> IF s = {} THEN 0 ELSE h[Picked(s)] + F[s \ {Picked(s)}]]
  BY <1>3 DEF SumsOf
<1> HIDE DEF F
<1>5. {} \in SUBSET S
  OBVIOUS
<1>6. F[{}] = 0
  BY <1>4, <1>5
<1>7. ASSUME NEW s \in SUBSET S, s # {} PROVE F[s] = h[Picked(s)] + F[s \ {Picked(s)}]
  BY <1>4, <1>7
<1> QED BY <1>6, <1>7 DEF F

\* What holds of {} and passes from a set without its picked element to the set holds of
\* every subset.
LEMMA SubsetInduction ==
  ASSUME NEW S, IsFiniteSet(S), NEW P, {} \in P,
         \A s \in SUBSET S : s # {} /\ s \ {Picked(s)} \in P => s \in P
  PROVE  SUBSET S \subseteq P
<1> SUFFICES ASSUME NEW s0 \in SUBSET S, s0 \notin P PROVE FALSE
  OBVIOUS
<1> DEFINE T == {n \in Nat : \E s \in SUBSET S : s \notin P /\ Cardinality(s) = n}
<1>1. T # {} /\ T \subseteq Nat
  BY FS_Subset, FS_CardinalityType
<1>2. PICK n \in T : \A m \in T : n <= m
  <2> HIDE DEF T
  <2> QED BY <1>1, LeastExists
<1>3. PICK s \in SUBSET S : s \notin P /\ Cardinality(s) = n
  BY <1>2
<1>4. /\ s # {} /\ s \ {Picked(s)} \in SUBSET S
      /\ Cardinality(s) \in Nat \ {0} /\ Cardinality(s \ {Picked(s)}) = Cardinality(s) - 1
  BY <1>3, PickedRest
<1>5. s \ {Picked(s)} \notin P
  BY <1>3, <1>4
<1>6. n \in Nat /\ n - 1 \in Nat /\ n - 1 \in T
  BY <1>3, <1>4, <1>5
<1>7. n <= n - 1
  <2> HIDE DEF T
  <2> QED BY <1>2, <1>6
<1> QED BY <1>6, <1>7

\* The sums of numbers are numbers.
LEMMA SumsType ==
  ASSUME NEW S, IsFiniteSet(S), NEW h \in [S -> Nat]
  PROVE  \A s \in SUBSET S : SumsOf(h, S)[s] \in Nat
<1> DEFINE P == {s \in SUBSET S : SumsOf(h, S)[s] \in Nat}
<1>1. {} \in P
  <2>1. SumsOf(h, S)[{}] = 0
    BY SumsAt
  <2> QED BY <2>1
<1>2. ASSUME NEW s \in SUBSET S, s # {}, s \ {Picked(s)} \in P
      PROVE  s \in P
  <2>1. SumsOf(h, S)[s] = h[Picked(s)] + SumsOf(h, S)[s \ {Picked(s)}]
    BY <1>2, SumsAt
  <2>2. h[Picked(s)] \in Nat
    BY <1>2, PickedRest
  <2> QED BY <1>2, <2>1, <2>2
<1> HIDE DEF P
<1>3. SUBSET S \subseteq P
  BY <1>1, <1>2, SubsetInduction
<1> QED BY <1>3 DEF P

\* A value that grows by d lets the sum grow by d.
LEMMA SumsUpdate ==
  ASSUME NEW S, IsFiniteSet(S), NEW h \in [S -> Nat], NEW i \in S, NEW d \in Nat
  PROVE  SumsOf([h EXCEPT ![i] = h[i] + d], S)[S] = SumsOf(h, S)[S] + d
<1> DEFINE g == [h EXCEPT ![i] = h[i] + d]
<1>g. g \in [S -> Nat] /\ g[i] = h[i] + d /\ \A j \in S : j # i => g[j] = h[j]
  OBVIOUS
<1> HIDE DEF g
<1> DEFINE P == {s \in SUBSET S : SumsOf(g, S)[s] = SumsOf(h, S)[s] + (IF i \in s THEN d ELSE 0)}
<1>1. {} \in P
  <2>1. SumsOf(h, S)[{}] = 0 /\ SumsOf(g, S)[{}] = 0
    BY SumsAt
  <2> QED BY <2>1
<1>2. ASSUME NEW s \in SUBSET S, s # {}, s \ {Picked(s)} \in P
      PROVE  s \in P
  <2> DEFINE x == Picked(s)
             rest == s \ {x}
             sh == SumsOf(h, S)[rest]
             sg == SumsOf(g, S)[rest]
  <2>1. SumsOf(h, S)[s] = h[x] + sh /\ SumsOf(g, S)[s] = g[x] + sg
    BY <1>2, SumsAt
  <2>2. x \in s /\ rest \in SUBSET S
    BY <1>2, PickedRest
  <2>3. sh \in Nat /\ sg \in Nat /\ h[x] \in Nat /\ g[x] \in Nat /\ h[i] \in Nat
    BY <1>g, <2>2, SumsType
  <2>4. sg = sh + (IF i \in rest THEN d ELSE 0)
    BY <1>2
  <2> HIDE DEF sh, sg
  <2>5. CASE x = i
    <3>1. sg = sh /\ i \in s
      BY <2>2, <2>3, <2>4, <2>5
    <3>2. SumsOf(g, S)[s] = SumsOf(h, S)[s] + d
      BY <1>g, <2>1, <2>3, <2>5, <3>1
    <3> QED BY <3>1, <3>2
  <2>6. CASE x # i
    <3>1. (i \in rest <=> i \in s) /\ g[x] = h[x]
      BY <1>g, <2>2, <2>6
    <3> HIDE DEF rest, x
    <3> QED BY <2>1, <2>3, <2>4, <3>1
  <2> QED BY <2>5, <2>6
<1>3. SUBSET S \subseteq P
  <2> HIDE DEF P
  <2> QED BY <1>1, <1>2, SubsetInduction
<1> QED BY <1>3 DEF g

\* The sum of zeros.
LEMMA SumsOfZeros ==
  ASSUME NEW S, IsFiniteSet(S)
  PROVE  SumsOf([i \in S |-> 0], S)[S] = 0
<1> DEFINE h == [i \in S |-> 0]
           P == {s \in SUBSET S : SumsOf(h, S)[s] = 0}
<1>1. {} \in P
  <2>1. SumsOf(h, S)[{}] = 0
    BY SumsAt
  <2> QED BY <2>1
<1>2. ASSUME NEW s \in SUBSET S, s # {}, s \ {Picked(s)} \in P
      PROVE  s \in P
  <2>1. SumsOf(h, S)[s] = h[Picked(s)] + SumsOf(h, S)[s \ {Picked(s)}]
    BY <1>2, SumsAt
  <2>2. h[Picked(s)] = 0
    BY <1>2, PickedRest
  <2> QED BY <1>2, <2>1, <2>2
<1>3. SUBSET S \subseteq P
  <2> HIDE DEF P
  <2> QED BY <1>1, <1>2, SubsetInduction
<1> QED BY <1>3

-----------------------------------------------------------------------------
\* Only the commit of a chunk changes the offsets and the counter.
LEMMA CountKept ==
  ASSUME [Next]_vars, \A h \in Handlers : ~CommitChunk(h)
  PROVE  UNCHANGED <<runCommitted, offset>>
<1>1. CASE \E h \in Handlers : HandlerStep(h)
  <2> PICK h \in Handlers : HandlerStep(h)
    BY <1>1
  <2>1. CASE \/ BeginActivation(h) \/ CommitActivation(h)
             \/ (\E i \in Items : BeginCreate(h, i)) \/ CommitCreate(h)
             \/ (\E o \in Ops : BeginClaim(h, o)) \/ CommitClaim(h)
             \/ (\E o \in Ops : AdmitChunk(h, o))
             \/ (\E o \in Ops, kind \in Kinds, digest \in Contents \cup {None} :
                   AdmitFinal(h, o, kind, digest))
    BY <2>1 DEF BeginActivation, CommitActivation, BeginCreate, CommitCreate, BeginClaim,
       CommitClaim, AdmitChunk, AdmitFinal, rows
  <2>2. CASE \E body \in Chunks : \/ WriteChunk(h, body)
                                  \/ \E n \in 0..MaxChunk : TornWrite(h, body, n)
                                  \/ \E at \in Nat : ReplayChunk(h, at, body)
    BY <2>2 DEF WriteChunk, TornWrite, ReplayChunk, rows
  <2>3. CASE \/ FinalFailure(h) \/ FinalChanged(h) \/ FinalMismatch(h)
             \/ FinalReplay(h) \/ FinalAttestation(h)
             \/ PublishLink(h) \/ PublishUnlink(h) \/ PublishResume(h)
             \/ RecordReady(h) \/ ConfirmLease(h) \/ CompleteOperation(h)
    BY <2>3 DEF FinalFailure, FinalChanged, FinalMismatch, FinalReplay, FinalAttestation,
       PublishLink, PublishUnlink, PublishResume, RecordReady, ConfirmLease,
       CompleteOperation, rows
  <2>4. CASE BeginCleanup(h) \/ (\E i \in Items : CleanupUnlink(h, i)) \/ CommitCleanup(h)
             \/ Abandon(h)
    BY <2>4 DEF BeginCleanup, CleanupUnlink, CommitCleanup, Abandon, rows
  <2> QED
    BY <2>1, <2>2, <2>3, <2>4, HandlerCases
<1>2. CASE UNCHANGED vars \/ \E o \in Ops : OperationStep(o)
  BY <1>2 DEF vars, OperationStep, DeadlinePasses, SweepRead, SweepWrite, FailOperation, rows
<1> QED
  BY <1>1, <1>2 DEF Next

LEMMA CountStep ==
  ASSUME IInv, CountsCommittedBytes, [Next]_vars
  PROVE  CountsCommittedBytes'
<1>1. IsFiniteSet(Items) /\ offset \in [Items -> Nat]
  BY ItemsAssumption DEF IInv, TypeOK
<1>2. runCommitted = SumsOf(offset, Items)[Items]
  BY SumIs DEF CountsCommittedBytes
<1>3. runCommitted' = SumsOf(offset', Items)[Items]
  <2>1. CASE \A h \in Handlers : ~CommitChunk(h)
    BY <1>2, <2>1, CountKept
  <2>2. CASE \E h \in Handlers : CommitChunk(h)
    <3> PICK h \in Handlers : CommitChunk(h)
      BY <2>2
    <3> DEFINE i == job[h].item
               d == Len(job[h].body)
    <3>1. i \in Items /\ d \in Nat
      <4>1. i \in Items
        BY DEF IInv, CommitChunk, HandlersBound, Admitted
      <4>2. job[h].body \in Seq(Byte)
        BY JobFields, HandlingOK DEF IInv
      <4> QED BY <4>1, <4>2
    <3>2. offset' = [offset EXCEPT ![i] = offset[i] + d] /\ runCommitted' = runCommitted + d
      BY DEF CommitChunk
    <3> HIDE DEF i, d
    <3>3. SumsOf([offset EXCEPT ![i] = offset[i] + d], Items)[Items]
            = SumsOf(offset, Items)[Items] + d
      BY <1>1, <3>1, SumsUpdate
    <3> QED BY <1>2, <3>2, <3>3
  <2> QED BY <2>1, <2>2
<1> QED
  BY <1>3 DEF CountsCommittedBytes, MapThenSumSet, MapThenFoldSet, SumsOf, Picked

LEMMA CountInit == Init => CountsCommittedBytes
<1> SUFFICES ASSUME Init PROVE CountsCommittedBytes
  OBVIOUS
<1>1. runCommitted = 0 /\ offset = [i \in Items |-> 0]
  BY DEF Init
<1>2. SumsOf(offset, Items)[Items] = 0
  BY <1>1, ItemsAssumption, SumsOfZeros
<1> QED
  BY <1>1, <1>2 DEF CountsCommittedBytes, MapThenSumSet, MapThenFoldSet, SumsOf, Picked

\* The committed bytes of a run are the sum of its items' committed offsets: every byte is
\* counted once, also when chunks are repeated, torn or abandoned.
THEOREM CountsCommittedBytesCorrect == Spec => []CountsCommittedBytes
<1>1. IInv /\ CountsCommittedBytes /\ [Next]_vars => CountsCommittedBytes'
  BY CountStep
<1> QED
  BY <1>1, CountInit, InvariantCorrect, PTL DEF Spec

-----------------------------------------------------------------------------
(***************************************************************************)
(* DurableReceiving implements AcquisitionPromise: the run, as its callers *)
(* see it, only ever appends bytes, publishes an item once and as it was   *)
(* received, and completes with its last item.                             *)
(*                                                                         *)
(* Most steps change nothing that is seen: what they write to a file lies  *)
(* behind the committed offset, or is a second name of the same bytes.     *)
(* The others each are one step of the promise.                            *)
(***************************************************************************)

\* The item answers for its bytes.
Answers(i) == runState = "failed" => itemState[i] = "ready"

-----------------------------------------------------------------------------
(* What is received is what the file holds up to the offset.                 *)

LEMMA SmallerOfTwo ==
  ASSUME NEW a \in Nat, NEW b \in Nat, a <= b
  PROVE  Min({a, b}) = a
BY DEF Min

LEMMA SameSequence ==
  ASSUME NEW S, NEW s \in Seq(S), NEW t \in Seq(S), Len(s) = Len(t),
         \A k \in 1..Len(s) : s[k] = t[k]
  PROVE  s = t
OBVIOUS

LEMMA PrefixBytes ==
  ASSUME NEW s \in Seq(Byte), NEW n \in Nat, n <= Len(s)
  PROVE  \A k \in 1..n : SubSeq(s, 1, n)[k] = s[k]
OBVIOUS

\* What an item answers for has the length of its offset and the bytes of its file.
Answered(i) ==
  /\ Received(i) \in Seq(Byte)
  /\ Answers(i) => /\ Len(Received(i)) = offset[i]
                   /\ \A k \in 1..offset[i] : Received(i)[k] = Stored(i)[k]
  /\ ~Answers(i) => Received(i) = <<>>

AllAnswered == \A i \in Items : Answered(i)

LEMMA AnsweredAll == IInv => AllAnswered
<1> SUFFICES ASSUME IInv, NEW i \in Items PROVE Answered(i)
  BY DEF AllAnswered
<1>1. CASE ~Answers(i)
  BY <1>1 DEF Answered, Answers, Received
<1>2. CASE Answers(i)
  <2>1. /\ offset[i] \in Nat /\ partial[i] \in Seq(Byte) \cup {None}
        /\ ready[i] \in Seq(Byte) \cup {None}
    BY DEF IInv, TypeOK, Contents
  <2>2. Stored(i) \in Seq(Byte)
    BY <2>1 DEF Stored, Existing
  <2>3. HasFile(i)
    BY <1>2 DEF IInv, ItemConsistent, FilesConsistent, HasFile, Answers
  <2>4. offset[i] <= Len(Stored(i))
    BY <2>3 DEF IInv, ItemConsistent, FilesConsistent
  <2>5. Received(i) = SubSeq(Stored(i), 1, offset[i])
    <3>1. Len(Stored(i)) \in Nat
      BY <2>2
    <3>2. Min({offset[i], Len(Stored(i))}) = offset[i]
      BY <2>1, <2>4, <3>1, SmallerOfTwo
    <3> QED
      BY <1>2, <3>2 DEF Received, Answers
  <2> QED
    BY <1>2, <2>1, <2>2, <2>4, <2>5, Prefix, PrefixBytes DEF Answered
<1> QED
  BY <1>1, <1>2

LEMMA AnsweredNext == IInv' => AllAnswered'
BY AnsweredAll, PTL

\* An item whose offset and committed bytes stay answers for the same.
LEMMA ReceivedKept ==
  ASSUME IInv, IInv', NEW i \in Items, Answers(i)' <=> Answers(i), offset'[i] = offset[i],
         Answers(i) => \A k \in 1..offset[i] : Stored(i)'[k] = Stored(i)[k]
  PROVE  Received(i)' = Received(i)
<1>1. Answered(i) /\ Answered(i)'
  BY AnsweredAll, AnsweredNext DEF AllAnswered
<1>2. CASE ~Answers(i)
  BY <1>1, <1>2 DEF Answered
<1>3. CASE Answers(i)
  <2>1. /\ Len(Received(i)') = Len(Received(i))
        /\ \A k \in 1..Len(Received(i)) : Received(i)'[k] = Received(i)[k]
    BY <1>1, <1>3 DEF Answered
  <2> QED
    BY <1>1, <2>1, SameSequence DEF Answered
<1> QED
  BY <1>2, <1>3

-----------------------------------------------------------------------------
(* No step changes a byte below the offset of an item that answers for it.   *)

StoredKept ==
  \A i \in Items : Answers(i) => \A k \in 1..offset[i] : Stored(i)'[k] = Stored(i)[k]

LEMMA AppendKept ==
  ASSUME IInv, NEW i \in Items, NEW s \in Seq(Byte), itemState[i] = "transferring",
         Appendable(i), ready' = ready,
         partial' = [partial EXCEPT ![i] = Existing(i) \o s]
  PROVE  StoredKept
<1>1. ready[i] = None /\ Len(Existing(i)) = offset[i]
  BY DEF IInv, ItemConsistent, FilesConsistent, Appendable
<1>2. /\ Existing(i) \in Seq(Byte) /\ Existing(i) \o s \in Seq(Byte)
      /\ Existing(i) \o s # None
  BY AppendType, ContentAssumption DEF IInv
<1>3. \A j \in Items : partial'[j] = IF j = i THEN Existing(i) \o s ELSE partial[j]
  BY DEF IInv, TypeOK
<1>4. Stored(i)' = Existing(i) \o s /\ Stored(i) = Existing(i)
  BY <1>1, <1>2, <1>3 DEF Stored, Existing
<1>5. \A k \in 1..offset[i] : Stored(i)'[k] = Stored(i)[k]
  BY <1>1, <1>2, <1>4, Appended
<1>6. \A j \in Items \ {i} : Stored(j)' = Stored(j)
  BY <1>3 DEF Stored, Existing
<1> QED
  BY <1>5, <1>6 DEF StoredKept

\* Whoever may write to the file of an item finds it in transfer.
LEMMA ChunkReceives ==
  ASSUME IInv, NEW h \in Handlers, NEW body \in Chunks, NEW i \in Items, job[h].item = i,
         ChunkExpected(h, body)
  PROVE  itemState[i] = "transferring" /\ body \in Seq(Byte) /\ Len(body) \in Nat
<1>1. /\ body \in Seq(Byte) /\ Len(body) \in Nat \ {0}
      /\ offset[i] \in Nat /\ Size[i] \in Nat
  BY ChunkTypes, SizeAssumption DEF IInv, TypeOK
<1> QED
  BY <1>1 DEF ChunkExpected, IInv, ItemConsistent, OffsetConsistent

LEMMA FilesKept ==
  ASSUME IInv, NEW h \in Handlers, HandlerStep(h)
  PROVE  StoredKept
<1>1. CASE ItemFrameStep(h)
  BY <1>1, ItemFrame DEF StoredKept, Stored, Existing
<1>2. ASSUME NEW body \in Chunks, WriteChunk(h, body) PROVE StoredKept
  <2> PICK i \in Items : job[h].item = i
    BY <1>2 DEF WriteChunk, ChunkExpected, IInv, HandlersBound, Admitted
  <2>1. CASE UNCHANGED partial
    BY <1>2, <2>1 DEF WriteChunk, StoredKept, Stored, Existing
  <2>2. CASE Appendable(i) /\ partial' = [partial EXCEPT ![i] = Existing(i) \o body]
    <3>1. ChunkExpected(h, body) /\ ready' = ready
      BY <1>2 DEF WriteChunk
    <3>2. itemState[i] = "transferring" /\ body \in Seq(Byte)
      BY <1>2, <3>1, ChunkReceives
    <3> QED
      BY <2>2, <3>1, <3>2, AppendKept
  <2> QED
    BY <1>2, <2>1, <2>2 DEF WriteChunk
<1>3. ASSUME NEW body \in Chunks, NEW n \in 0..MaxChunk, TornWrite(h, body, n) PROVE StoredKept
  <2> PICK i \in Items : job[h].item = i
    BY <1>3 DEF TornWrite, ChunkExpected, IInv, HandlersBound, Admitted
  <2> DEFINE s == SubSeq(body, 1, n)
  <2>1. /\ ChunkExpected(h, body) /\ ready' = ready /\ Appendable(i) /\ n < Len(body)
        /\ partial' = [partial EXCEPT ![i] = Existing(i) \o s]
    BY <1>3 DEF TornWrite
  <2>2. itemState[i] = "transferring" /\ body \in Seq(Byte) /\ Len(body) \in Nat
    BY <1>3, <2>1, ChunkReceives
  <2>3. s \in Seq(Byte)
    BY <2>1, <2>2, MaxChunkAssumption, Prefix
  <2> HIDE DEF s
  <2> QED
    BY <2>1, <2>2, <2>3, AppendKept
<1>4. CASE \/ \E body \in Chunks, at \in Nat : ReplayChunk(h, at, body)
           \/ CommitCreate(h) \/ CommitChunk(h) \/ RecordReady(h) \/ CommitCleanup(h)
           \/ FinalFailure(h) \/ FinalChanged(h) \/ FinalMismatch(h)
  <2>1. UNCHANGED <<partial, ready>>
    BY <1>4 DEF ReplayChunk, CommitCreate, CommitChunk, RecordReady, CommitCleanup,
       FinalFailure, FinalChanged, FinalMismatch, files
  <2> QED
    BY <2>1 DEF StoredKept, Stored, Existing
<1>5. CASE PublishLink(h)
  <2> PICK i \in Items : job[h].item = i
    BY <1>5 DEF PublishLink, FinalLocked, IInv, HandlersBound, Admitted
  <2>1. /\ ready[i] = None /\ partial[i] # None /\ UNCHANGED partial
        /\ ready' = [ready EXCEPT ![i] = partial[i]]
    BY <1>5 DEF PublishLink
  <2> QED
    BY <2>1 DEF StoredKept, Stored, Existing, IInv, TypeOK
<1>6. CASE PublishUnlink(h) \/ PublishResume(h)
  <2> PICK i \in Items : job[h].item = i
    BY <1>6 DEF PublishUnlink, PublishResume, FinalLocked, IInv, HandlersBound, Admitted
  <2>1. ready[i] # None /\ UNCHANGED ready /\ partial' = [partial EXCEPT ![i] = None]
    BY <1>6 DEF PublishUnlink, PublishResume, IInv, HandlersConsistent
  <2> QED
    BY <2>1 DEF StoredKept, Stored, Existing, IInv, TypeOK
<1>7. ASSUME NEW i \in Items, CleanupUnlink(h, i) PROVE StoredKept
  <2>1. /\ runState = "failed" /\ itemState[i] # "ready" /\ UNCHANGED ready
        /\ partial' = [partial EXCEPT ![i] = None]
    BY <1>7 DEF CleanupUnlink, IInv, HandlersConsistent
  <2> QED
    BY <2>1 DEF StoredKept, Stored, Existing, Answers, IInv, TypeOK
<1> QED
  BY HandlerCases, <1>1, <1>2, <1>3, <1>4, <1>5, <1>6, <1>7 DEF ItemFrameStep


-----------------------------------------------------------------------------
(* The steps nobody sees.                                                    *)

\* The bytes an item answers for are sequences, whatever the step has done.
LEMMA ReceivedNext ==
  ASSUME IInv'
  PROVE  [i \in Items |-> Received(i)]' \in [Items -> Seq(Byte)]
BY AnsweredNext DEF AllAnswered, Answered

LEMMA SilentStep ==
  ASSUME IInv, IInv', StoredKept, UNCHANGED <<runState, offset>>,
         \A i \in Items : Phase(i)' = Phase(i)
  PROVE  UNCHANGED Promise!vars
<1>1. ASSUME NEW i \in Items PROVE Received(i)' = Received(i)
  <2>1. Answers(i)' <=> Answers(i)
    BY DEF Answers, Phase
  <2> QED
    BY <2>1, ReceivedKept DEF StoredKept
<1> QED
  BY <1>1 DEF Promise!vars

LEMMA SilentHandler ==
  ASSUME IInv, IInv', NEW h \in Handlers, HandlerStep(h),
         \/ ItemFrameStep(h) /\ ~CommitActivation(h)
         \/ \E body \in Chunks : \/ WriteChunk(h, body)
                                 \/ \E n \in 0..MaxChunk : TornWrite(h, body, n)
                                 \/ \E at \in Nat : ReplayChunk(h, at, body)
         \/ PublishLink(h) \/ PublishUnlink(h) \/ PublishResume(h)
         \/ \E i \in Items : CleanupUnlink(h, i)
         \/ CommitCreate(h)
  PROVE  UNCHANGED Promise!vars
<1>1. UNCHANGED <<runState, offset>>
  BY ItemFrame DEF WriteChunk, TornWrite, ReplayChunk, PublishLink, PublishUnlink,
     PublishResume, CleanupUnlink, CommitCreate, rows
<1>2. CASE itemState' = itemState
  BY <1>1, <1>2, FilesKept, SilentStep DEF Phase
<1>3. CASE CommitCreate(h)
  <2>1. \A i \in Items : \/ itemState'[i] = itemState[i]
                         \/ /\ itemState[i] \in {"pending", "transferring"}
                            /\ itemState'[i] = "transferring"
    BY <1>3 DEF CommitCreate, IInv, TypeOK, HandlersConsistent
  <2>2. \A i \in Items : Phase(i)' = Phase(i)
    BY <2>1 DEF Phase
  <2> QED
    BY <1>1, <2>2, FilesKept, SilentStep
<1> QED
  BY <1>2, <1>3, ItemFrame DEF WriteChunk, TornWrite, ReplayChunk, PublishLink, PublishUnlink,
     PublishResume, CleanupUnlink, rows

LEMMA SilentOperation ==
  ASSUME IInv, IInv', NEW o \in Ops, OperationStep(o)
  PROVE  UNCHANGED Promise!vars
<1>1. UNCHANGED <<rows, files>>
  BY DEF OperationStep, DeadlinePasses, SweepRead, SweepWrite, FailOperation
<1> QED
  BY <1>1, SilentStep DEF rows, files, StoredKept, Stored, Existing, Phase

-----------------------------------------------------------------------------
(* The steps the callers of the run see.                                     *)

LEMMA ActivateStep ==
  ASSUME IInv, IInv', NEW h \in Handlers, HandlerStep(h), CommitActivation(h)
  PROVE  Promise!Activate
<1>1. /\ runState = "planned" /\ runState' = "active" /\ UNCHANGED <<itemState, offset>>
      /\ \A i \in Items : Phase(i)' = Phase(i)
  BY DEF CommitActivation, IInv, HandlersConsistent, Phase
<1>2. ASSUME NEW i \in Items PROVE Received(i)' = Received(i)
  BY <1>1, FilesKept, ReceivedKept DEF StoredKept, Answers
<1> QED
  BY <1>1, <1>2 DEF Promise!Activate

\* A committed chunk: the item holds what it held, and more.
LEMMA ReceiveStep ==
  ASSUME IInv, IInv', NEW h \in Handlers, HandlerStep(h), CommitChunk(h)
  PROVE  \E i \in Items : Promise!Receive(i)
<1> PICK i \in Items : job[h].item = i
  BY DEF CommitChunk, IInv, HandlersBound, Admitted
<1> PICK body \in Seq(Byte) : job[h].body = body
  BY JobFields, HandlingOK DEF IInv
<1>1. /\ runState = "active" /\ runState' = runState /\ itemState[i] = "transferring"
      /\ body # <<>> /\ offset[i] + Len(body) <= Size[i]
  BY DEF CommitChunk, IInv, HandlersConsistent, ChunkWritten
<1>2. /\ offset[i] \in Nat /\ Size[i] \in Nat /\ Len(body) \in Nat \ {0}
      /\ offset'[i] = offset[i] + Len(body)
      /\ itemState'[i] \in {"transferring", "verifying"}
  <2>1. /\ offset[i] \in Nat /\ Size[i] \in Nat
        /\ offset'[i] = offset[i] + Len(body)
        /\ itemState'[i] \in {"transferring", "verifying"}
    BY SizeAssumption DEF IInv, TypeOK, CommitChunk
  <2>2. Len(body) \in Nat \ {0}
    BY <1>1
  <2> QED
    BY <2>1, <2>2
<1>3. \A j \in Items \ {i} : itemState'[j] = itemState[j] /\ offset'[j] = offset[j]
  BY DEF CommitChunk, IInv, TypeOK
<1>4. \A j \in Items : Phase(j)' = Phase(j)
  BY <1>1, <1>2, <1>3 DEF Phase
<1>5. StoredKept /\ \A j \in Items : Answers(j) /\ Answers(j)'
  BY <1>1, FilesKept DEF Answers
<1>6. ASSUME NEW j \in Items \ {i} PROVE Received(j)' = Received(j)
  BY <1>3, <1>5, ReceivedKept DEF StoredKept
<1>7. /\ Received(i) \in Seq(Byte) /\ Received(i)' \in Seq(Byte)
      /\ Len(Received(i)) = offset[i] /\ Len(Received(i)') = offset[i] + Len(body)
      /\ \A k \in 1..offset[i] : Received(i)'[k] = Received(i)[k]
  <2>1. Answered(i) /\ Answered(i)'
    BY AnsweredAll, AnsweredNext DEF AllAnswered
  <2> QED
    BY <1>2, <1>5, <2>1 DEF Answered, StoredKept
<1>8. SubSeq(Received(i)', 1, Len(Received(i))) = Received(i)
  <2>1. /\ offset[i] <= Len(Received(i)')
        /\ SubSeq(Received(i)', 1, offset[i]) \in Seq(Byte)
        /\ Len(SubSeq(Received(i)', 1, offset[i])) = offset[i]
    BY <1>2, <1>7, Prefix
  <2>2. \A k \in 1..offset[i] : SubSeq(Received(i)', 1, offset[i])[k] = Received(i)[k]
    BY <1>2, <1>7, <2>1, PrefixBytes
  <2> QED
    BY <1>7, <2>1, <2>2, SameSequence
<1>9. Phase(i) = "open"
  BY <1>1 DEF Phase
<1>10. Len(Received(i)) < Len(Received(i)') /\ Len(Received(i)') <= Size[i]
  BY <1>1, <1>2, <1>7
<1>11. [j \in Items |-> Received(j)]' \in [Items -> Seq(Byte)]
  BY ReceivedNext
<1>12. Promise!Receive(i)
  BY <1>1, <1>4, <1>6, <1>8, <1>9, <1>10, <1>11 DEF Promise!Receive
<1> QED
  BY <1>12

\* Only an item of a started run that has not completed can change its state.
LEMMA RunOpen ==
  ASSUME IInv, NEW i \in Items, itemState[i] \notin {"pending", "ready"}
  PROVE  runState \in {"active", "failed"}
BY DEF IInv, TypeOK, RunStates, RunConsistent, RunSummarisesItems

LEMMA PublishStep ==
  ASSUME IInv, IInv', NEW h \in Handlers, HandlerStep(h), RecordReady(h)
  PROVE  \E i \in Items : Promise!Publish(i)
<1> PICK i \in Items : job[h].item = i
  BY DEF RecordReady, IInv, HandlersBound, Admitted
<1>1. itemState[i] = "verifying" /\ offset[i] = Size[i]
  BY DEF RecordReady, IInv, HandlersConsistent, ItemConsistent, OffsetConsistent
<1>2. runState \in {"active", "failed"}
  BY <1>1, RunOpen
<1>3. itemState' = [itemState EXCEPT ![i] = "ready"] /\ offset' = offset
  BY DEF RecordReady
<1>4. [j \in Items |-> Phase(j)]' = [[j \in Items |-> Phase(j)] EXCEPT ![i] = "ready"]
  BY <1>3 DEF Phase, IInv, TypeOK
<1>5. /\ runState' = runState \/ (runState = "active" /\ runState' = "completed")
      /\ runState' = "completed" <=> \A j \in Items : itemState'[j] = "ready"
  BY <1>2 DEF RecordReady, IInv, RunConsistent, RunSummarisesItems
<1>6. runState' = IF runState = "active" /\ \A j \in Items : Phase(j)' = "ready"
                  THEN "completed" ELSE runState
  <2>1. \A j \in Items : Phase(j)' = "ready" <=> itemState'[j] = "ready"
    BY DEF Phase
  <2> QED
    BY <1>2, <1>5, <2>1
<1>7. ASSUME NEW j \in Items, j # i \/ runState = "active"
      PROVE  Received(j)' = Received(j)
  <2>1. Answers(j)' <=> Answers(j)
    BY <1>2, <1>3, <1>5, <1>7 DEF Answers, IInv, TypeOK
  <2> QED
    BY <1>3, <2>1, FilesKept, ReceivedKept DEF StoredKept
<1>8. Len(Received(i)') = Size[i]
  <2>1. Answers(i)' /\ Answered(i)'
    BY <1>3, AnsweredNext DEF Answers, AllAnswered, IInv, TypeOK
  <2> QED
    BY <1>1, <1>3, <2>1 DEF Answered
<1>9. Phase(i) = "open"
  BY <1>1 DEF Phase
<1> QED
  BY <1>2, <1>4, <1>6, <1>7, <1>8, <1>9, ReceivedNext DEF Promise!Publish

LEMMA FailStep ==
  ASSUME IInv, IInv', NEW h \in Handlers, HandlerStep(h),
         FinalFailure(h) \/ FinalChanged(h) \/ FinalMismatch(h)
  PROVE  UNCHANGED Promise!vars \/ \E i \in Items : Promise!Fail(i)
<1> PICK i \in Items : job[h].item = i
  BY DEF FinalFailure, FinalChanged, FinalMismatch, FinalLocked, IInv, HandlersBound, Admitted
<1>1. /\ FailItem(i) /\ offset' = offset /\ itemState[i] # "pending"
      /\ itemState' = [itemState EXCEPT ![i] = "failed"]
  BY DEF FinalFailure, FinalChanged, FinalMismatch, FinalLocked, FailItem, IInv, HandlersBound,
     Admitted
<1>2. /\ itemState[i] # "ready" /\ runState \in {"active", "failed"} /\ runState' = "failed"
      /\ \A j \in Items : itemState'[j] = IF j = i THEN "failed" ELSE itemState[j]
  BY <1>1, RunOpen DEF FailItem, IInv, TypeOK
<1>3. CASE itemState[i] = "failed"
  <2>1. runState' = runState /\ \A j \in Items : Phase(j)' = Phase(j)
    BY <1>2, <1>3 DEF Phase, IInv, RunConsistent
  <2> QED
    BY <1>1, <2>1, FilesKept, SilentStep
<1>4. CASE itemState[i] # "failed"
  <2>1. /\ Phase(i) = "open"
        /\ [j \in Items |-> Phase(j)]' = [[j \in Items |-> Phase(j)] EXCEPT ![i] = "failed"]
    BY <1>2, <1>4 DEF Phase
  <2>2. ASSUME NEW j \in Items
        PROVE  Received(j)' = IF Phase(j) = "ready" THEN Received(j) ELSE <<>>
    <3>1. CASE itemState[j] = "ready"
      <4>1. Answers(j) /\ Answers(j)' /\ Phase(j) = "ready"
        BY <1>2, <3>1 DEF Answers, Phase
      <4> QED
        BY <1>1, <4>1, FilesKept, ReceivedKept DEF StoredKept
    <3>2. CASE itemState[j] # "ready"
      BY <1>2, <3>2 DEF Received, Phase
    <3> QED
      BY <3>1, <3>2
  <2> QED
    BY <1>2, <2>1, <2>2 DEF Promise!Fail
<1> QED
  BY <1>3, <1>4

LEMMA GiveUpStep ==
  ASSUME IInv, IInv', NEW h \in Handlers, HandlerStep(h), CommitCleanup(h)
  PROVE  Promise!GiveUp
<1> DEFINE S == {i \in Items : Phase(i) = "open" /\ i \in job[h].removed}
<1>1. /\ runState = "failed" /\ UNCHANGED <<runState, offset>>
      /\ \A i \in job[h].removed : itemState[i] # "ready"
      /\ itemState' = [i \in Items |-> IF i \in job[h].removed THEN "failed"
                                       ELSE itemState[i]]
  BY DEF CommitCleanup, IInv, HandlersConsistent
<1>2. [i \in Items |-> Phase(i)]' = [i \in Items |-> IF i \in S THEN "failed" ELSE Phase(i)]
  BY <1>1 DEF Phase
<1>3. ASSUME NEW i \in Items PROVE Received(i)' = Received(i)
  <2>1. Answers(i)' <=> Answers(i)
    BY <1>1 DEF Answers
  <2> QED
    BY <1>1, <2>1, FilesKept, ReceivedKept DEF StoredKept
<1> QED
  BY <1>1, <1>2, <1>3 DEF Promise!GiveUp

-----------------------------------------------------------------------------

LEMMA PromisedInit == Init => Promise!Init
<1> SUFFICES ASSUME Init PROVE Promise!Init
  OBVIOUS
<1>1. ASSUME NEW i \in Items PROVE Phase(i) = "open" /\ Received(i) = <<>>
  <2>1. Phase(i) = "open" /\ offset[i] = 0 /\ Stored(i) = <<>> /\ runState = "planned"
    BY DEF Init, Phase, Stored, Existing
  <2>2. Min({offset[i], Len(Stored(i))}) = 0
    BY <2>1, SmallerOfTwo
  <2> QED
    BY <2>1, <2>2 DEF Received
<1> QED
  BY <1>1 DEF Init, Promise!Init

PromiseKept == [Promise!Next]_Promise!vars

LEMMA PromisedStep ==
  ASSUME IInv, IInv', [Next]_vars
  PROVE  PromiseKept
<1>1. ASSUME NEW h \in Handlers, HandlerStep(h) PROVE PromiseKept
  <2>1. CASE CommitActivation(h)
    BY <1>1, <2>1, ActivateStep DEF PromiseKept, Promise!Next
  <2>2. CASE CommitChunk(h)
    BY <1>1, <2>2, ReceiveStep DEF PromiseKept, Promise!Next
  <2>3. CASE RecordReady(h)
    BY <1>1, <2>3, PublishStep DEF PromiseKept, Promise!Next
  <2>4. CASE FinalFailure(h) \/ FinalChanged(h) \/ FinalMismatch(h)
    BY <1>1, <2>4, FailStep DEF PromiseKept, Promise!Next
  <2>5. CASE CommitCleanup(h)
    BY <1>1, <2>5, GiveUpStep DEF PromiseKept, Promise!Next
  <2>6. CASE ItemFrameStep(h)
    BY <1>1, <2>1, <2>6, SilentHandler DEF PromiseKept
  <2>7. CASE \/ PublishLink(h) \/ PublishUnlink(h) \/ PublishResume(h) \/ CommitCreate(h)
             \/ \E i \in Items : CleanupUnlink(h, i)
    BY <1>1, <2>7, SilentHandler DEF PromiseKept
  <2>8. CASE \E body \in Chunks : \/ WriteChunk(h, body)
                                  \/ \E n \in 0..MaxChunk : TornWrite(h, body, n)
                                  \/ \E at \in Nat : ReplayChunk(h, at, body)
    BY <1>1, <2>8, SilentHandler DEF PromiseKept
  <2> QED
    BY <1>1, <2>2, <2>3, <2>4, <2>5, <2>6, <2>7, <2>8, HandlerCases DEF ItemFrameStep
<1>2. CASE UNCHANGED vars
  BY <1>2, SilentStep DEF PromiseKept, vars, StoredKept, Stored, Existing, Phase
<1> QED
  BY <1>1, <1>2, SilentOperation DEF PromiseKept, Next

\* Durable receiving keeps its promise to the workflow and to the Source Intake, whatever
\* the handlers do and wherever they stop: received bytes are only appended to, an item is
\* published once and as it was received, and a failed run answers for its ready items.
THEOREM ReceivingKeepsPromise == Spec => KeepsPromise
<1>1. IInv /\ IInv' /\ [Next]_vars => [Promise!Next]_Promise!vars
  BY PromisedStep DEF PromiseKept
<1> QED
  BY <1>1, PromisedInit, InvariantCorrect, PTL DEF Spec, KeepsPromise, Promise!Spec

=============================================================================
