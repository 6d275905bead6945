-------------------------- MODULE IcloudImportProofs --------------------------
(***************************************************************************)
(* The safety of the import of a prepared set, for every number of         *)
(* candidates, chunks and requests: the types and the owner of the active  *)
(* operation for any number of runs, and, as long as no second run of the  *)
(* set is inserted, that nothing imported is downloaded again and that a   *)
(* completed run has imported everything.                                  *)
(*                                                                         *)
(* The counts of the chunks are overwritten by every attempt and kept by   *)
(* every recovery; what holds of them is that none exceeds the imported    *)
(* candidates of its chunk, so that their sum reaches the size of the set  *)
(* only when all of it is imported.                                        *)
(***************************************************************************)
EXTENDS IcloudImport, FiniteSetTheorems, WellFoundedInduction, TLAPS

RunStatuses == Incomplete \cup {"none", "completed", "completed_partial"}
Batches     == {"none", "ready", "local_file_error", "other"}
ChunkRows   == [status : {"pending", "running", "completed", "stopped_needs_review",
                          "failed", "retryable_failed", "skipped"},
                imported : Nat, files : SUBSET Candidates, cleaned : Nat,
                linked : BOOLEAN, batch : Batches]
Owning      == {"download", "taking", "clean"}
Works       == [pc : {"off", "loop", "load", "list", "attempt", "lease", "intake", "record",
                      "mark", "decide", "cleaned"} \cup Owning,
                seen : RunStatuses, k : Nat, ids : SUBSET Candidates,
                chosen : SUBSET Candidates, files : SUBSET Candidates,
                done : SUBSET Candidates, batch : Batches, linked : BOOLEAN, ok : BOOLEAN]
Reading     == {"recover", "resume", "discarded"}
Pages       == [pc : {"idle", "launch", "start", "insert"} \cup Reading, i : Nat,
                view : [Chunks -> ChunkRows] \cup {<<>>}, found : SUBSET Chunks]

RowTypes ==
    /\ run \in [Runs -> RunStatuses]
    /\ chunk \in [Runs -> [Chunks -> ChunkRows]]
    /\ state \in [Candidates -> CanBeTried \cup {"imported", "skipped_stale", "failed"}]
    /\ ledger \in [Candidates -> {"new", "acquiring", "staged", "stale", "failed_retryable",
                                  "partial_failed", "completed"}]
    /\ imported \in SUBSET Candidates /\ staging \in SUBSET Candidates

ImportTypes ==
    /\ RowTypes
    /\ child \in Runs \cup {Nobody, Other}
    /\ worker \in [Runs -> Works]
    /\ request \in [Requests -> Pages]

\* A worker works on a chunk of its run, and owns the active operation exactly while it
\* downloads, takes in or cleans.
WorkersBound ==
    \A i \in Runs : LET w == worker[i] IN
        /\ child = i <=> w.pc \in Owning
        /\ w.pc \notin {"off", "loop"} => w.k \in Chunks

\* What a request has read is of a run.
RequestsBound ==
    \A q \in Requests : request[q].pc \in Reading =>
        request[q].i \in Runs /\ request[q].view \in [Chunks -> ChunkRows]

ImportInv == ImportTypes /\ WorkersBound /\ RequestsBound

\* What the worker of the only run has in hand: before the ledger takes up the result nothing
\* chosen is imported, afterwards everything done is.
Before == {"load", "list", "attempt", "lease", "download", "intake", "taking"}
Chosen == {"attempt", "lease", "download", "intake", "taking", "record"}
After  == {"mark", "decide", "clean", "cleaned"}
WorkOK(w) ==
    /\ w.pc \notin {"off", "loop"} => w.ids \subseteq ChunkOf[w.k]
    /\ w.chosen \subseteq w.ids /\ w.done \subseteq w.chosen
    /\ w.pc \in {"load", "list"} => w.chosen = {}
    /\ w.pc \in Before => w.done = {}
    /\ w.pc \in Chosen => w.chosen \cap imported = {}
    /\ w.pc \in After => w.done \subseteq imported

\* No chunk counts more than what it has imported.
CountsOK(rowsOf) ==
    \A k \in Chunks : rowsOf[k].imported <= Cardinality(ChunkOf[k] \cap imported)

OneInv ==
    /\ WorkOK(worker[1]) /\ CountsOK(chunk[1])
    /\ run[1] = "completed" => imported = Candidates

\* Only runs that were created have a worker or are acted on by a request.
CreatedBound ==
    /\ \A i \in Runs : run[i] = "none" => worker[i].pc = "off"
    /\ \A q \in Requests : request[q].pc \in Reading \cup {"launch"} =>
          request[q].i \in Created \cup {Nobody}

\* No second run of the prepared set has been inserted.
Alone == Created \subseteq {1}

OneRunInv == CreatedBound /\ (Alone /\ 1 \in Runs => OneInv)

-------------------------------------------------------------------------------
(* Least and greatest numbers.                                               *)

\* A set of natural numbers has a least one.
LEMMA LeastExists ==
  ASSUME NEW T, T \subseteq Nat, T # {}
  PROVE  \E x \in T : \A y \in T : x <= y
<1> DEFINE R == OpToRel(<, Nat)
<1>1. IsWellFoundedOn(R, Nat)
  BY NatLessThanWellFounded
<1>2. PICK x \in T : \A y \in T : ~ (<<y, x>> \in R)
  <2> HIDE DEF R
  <2> QED BY <1>1, WFMin
<1>3. R = {ss \in Nat \X Nat : ss[1] < ss[2]}
  BY DEF OpToRel
<1>4. \A y \in T : ~(y < x)
  <2> SUFFICES ASSUME NEW y \in T, y < x PROVE FALSE
    OBVIOUS
  <2>1. <<y, x>> \in R
    BY <1>3
  <2> QED BY <1>2, <2>1
<1> QED BY <1>4

\* The least number of a set is in it (the chunk a worker claims).
LEMMA MinIs ==
  ASSUME NEW S, S \subseteq Nat, S # {}
  PROVE  Min(S) \in S
BY LeastExists DEF Min

\* The greatest number of a bounded set is in it (the latest run).
LEMMA MaxIs ==
  ASSUME NEW n \in Nat, NEW S, S \subseteq 1 .. n, S # {}
  PROVE  Max(S) \in S
<1> DEFINE T == {n - x : x \in S}
<1>1. T \subseteq Nat /\ T # {}
  <2>1. \A x \in S : n - x \in Nat
    OBVIOUS
  <2> QED BY <2>1
<1>2. PICK t \in T : \A u \in T : t <= u
  BY <1>1, LeastExists
<1>3. PICK x \in S : t = n - x
  BY <1>2
<1>4. \A y \in S : x >= y
  <2> SUFFICES ASSUME NEW y \in S PROVE x >= y
    OBVIOUS
  <2>1. t <= n - y
    BY <1>2
  <2> QED BY <1>3, <2>1
<1> QED BY <1>4 DEF Max

-------------------------------------------------------------------------------
(* The types and the owner of the active operation, for any number of runs.  *)

\* What the constants give: runs are numbers and nobody is none of them, the chunks are
\* numbered and finitely many.
LEMMA ConstantFacts ==
  /\ Cardinality(Runs) \in Nat /\ Runs = 1..Cardinality(Runs) /\ Runs \subseteq Nat
  /\ Nobody \notin Runs /\ Other \notin Runs
  /\ Chunks = 1..Len(ChunkOf) /\ Chunks \subseteq Nat /\ IsFiniteSet(Chunks)
  /\ \A k \in Chunks : ChunkOf[k] \subseteq Candidates
  /\ \A S \in SUBSET Candidates : IsFiniteSet(S) /\ Cardinality(S) \in Nat
<1>1. Cardinality(Runs) \in Nat /\ Runs = 1..Cardinality(Runs)
  BY RunsAssumption, FS_CardinalityType
<1> DEFINE n == Cardinality(Runs)
<1>2. Runs \subseteq Nat /\ Nobody \notin Runs
  <2> HIDE DEF n
  <2>1. n \in Nat /\ Runs = 1..n
    BY <1>1 DEF n
  <2> QED BY <2>1 DEF Nobody
<1>3. Chunks = 1..Len(ChunkOf) /\ Len(ChunkOf) \in Nat
  BY ChunksAssumption DEF Chunks
<1>4. IsFiniteSet(Chunks) /\ Chunks \subseteq Nat
  BY <1>3, FS_Interval
<1>5. \A k \in Chunks : ChunkOf[k] \subseteq Candidates
  BY ChunksAssumption DEF Chunks
<1>6. \A S \in SUBSET Candidates : IsFiniteSet(S) /\ Cardinality(S) \in Nat
  BY ChunksAssumption, FS_Subset, FS_CardinalityType
<1> QED BY <1>1, <1>2, <1>3, <1>4, <1>5, <1>6, RunsAssumption

\* The latest run is one that was created, or nobody.
LEMMA LatestCreated == LatestRun \in Created \cup {Nobody} /\ LatestIncomplete \in Created \cup {Nobody}
<1>1. Cardinality(Runs) \in Nat /\ Runs = 1..Cardinality(Runs)
  BY ConstantFacts
<1>2. Created \subseteq Runs /\ IncompleteRuns \subseteq Created
  BY DEF Created, IncompleteRuns, Incomplete
<1>3. ASSUME NEW S, S \subseteq Runs, S # {} PROVE Max(S) \in S
  <2> DEFINE n == Cardinality(Runs)
  <2>1. n \in Nat /\ S \subseteq 1..n
    BY <1>1, <1>3
  <2> HIDE DEF n
  <2> QED BY <1>3, <2>1, MaxIs
<1>4. Created # {} => Max(Created) \in Created
  BY <1>2, <1>3
<1>5. IncompleteRuns # {} => Max(IncompleteRuns) \in Created
  BY <1>2, <1>3
<1> QED BY <1>4, <1>5 DEF LatestRun, LatestIncomplete

\* The latest run and the latest incomplete run are runs, if there are any.
LEMMA LatestRunType == LatestRun \in Runs \cup {Nobody} /\ LatestIncomplete \in Runs \cup {Nobody}
BY LatestCreated DEF Created

\* A worker that is off, and a request that is idle, have the types of their kind.
LEMMA NoWorkType == NoWork \in Works /\ NoWork.pc = "off"
BY DEF NoWork, Works, RunStatuses, Batches

\* An idle request has read nothing.
LEMMA IdleType == Idle \in Pages /\ Idle.pc = "idle" /\ Idle.pc \notin Reading
BY DEF Idle, Pages, Reading, Nobody

\* A worker's step, as its own record.
WorkerGoes(i, w) ==
  /\ worker' = [worker EXCEPT ![i] = w]
  /\ w \in Works
  /\ w.pc \notin {"off", "loop"} => w.k \in Chunks

\* A step of one worker keeps the workers' types, and who owns the active operation.
LEMMA WorkersStep ==
  ASSUME WorkersBound, worker \in [Runs -> Works], NEW i \in Runs, NEW w, WorkerGoes(i, w),
         \/ child' = child /\ (w.pc \in Owning <=> worker[i].pc \in Owning)
         \/ child = Nobody /\ child' = i /\ w.pc \in Owning
         \/ child = i /\ child' = Nobody /\ w.pc \notin Owning
  PROVE  worker' \in [Runs -> Works] /\ WorkersBound'
<1>1. worker' \in [Runs -> Works] /\ worker'[i] = w
      /\ \A j \in Runs : j # i => worker'[j] = worker[j]
  BY DEF WorkerGoes
<1>2. ASSUME NEW j \in Runs
      PROVE  /\ child' = j <=> worker'[j].pc \in Owning
             /\ worker'[j].pc \notin {"off", "loop"} => worker'[j].k \in Chunks
  <2>1. (child = j <=> worker[j].pc \in Owning) /\ (child = i <=> worker[i].pc \in Owning)
        /\ (worker[j].pc \notin {"off", "loop"} => worker[j].k \in Chunks)
    BY DEF WorkersBound
  <2>2. Nobody # j /\ Nobody # i
    BY ConstantFacts
  <2>3. CASE j = i
    BY <1>1, <2>1, <2>2, <2>3 DEF WorkerGoes
  <2>4. CASE j # i
    BY <1>1, <2>1, <2>2, <2>4
  <2> QED BY <2>3, <2>4
<1> QED BY <1>1, <1>2 DEF WorkersBound

\* A step of a worker: rows and staging keep their types, the owner changes with the step,
\* the requests stay.
LEMMA WorkKeeps ==
  ASSUME ImportInv, NEW i \in Runs, NEW w, WorkerGoes(i, w), RowTypes',
         \/ child' = child /\ (w.pc \in Owning <=> worker[i].pc \in Owning)
         \/ child = Nobody /\ child' = i /\ w.pc \in Owning
         \/ child = i /\ child' = Nobody /\ w.pc \notin Owning,
         request' = request
  PROVE  ImportInv'
<1>1. worker' \in [Runs -> Works] /\ WorkersBound'
  BY WorkersStep DEF ImportInv, ImportTypes
<1>2. child' \in Runs \cup {Nobody, Other}
  BY DEF ImportInv, ImportTypes
<1>3. request' \in [Requests -> Pages] /\ RequestsBound'
  BY DEF ImportInv, ImportTypes, RequestsBound
<1> QED BY <1>1, <1>2, <1>3 DEF ImportInv, ImportTypes

\* The status a run ends a chunk with: its own, or one of the two completed ones.
LEMMA FinalizedType ==
  ASSUME ImportInv, NEW i \in Runs, NEW k \in Chunks, NEW row
  PROVE  /\ Finalized(i, k, row) \in RunStatuses
         /\ Finalized(i, k, row) \in {run[i], "completed", "completed_partial"}
BY DEF Finalized, ImportInv, ImportTypes, RowTypes, RunStatuses

\* A worker whose chunk is written.
LEMMA LeaveKeeps ==
  ASSUME ImportInv, NEW i \in Runs, NEW k \in Chunks, NEW row \in ChunkRows,
         NEW status \in RunStatuses, Leave(i, k, row, status)
  PROVE  /\ run' \in [Runs -> RunStatuses] /\ chunk' \in [Runs -> [Chunks -> ChunkRows]]
         /\ chunk'[i] = [chunk[i] EXCEPT ![k] = row] /\ run'[i] = status
<1>1. chunk \in [Runs -> [Chunks -> ChunkRows]] /\ run \in [Runs -> RunStatuses]
  BY DEF ImportInv, ImportTypes, RowTypes
<1>2. chunk' = [chunk EXCEPT ![i] = [chunk[i] EXCEPT ![k] = row]]
  BY <1>1 DEF Leave
<1>3. [chunk[i] EXCEPT ![k] = row] \in [Chunks -> ChunkRows]
  BY <1>1
<1> QED BY <1>1, <1>2, <1>3 DEF Leave

\* The worker and its chunk row, with their types.
LEMMA WorkerFacts ==
  ASSUME ImportInv, NEW i \in Runs
  PROVE  /\ worker \in [Runs -> Works] /\ worker[i] \in Works /\ RowTypes
         /\ child = i <=> worker[i].pc \in Owning
         /\ worker[i].pc \notin {"off", "loop"} =>
                worker[i].k \in Chunks /\ chunk[i][worker[i].k] \in ChunkRows
         /\ Nobody # i /\ Other # i
<1>1. worker \in [Runs -> Works] /\ worker[i] \in Works /\ RowTypes
  BY DEF ImportInv, ImportTypes
<1>2. chunk[i] \in [Chunks -> ChunkRows]
  BY <1>1 DEF RowTypes
<1> QED BY <1>1, <1>2, ConstantFacts DEF ImportInv, WorkersBound

\* Claim: the least pending chunk becomes the worker's.
LEMMA ClaimKeeps ==
  ASSUME ImportInv, NEW i \in Runs, Claim(i)
  PROVE  ImportInv'
<1> DEFINE k == Min(PendingChunks(chunk[i]))
           w == [NoWork EXCEPT !.pc = "load", !.k = k, !.seen = "running"]
           row == [chunk[i][k] EXCEPT !.status = "running"]
<1>1. k \in Chunks /\ k \in Nat
  <2>1. PendingChunks(chunk[i]) \subseteq Chunks /\ PendingChunks(chunk[i]) # {}
    BY DEF PendingChunks, Claim, MayClaim
  <2> QED BY <2>1, MinIs, ConstantFacts
<1>2. chunk[i][k] \in ChunkRows /\ chunk \in [Runs -> [Chunks -> ChunkRows]]
      /\ run \in [Runs -> RunStatuses] /\ RowTypes
  BY <1>1 DEF ImportInv, ImportTypes, RowTypes
<1>3. /\ child = Nobody /\ worker[i].pc = "loop" /\ child' = child /\ request' = request
      /\ chunk' = [chunk EXCEPT ![i][k].status = "running"]
      /\ worker' = [worker EXCEPT ![i] = w]
      /\ run' = [run EXCEPT ![i] = "running"]
      /\ UNCHANGED <<state, ledger, imported, staging>>
  BY DEF Claim, MayClaim, At
<1> HIDE DEF k
<1>4. row \in ChunkRows
  BY <1>2 DEF ChunkRows
<1>5. w \in Works /\ w.pc = "load" /\ w.k = k
  BY <1>1 DEF NoWork, Works, RunStatuses, Batches, Incomplete
<1>6. RowTypes'
  <2>1. chunk' = [chunk EXCEPT ![i] = [chunk[i] EXCEPT ![k] = row]]
    BY <1>3, <1>2, <1>1
  <2> HIDE DEF row
  <2>2. [chunk[i] EXCEPT ![k] = row] \in [Chunks -> ChunkRows]
    BY <1>2, <1>4, <1>1
  <2>3. chunk' \in [Runs -> [Chunks -> ChunkRows]]
    BY <2>1, <2>2, <1>2
  <2>4. run' \in [Runs -> RunStatuses]
    BY <1>2, <1>3 DEF RunStatuses, Incomplete
  <2> QED BY <2>3, <2>4, <1>2, <1>3 DEF RowTypes
<1> HIDE DEF w
<1>7. WorkerGoes(i, w)
  BY <1>1, <1>3, <1>5 DEF WorkerGoes
<1> QED BY <1>3, <1>5, <1>6, <1>7, WorkKeeps DEF Owning

\* The worker goes to another place and takes nothing with it.
LEMMA StepGoes ==
  ASSUME ImportInv, NEW i \in Runs, NEW pc, Step(i, pc), worker[i].pc \notin {"off", "loop"},
         pc \in {"record", "mark", "decide", "lease", "download", "clean", "cleaned"}
  PROVE  WorkerGoes(i, [worker[i] EXCEPT !.pc = pc]) /\ [worker[i] EXCEPT !.pc = pc].pc = pc
<1>1. worker \in [Runs -> Works] /\ worker[i] \in Works /\ worker[i].k \in Chunks
  BY WorkerFacts
<1> DEFINE w == [worker[i] EXCEPT !.pc = pc]
<1>2. w \in Works /\ w.pc = pc /\ w.k = worker[i].k
  BY <1>1 DEF Works, Owning
<1>3. worker' = [worker EXCEPT ![i] = w]
  BY <1>1 DEF Step
<1> HIDE DEF w
<1>4. WorkerGoes(i, w)
  BY <1>1, <1>2, <1>3 DEF WorkerGoes
<1> QED BY <1>2, <1>4 DEF w

\* A step of a worker that only moves it on.
LEMMA StepKeeps ==
  ASSUME ImportInv, NEW i \in Runs, NEW pc, Step(i, pc), worker[i].pc \notin {"off", "loop"},
         pc \in {"record", "mark", "decide", "lease", "download", "clean", "cleaned"}, RowTypes',
         \/ child' = child /\ (pc \in Owning <=> worker[i].pc \in Owning)
         \/ child = Nobody /\ child' = i /\ pc \in Owning
         \/ child = i /\ child' = Nobody /\ pc \notin Owning,
         request' = request
  PROVE  ImportInv'
<1> DEFINE w == [worker[i] EXCEPT !.pc = pc]
<1>1. WorkerGoes(i, w) /\ w.pc = pc
  BY StepGoes
<1> HIDE DEF w
<1> QED BY <1>1, WorkKeeps

\* The worker ends.
LEMMA NoWorkGoes ==
  ASSUME NEW i \in Runs, worker' = [worker EXCEPT ![i] = NoWork]
  PROVE  WorkerGoes(i, NoWork) /\ NoWork.pc \notin Owning
BY NoWorkType DEF WorkerGoes, Owning

\* A new row of states or of the ledger has the type of the old.
LEMMA LedgerType ==
  ASSUME RowTypes, NEW cs, NEW s \in {"acquiring", "staged", "stale", "failed_retryable"}
  PROVE  Ledger(cs, s) \in [Candidates -> {"new", "acquiring", "staged", "stale",
                                "failed_retryable", "partial_failed", "completed"}]
BY DEF Ledger, RowTypes

\* A worker ends, loads its candidates or marks them as being acquired.
LEMMA BeginKeeps ==
  ASSUME ImportInv, NEW i \in Runs, EndWorker(i) \/ LoadCandidates(i) \/ Attempt(i)
  PROVE  ImportInv'
<1>t. /\ worker \in [Runs -> Works] /\ worker[i] \in Works /\ RowTypes
      /\ worker[i].pc \notin {"off", "loop"} => worker[i].k \in Chunks
  BY WorkerFacts
<1>1. CASE EndWorker(i)
  <2>1. RowTypes' /\ child' = child /\ request' = request /\ worker[i].pc = "loop"
        /\ worker' = [worker EXCEPT ![i] = NoWork]
    BY <1>1, <1>t DEF EndWorker, At, rows, RowTypes
  <2> QED BY <2>1, NoWorkGoes, WorkKeeps DEF Owning
<1>2. CASE LoadCandidates(i)
  <2> DEFINE w == [worker[i] EXCEPT !.pc = "list", !.ids = PreparedCandidates(i)]
  <2>1. RowTypes' /\ child' = child /\ request' = request /\ worker[i].pc = "load"
    BY <1>2, <1>t DEF LoadCandidates, At, rows, RowTypes
  <2>2. PreparedCandidates(i) \in SUBSET Candidates
    BY <1>t, <2>1, ConstantFacts DEF PreparedCandidates, K
  <2>3. worker' = [worker EXCEPT ![i] = w]
    BY <1>2, <1>t DEF LoadCandidates
  <2>4. w \in Works /\ w.pc = "list" /\ w.k = worker[i].k
    BY <2>2, <1>t DEF Works
  <2> HIDE DEF w
  <2>5. WorkerGoes(i, w)
    BY <2>1, <2>3, <2>4, <1>t DEF WorkerGoes
  <2> QED BY <2>1, <2>4, <2>5, WorkKeeps DEF Owning
<1>3. CASE Attempt(i)
  <2>1. child' = child /\ request' = request /\ worker[i].pc = "attempt"
        /\ UNCHANGED <<run, chunk, state, imported, staging>>
    BY <1>3 DEF Attempt, At
  <2>2. PICK pc \in {"mark", "lease"} : Step(i, pc)
    BY <1>3 DEF Attempt
  <2>3. RowTypes'
    <3>1. ledger' = ledger \/ ledger' = Ledger(worker[i].chosen, "acquiring")
      BY <1>3 DEF Attempt
    <3> QED BY <2>1, <3>1, <1>t, LedgerType DEF RowTypes
  <2> QED BY <2>1, <2>2, <2>3, StepKeeps DEF Owning
<1> QED BY <1>1, <1>2, <1>3

\* A chunk without candidates is skipped, which may complete the run.
LEMMA SkipKeeps ==
  ASSUME ImportInv, NEW i \in Runs, SkipChunk(i)
  PROVE  ImportInv'
<1>t. /\ worker \in [Runs -> Works] /\ worker[i] \in Works /\ RowTypes
      /\ worker[i].pc = "load" /\ worker[i].k \in Chunks /\ chunk[i][worker[i].k] \in ChunkRows
  BY WorkerFacts DEF SkipChunk, At
<1> DEFINE row == [chunk[i][K(i)] EXCEPT !.status = "skipped"]
           end == Finalized(i, K(i), row)
           seen == IF end \in Incomplete THEN "running" ELSE end
           w == [NoWork EXCEPT !.pc = "loop", !.seen = seen]
<1>1. row \in ChunkRows /\ K(i) \in Chunks
  BY <1>t DEF ChunkRows, K
<1>2. end \in RunStatuses
  BY <1>1, FinalizedType
<1>3. Leave(i, K(i), row, end) /\ worker' = [worker EXCEPT ![i] = w]
      /\ UNCHANGED <<state, ledger, imported, staging, child, request>>
  BY DEF SkipChunk
<1> HIDE DEF row, end
<1>4. RowTypes'
  <2>1. run' \in [Runs -> RunStatuses] /\ chunk' \in [Runs -> [Chunks -> ChunkRows]]
    BY <1>1, <1>2, <1>3, LeaveKeeps
  <2> QED BY <2>1, <1>3, <1>t DEF RowTypes
<1>5. seen \in RunStatuses
  BY <1>2 DEF RunStatuses, Incomplete
<1> HIDE DEF seen
<1>6. w \in Works /\ w.pc = "loop"
  BY <1>5 DEF NoWork, Works, Batches
<1> HIDE DEF w
<1>7. WorkerGoes(i, w)
  BY <1>3, <1>6 DEF WorkerGoes
<1> QED BY <1>t, <1>3, <1>4, <1>6, <1>7, WorkKeeps DEF Owning

\* The listing chooses what is safe of what can be selected.
LEMMA ListKeeps ==
  ASSUME ImportInv, NEW i \in Runs, List(i)
  PROVE  ImportInv'
<1>t. /\ worker \in [Runs -> Works] /\ worker[i] \in Works /\ RowTypes
      /\ worker[i].pc = "list" /\ worker[i].k \in Chunks
  BY WorkerFacts DEF List, At
<1>1. PICK stale \in SUBSET Selectable(i) : \E unsafe \in SUBSET (Selectable(i) \ stale) :
        LET safe == Selectable(i) \ (stale \cup unsafe) IN
        /\ ledger' = [c \in Candidates |-> IF c \in stale THEN "stale"
                                           ELSE IF c \in unsafe THEN "failed_retryable"
                                           ELSE ledger[c]]
        /\ worker' = [worker EXCEPT ![i].chosen = safe,
                                    ![i].pc = IF safe = {} THEN "mark" ELSE "attempt"]
  BY DEF List
<1>2. PICK unsafe \in SUBSET (Selectable(i) \ stale) :
        LET safe == Selectable(i) \ (stale \cup unsafe) IN
        /\ ledger' = [c \in Candidates |-> IF c \in stale THEN "stale"
                                           ELSE IF c \in unsafe THEN "failed_retryable"
                                           ELSE ledger[c]]
        /\ worker' = [worker EXCEPT ![i].chosen = safe,
                                    ![i].pc = IF safe = {} THEN "mark" ELSE "attempt"]
  BY <1>1
<1> DEFINE safe == Selectable(i) \ (stale \cup unsafe)
           pc == IF safe = {} THEN "mark" ELSE "attempt"
           w == [worker[i] EXCEPT !.chosen = safe, !.pc = pc]
<1>3. safe \in SUBSET Candidates /\ pc \in {"mark", "attempt"}
  BY <1>t DEF Selectable, Works
<1>4. worker' = [worker EXCEPT ![i] = w]
  BY <1>2, <1>t
<1> HIDE DEF safe, pc
<1>5. w \in Works /\ w.pc = pc /\ w.k = worker[i].k
  BY <1>3, <1>t DEF Works
<1>6. RowTypes'
  BY <1>t, <1>2 DEF List, RowTypes
<1>7. child' = child /\ request' = request
  BY DEF List
<1> HIDE DEF w
<1>8. WorkerGoes(i, w)
  BY <1>4, <1>5, <1>t DEF WorkerGoes
<1> QED BY <1>t, <1>3, <1>5, <1>6, <1>7, <1>8, WorkKeeps DEF Owning

\* The acquisition: its lease, its files and its end.
LEMMA AcquireKeeps ==
  ASSUME ImportInv, NEW i \in Runs, TakeLease(i) \/ Download(i) \/ EndDownload(i)
  PROVE  ImportInv'
<1>t. /\ worker \in [Runs -> Works] /\ worker[i] \in Works /\ RowTypes
      /\ worker[i].pc \notin {"off", "loop"} => worker[i].k \in Chunks
      /\ child = i <=> worker[i].pc \in Owning
      /\ Nobody # i
  BY WorkerFacts
<1>1. CASE TakeLease(i)
  <2>1. worker[i].pc = "lease" /\ request' = request
        /\ UNCHANGED <<run, chunk, state, imported, staging>>
    BY <1>1 DEF TakeLease, At
  <2>2. RowTypes'
    <3>1. ledger' = ledger \/ ledger' = Ledger(worker[i].chosen, "failed_retryable")
      BY <1>1 DEF TakeLease
    <3> QED BY <2>1, <3>1, <1>t, LedgerType DEF RowTypes
  <2>3. CASE child # Nobody
    <3>1. Step(i, "mark") /\ child' = child
      BY <1>1, <2>3 DEF TakeLease
    <3> QED BY <2>1, <2>2, <3>1, StepKeeps DEF Owning
  <2>4. CASE child = Nobody
    <3>1. Step(i, "download") /\ child' = i
      BY <1>1, <2>4 DEF TakeLease
    <3> QED BY <2>1, <2>2, <2>4, <3>1, StepKeeps DEF Owning
  <2> QED BY <2>3, <2>4
<1>2. CASE Download(i)
  <2>1. PICK c \in worker[i].chosen \ staging : staging' = staging \cup {c}
    BY <1>2 DEF Download
  <2>2. worker[i].pc = "download" /\ request' = request /\ child' = child /\ worker' = worker
        /\ UNCHANGED <<run, chunk, state, ledger, imported>>
    BY <1>2 DEF Download, At, rows
  <2>3. c \in Candidates
    BY <1>t DEF Works
  <2>4. RowTypes'
    BY <1>t, <2>1, <2>2, <2>3 DEF RowTypes
  <2>5. WorkerGoes(i, worker[i])
    BY <1>t, <2>2 DEF WorkerGoes
  <2> QED BY <2>2, <2>4, <2>5, WorkKeeps
<1>3. CASE EndDownload(i)
  <2> DEFINE files == worker[i].chosen \cap staging
             ready == files = worker[i].chosen
             pc == IF ready THEN "intake" ELSE "mark"
  <2>1. PICK batch \in IF ready THEN {"ready"} ELSE {"local_file_error", "other"} :
            worker' = [worker EXCEPT ![i].pc = pc, ![i].files = files, ![i].batch = batch]
    BY <1>3 DEF EndDownload
  <2>2. /\ worker[i].pc = "download" /\ request' = request /\ child' = Nobody
        /\ ledger' = Ledger(worker[i].chosen, IF ready THEN "staged" ELSE "failed_retryable")
        /\ UNCHANGED <<run, chunk, state, imported, staging>>
    BY <1>3 DEF EndDownload, At
  <2> DEFINE w == [worker[i] EXCEPT !.pc = pc, !.files = files, !.batch = batch]
  <2>3. files \in SUBSET Candidates /\ pc \in {"intake", "mark"} /\ batch \in Batches
    BY <1>t DEF Works, Batches
  <2>4. worker' = [worker EXCEPT ![i] = w]
    BY <2>1, <1>t
  <2>5. RowTypes'
    BY <1>t, <2>2, LedgerType DEF RowTypes
  <2> HIDE DEF files, ready, pc
  <2>6. w \in Works /\ w.pc = pc /\ w.k = worker[i].k
    BY <2>3, <1>t DEF Works
  <2> HIDE DEF w
  <2>7. WorkerGoes(i, w)
    BY <2>2, <2>4, <2>6, <1>t DEF WorkerGoes
  <2> QED BY <1>t, <2>2, <2>3, <2>5, <2>6, <2>7, WorkKeeps DEF Owning
<1> QED BY <1>1, <1>2, <1>3

\* Source Intake of the batch: its start, its refusal and its end.
LEMMA IntakeKeeps ==
  ASSUME ImportInv, NEW i \in Runs, StartIntake(i) \/ RefuseIntake(i) \/ EndIntake(i)
  PROVE  ImportInv'
<1>t. /\ worker \in [Runs -> Works] /\ worker[i] \in Works /\ RowTypes
      /\ worker[i].pc \notin {"off", "loop"} => worker[i].k \in Chunks
      /\ child = i <=> worker[i].pc \in Owning
      /\ Nobody # i
  BY WorkerFacts
<1>r. RowTypes' /\ request' = request
  BY <1>t DEF StartIntake, RefuseIntake, EndIntake, rows, RowTypes
<1>1. CASE StartIntake(i)
  <2> DEFINE w == [worker[i] EXCEPT !.pc = "taking", !.linked = TRUE]
  <2>1. worker[i].pc = "intake" /\ child = Nobody /\ child' = i
        /\ worker' = [worker EXCEPT ![i] = w]
    BY <1>1, <1>t DEF StartIntake, At
  <2>2. w \in Works /\ w.pc = "taking" /\ w.k = worker[i].k
    BY <1>t DEF Works, Owning
  <2> HIDE DEF w
  <2>3. WorkerGoes(i, w)
    BY <2>1, <2>2, <1>t DEF WorkerGoes
  <2> QED BY <1>r, <2>1, <2>2, <2>3, WorkKeeps DEF Owning
<1>2. CASE RefuseIntake(i)
  <2>1. worker[i].pc = "intake" /\ Step(i, "record") /\ child' = child
    BY <1>2 DEF RefuseIntake, At
  <2> QED BY <1>r, <2>1, StepKeeps DEF Owning
<1>3. CASE EndIntake(i)
  <2>1. PICK done \in SUBSET worker[i].chosen : \E ok \in {FALSE, done = worker[i].chosen} :
        worker' = [worker EXCEPT ![i].pc = "record", ![i].done = done, ![i].ok = ok]
    BY <1>3 DEF EndIntake
  <2>2. PICK ok \in {FALSE, done = worker[i].chosen} :
        worker' = [worker EXCEPT ![i].pc = "record", ![i].done = done, ![i].ok = ok]
    BY <2>1
  <2> DEFINE w == [worker[i] EXCEPT !.pc = "record", !.done = done, !.ok = ok]
  <2>3. done \in SUBSET Candidates /\ ok \in BOOLEAN
    BY <1>t DEF Works
  <2>4. worker' = [worker EXCEPT ![i] = w]
    BY <2>2, <1>t
  <2>5. worker[i].pc = "taking" /\ child' = Nobody
    BY <1>3 DEF EndIntake, At
  <2>6. w \in Works /\ w.pc = "record" /\ w.k = worker[i].k
    BY <2>3, <1>t DEF Works
  <2> HIDE DEF w
  <2>7. WorkerGoes(i, w)
    BY <2>4, <2>5, <2>6, <1>t DEF WorkerGoes
  <2> QED BY <1>r, <1>t, <2>5, <2>6, <2>7, WorkKeeps DEF Owning
<1> QED BY <1>1, <1>2, <1>3

\* The ledger and the candidate states take up the result.
LEMMA RecordKeeps ==
  ASSUME ImportInv, NEW i \in Runs, RecordResult(i) \/ MarkCandidates(i)
  PROVE  ImportInv'
<1>t. /\ worker \in [Runs -> Works] /\ worker[i] \in Works /\ RowTypes
      /\ worker[i].pc \notin {"off", "loop"} =>
             worker[i].k \in Chunks /\ chunk[i][worker[i].k] \in ChunkRows
  BY WorkerFacts
<1>r. child' = child /\ request' = request
  BY DEF RecordResult, MarkCandidates
<1>1. CASE RecordResult(i)
  <2>1. worker[i].pc = "record" /\ Step(i, "mark")
        /\ UNCHANGED <<run, chunk, state, staging>>
    BY <1>1 DEF RecordResult, At
  <2>2. RowTypes'
    <3>1. imported' \in SUBSET Candidates
      BY <1>1, <1>t DEF RecordResult, RowTypes, Works
    <3>2. ledger' = [c \in Candidates |-> IF c \in worker[i].done THEN "completed"
                                           ELSE IF c \in worker[i].chosen THEN "partial_failed"
                                           ELSE ledger[c]]
      BY <1>1 DEF RecordResult
    <3> QED BY <3>1, <3>2, <2>1, <1>t DEF RowTypes
  <2> QED BY <1>r, <2>1, <2>2, StepKeeps DEF Owning
<1>2. CASE MarkCandidates(i)
  <2> DEFINE k == worker[i].k
             row == [chunk[i][k] EXCEPT !.linked = worker[i].linked, !.batch = worker[i].batch]
  <2>1. worker[i].pc = "mark" /\ Step(i, "decide")
        /\ UNCHANGED <<run, ledger, imported, staging>>
    BY <1>2 DEF MarkCandidates, At
  <2>2. chunk \in [Runs -> [Chunks -> ChunkRows]] /\ k \in Chunks
    BY <1>t, <2>1 DEF RowTypes
  <2>3. row \in ChunkRows
    BY <1>t, <2>1 DEF ChunkRows, Works
  <2>4. chunk' = [chunk EXCEPT ![i] = [chunk[i] EXCEPT ![k] = row]]
    BY <1>2, <2>2 DEF MarkCandidates, K
  <2>5. state' \in [Candidates -> CanBeTried \cup {"imported", "skipped_stale", "failed"}]
    BY <1>2, <1>t DEF MarkCandidates, StateFor, CanBeTried, RowTypes
  <2> HIDE DEF row, k
  <2>6. [chunk[i] EXCEPT ![k] = row] \in [Chunks -> ChunkRows]
    BY <2>2, <2>3
  <2>7. RowTypes'
    BY <1>t, <2>1, <2>2, <2>4, <2>5, <2>6 DEF RowTypes
  <2> QED BY <1>r, <2>1, <2>7, StepKeeps DEF Owning
<1> QED BY <1>1, <1>2

\* The counts of an attempt are those of a row.
LEMMA CountedType ==
  ASSUME ImportInv, NEW i \in Runs, worker[i].pc \notin {"off", "loop"}
  PROVE  /\ Counted(i) \in ChunkRows
         /\ Counted(i).imported = Cardinality(worker[i].done)
         /\ K(i) \in Chunks /\ Cardinality(worker[i].files) \in Nat
<1>1. worker[i] \in Works /\ worker[i].k \in Chunks /\ chunk[i][worker[i].k] \in ChunkRows
  BY WorkerFacts
<1> DEFINE n == Cardinality(worker[i].done)
<1>2. n \in Nat /\ Cardinality(worker[i].files) \in Nat
  BY <1>1, ConstantFacts DEF Works
<1>3. Counted(i) = [chunk[i][worker[i].k] EXCEPT !.imported = n, !.files = worker[i].files]
  BY DEF Counted, K
<1> HIDE DEF n
<1>4. Counted(i) \in ChunkRows /\ Counted(i).imported = n
  BY <1>1, <1>2, <1>3 DEF ChunkRows, Works
<1> QED BY <1>1, <1>2, <1>4 DEF K, n

\* A chunk is stopped for review with the counts of the attempt.
LEMMA StopKeeps ==
  ASSUME ImportInv, NEW i \in Runs, StopForReview(i), worker[i].pc \notin {"off", "loop"},
         staging' \in SUBSET Candidates,
         \/ child' = child /\ worker[i].pc \notin Owning
         \/ child = i /\ child' = Nobody
  PROVE  ImportInv'
<1> DEFINE row == [Counted(i) EXCEPT !.status = "stopped_needs_review"]
<1>1. Counted(i) \in ChunkRows /\ K(i) \in Chunks
  BY CountedType
<1>2. row \in ChunkRows
  BY <1>1 DEF ChunkRows
<1>3. Leave(i, K(i), row, "stopped_needs_review") /\ worker' = [worker EXCEPT ![i] = NoWork]
      /\ UNCHANGED <<state, ledger, imported, request>>
  BY DEF StopForReview
<1> HIDE DEF row
<1>4. RowTypes'
  <2>1. run' \in [Runs -> RunStatuses] /\ chunk' \in [Runs -> [Chunks -> ChunkRows]]
    BY <1>1, <1>2, <1>3, LeaveKeeps DEF RunStatuses, Incomplete
  <2> QED BY <2>1, <1>3 DEF RowTypes, ImportInv, ImportTypes
<1> QED BY <1>3, <1>4, NoWorkGoes, WorkKeeps

\* The ends of an attempt that do not complete the chunk.
LEMMA LeaveEndsKeep ==
  ASSUME ImportInv, NEW i \in Runs, LeaveEmpty(i) \/ LeaveUnclean(i) \/ CleanupFails(i)
  PROVE  ImportInv'
<1>t. /\ worker[i] \in Works /\ RowTypes /\ (child = i <=> worker[i].pc \in Owning)
  BY WorkerFacts
<1>1. CASE LeaveEmpty(i)
  <2> DEFINE retry == \E c \in worker[i].ids : state[c] = "execution_failed_retryable"
             row == [Counted(i) EXCEPT !.status = IF retry THEN "retryable_failed" ELSE "failed"]
             status == IF retry THEN "resume_available" ELSE "stopped_needs_review"
  <2>1. worker[i].pc = "decide" /\ Leave(i, K(i), row, status)
        /\ worker' = [worker EXCEPT ![i] = NoWork]
        /\ UNCHANGED <<state, ledger, imported, staging, child, request>>
    BY <1>1 DEF LeaveEmpty, At
  <2>2. Counted(i) \in ChunkRows /\ K(i) \in Chunks
    BY <2>1, CountedType
  <2>3. status \in RunStatuses /\ row \in ChunkRows
    BY <2>2 DEF ChunkRows, RunStatuses, Incomplete
  <2> HIDE DEF row, status
  <2>4. RowTypes'
    <3>1. run' \in [Runs -> RunStatuses] /\ chunk' \in [Runs -> [Chunks -> ChunkRows]]
      BY <2>1, <2>2, <2>3, LeaveKeeps
    <3> QED BY <3>1, <2>1, <1>t DEF RowTypes
  <2> QED BY <2>1, <2>4, NoWorkGoes, WorkKeeps DEF Owning
<1>2. CASE LeaveUnclean(i)
  <2>1. worker[i].pc = "decide" /\ StopForReview(i) /\ staging' = staging /\ child' = child
    BY <1>2 DEF LeaveUnclean, At
  <2> QED BY <2>1, <1>t, StopKeeps DEF Owning, RowTypes
<1>3. CASE CleanupFails(i)
  <2>1. PICK gone \in SUBSET worker[i].files : staging' = staging \ gone
    BY <1>3 DEF CleanupFails
  <2>2. worker[i].pc = "clean" /\ child' = Nobody /\ StopForReview(i)
    BY <1>3 DEF CleanupFails, At
  <2>3. staging' \in SUBSET Candidates /\ child = i
    BY <1>t, <2>1, <2>2 DEF RowTypes, Owning
  <2> QED BY <2>2, <2>3, StopKeeps
<1> QED BY <1>1, <1>2, <1>3

\* The cleanup starts, with the counts written, and removes the files.
LEMMA CleanupKeeps ==
  ASSUME ImportInv, NEW i \in Runs, StartCleanup(i) \/ RemoveStaged(i)
  PROVE  ImportInv'
<1>t. /\ worker[i] \in Works /\ RowTypes /\ (child = i <=> worker[i].pc \in Owning)
  BY WorkerFacts
<1>1. CASE StartCleanup(i)
  <2>1. /\ worker[i].pc = "decide" /\ child = Nobody /\ child' = i
        /\ chunk' = [chunk EXCEPT ![i][K(i)] = Counted(i)]
        /\ Step(i, "clean")
        /\ UNCHANGED <<run, state, ledger, imported, staging, request>>
    BY <1>1 DEF StartCleanup, At
  <2>2. Counted(i) \in ChunkRows /\ K(i) \in Chunks
    BY <2>1, CountedType
  <2>3. [chunk[i] EXCEPT ![K(i)] = Counted(i)] \in [Chunks -> ChunkRows]
    BY <2>2, <1>t DEF RowTypes
  <2>4. RowTypes'
    BY <2>1, <2>2, <2>3, <1>t DEF RowTypes
  <2> QED BY <2>1, <2>4, StepKeeps DEF Owning
<1>2. CASE RemoveStaged(i)
  <2>1. worker[i].pc = "clean" /\ child' = Nobody /\ Step(i, "cleaned") /\ request' = request
        /\ staging' = {} /\ UNCHANGED <<run, chunk, state, ledger, imported>>
    BY <1>2 DEF RemoveStaged, At, rows
  <2>2. RowTypes' /\ child = i
    BY <2>1, <1>t DEF RowTypes, Owning
  <2> QED BY <2>1, <2>2, StepKeeps DEF Owning
<1> QED BY <1>1, <1>2

\* A chunk is completed, which may complete the run.
LEMMA CompleteKeeps ==
  ASSUME ImportInv, NEW i \in Runs, CompleteChunk(i)
  PROVE  ImportInv'
<1> DEFINE n == Cardinality(worker[i].files)
           row == [Counted(i) EXCEPT !.status = "completed", !.cleaned = n]
           end == Finalized(i, K(i), row)
           w == [NoWork EXCEPT !.pc = "loop", !.seen = end]
<1>1. worker[i].pc = "cleaned" /\ Leave(i, K(i), row, end) /\ worker' = [worker EXCEPT ![i] = w]
      /\ UNCHANGED <<state, ledger, imported, staging, child, request>>
  BY DEF CompleteChunk, At
<1>2. Counted(i) \in ChunkRows /\ K(i) \in Chunks /\ n \in Nat
  BY <1>1, CountedType
<1> HIDE DEF n
<1>3. row \in ChunkRows
  BY <1>2 DEF ChunkRows
<1> HIDE DEF row
<1>4. end \in RunStatuses
  BY <1>2, FinalizedType
<1> HIDE DEF end
<1>5. RowTypes'
  <2>1. run' \in [Runs -> RunStatuses] /\ chunk' \in [Runs -> [Chunks -> ChunkRows]]
    BY <1>1, <1>2, <1>3, <1>4, LeaveKeeps
  <2> QED BY <2>1, <1>1, WorkerFacts DEF RowTypes
<1>6. w \in Works /\ w.pc = "loop"
  BY <1>4 DEF NoWork, Works, Batches
<1> HIDE DEF w
<1>7. WorkerGoes(i, w)
  BY <1>1, <1>6 DEF WorkerGoes
<1> QED BY <1>1, <1>5, <1>6, <1>7, WorkKeeps DEF Owning

\* A step of a request: rows and staging keep their types, a worker is left alone.
LEMMA RequestKeeps ==
  ASSUME ImportInv, NEW q \in Requests, NEW p \in Pages, request' = [request EXCEPT ![q] = p],
         p.pc \in Reading => p.i \in Runs /\ p.view \in [Chunks -> ChunkRows],
         RowTypes', child' = child, worker' = worker
  PROVE  ImportInv'
<1>1. request \in [Requests -> Pages] /\ RequestsBound
  BY DEF ImportInv, ImportTypes
<1>2. request' \in [Requests -> Pages]
  BY <1>1
<1>3. RequestsBound'
  BY <1>1 DEF RequestsBound
<1>4. WorkersBound'
  BY DEF ImportInv, WorkersBound
<1> QED BY <1>2, <1>3, <1>4 DEF ImportInv, ImportTypes

\* What a request keeps of what it has read.
LEMMA AskKeeps ==
  ASSUME ImportInv, NEW q \in Requests, NEW i \in Runs \cup {Nobody},
         NEW pc \in {"recover", "resume", "launch", "start", "insert"},
         NEW found \in SUBSET Chunks, Ask(q, pc, i, found), pc \in Reading => i \in Runs,
         RowTypes', child' = child, worker' = worker
  PROVE  ImportInv'
<1> DEFINE view == IF i = Nobody THEN <<>> ELSE chunk[i]
           p == [pc |-> pc, i |-> i, found |-> found, view |-> view]
<1>1. chunk \in [Runs -> [Chunks -> ChunkRows]]
  BY DEF ImportInv, ImportTypes, RowTypes
<1>2. i \in Nat /\ Nobody \notin Runs
  BY ConstantFacts DEF Nobody
<1>3. view \in [Chunks -> ChunkRows] \cup {<<>>}
      /\ (i \in Runs => view \in [Chunks -> ChunkRows])
  BY <1>1, <1>2
<1>4. request' = [request EXCEPT ![q] = p]
  BY DEF Ask
<1> HIDE DEF view
<1>5. p \in Pages /\ p.pc = pc /\ p.i = i /\ p.view = view
  BY <1>2, <1>3 DEF Pages, Reading
<1> HIDE DEF p
<1> QED BY <1>3, <1>4, <1>5, RequestKeeps

\* A request that is over.
LEMMA ForgetKeeps ==
  ASSUME ImportInv, NEW q \in Requests, Forget(q), RowTypes', child' = child, worker' = worker
  PROVE  ImportInv'
BY IdleType, RequestKeeps DEF Forget

\* A request that goes on to launch run i.
LEMMA LaunchNextKeeps ==
  ASSUME ImportInv, NEW q \in Requests, NEW i \in Nat,
         request' = [request EXCEPT ![q] = [Idle EXCEPT !.pc = "launch", !.i = i]],
         RowTypes', child' = child, worker' = worker
  PROVE  ImportInv'
<1> DEFINE p == [Idle EXCEPT !.pc = "launch", !.i = i]
<1>1. p \in Pages /\ p.pc = "launch"
  BY DEF Idle, Pages
<1> HIDE DEF p
<1>2. p.pc \notin Reading
  BY <1>1 DEF Reading
<1>3. request' = [request EXCEPT ![q] = p]
  BY DEF p
<1> QED BY <1>1, <1>2, <1>3, RequestKeeps

\* What a step of a request needs of the types.
LEMMA PageFacts ==
  ASSUME ImportInv, NEW q \in Requests
  PROVE  /\ RowTypes /\ request[q] \in Pages
         /\ request[q].pc \in Reading =>
                request[q].i \in Runs /\ request[q].view \in [Chunks -> ChunkRows]
BY DEF ImportInv, ImportTypes, RequestsBound

\* A poll that finds an abandoned chunk, a dispatch and the check of a start only read.
LEMMA ReadKeeps ==
  ASSUME ImportInv, NEW q \in Requests, FindStale(q) \/ Choose(q) \/ CheckStart(q)
  PROVE  ImportInv'
<1>r. RowTypes' /\ child' = child /\ worker' = worker
  BY PageFacts DEF FindStale, Choose, CheckStart, rows, RowTypes
<1>n. Nobody \in Runs \cup {Nobody} /\ {} \in SUBSET Chunks
  OBVIOUS
<1>1. CASE FindStale(q)
  <2>1. LatestIncomplete \in Runs
    BY <1>1, LatestRunType DEF FindStale
  <2>2. RunningChunks(LatestIncomplete) \in SUBSET Chunks
    BY DEF RunningChunks
  <2>3. Ask(q, "recover", LatestIncomplete, RunningChunks(LatestIncomplete))
    BY <1>1 DEF FindStale
  <2> QED BY <1>r, <2>1, <2>2, <2>3, AskKeeps
<1>2. CASE Choose(q)
  <2>1. \/ LatestRun # Nobody /\ Ask(q, "resume", LatestRun, {})
        \/ LatestRun # Nobody /\ Ask(q, "launch", LatestRun, {})
        \/ Ask(q, "start", Nobody, {})
    BY <1>2 DEF Choose
  <2>2. CASE LatestRun # Nobody /\ Ask(q, "resume", LatestRun, {})
    <3>1. LatestRun \in Runs
      BY <2>2, LatestRunType
    <3> QED BY <1>r, <1>n, <2>2, <3>1, AskKeeps
  <2>3. CASE LatestRun # Nobody /\ Ask(q, "launch", LatestRun, {})
    <3>1. LatestRun \in Runs
      BY <2>3, LatestRunType
    <3> QED BY <1>r, <1>n, <2>3, <3>1, AskKeeps
  <2>4. CASE Ask(q, "start", Nobody, {})
    BY <1>r, <1>n, <2>4, AskKeeps DEF Reading
  <2> QED BY <2>1, <2>2, <2>3, <2>4
<1>3. CASE CheckStart(q)
  <2>1. Ask(q, "launch", LatestRun, {}) \/ Ask(q, "insert", Nobody, {}) \/ Forget(q)
    BY <1>3 DEF CheckStart
  <2>2. CASE Ask(q, "launch", LatestRun, {})
    <3>1. LatestRun \in Runs \cup {Nobody}
      BY LatestRunType
    <3> QED BY <1>r, <1>n, <2>2, <3>1, AskKeeps DEF Reading
  <2>3. CASE Ask(q, "insert", Nobody, {})
    BY <1>r, <1>n, <2>3, AskKeeps DEF Reading
  <2>4. CASE Forget(q)
    BY <1>r, <2>4, ForgetKeeps
  <2> QED BY <2>1, <2>2, <2>3, <2>4
<1> QED BY <1>1, <1>2, <1>3

\* Recover: the chunks that were found are written as the request has concluded.
LEMMA RecoverKeeps ==
  ASSUME ImportInv, NEW q \in Requests, Recover(q)
  PROVE  ImportInv'
<1> DEFINE i == request[q].i
           status(k) == IF Unclean(request[q].view[k]) THEN "stopped_needs_review"
                        ELSE "retryable_failed"
           row(k) == [chunk[i][k] EXCEPT !.status = status(k)]
           new == [k \in Chunks |-> IF k \notin request[q].found THEN chunk[i][k] ELSE row(k)]
<1>1. RowTypes /\ i \in Runs /\ chunk[i] \in [Chunks -> ChunkRows]
  BY PageFacts DEF Recover, AtRequest, Reading, RowTypes
<1>2. chunk' = [chunk EXCEPT ![i] = new]
  BY DEF Recover
<1>3. ASSUME NEW k \in Chunks PROVE row(k) \in ChunkRows
  <2>1. chunk[i][k] \in ChunkRows
    BY <1>1
  <2>2. status(k) \in {"stopped_needs_review", "retryable_failed"}
    OBVIOUS
  <2> HIDE DEF status
  <2> QED BY <2>1, <2>2 DEF ChunkRows
<1> HIDE DEF row
<1>4. new \in [Chunks -> ChunkRows]
  BY <1>1, <1>3
<1> HIDE DEF new
<1>5. run' \in [Runs -> RunStatuses]
  BY <1>1 DEF Recover, RowTypes, RunStatuses, Incomplete
<1>6. RowTypes'
  BY <1>1, <1>2, <1>4, <1>5 DEF Recover, RowTypes
<1>7. child' = child /\ worker' = worker /\ request' = [request EXCEPT ![q] = Idle]
  BY DEF Recover
<1> QED BY <1>6, <1>7, IdleType, RequestKeeps

\* Resume: the run is set running, whatever it has become.
LEMMA ResumeKeeps ==
  ASSUME ImportInv, NEW q \in Requests, Resume(q)
  PROVE  ImportInv'
<1> DEFINE i == request[q].i
           n(k) == Cardinality(request[q].view[k].files)
           row(k) == [chunk[i][k] EXCEPT !.cleaned = n(k)]
           new == [k \in Chunks |-> IF k \in request[q].found THEN row(k) ELSE chunk[i][k]]
<1>1. RowTypes /\ i \in Runs /\ chunk[i] \in [Chunks -> ChunkRows]
      /\ request[q].view \in [Chunks -> ChunkRows] /\ i \in Nat
  BY PageFacts, ConstantFacts DEF Resume, AtRequest, Reading, RowTypes
<1>2. chunk' = [chunk EXCEPT ![i] = new]
  BY DEF Resume
<1>3. ASSUME NEW k \in Chunks PROVE row(k) \in ChunkRows
  <2>1. chunk[i][k] \in ChunkRows /\ request[q].view[k] \in ChunkRows
    BY <1>1
  <2>2. n(k) \in Nat
    BY <2>1, ConstantFacts DEF ChunkRows
  <2> HIDE DEF n
  <2> QED BY <2>1, <2>2 DEF ChunkRows
<1> HIDE DEF row
<1>4. new \in [Chunks -> ChunkRows]
  BY <1>1, <1>3
<1> HIDE DEF new
<1>5. run' \in [Runs -> RunStatuses]
  BY <1>1 DEF Resume, RowTypes, RunStatuses, Incomplete
<1>6. RowTypes'
  BY <1>1, <1>2, <1>4, <1>5 DEF Resume, RowTypes
<1>7. child' = child /\ worker' = worker
      /\ request' = [request EXCEPT ![q] = [Idle EXCEPT !.pc = "launch", !.i = i]]
  BY DEF Resume
<1> HIDE DEF i
<1> QED BY <1>1, <1>6, <1>7, LaunchNextKeeps

\* A resume that removes files or is refused, and the insert of a run.
LEMMA DiscardKeeps ==
  ASSUME ImportInv, NEW q \in Requests, Discard(q) \/ RefuseResume(q) \/ InsertRun(q)
  PROVE  ImportInv'
<1>t. RowTypes /\ request[q] \in Pages /\ request \in [Requests -> Pages]
  BY PageFacts DEF ImportInv, ImportTypes
<1>r. child' = child /\ worker' = worker
  BY DEF Discard, RefuseResume, InsertRun
<1>1. CASE Discard(q)
  <2>1. PICK k \in LeftFiles(q) :
            request' = [request EXCEPT ![q].pc = "discarded", ![q].found = {k}]
    BY <1>1 DEF Discard
  <2> DEFINE p == [request[q] EXCEPT !.pc = "discarded", !.found = {k}]
  <2>2. k \in Chunks
    BY DEF LeftFiles
  <2>3. request' = [request EXCEPT ![q] = p]
    BY <2>1, <1>t
  <2>4. p \in Pages /\ p.i = request[q].i /\ p.view = request[q].view
    BY <2>2, <1>t DEF Pages, Reading
  <2> HIDE DEF p
  <2>5. request[q].i \in Runs /\ request[q].view \in [Chunks -> ChunkRows]
    BY <1>1, PageFacts DEF Discard, AtRequest, Reading
  <2>6. RowTypes'
    BY <1>1, <1>t DEF Discard, rows, RowTypes
  <2> QED BY <1>r, <2>3, <2>4, <2>5, <2>6, RequestKeeps
<1>2. CASE RefuseResume(q)
  <2>1. RowTypes' /\ Forget(q)
    BY <1>2, <1>t DEF RefuseResume, rows, RowTypes
  <2> QED BY <1>r, <2>1, ForgetKeeps
<1>3. CASE InsertRun(q)
  <2> DEFINE i == LatestRun + 1
  <2>1. /\ i \in Runs /\ run' = [run EXCEPT ![i] = "created"]
        /\ request' = [request EXCEPT ![q] = [Idle EXCEPT !.pc = "launch", !.i = i]]
        /\ UNCHANGED <<chunk, state, ledger, imported, staging>>
    BY <1>3 DEF InsertRun
  <2>2. i \in Nat
    BY <2>1, ConstantFacts
  <2> HIDE DEF i
  <2>3. RowTypes'
    BY <1>t, <2>1 DEF RowTypes, RunStatuses, Incomplete
  <2> QED BY <1>r, <2>1, <2>2, <2>3, LaunchNextKeeps
<1> QED BY <1>1, <1>2, <1>3

\* A launched worker begins with nothing in hand; a run that has one gets no second.
LEMMA LaunchKeeps ==
  ASSUME ImportInv, NEW q \in Requests, Launch(q)
  PROVE  ImportInv'
<1> DEFINE i == request[q].i
           w == [NoWork EXCEPT !.pc = "loop"]
<1>1. RowTypes' /\ child' = child /\ request' = [request EXCEPT ![q] = Idle]
  BY PageFacts DEF Launch, Forget, rows, RowTypes
<1>2. w \in Works /\ w.pc = "loop"
  BY NoWorkType DEF Works
<1>3. CASE worker' = worker
  BY <1>1, <1>3, IdleType, RequestKeeps
<1>4. CASE i \in Runs /\ worker[i].pc = "off" /\ worker' = [worker EXCEPT ![i] = w]
  <2> HIDE DEF w, i
  <2>1. WorkerGoes(i, w)
    BY <1>2, <1>4 DEF WorkerGoes
  <2>2. worker' \in [Runs -> Works] /\ WorkersBound'
    BY <1>1, <1>2, <1>4, <2>1, WorkersStep DEF ImportInv, ImportTypes, Owning
  <2>3. request' \in [Requests -> Pages] /\ RequestsBound'
    BY <1>1, IdleType DEF ImportInv, ImportTypes, RequestsBound
  <2> QED BY <1>1, <2>2, <2>3 DEF ImportInv, ImportTypes
<1>5. CASE i \notin Runs
  <2>1. worker \in [Runs -> Works]
    BY DEF ImportInv, ImportTypes
  <2>2. worker' = worker
    BY <1>5, <2>1 DEF Launch
  <2> QED BY <1>1, <2>2, IdleType, RequestKeeps
<1>6. worker' = worker \/ (worker[i].pc = "off" /\ worker' = [worker EXCEPT ![i] = w])
  BY DEF Launch, At
<1> QED BY <1>3, <1>4, <1>5, <1>6

\* Restarts, operations of something else and the operator.
LEMMA OthersKeep ==
  ASSUME ImportInv, Restart \/ OtherStarts \/ OtherEnds \/ ClearStaging
  PROVE  ImportInv'
<1>t. RowTypes /\ worker \in [Runs -> Works] /\ request \in [Requests -> Pages]
      /\ Other \notin Runs /\ Nobody \notin Runs
  BY ConstantFacts DEF ImportInv, ImportTypes
<1>1. RowTypes'
  BY <1>t DEF Restart, OtherStarts, OtherEnds, ClearStaging, rows, RowTypes
<1>2. CASE Restart
  <2>1. worker' \in [Runs -> Works] /\ request' \in [Requests -> Pages] /\ child' = Nobody
    BY <1>2, NoWorkType, IdleType DEF Restart
  <2>2. WorkersBound'
    BY <1>2, <1>t, NoWorkType DEF Restart, WorkersBound, Owning
  <2>3. RequestsBound'
    BY <1>2, IdleType DEF Restart, RequestsBound
  <2> QED BY <1>1, <2>1, <2>2, <2>3 DEF ImportInv, ImportTypes
<1>3. CASE OtherStarts \/ OtherEnds \/ ClearStaging
  <2>1. worker' = worker /\ request' = request
    BY <1>3 DEF OtherStarts, OtherEnds, ClearStaging
  <2>2. /\ child' \in Runs \cup {Nobody, Other}
        /\ \A i \in Runs : child' = i <=> child = i
    BY <1>3, <1>t DEF OtherStarts, OtherEnds, ClearStaging, ImportInv, ImportTypes
  <2>3. WorkersBound'
    BY <2>1, <2>2 DEF ImportInv, WorkersBound
  <2>4. RequestsBound'
    BY <2>1 DEF ImportInv, RequestsBound
  <2> QED BY <1>1, <1>t, <2>1, <2>2, <2>3, <2>4 DEF ImportInv, ImportTypes
<1> QED BY <1>2, <1>3

\* A thread fails while it owns no operation.
LEMMA FailsKeep ==
  ASSUME ImportInv, NEW i \in Runs, WorkerFails(i)
  PROVE  ImportInv'
<1>1. RowTypes' /\ child' = child /\ request' = request
      /\ worker' = [worker EXCEPT ![i] = NoWork] /\ worker[i].pc \notin Owning
  BY WorkerFacts DEF WorkerFails, rows, RowTypes
<1> QED BY <1>1, NoWorkGoes, WorkKeeps

\* The initial state.
LEMMA ImportInit == Init => ImportInv
<1> SUFFICES ASSUME Init PROVE ImportInv
  OBVIOUS
<1>1. NewChunk \in ChunkRows
  BY DEF NewChunk, ChunkRows, Batches
<1>2. RowTypes
  BY <1>1 DEF Init, RowTypes, RunStatuses, CanBeTried
<1>3. worker \in [Runs -> Works] /\ request \in [Requests -> Pages] /\ child = Nobody
  BY NoWorkType, IdleType DEF Init
<1>4. WorkersBound
  BY NoWorkType, ConstantFacts DEF Init, WorkersBound, Owning
<1>5. RequestsBound
  BY IdleType DEF Init, RequestsBound
<1> QED BY <1>2, <1>3, <1>4, <1>5 DEF ImportInv, ImportTypes

\* A step that changes nothing.
LEMMA ImportStutters == ImportInv /\ UNCHANGED vars => ImportInv'
BY DEF ImportInv, ImportTypes, RowTypes, WorkersBound, RequestsBound, vars

\* Every step keeps it, one action at a time.
LEMMA ImportStep ==
  ASSUME ImportInv, [Next]_vars
  PROVE  ImportInv'
<1>1. CASE UNCHANGED vars
  BY <1>1, ImportStutters
<1>2. ASSUME NEW i \in Runs, Work(i) PROVE ImportInv'
  BY <1>2, ClaimKeeps, BeginKeeps, SkipKeeps, ListKeeps, AcquireKeeps, IntakeKeeps,
     RecordKeeps, LeaveEndsKeep, CleanupKeeps, CompleteKeeps DEF Work
<1>3. ASSUME NEW q \in Requests, FindStale(q) \/ Choose(q) \/ Ends(q) PROVE ImportInv'
  BY <1>3, ReadKeeps, RecoverKeeps, ResumeKeeps, DiscardKeeps, LaunchKeeps DEF Ends
<1> QED BY <1>1, <1>2, <1>3, FailsKeep, OthersKeep DEF Next

\* At every moment the rows, workers and requests are what their types say, and the active
\* operation belongs to a run exactly while its worker downloads, takes in or cleans: for any
\* number of runs, whatever two requests have inserted and resumed side by side.
THEOREM ImportInvariant == Spec => []ImportInv
BY ImportInit, ImportStep, PTL DEF Spec

\* The type invariant, with its last conjunct: a run without a thread owns no operation.
THEOREM ImportTypeCorrect == Spec => []ImportTypeOK
<1>1. ImportInv => ImportTypeOK
  <2> SUFFICES ASSUME ImportInv PROVE ImportTypeOK
    OBVIOUS
  <2>1. ASSUME NEW i \in Runs, NEW k \in Chunks PROVE chunk[i][k] \in ChunkRows
    BY DEF ImportInv, ImportTypes, RowTypes
  <2>2. ASSUME NEW i \in Runs, worker[i].pc = "off" PROVE child # i
    BY <2>2, WorkerFacts DEF Owning
  <2> QED BY <2>1, <2>2 DEF ImportInv, ImportTypes, RowTypes, ImportTypeOK, ChunkRows, RunStatuses
<1> QED BY <1>1, ImportInvariant, PTL

-------------------------------------------------------------------------------
(***************************************************************************)
(* The counts of the chunks.  A run is completed when their sum reaches    *)
(* the size of the set; the sum is MapThenSumSet, which picks the chunks   *)
(* one by one.  That it exists, and what bounds it, is shown by a least    *)
(* counterexample, as an induction over the sets of chunks.                *)
(***************************************************************************)

\* The element that a sum takes from a set first.
Picked(s) == CHOOSE x \in s : TRUE

\* The sums of the imported counts over the subsets of S, as MapThenSumSet computes them.
CountsOf(rowsOf, S) == CHOOSE sums :
  sums = [s \in SUBSET S |-> IF s = {} THEN 0
                             ELSE rowsOf[Picked(s)].imported + sums[s \ {Picked(s)}]]

\* A set without its picked element is smaller.
LEMMA PickedRest ==
  ASSUME NEW S, IsFiniteSet(S), NEW s \in SUBSET S, s # {}
  PROVE  /\ Picked(s) \in s /\ s \ {Picked(s)} \in SUBSET S
         /\ Cardinality(s) \in Nat \ {0} /\ Cardinality(s \ {Picked(s)}) = Cardinality(s) - 1
<1>1. Picked(s) \in s
  BY DEF Picked
<1>2. IsFiniteSet(s)
  BY FS_Subset
<1>3. Cardinality(s) \in Nat /\ Cardinality(s \ {Picked(s)}) = Cardinality(s) - 1
  BY <1>1, <1>2, FS_CardinalityType, FS_RemoveElement
<1>4. Cardinality(s) # 0
  BY <1>2, FS_EmptySet
<1> QED BY <1>1, <1>3, <1>4

\* The sums exist: those of the sets of up to n elements extend those of up to n - 1.
LEMMA SumsAt ==
  ASSUME NEW rowsOf, NEW S, IsFiniteSet(S)
  PROVE  /\ CountsOf(rowsOf, S)[{}] = 0
         /\ \A s \in SUBSET S : s # {} =>
              CountsOf(rowsOf, S)[s] = rowsOf[Picked(s)].imported + CountsOf(rowsOf, S)[s \ {Picked(s)}]
<1> DEFINE UpTo(n) == {s \in SUBSET S : Cardinality(s) <= n}
           Next_(f, n) == [s \in UpTo(n) |-> IF s = {} THEN 0 ELSE rowsOf[Picked(s)].imported + f[s \ {Picked(s)}]]
           Missing == {n \in Nat : ~\E f : f = Next_(f, n)}
<1>1. Missing = {}
  <2> SUFFICES ASSUME Missing # {} PROVE FALSE
    OBVIOUS
  <2>1. PICK n \in Missing : \A m \in Missing : n <= m
    <3>1. Missing \subseteq Nat
      OBVIOUS
    <3> HIDE DEF Missing
    <3> QED BY <3>1, LeastExists
  <2>2. CASE n = 0
    <3> DEFINE f == [s \in UpTo(0) |-> 0]
    <3>1. \A s \in UpTo(0) : s = {}
      <4> SUFFICES ASSUME NEW s \in SUBSET S, Cardinality(s) <= 0, s # {} PROVE FALSE
        OBVIOUS
      <4>1. Cardinality(s) \in Nat \ {0}
        BY PickedRest
      <4> QED BY <4>1
    <3>2. f = Next_(f, 0)
      BY <3>1
    <3> QED BY <2>1, <2>2, <3>2
  <2>3. CASE n # 0
    <3>1. n - 1 \in Nat /\ n - 1 \notin Missing
      <4>1. n \in Nat
        BY <2>1
      <4> HIDE DEF Missing
      <4> QED BY <2>1, <2>3, <4>1
    <3>2. PICK f : f = Next_(f, n - 1)
      BY <3>1
    <3> DEFINE g == Next_(f, n)
    <3>3. ASSUME NEW s \in UpTo(n), s # {}
          PROVE  s \ {Picked(s)} \in UpTo(n - 1) /\ s \ {Picked(s)} \in UpTo(n)
      BY <3>1, <3>3, PickedRest
    <3>4. ASSUME NEW s \in UpTo(n - 1) PROVE s \in UpTo(n) /\ g[s] = f[s]
      <4>1. s \in UpTo(n)
        BY <3>1, <3>4, FS_Subset, FS_CardinalityType
      <4>2. f[s] = IF s = {} THEN 0 ELSE rowsOf[Picked(s)].imported + f[s \ {Picked(s)}]
        BY <3>2, <3>4
      <4>3. g[s] = IF s = {} THEN 0 ELSE rowsOf[Picked(s)].imported + f[s \ {Picked(s)}]
        BY <4>1
      <4> QED BY <4>1, <4>2, <4>3
    <3>5. \A s \in UpTo(n) : g[s] = IF s = {} THEN 0 ELSE rowsOf[Picked(s)].imported + g[s \ {Picked(s)}]
      BY <3>3, <3>4
    <3>6. g = Next_(g, n)
      <4>1. g = [s \in UpTo(n) |-> g[s]]
        OBVIOUS
      <4> HIDE DEF g, UpTo
      <4> QED BY <3>5, <4>1
    <3> QED BY <2>1, <3>6
  <2> QED BY <2>2, <2>3
<1>2. Cardinality(S) \in Nat /\ UpTo(Cardinality(S)) = SUBSET S
  BY FS_CardinalityType, FS_Subset
<1>3. \E f : f = [s \in SUBSET S |-> IF s = {} THEN 0 ELSE rowsOf[Picked(s)].imported + f[s \ {Picked(s)}]]
  <2>1. \E f : f = Next_(f, Cardinality(S))
    <3> HIDE DEF Next_
    <3> QED BY <1>1, <1>2
  <2> QED BY <1>2, <2>1
<1> DEFINE F == CountsOf(rowsOf, S)
<1>4. F = [s \in SUBSET S |-> IF s = {} THEN 0 ELSE rowsOf[Picked(s)].imported + F[s \ {Picked(s)}]]
  BY <1>3 DEF CountsOf
<1> HIDE DEF F
<1>5. {} \in SUBSET S
  OBVIOUS
<1>6. F[{}] = 0
  BY <1>4, <1>5
<1>7. ASSUME NEW s \in SUBSET S, s # {} PROVE F[s] = rowsOf[Picked(s)].imported + F[s \ {Picked(s)}]
  BY <1>4, <1>7
<1> QED BY <1>6, <1>7 DEF F

\* What holds of {} and passes from a set without its picked element to the set holds of
\* every subset.
LEMMA SubsetInduction ==
  ASSUME NEW S, IsFiniteSet(S), NEW P, {} \in P,
         \A s \in SUBSET S : s # {} /\ s \ {Picked(s)} \in P => s \in P
  PROVE  SUBSET S \subseteq P
<1> SUFFICES ASSUME NEW s0 \in SUBSET S, s0 \notin P PROVE FALSE
  OBVIOUS
<1> DEFINE T == {n \in Nat : \E s \in SUBSET S : s \notin P /\ Cardinality(s) = n}
<1>1. T # {} /\ T \subseteq Nat
  BY FS_Subset, FS_CardinalityType
<1>2. PICK n \in T : \A m \in T : n <= m
  <2> HIDE DEF T
  <2> QED BY <1>1, LeastExists
<1>3. PICK s \in SUBSET S : s \notin P /\ Cardinality(s) = n
  BY <1>2
<1>4. /\ s # {} /\ s \ {Picked(s)} \in SUBSET S
      /\ Cardinality(s) \in Nat \ {0} /\ Cardinality(s \ {Picked(s)}) = Cardinality(s) - 1
  BY <1>3, PickedRest
<1>5. s \ {Picked(s)} \notin P
  BY <1>3, <1>4
<1>6. n \in Nat /\ n - 1 \in Nat /\ n - 1 \in T
  BY <1>3, <1>4, <1>5
<1>7. n <= n - 1
  <2> HIDE DEF T
  <2> QED BY <1>2, <1>6
<1> QED BY <1>6, <1>7

\* Counts that no chunk exceeds add up to no more than what is imported of the chunks, as the
\* chunks share no candidate.
LEMMA CountsBounded ==
  ASSUME RowTypes, NEW rowsOf \in [Chunks -> ChunkRows], CountsOK(rowsOf)
  PROVE  CountsOf(rowsOf, Chunks)[Chunks] \in Nat
         /\ CountsOf(rowsOf, Chunks)[Chunks] <= Cardinality(imported)
<1> DEFINE Sum(s) == CountsOf(rowsOf, Chunks)[s]
           Part(s) == imported \cap UNION {ChunkOf[n] : n \in s}
           P == {s \in SUBSET Chunks : Sum(s) \in Nat /\ Sum(s) <= Cardinality(Part(s))}
<1>c. IsFiniteSet(Chunks) /\ imported \in SUBSET Candidates
      /\ \A S \in SUBSET Candidates : IsFiniteSet(S) /\ Cardinality(S) \in Nat
  BY ConstantFacts DEF RowTypes
<1>1. {} \in P
  <2>1. Sum({}) = 0
    BY <1>c, SumsAt
  <2>2. Part({}) \in SUBSET Candidates
    BY <1>c
  <2>3. Cardinality(Part({})) \in Nat
    BY <1>c, <2>2
  <2> HIDE DEF Sum, Part
  <2> QED BY <2>1, <2>3
<1>2. ASSUME NEW s \in SUBSET Chunks, s # {}, s \ {Picked(s)} \in P
      PROVE  s \in P
  <2> DEFINE k == Picked(s)
             rest == s \ {k}
             mine == ChunkOf[k] \cap imported
             n == rowsOf[k].imported
  <2>1. k \in s /\ k \in Chunks /\ rest \in SUBSET Chunks
    BY <1>2, <1>c, PickedRest
  <2>2. Sum(s) = n + Sum(rest)
    BY <1>2, <1>c, SumsAt
  <2>3. n \in Nat /\ n <= Cardinality(mine)
    BY <2>1 DEF CountsOK, ChunkRows
  <2>4. Sum(rest) \in Nat /\ Sum(rest) <= Cardinality(Part(rest))
    BY <1>2
  <2>5. mine \in SUBSET Candidates /\ Part(rest) \in SUBSET Candidates
    BY <1>c
  <2>6. Part(s) = mine \cup Part(rest)
    <3>1. s = rest \cup {k}
      BY <2>1
    <3> HIDE DEF rest, k
    <3>2. UNION {ChunkOf[m] : m \in s} = ChunkOf[k] \cup UNION {ChunkOf[m] : m \in rest}
      BY <3>1
    <3> QED BY <3>2
  <2>7. mine \cap Part(rest) = {}
    <3>1. ASSUME NEW m \in rest PROVE ChunkOf[k] \cap ChunkOf[m] = {}
      BY <2>1, ChunksAssumption DEF Chunks
    <3> HIDE DEF rest, k
    <3> QED BY <3>1
  <2> HIDE DEF Sum, Part, mine, rest, k, n
  <2>8. Cardinality(Part(s)) = Cardinality(mine) + Cardinality(Part(rest))
    <3>1. IsFiniteSet(mine) /\ IsFiniteSet(Part(rest))
          /\ Cardinality(mine) \in Nat /\ Cardinality(Part(rest)) \in Nat
      BY <1>c, <2>5
    <3>2. Cardinality(mine \cap Part(rest)) = 0
      BY <2>7, FS_EmptySet
    <3>3. Cardinality(mine \cup Part(rest)) = Cardinality(mine) + Cardinality(Part(rest))
               - Cardinality(mine \cap Part(rest))
      BY <3>1, FS_Union
    <3> QED BY <2>6, <3>1, <3>2, <3>3
  <2>9. Cardinality(mine) \in Nat /\ Cardinality(Part(rest)) \in Nat
    BY <1>c, <2>5
  <2> QED BY <1>2, <2>2, <2>3, <2>4, <2>8, <2>9
<1>3. SUBSET Chunks \subseteq P
  <2> HIDE DEF P
  <2> QED BY <1>1, <1>2, <1>c, SubsetInduction
<1>4. Chunks \in P
  <2> HIDE DEF P
  <2> QED BY <1>3
<1>5. Sum(Chunks) \in Nat /\ Sum(Chunks) <= Cardinality(Part(Chunks))
  BY <1>4
<1>6. Part(Chunks) \in SUBSET imported /\ imported \in SUBSET Candidates
  BY <1>c
<1> HIDE DEF Part
<1>7. Cardinality(Part(Chunks)) <= Cardinality(imported)
      /\ Cardinality(Part(Chunks)) \in Nat /\ Cardinality(imported) \in Nat
  BY <1>c, <1>6, FS_Subset
<1> QED BY <1>5, <1>7

\* Counts that reach the size of the set say that everything is imported.
LEMMA CountsComplete ==
  ASSUME RowTypes, NEW rowsOf \in [Chunks -> ChunkRows], CountsOK(rowsOf),
         MapThenSumSet(LAMBDA n : rowsOf[n].imported, Chunks) >= Cardinality(Candidates)
  PROVE  imported = Candidates
<1> DEFINE sum == CountsOf(rowsOf, Chunks)[Chunks]
<1>1. sum \in Nat /\ sum <= Cardinality(imported)
  BY CountsBounded
<1>2. sum >= Cardinality(Candidates)
  BY DEF MapThenSumSet, MapThenFoldSet, CountsOf, Picked
<1> HIDE DEF sum
<1>3. IsFiniteSet(Candidates) /\ imported \in SUBSET Candidates
      /\ Cardinality(Candidates) \in Nat /\ Cardinality(imported) \in Nat
  BY ConstantFacts DEF RowTypes
<1>4. Cardinality(imported) <= Cardinality(Candidates)
  BY <1>3, FS_Subset
<1>5. Cardinality(imported) = Cardinality(Candidates)
  BY <1>1, <1>2, <1>3, <1>4
<1> QED BY <1>3, <1>5, FS_Subset

-------------------------------------------------------------------------------
(***************************************************************************)
(* A prepared set with one import run.  Two dispatches can insert two      *)
(* (OneImportRun is not kept), and two workers of one set would share its  *)
(* staging folder and ledger; what follows holds as long as they have not. *)
(***************************************************************************)

\* A run that was created is never forgotten.
LEMMA CreatedGrows ==
  ASSUME ImportInv, CreatedBound, [Next]_vars
  PROVE  Created \subseteq Created'
<1>t. run \in [Runs -> RunStatuses]
  BY DEF ImportInv, ImportTypes, RowTypes
<1>1. ASSUME run' = run PROVE Created \subseteq Created'
  BY <1>1 DEF Created
<1>2. ASSUME NEW i, NEW status, status # "none", run' = [run EXCEPT ![i] = status]
      PROVE  Created \subseteq Created'
  BY <1>2, <1>t DEF Created
<1>3. ASSUME NEW i \in Runs, Work(i) PROVE Created \subseteq Created'
  <2>1. run[i] # "none" /\ worker[i].pc # "off"
    BY <1>3 DEF CreatedBound, Work, Claim, EndWorker, LoadCandidates, SkipChunk, List, Attempt,
       TakeLease, Download, EndDownload, StartIntake, RefuseIntake, EndIntake, RecordResult,
       MarkCandidates, LeaveEmpty, LeaveUnclean, StartCleanup, RemoveStaged, CleanupFails,
       CompleteChunk, At
  <2>2. CASE Claim(i)
    BY <1>2, <2>2 DEF Claim
  <2>3. CASE SkipChunk(i) \/ CompleteChunk(i)
    <3>1. PICK row : Leave(i, K(i), row, Finalized(i, K(i), row)) /\ worker[i].pc \in {"load", "cleaned"}
      BY <2>3 DEF SkipChunk, CompleteChunk, At
    <3>2. K(i) \in Chunks
      BY <3>1, WorkerFacts DEF K
    <3>3. Finalized(i, K(i), row) # "none"
      BY <2>1, <3>2, FinalizedType
    <3> QED BY <1>2, <3>1, <3>3 DEF Leave
  <2>4. CASE LeaveEmpty(i)
    <3>1. \E row : \E status \in {"resume_available", "stopped_needs_review"} : Leave(i, K(i), row, status)
      BY <2>4 DEF LeaveEmpty
    <3> QED BY <1>2, <3>1 DEF Leave
  <2>5. CASE LeaveUnclean(i) \/ CleanupFails(i)
    BY <1>2, <2>5 DEF LeaveUnclean, CleanupFails, StopForReview, Leave
  <2>6. CASE EndWorker(i) \/ LoadCandidates(i) \/ List(i) \/ Attempt(i) \/ TakeLease(i)
             \/ Download(i) \/ EndDownload(i) \/ StartIntake(i) \/ RefuseIntake(i) \/ EndIntake(i)
             \/ RecordResult(i) \/ MarkCandidates(i) \/ StartCleanup(i) \/ RemoveStaged(i)
    BY <1>1, <2>6 DEF EndWorker, LoadCandidates, List, Attempt, TakeLease, Download, EndDownload,
       StartIntake, RefuseIntake, EndIntake, RecordResult, MarkCandidates, StartCleanup,
       RemoveStaged, rows
  <2> QED BY <1>3, <2>2, <2>3, <2>4, <2>5, <2>6 DEF Work
<1>4. ASSUME NEW q \in Requests, FindStale(q) \/ Choose(q) \/ Ends(q) PROVE Created \subseteq Created'
  <2>1. CASE Recover(q)
    <3>1. \E status \in {"stopped_needs_review", "resume_available"} :
              run' = [run EXCEPT ![request[q].i] = status]
      BY <2>1 DEF Recover
    <3> QED BY <1>2, <3>1
  <2>2. CASE Resume(q) \/ InsertRun(q)
    BY <1>2, <2>2 DEF Resume, InsertRun
  <2>3. CASE FindStale(q) \/ Choose(q) \/ Discard(q) \/ RefuseResume(q) \/ CheckStart(q) \/ Launch(q)
    BY <1>1, <2>3 DEF FindStale, Choose, Discard, RefuseResume, CheckStart, Launch, rows
  <2> QED BY <1>4, <2>1, <2>2, <2>3 DEF Ends
<1>5. CASE Restart \/ OtherStarts \/ OtherEnds \/ ClearStaging \/ UNCHANGED vars
           \/ \E i \in Runs : WorkerFails(i)
  BY <1>1, <1>5 DEF Restart, OtherStarts, OtherEnds, ClearStaging, vars, WorkerFails, rows
<1> QED BY <1>3, <1>4, <1>5 DEF Next

\* The worker of a run begins only when a request launches it, and no other worker moves it.
LEMMA CreatedWorkers ==
  ASSUME ImportInv, CreatedBound, [Next]_vars, NEW i \in Runs, run'[i] = "none"
  PROVE  worker'[i].pc = "off"
<1>1. run[i] = "none" /\ worker[i].pc = "off"
  BY CreatedGrows DEF Created, CreatedBound
<1>t. worker \in [Runs -> Works] /\ Nobody \notin Runs
  BY ConstantFacts DEF ImportInv, ImportTypes
<1>2. ASSUME NEW j \in Runs, Work(j) \/ WorkerFails(j) PROVE worker'[i] = worker[i]
  <2>1. j # i
    BY <1>1, <1>2 DEF WorkerFails, Work, Claim, EndWorker, LoadCandidates, SkipChunk, List,
       Attempt, TakeLease, Download, EndDownload, StartIntake, RefuseIntake, EndIntake,
       RecordResult, MarkCandidates, LeaveEmpty, LeaveUnclean, StartCleanup, RemoveStaged,
       CleanupFails, CompleteChunk, At
  <2>2. worker' = [worker EXCEPT ![j] = worker'[j]]
    <3>1. \A k \in Runs : k # j => worker'[k] = worker[k]
      BY <1>t, <1>2 DEF WorkerFails, Work, Claim, EndWorker, LoadCandidates, SkipChunk, List,
         Attempt, TakeLease, Download, EndDownload, StartIntake, RefuseIntake, EndIntake,
         RecordResult, MarkCandidates, LeaveEmpty, LeaveUnclean, StartCleanup, RemoveStaged,
         CleanupFails, CompleteChunk, StopForReview, Step
    <3>2. worker' \in [Runs -> Works]
      BY ImportStep DEF ImportInv, ImportTypes
    <3> QED BY <1>t, <3>1, <3>2
  <2> QED BY <1>t, <2>1, <2>2
<1>3. ASSUME NEW q \in Requests, FindStale(q) \/ Choose(q) \/ Ends(q) PROVE worker'[i] = worker[i]
  <2>1. CASE Launch(q)
    <3>1. request[q].i \in Created \cup {Nobody}
      BY <2>1 DEF Launch, AtRequest, CreatedBound
    <3>2. request[q].i # i
      BY <1>1, <1>t, <3>1 DEF Created
    <3> QED BY <1>t, <2>1, <3>2 DEF Launch
  <2>2. CASE ~Launch(q)
    BY <1>3, <2>2 DEF FindStale, Choose, Ends, Recover, Discard, RefuseResume, Resume, CheckStart,
       InsertRun
  <2> QED BY <2>1, <2>2
<1>4. CASE Restart
  BY <1>4, NoWorkType DEF Restart
<1>5. CASE OtherStarts \/ OtherEnds \/ ClearStaging \/ UNCHANGED vars
  BY <1>1, <1>5 DEF OtherStarts, OtherEnds, ClearStaging, vars
<1> QED BY <1>1, <1>2, <1>3, <1>4, <1>5 DEF Next

\* A request acts on the latest run or on one it has inserted.
LEMMA CreatedRequests ==
  ASSUME ImportInv, CreatedBound, [Next]_vars, NEW q \in Requests,
         request'[q].pc \in Reading \cup {"launch"}
  PROVE  request'[q].i \in Created' \cup {Nobody}
<1>t. request \in [Requests -> Pages] /\ run \in [Runs -> RunStatuses] /\ Nobody \notin Runs
  BY ConstantFacts DEF ImportInv, ImportTypes, RowTypes
<1>g. Created \subseteq Created'
  BY CreatedGrows
<1>1. ASSUME request'[q] = request[q] PROVE request'[q].i \in Created' \cup {Nobody}
  BY <1>1, <1>g DEF CreatedBound
<1>2. ASSUME NEW p \in Requests, FindStale(p) \/ Choose(p) \/ Ends(p)
      PROVE  request'[q].i \in Created' \cup {Nobody}
  <2>1. CASE p # q
    <3>1. request'[q] = request[q]
      BY <1>t, <1>2, <2>1 DEF FindStale, Choose, Ends, Recover, Discard, RefuseResume, Resume,
         CheckStart, InsertRun, Launch, Ask, Forget
    <3> QED BY <1>1, <3>1
  <2>2. CASE p = q
    <3>1. ASSUME NEW pc, NEW i \in Created \cup {Nobody}, NEW found, Ask(q, pc, i, found)
          PROVE  request'[q].i \in Created' \cup {Nobody}
      BY <1>g, <1>t, <3>1 DEF Ask
    <3>2. ASSUME NEW i, request' = [request EXCEPT ![q] = [Idle EXCEPT !.pc = "launch", !.i = i]]
          PROVE  request'[q].i = i
      BY <1>t, <3>2 DEF Idle
    <3>3. request' # [request EXCEPT ![q] = Idle]
      BY <1>t DEF Idle, Reading
    <3>4. CASE FindStale(q)
      BY <2>2, <3>1, <3>4, LatestCreated DEF FindStale
    <3>5. CASE Choose(q)
      BY <3>1, <3>5, LatestCreated DEF Choose
    <3>6. CASE CheckStart(q)
      BY <3>1, <3>3, <3>6, LatestCreated DEF CheckStart, Forget
    <3>7. CASE Discard(q)
      <4>1. PICK k : request' = [request EXCEPT ![q].pc = "discarded", ![q].found = {k}]
        BY <3>7 DEF Discard
      <4>2. request'[q].i = request[q].i
        BY <1>t, <4>1 DEF Pages
      <4>3. request[q].i \in Created \cup {Nobody}
        BY <3>7 DEF Discard, AtRequest, CreatedBound, Reading
      <4> QED BY <1>g, <4>2, <4>3
    <3>8. CASE Resume(q)
      <4>1. request[q].i \in Created \cup {Nobody}
        BY <3>8 DEF Resume, AtRequest, CreatedBound, Reading
      <4>2. request'[q].i = request[q].i
        BY <3>2, <3>8 DEF Resume
      <4> QED BY <1>g, <4>1, <4>2
    <3>9. CASE InsertRun(q)
      <4> DEFINE i == LatestRun + 1
      <4>1. request'[q].i = i /\ i \in Runs /\ run' = [run EXCEPT ![i] = "created"]
        BY <3>2, <3>9 DEF InsertRun
      <4> HIDE DEF i
      <4>2. run'[i] = "created"
        BY <1>t, <4>1
      <4> QED BY <4>1, <4>2 DEF Created
    <3>10. ~(Recover(q) \/ RefuseResume(q) \/ Launch(q))
      BY <3>3 DEF Recover, RefuseResume, Launch, Forget
    <3> QED BY <1>2, <2>2, <3>4, <3>5, <3>6, <3>7, <3>8, <3>9, <3>10 DEF Ends
  <2> QED BY <2>1, <2>2
<1>3. ASSUME NEW i \in Runs, Work(i) \/ WorkerFails(i) PROVE request' = request
  BY <1>3 DEF WorkerFails, Work, Claim, EndWorker, LoadCandidates, SkipChunk, List,
     Attempt, TakeLease, Download, EndDownload, StartIntake, RefuseIntake, EndIntake,
     RecordResult, MarkCandidates, LeaveEmpty, LeaveUnclean, StartCleanup, RemoveStaged,
     CleanupFails, CompleteChunk, StopForReview
<1>4. CASE Restart
  BY <1>4, IdleType DEF Restart, Idle, Nobody
<1>5. CASE OtherStarts \/ OtherEnds \/ ClearStaging \/ UNCHANGED vars
  BY <1>1, <1>5 DEF OtherStarts, OtherEnds, ClearStaging, vars
<1> QED BY <1>1, <1>2, <1>3, <1>4, <1>5 DEF Next

\* The facts about the only worker that its steps need.
LEMMA OneFacts ==
  ASSUME 1 \in Runs, ImportInv, OneInv
  PROVE  /\ 1 \in Runs /\ worker \in [Runs -> Works] /\ worker[1] \in Works /\ RowTypes
         /\ chunk[1] \in [Chunks -> ChunkRows]
         /\ worker[1].pc \notin {"off", "loop"} =>
                worker[1].k \in Chunks /\ chunk[1][worker[1].k] \in ChunkRows
         /\ WorkOK(worker[1])
BY WorkerFacts DEF RowTypes, OneInv

\* A step that leaves the rows and what is imported alone.
LEMMA OneFrame ==
  ASSUME OneInv, UNCHANGED <<run, chunk, imported>>, WorkOK(worker[1])'
  PROVE  OneInv'
BY DEF OneInv, CountsOK

\* A worker that is off has nothing in hand.
LEMMA NoWorkOK == WorkOK(NoWork) /\ WorkOK(NoWork)'
BY DEF NoWork, WorkOK, Before, Chosen, After

\* Up to the lease: what is chosen is selectable, so nothing imported.
LEMMA OneBegins ==
  ASSUME 1 \in Runs, ImportInv, OneInv,
         EndWorker(1) \/ LoadCandidates(1) \/ List(1) \/ Attempt(1) \/ TakeLease(1)
  PROVE  OneInv'
<1>t. 1 \in Runs /\ worker \in [Runs -> Works] /\ worker[1] \in Works /\ WorkOK(worker[1])
  BY OneFacts
<1>r. UNCHANGED <<run, chunk, imported>>
  BY DEF EndWorker, LoadCandidates, List, Attempt, TakeLease, rows
<1>1. CASE EndWorker(1)
  <2>1. worker'[1] = NoWork
    BY <1>1, <1>t DEF EndWorker
  <2> QED BY <1>r, <2>1, NoWorkOK, OneFrame
<1>2. CASE LoadCandidates(1)
  <2> DEFINE w == [worker[1] EXCEPT !.pc = "list", !.ids = PreparedCandidates(1)]
  <2>1. worker[1].pc = "load" /\ worker'[1] = w
    BY <1>2, <1>t DEF LoadCandidates, At
  <2>2. PreparedCandidates(1) \subseteq ChunkOf[worker[1].k]
    BY DEF PreparedCandidates, K
  <2>3. w.pc = "list" /\ w.ids = PreparedCandidates(1) /\ w.k = worker[1].k
        /\ w.chosen = worker[1].chosen /\ w.done = worker[1].done
    BY <1>t DEF Works
  <2> HIDE DEF w
  <2>4. WorkOK(worker[1])'
    BY <1>t, <2>1, <2>2, <2>3 DEF WorkOK, Before, Chosen, After
  <2> QED BY <1>r, <2>4, OneFrame
<1>3. CASE List(1)
  <2>1. PICK stale \in SUBSET Selectable(1) : \E unsafe \in SUBSET (Selectable(1) \ stale) :
        LET safe == Selectable(1) \ (stale \cup unsafe) IN
          worker' = [worker EXCEPT ![1].chosen = safe,
                                   ![1].pc = IF safe = {} THEN "mark" ELSE "attempt"]
    BY <1>3 DEF List
  <2>2. PICK unsafe \in SUBSET (Selectable(1) \ stale) :
        LET safe == Selectable(1) \ (stale \cup unsafe) IN
          worker' = [worker EXCEPT ![1].chosen = safe,
                                   ![1].pc = IF safe = {} THEN "mark" ELSE "attempt"]
    BY <2>1
  <2> DEFINE safe == Selectable(1) \ (stale \cup unsafe)
             pc == IF safe = {} THEN "mark" ELSE "attempt"
             w == [worker[1] EXCEPT !.chosen = safe, !.pc = pc]
  <2>3. worker'[1] = w /\ worker[1].pc = "list"
    BY <2>2, <1>t, <1>3 DEF List, At
  <2>4. safe \subseteq worker[1].ids /\ safe \cap imported = {} /\ pc \in {"mark", "attempt"}
    BY DEF Selectable
  <2> HIDE DEF safe, pc
  <2>5. w.pc = pc /\ w.chosen = safe /\ w.ids = worker[1].ids /\ w.k = worker[1].k
        /\ w.done = worker[1].done
    BY <1>t DEF Works
  <2> HIDE DEF w
  <2>6. worker[1].done = {} /\ worker[1].ids \subseteq ChunkOf[worker[1].k]
    BY <1>t, <2>3 DEF WorkOK, Before
  <2>7. WorkOK(worker[1])'
    BY <1>r, <2>3, <2>4, <2>5, <2>6 DEF WorkOK, Before, Chosen, After
  <2> QED BY <1>r, <2>7, OneFrame
<1>4. CASE Attempt(1) \/ TakeLease(1)
  <2>1. PICK pc \in {"mark", "lease", "download"} : Step(1, pc)
    BY <1>4 DEF Attempt, TakeLease
  <2> DEFINE w == [worker[1] EXCEPT !.pc = pc]
  <2>2. worker'[1] = w /\ worker[1].pc \in {"attempt", "lease"}
    BY <1>4, <2>1, <1>t DEF Attempt, TakeLease, At, Step
  <2>3. w.pc = pc /\ w.chosen = worker[1].chosen /\ w.ids = worker[1].ids /\ w.k = worker[1].k
        /\ w.done = worker[1].done
    BY <1>t DEF Works
  <2> HIDE DEF w
  <2>4. WorkOK(worker[1])'
    BY <1>r, <1>t, <2>1, <2>2, <2>3 DEF WorkOK, Before, Chosen, After
  <2> QED BY <1>r, <2>4, OneFrame
<1> QED BY <1>1, <1>2, <1>3, <1>4

\* The acquisition, the intake and the cleanup leave rows and ledger alone.
LEMMA OneAcquires ==
  ASSUME 1 \in Runs, ImportInv, OneInv,
         Download(1) \/ EndDownload(1) \/ StartIntake(1) \/ RefuseIntake(1) \/ EndIntake(1)
         \/ RemoveStaged(1)
  PROVE  OneInv'
<1>t. 1 \in Runs /\ worker \in [Runs -> Works] /\ worker[1] \in Works /\ WorkOK(worker[1])
  BY OneFacts
<1>r. UNCHANGED <<run, chunk, imported>>
  BY DEF Download, EndDownload, StartIntake, RefuseIntake, EndIntake, RemoveStaged, rows
<1>1. CASE Download(1)
  <2>1. WorkOK(worker[1])'
    BY <1>1, <1>r, <1>t DEF Download, WorkOK
  <2> QED BY <1>r, <2>1, OneFrame
<1>2. CASE EndDownload(1) \/ StartIntake(1) \/ RefuseIntake(1) \/ RemoveStaged(1)
  <2>1. /\ \/ /\ worker[1].pc \in {"download", "intake"}
              /\ worker'[1].pc \in {"mark", "intake", "taking", "record"}
           \/ worker[1].pc = "clean" /\ worker'[1].pc = "cleaned"
        /\ worker'[1].chosen = worker[1].chosen /\ worker'[1].ids = worker[1].ids
        /\ worker'[1].k = worker[1].k /\ worker'[1].done = worker[1].done
    <3>1. CASE EndDownload(1)
      <4> DEFINE files == worker[1].chosen \cap staging
                 ready == files = worker[1].chosen
                 pc == IF ready THEN "intake" ELSE "mark"
      <4>1. worker[1].pc = "download" /\ pc \in {"mark", "intake"}
        BY <3>1 DEF EndDownload, At
      <4>2. PICK batch \in IF ready THEN {"ready"} ELSE {"local_file_error", "other"} :
                worker' = [worker EXCEPT ![1].pc = pc, ![1].files = files, ![1].batch = batch]
        BY <3>1 DEF EndDownload
      <4> HIDE DEF files, ready, pc
      <4> DEFINE w == [worker[1] EXCEPT !.pc = pc, !.files = files, !.batch = batch]
      <4>3. worker'[1] = w
        BY <4>2, <1>t
      <4>4. w.pc = pc /\ w.chosen = worker[1].chosen /\ w.ids = worker[1].ids
            /\ w.k = worker[1].k /\ w.done = worker[1].done
        BY <1>t DEF Works
      <4> QED BY <4>1, <4>3, <4>4
    <3>2. CASE StartIntake(1)
      BY <3>2, <1>t DEF StartIntake, At, Works
    <3>3. CASE RefuseIntake(1)
      BY <3>3, <1>t DEF RefuseIntake, At, Step, Works
    <3>4. CASE RemoveStaged(1)
      BY <3>4, <1>t DEF RemoveStaged, At, Step, Works
    <3> QED BY <1>2, <3>1, <3>2, <3>3, <3>4
  <2>2. WorkOK(worker[1])'
    BY <1>r, <1>t, <2>1 DEF WorkOK, Before, Chosen, After
  <2> QED BY <1>r, <2>2, OneFrame
<1>3. CASE EndIntake(1)
  <2>1. PICK done \in SUBSET worker[1].chosen : \E ok \in {FALSE, done = worker[1].chosen} :
        worker' = [worker EXCEPT ![1].pc = "record", ![1].done = done, ![1].ok = ok]
    BY <1>3 DEF EndIntake
  <2>2. PICK ok \in {FALSE, done = worker[1].chosen} :
        worker' = [worker EXCEPT ![1].pc = "record", ![1].done = done, ![1].ok = ok]
    BY <2>1
  <2> DEFINE w == [worker[1] EXCEPT !.pc = "record", !.done = done, !.ok = ok]
  <2>3. worker'[1] = w /\ worker[1].pc = "taking"
    BY <2>2, <1>t, <1>3 DEF EndIntake, At
  <2>4. w.pc = "record" /\ w.chosen = worker[1].chosen /\ w.ids = worker[1].ids
        /\ w.k = worker[1].k /\ w.done = done
    BY <1>t DEF Works
  <2> HIDE DEF w
  <2>5. WorkOK(worker[1])'
    BY <1>r, <1>t, <2>1, <2>3, <2>4 DEF WorkOK, Before, Chosen, After
  <2> QED BY <1>r, <2>5, OneFrame
<1> QED BY <1>1, <1>2, <1>3

\* What the ledger takes up only adds to what is imported.
LEMMA ImportedGrows ==
  ASSUME 1 \in Runs, ImportInv, OneInv, RecordResult(1)
  PROVE  imported' = imported \cup worker[1].done /\ imported' \in SUBSET Candidates
<1>1. worker[1].pc = "record" /\ imported' = (imported \ worker[1].chosen) \cup worker[1].done
  BY DEF RecordResult, At
<1>2. worker[1].chosen \cap imported = {} /\ worker[1] \in Works /\ RowTypes
  BY <1>1, OneFacts DEF WorkOK, Chosen
<1> QED BY <1>1, <1>2 DEF Works, RowTypes

\* RecordResult: what was done becomes imported, and no count exceeds it.
LEMMA OneRecords ==
  ASSUME 1 \in Runs, ImportInv, OneInv, RecordResult(1)
  PROVE  OneInv'
<1>t. 1 \in Runs /\ worker \in [Runs -> Works] /\ worker[1] \in Works /\ WorkOK(worker[1])
      /\ RowTypes /\ chunk[1] \in [Chunks -> ChunkRows]
  BY OneFacts
<1>1. imported' = imported \cup worker[1].done /\ imported' \in SUBSET Candidates
  BY ImportedGrows
<1>2. run' = run /\ chunk' = chunk /\ worker[1].pc = "record" /\ Step(1, "mark")
  BY DEF RecordResult, At
<1>3. CountsOK(chunk[1])'
  <2> SUFFICES ASSUME NEW k \in Chunks
               PROVE  chunk[1][k].imported <= Cardinality(ChunkOf[k] \cap imported')
    BY <1>2 DEF CountsOK
  <2> DEFINE old == ChunkOf[k] \cap imported
             new == ChunkOf[k] \cap imported'
  <2>1. old \in SUBSET new /\ new \in SUBSET Candidates /\ old \in SUBSET Candidates
    BY <1>1
  <2>2. chunk[1][k].imported \in Nat /\ chunk[1][k].imported <= Cardinality(old)
    BY <1>t DEF ChunkRows, OneInv, CountsOK
  <2> HIDE DEF old, new
  <2>3. IsFiniteSet(new) /\ Cardinality(new) \in Nat /\ Cardinality(old) \in Nat
    BY <2>1, ConstantFacts
  <2>4. Cardinality(old) <= Cardinality(new)
    BY <2>1, <2>3, FS_Subset
  <2>5. chunk[1][k].imported <= Cardinality(new)
    BY <2>2, <2>3, <2>4
  <2> QED BY <2>5 DEF new
<1>4. WorkOK(worker[1])'
  <2> DEFINE w == [worker[1] EXCEPT !.pc = "mark"]
  <2>1. worker'[1] = w
    BY <1>2, <1>t DEF Step
  <2>2. w.pc = "mark" /\ w.chosen = worker[1].chosen /\ w.ids = worker[1].ids
        /\ w.k = worker[1].k /\ w.done = worker[1].done
    BY <1>t DEF Works
  <2> HIDE DEF w
  <2> QED BY <1>1, <1>2, <1>t, <2>1, <2>2 DEF WorkOK, Before, Chosen, After
<1>5. run'[1] = "completed" => imported' = Candidates
  BY <1>1, <1>2 DEF OneInv
<1> QED BY <1>3, <1>4, <1>5 DEF OneInv

\* A row that counts no more than the chunk has imported keeps the counts.
LEMMA RowFits ==
  ASSUME 1 \in Runs, ImportInv, OneInv, NEW k \in Chunks, NEW row \in ChunkRows,
         row.imported <= Cardinality(ChunkOf[k] \cap imported)
  PROVE  /\ CountsOK([chunk[1] EXCEPT ![k] = row])
         /\ \A status \in RunStatuses : Leave(1, k, row, status) /\ imported' = imported =>
              CountsOK(chunk[1])' /\ run'[1] = status
         /\ Finalized(1, k, row) = "completed" => imported = Candidates
<1>t. 1 \in Runs /\ RowTypes /\ chunk[1] \in [Chunks -> ChunkRows]
  BY OneFacts
<1> DEFINE counts == [chunk[1] EXCEPT ![k] = row]
<1>1. counts \in [Chunks -> ChunkRows]
  BY <1>t
<1>2. CountsOK(counts)
  BY <1>t DEF OneInv, CountsOK
<1>3. ASSUME NEW status \in RunStatuses, Leave(1, k, row, status), imported' = imported
      PROVE  CountsOK(chunk[1])' /\ run'[1] = status
  <2>1. chunk'[1] = counts /\ run'[1] = status
    BY <1>3, <1>t, LeaveKeeps
  <2> HIDE DEF counts
  <2> QED BY <1>2, <1>3, <2>1 DEF CountsOK
<1>4. ASSUME Finalized(1, k, row) = "completed" PROVE imported = Candidates
  <2>1. CASE run[1] = "completed"
    BY <2>1 DEF OneInv
  <2>2. CASE run[1] # "completed"
    <3>1. MapThenSumSet(LAMBDA n : counts[n].imported, Chunks) >= Cardinality(Candidates)
      BY <1>4, <2>2 DEF Finalized
    <3> HIDE DEF counts
    <3> QED BY <1>1, <1>2, <1>t, <3>1, CountsComplete
  <2> QED BY <2>1, <2>2
<1> QED BY <1>2, <1>3, <1>4

\* A row of the run that keeps its count fits.
LEMMA OldRowFits ==
  ASSUME 1 \in Runs, ImportInv, OneInv, NEW k \in Chunks
  PROVE  chunk[1][k].imported <= Cardinality(ChunkOf[k] \cap imported)
         /\ chunk[1][k] \in ChunkRows
BY OneFacts DEF OneInv, CountsOK

\* What an attempt counts is imported.
LEMMA CountedFits ==
  ASSUME 1 \in Runs, ImportInv, OneInv, worker[1].pc \in After
  PROVE  /\ Counted(1) \in ChunkRows /\ K(1) \in Chunks
         /\ Counted(1).imported <= Cardinality(ChunkOf[K(1)] \cap imported)
<1>1. worker[1].pc \notin {"off", "loop"} /\ 1 \in Runs
  BY DEF After
<1>2. Counted(1) \in ChunkRows /\ K(1) \in Chunks
      /\ Counted(1).imported = Cardinality(worker[1].done)
  BY <1>1, CountedType
<1> DEFINE mine == ChunkOf[K(1)] \cap imported
<1>3. worker[1].done \in SUBSET mine /\ mine \in SUBSET Candidates
  BY <1>1, <1>2, OneFacts, ConstantFacts DEF WorkOK, K
<1> HIDE DEF mine
<1>4. Cardinality(worker[1].done) <= Cardinality(mine)
  BY <1>3, ConstantFacts, FS_Subset
<1> QED BY <1>2, <1>4 DEF mine

\* A claim and a skip keep the counts of their row.
LEMMA OneClaims ==
  ASSUME 1 \in Runs, ImportInv, OneInv, Claim(1) \/ SkipChunk(1)
  PROVE  OneInv'
<1>t. 1 \in Runs /\ worker \in [Runs -> Works] /\ worker[1] \in Works /\ RowTypes
      /\ chunk \in [Runs -> [Chunks -> ChunkRows]] /\ run \in [Runs -> RunStatuses]
  BY OneFacts DEF RowTypes
<1>r. imported' = imported
  BY DEF Claim, SkipChunk
<1>1. CASE Claim(1)
  <2> DEFINE k == Min(PendingChunks(chunk[1]))
             w == [NoWork EXCEPT !.pc = "load", !.k = k, !.seen = "running"]
             row == [chunk[1][k] EXCEPT !.status = "running"]
  <2>1. k \in Chunks
    <3>1. PendingChunks(chunk[1]) \subseteq Chunks /\ PendingChunks(chunk[1]) # {}
      BY <1>1 DEF PendingChunks, Claim, MayClaim
    <3> QED BY <3>1, MinIs, ConstantFacts
  <2>2. /\ worker'[1] = w /\ run'[1] = "running"
        /\ chunk' = [chunk EXCEPT ![1][k].status = "running"]
    BY <1>1, <1>t DEF Claim
  <2> HIDE DEF k
  <2>3. chunk[1][k] \in ChunkRows /\ chunk[1][k].imported <= Cardinality(ChunkOf[k] \cap imported)
    BY <2>1, OldRowFits
  <2>4. row \in ChunkRows /\ row.imported = chunk[1][k].imported
    BY <2>3 DEF ChunkRows
  <2>5. chunk'[1] = [chunk[1] EXCEPT ![k] = row]
    BY <1>t, <2>1, <2>2
  <2> HIDE DEF row
  <2>6. CountsOK([chunk[1] EXCEPT ![k] = row])
    BY <2>1, <2>3, <2>4, RowFits
  <2>7. CountsOK(chunk[1])'
    BY <1>r, <2>5, <2>6 DEF CountsOK
  <2>8. WorkOK(worker[1])'
    BY <2>2 DEF NoWork, WorkOK, Before, Chosen, After
  <2> QED BY <2>2, <2>7, <2>8 DEF OneInv
<1>2. CASE SkipChunk(1)
  <2> DEFINE row == [chunk[1][K(1)] EXCEPT !.status = "skipped"]
             end == Finalized(1, K(1), row)
             seen == IF end \in Incomplete THEN "running" ELSE end
  <2>1. /\ worker[1].pc = "load" /\ Leave(1, K(1), row, end)
        /\ worker' = [worker EXCEPT ![1] = [NoWork EXCEPT !.pc = "loop", !.seen = seen]]
    BY <1>2 DEF SkipChunk, At
  <2>2. K(1) \in Chunks
    BY <2>1, OneFacts DEF K
  <2>3. row \in ChunkRows /\ row.imported <= Cardinality(ChunkOf[K(1)] \cap imported)
    <3>1. chunk[1][K(1)] \in ChunkRows
          /\ chunk[1][K(1)].imported <= Cardinality(ChunkOf[K(1)] \cap imported)
      BY <2>2, OldRowFits
    <3>2. row \in ChunkRows /\ row.imported = chunk[1][K(1)].imported
      BY <3>1 DEF ChunkRows
    <3> HIDE DEF row
    <3> QED BY <3>1, <3>2
  <2> HIDE DEF row
  <2>4. end \in RunStatuses
    BY <1>t, <2>2, FinalizedType
  <2>5. CountsOK(chunk[1])' /\ run'[1] = end /\ (end = "completed" => imported = Candidates)
    BY <1>r, <2>1, <2>2, <2>3, <2>4, RowFits
  <2> HIDE DEF end, seen
  <2>6. worker'[1] = [NoWork EXCEPT !.pc = "loop", !.seen = seen]
    BY <1>t, <2>1
  <2>7. WorkOK(worker[1])'
    BY <2>6 DEF NoWork, WorkOK, Before, Chosen, After
  <2> QED BY <1>r, <2>5, <2>7 DEF OneInv
<1> QED BY <1>1, <1>2

\* The commits that carry ids, or the counts of the attempt.
LEMMA OneMarks ==
  ASSUME 1 \in Runs, ImportInv, OneInv, MarkCandidates(1) \/ StartCleanup(1)
  PROVE  OneInv'
<1>t. 1 \in Runs /\ worker \in [Runs -> Works] /\ worker[1] \in Works /\ WorkOK(worker[1])
      /\ chunk \in [Runs -> [Chunks -> ChunkRows]] /\ RowTypes
  BY OneFacts DEF RowTypes
<1>r. imported' = imported /\ run' = run
  BY DEF MarkCandidates, StartCleanup
<1>1. worker[1].pc \in {"mark", "decide"}
  BY DEF MarkCandidates, StartCleanup, At
<1>2. K(1) \in Chunks /\ chunk[1][K(1)] \in ChunkRows
      /\ chunk[1][K(1)].imported <= Cardinality(ChunkOf[K(1)] \cap imported)
  BY <1>1, OneFacts, OldRowFits DEF K
<1>3. PICK row \in ChunkRows : /\ chunk'[1] = [chunk[1] EXCEPT ![K(1)] = row]
                              /\ row.imported <= Cardinality(ChunkOf[K(1)] \cap imported)
  <2>1. CASE MarkCandidates(1)
    <3> DEFINE row == [chunk[1][K(1)] EXCEPT !.linked = worker[1].linked,
                                             !.batch = worker[1].batch]
    <3>1. row \in ChunkRows /\ row.imported = chunk[1][K(1)].imported
      BY <1>2, <1>t DEF ChunkRows, Works
    <3>2. chunk'[1] = [chunk[1] EXCEPT ![K(1)] = row]
      BY <1>2, <1>t, <2>1 DEF MarkCandidates
    <3> HIDE DEF row
    <3> QED BY <1>2, <3>1, <3>2
  <2>2. CASE StartCleanup(1)
    <3>1. chunk'[1] = [chunk[1] EXCEPT ![K(1)] = Counted(1)]
      BY <1>2, <1>t, <2>2 DEF StartCleanup
    <3>2. worker[1].pc \in After
      BY <1>1 DEF After
    <3> QED BY <3>1, <3>2, CountedFits
  <2> QED BY <2>1, <2>2
<1>4. CountsOK(chunk[1])'
  <2>1. CountsOK([chunk[1] EXCEPT ![K(1)] = row])
    BY <1>2, <1>3, RowFits
  <2> QED BY <1>3, <1>r, <2>1 DEF CountsOK
<1>5. WorkOK(worker[1])'
  <2>1. PICK pc \in {"decide", "clean"} : Step(1, pc)
    BY DEF MarkCandidates, StartCleanup
  <2> DEFINE w == [worker[1] EXCEPT !.pc = pc]
  <2>2. worker'[1] = w
    BY <2>1, <1>t DEF Step
  <2>3. w.pc = pc /\ w.chosen = worker[1].chosen /\ w.ids = worker[1].ids /\ w.k = worker[1].k
        /\ w.done = worker[1].done
    BY <1>t DEF Works
  <2> HIDE DEF w
  <2> QED BY <1>r, <1>t, <1>1, <2>1, <2>2, <2>3 DEF WorkOK, Before, Chosen, After
<1> QED BY <1>4, <1>5, <1>r DEF OneInv

\* The ends of an attempt write the counts of what was done.
LEMMA OneLeaves ==
  ASSUME 1 \in Runs, ImportInv, OneInv,
         LeaveEmpty(1) \/ LeaveUnclean(1) \/ CleanupFails(1) \/ CompleteChunk(1)
  PROVE  OneInv'
<1>t. 1 \in Runs /\ worker \in [Runs -> Works]
  BY OneFacts
<1>r. imported' = imported
  BY DEF LeaveEmpty, LeaveUnclean, CleanupFails, CompleteChunk, StopForReview
<1>1. worker[1].pc \in After
  BY DEF LeaveEmpty, LeaveUnclean, CleanupFails, CompleteChunk, At, After
<1>2. Counted(1) \in ChunkRows /\ K(1) \in Chunks
      /\ Counted(1).imported <= Cardinality(ChunkOf[K(1)] \cap imported)
  BY <1>1, CountedFits
<1>3. ASSUME LeaveEmpty(1) \/ LeaveUnclean(1) \/ CleanupFails(1) PROVE OneInv'
  <2>1. PICK status \in {"retryable_failed", "failed", "stopped_needs_review"} :
        \E end \in {"resume_available", "stopped_needs_review"} :
            Leave(1, K(1), [Counted(1) EXCEPT !.status = status], end)
    BY <1>3 DEF LeaveEmpty, LeaveUnclean, CleanupFails, StopForReview
  <2>2. PICK end \in {"resume_available", "stopped_needs_review"} :
            Leave(1, K(1), [Counted(1) EXCEPT !.status = status], end)
    BY <2>1
  <2> DEFINE row == [Counted(1) EXCEPT !.status = status]
  <2>3. row \in ChunkRows /\ row.imported = Counted(1).imported
    BY <1>2 DEF ChunkRows
  <2> HIDE DEF row
  <2>4. Leave(1, K(1), row, end) /\ end \in RunStatuses /\ end # "completed"
    BY <2>2 DEF row, RunStatuses, Incomplete
  <2>5. CountsOK(chunk[1])' /\ run'[1] = end
    BY <1>2, <1>r, <2>3, <2>4, RowFits
  <2>6. worker'[1] = NoWork
    BY <1>3, <1>t DEF LeaveEmpty, LeaveUnclean, CleanupFails, StopForReview
  <2> QED BY <2>4, <2>5, <2>6, NoWorkOK DEF OneInv
<1>4. ASSUME CompleteChunk(1) PROVE OneInv'
  <2> DEFINE n == Cardinality(worker[1].files)
             row == [Counted(1) EXCEPT !.status = "completed", !.cleaned = n]
             end == Finalized(1, K(1), row)
  <2>1. Leave(1, K(1), row, end)
        /\ worker' = [worker EXCEPT ![1] = [NoWork EXCEPT !.pc = "loop", !.seen = end]]
    BY <1>4 DEF CompleteChunk
  <2>2. n \in Nat
    BY <1>1, <1>t, CountedType DEF After
  <2> HIDE DEF n
  <2>3. row \in ChunkRows /\ row.imported = Counted(1).imported
    BY <1>2, <2>2 DEF ChunkRows
  <2> HIDE DEF row
  <2>4. end \in RunStatuses
    BY <1>t, <1>2, FinalizedType
  <2>5. CountsOK(chunk[1])' /\ run'[1] = end /\ (end = "completed" => imported = Candidates)
    BY <1>2, <1>r, <2>1, <2>3, <2>4, RowFits
  <2> HIDE DEF end
  <2>6. worker'[1] = [NoWork EXCEPT !.pc = "loop", !.seen = end]
    BY <1>t, <2>1
  <2>7. WorkOK(worker[1])'
    BY <2>6 DEF NoWork, WorkOK, Before, Chosen, After
  <2> QED BY <1>r, <2>5, <2>7 DEF OneInv
<1> QED BY <1>3, <1>4

\* Requests write the rows of the only run, and no counts of what was imported.
LEMMA OneRequests ==
  ASSUME 1 \in Runs, ImportInv, OneInv, CreatedBound, Alone, NEW q \in Requests,
         FindStale(q) \/ Choose(q) \/ Ends(q)
  PROVE  OneInv'
<1>t. 1 \in Runs /\ worker \in [Runs -> Works] /\ RowTypes
      /\ chunk[1] \in [Chunks -> ChunkRows] /\ run \in [Runs -> RunStatuses]
      /\ chunk \in [Runs -> [Chunks -> ChunkRows]] /\ WorkOK(worker[1])
  BY OneFacts DEF RowTypes
<1>r. imported' = imported
  BY DEF FindStale, Choose, Ends, Recover, Discard, RefuseResume, Resume, CheckStart, InsertRun,
         Launch, rows
<1>1. CASE FindStale(q) \/ Choose(q) \/ Discard(q) \/ RefuseResume(q) \/ CheckStart(q)
  <2>1. UNCHANGED <<run, chunk, imported, worker>>
    BY <1>1 DEF FindStale, Choose, Discard, RefuseResume, CheckStart, rows
  <2> QED BY <2>1, <1>t, OneFrame DEF WorkOK
<1>2. CASE Launch(q)
  <2>1. UNCHANGED <<run, chunk, imported>>
    BY <1>2 DEF Launch, rows
  <2>2. worker'[1] = worker[1] \/ worker'[1] = [NoWork EXCEPT !.pc = "loop"]
    BY <1>2, <1>t DEF Launch
  <2>3. WorkOK(worker[1])'
    <3>1. CASE worker'[1] = worker[1]
      BY <1>r, <1>t, <3>1 DEF WorkOK
    <3>2. CASE worker'[1] = [NoWork EXCEPT !.pc = "loop"]
      BY <3>2 DEF NoWork, WorkOK, Before, Chosen, After
    <3> QED BY <2>2, <3>1, <3>2
  <2> QED BY <2>1, <2>3, OneFrame
<1>3. CASE InsertRun(q)
  <2>1. chunk' = chunk /\ worker' = worker /\ (run'[1] = run[1] \/ run'[1] = "created")
    BY <1>3, <1>t DEF InsertRun
  <2> QED BY <1>r, <1>t, <2>1 DEF OneInv, WorkOK, CountsOK
<1>4. CASE Recover(q) \/ Resume(q)
  <2>1. request[q].i = 1
    BY <1>4, PageFacts, ConstantFacts DEF Recover, Resume, AtRequest, Reading, CreatedBound, Alone
  <2>2. worker' = worker /\ run'[1] # "completed"
    BY <1>4, <1>t, <2>1 DEF Recover, Resume
  <2>3. ASSUME NEW k \in Chunks PROVE chunk'[1][k].imported = chunk[1][k].imported
    <3>1. chunk[1][k] \in ChunkRows
      BY <1>t
    <3>2. CASE Recover(q)
      <4> DEFINE status == IF Unclean(request[q].view[k]) THEN "stopped_needs_review"
                           ELSE "retryable_failed"
      <4>1. chunk'[1][k] = IF k \notin request[q].found THEN chunk[1][k]
                           ELSE [chunk[1][k] EXCEPT !.status = status]
        BY <1>t, <2>1, <3>2 DEF Recover
      <4> HIDE DEF status
      <4> QED BY <3>1, <4>1 DEF ChunkRows
    <3>3. CASE Resume(q)
      <4> DEFINE n == Cardinality(request[q].view[k].files)
      <4>1. chunk'[1][k] = IF k \in request[q].found THEN [chunk[1][k] EXCEPT !.cleaned = n]
                           ELSE chunk[1][k]
        BY <1>t, <2>1, <3>3 DEF Resume
      <4> HIDE DEF n
      <4> QED BY <3>1, <4>1 DEF ChunkRows
    <3> QED BY <1>4, <3>2, <3>3
  <2> QED BY <1>r, <1>t, <2>2, <2>3 DEF OneInv, WorkOK, CountsOK
<1> QED BY <1>1, <1>2, <1>3, <1>4 DEF Ends

\* Failures, restarts and other operations.
LEMMA OneOthers ==
  ASSUME 1 \in Runs, ImportInv, OneInv,
         WorkerFails(1) \/ Restart \/ OtherStarts \/ OtherEnds \/ ClearStaging \/ UNCHANGED vars
  PROVE  OneInv'
<1>t. 1 \in Runs /\ worker \in [Runs -> Works] /\ WorkOK(worker[1])
  BY OneFacts
<1>1. UNCHANGED <<run, chunk, imported>>
  BY DEF WorkerFails, Restart, OtherStarts, OtherEnds, ClearStaging, rows, vars
<1>2. worker'[1] = worker[1] \/ worker'[1] = NoWork
  BY <1>t DEF WorkerFails, Restart, OtherStarts, OtherEnds, ClearStaging, vars
<1>3. WorkOK(worker[1])'
  BY <1>1, <1>2, <1>t, NoWorkOK DEF WorkOK
<1> QED BY <1>1, <1>3, OneFrame

\* The initial state.
LEMMA OneInit == Init => OneRunInv
<1> SUFFICES ASSUME Init PROVE OneRunInv
  OBVIOUS
<1>1. CreatedBound
  BY NoWorkType DEF Init, CreatedBound, Idle, Reading
<1>2. ASSUME 1 \in Runs PROVE OneInv
  <2>1. WorkOK(worker[1]) /\ run[1] = "none"
    BY <1>2 DEF Init, NoWork, WorkOK, Before, Chosen, After
  <2>2. ASSUME NEW k \in Chunks
        PROVE  chunk[1][k].imported <= Cardinality(ChunkOf[k] \cap imported)
    <3>1. chunk[1][k].imported = 0
      BY <1>2 DEF Init, NewChunk
    <3>2. Cardinality(ChunkOf[k] \cap imported) \in Nat
      BY ConstantFacts DEF Init
    <3> QED BY <3>1, <3>2
  <2> QED BY <2>1, <2>2 DEF OneInv, CountsOK
<1> QED BY <1>1, <1>2 DEF OneRunInv

\* While no other run was inserted, no other worker moves.
LEMMA OneWorks ==
  ASSUME ImportInv, CreatedBound, Alone, NEW i \in Runs, Work(i) \/ WorkerFails(i)
  PROVE  i = 1
<1>1. worker[i].pc # "off"
  BY DEF WorkerFails, Work, Claim, EndWorker, LoadCandidates, SkipChunk, List,
     Attempt, TakeLease, Download, EndDownload, StartIntake, RefuseIntake, EndIntake,
     RecordResult, MarkCandidates, LeaveEmpty, LeaveUnclean, StartCleanup, RemoveStaged,
     CleanupFails, CompleteChunk, At
<1> QED BY <1>1 DEF CreatedBound, Alone, Created

\* A step of a set that has one run adds no file of what is imported.
LEMMA OneDownload ==
  ASSUME ImportInv, OneRunInv, Alone, [Next]_vars
  PROVE  (staging' \ staging) \cap imported = {}
<1>1. staging' \subseteq staging \/ \E i \in Runs : Download(i)
  <2>1. ASSUME NEW i \in Runs, Work(i), ~Download(i) PROVE staging' \subseteq staging
    <3>1. CASE Claim(i) \/ EndWorker(i) \/ LoadCandidates(i) \/ SkipChunk(i) \/ List(i)
      BY <3>1 DEF Claim, EndWorker, LoadCandidates, SkipChunk, List, rows
    <3>2. CASE Attempt(i) \/ TakeLease(i) \/ EndDownload(i)
      BY <3>2 DEF Attempt, TakeLease, EndDownload, rows
    <3>3. CASE StartIntake(i) \/ RefuseIntake(i) \/ EndIntake(i) \/ RecordResult(i)
               \/ MarkCandidates(i)
      BY <3>3 DEF StartIntake, RefuseIntake, EndIntake, RecordResult, MarkCandidates, rows
    <3>4. CASE LeaveEmpty(i) \/ LeaveUnclean(i) \/ StartCleanup(i)
      BY <3>4 DEF LeaveEmpty, LeaveUnclean, StartCleanup, StopForReview, rows
    <3>5. CASE RemoveStaged(i) \/ CleanupFails(i) \/ CompleteChunk(i)
      BY <3>5 DEF RemoveStaged, CleanupFails, CompleteChunk, StopForReview, rows
    <3> QED BY <2>1, <3>1, <3>2, <3>3, <3>4, <3>5 DEF Work
  <2>2. ASSUME NEW i \in Runs, WorkerFails(i) PROVE staging' \subseteq staging
    BY <2>2 DEF WorkerFails
  <2>3. ASSUME NEW q \in Requests, FindStale(q) \/ Choose(q) \/ Ends(q)
        PROVE  staging' \subseteq staging
    <3>1. CASE FindStale(q) \/ Choose(q)
      BY <3>1 DEF FindStale, Choose, rows
    <3>2. CASE Ends(q)
      BY <3>2 DEF Ends, Recover, Discard, RefuseResume, Resume, CheckStart, InsertRun, Launch, rows
    <3> QED BY <2>3, <3>1, <3>2
  <2>4. CASE Restart \/ OtherStarts \/ OtherEnds \/ ClearStaging
    BY <2>4 DEF Restart, OtherStarts, OtherEnds, ClearStaging
  <2>5. CASE UNCHANGED vars
    BY <2>5 DEF vars
  <2> QED BY <2>1, <2>2, <2>3, <2>4, <2>5 DEF Next
<1>2. ASSUME NEW i \in Runs, Download(i) PROVE (staging' \ staging) \cap imported = {}
  <2>1. i = 1
    BY <1>2, OneWorks DEF Work, OneRunInv
  <2>2. worker[1].chosen \cap imported = {}
    BY <1>2, <2>1, OneFacts DEF Download, At, WorkOK, Chosen, OneRunInv
  <2>3. staging' \ staging \subseteq worker[1].chosen
    BY <1>2, <2>1 DEF Download
  <2> QED BY <2>2, <2>3
<1> QED BY <1>1, <1>2

\* Every step keeps the invariant of a set with one run.
LEMMA OneStep ==
  ASSUME ImportInv, OneRunInv, [Next]_vars
  PROVE  OneRunInv'
<1>1. CreatedBound'
  BY CreatedWorkers, CreatedRequests DEF CreatedBound, OneRunInv
<1>2. ASSUME Alone', 1 \in Runs PROVE OneInv'
  <2>1. Alone /\ OneInv /\ CreatedBound
    BY <1>2, CreatedGrows DEF Alone, OneRunInv
  <2>2. ASSUME Work(1) PROVE OneInv'
    BY <1>2, <2>1, <2>2, OneBegins, OneAcquires, OneRecords, OneClaims, OneMarks, OneLeaves DEF Work
  <2>3. ASSUME NEW i \in Runs, Work(i) \/ WorkerFails(i) PROVE OneInv'
    <3>1. i = 1
      BY <2>1, <2>3, OneWorks
    <3> QED BY <1>2, <2>1, <2>2, <2>3, <3>1, OneOthers
  <2> QED BY <1>2, <2>1, <2>3, OneRequests, OneOthers DEF Next
<1> QED BY <1>1, <1>2 DEF OneRunInv

\* While the set has one run, what its worker has in hand and what its chunks count agree with
\* what is imported.
THEOREM OneRunInvariant == Spec => [](ImportInv /\ OneRunInv)
<1>1. Init => ImportInv /\ OneRunInv
  BY ImportInit, OneInit
<1>2. ImportInv /\ OneRunInv /\ [Next]_vars => ImportInv' /\ OneRunInv'
  BY ImportStep, OneStep
<1> QED BY <1>1, <1>2, PTL DEF Spec

\* A run is completed only when every candidate is imported, although what decides it is a sum
\* of counts that attempts overwrite, recoveries leave and retries start from: at every moment
\* at which no second run has been inserted.
THEOREM CompletedImportedAllCorrect == Spec => [](Alone => CompletedImportedAll)
<1>1. OneRunInv => (Alone => CompletedImportedAll)
  <2> SUFFICES ASSUME OneRunInv, Alone, NEW i \in Runs, run[i] = "completed"
               PROVE  imported = Candidates
    BY DEF CompletedImportedAll
  <2>1. i = 1
    BY DEF Alone, Created
  <2> QED BY <2>1 DEF OneRunInv, OneInv
<1> QED BY <1>1, OneRunInvariant, PTL

\* What the ledger has as completed is not downloaded again, through any number of restarts,
\* recoveries and resumes, if no second run is inserted.
THEOREM ImportedOnceCorrect == Spec /\ []Alone => ImportedOnce
<1>1. ImportInv /\ OneRunInv /\ Alone /\ [Next]_vars => [(staging' \ staging) \cap imported = {}]_vars
  BY OneDownload
<1> QED BY <1>1, OneRunInvariant, PTL DEF Spec, ImportedOnce
===============================================================================
