---------------------- MODULE DurableReceivingInvariant ----------------------
(***************************************************************************)
(* The inductive invariant of DurableReceiving: what the row locks exclude, *)
(* what each handler may rely on at the step it has reached, and how far    *)
(* the files and the rows of an item can be apart.  DurableReceivingProofs  *)
(* proves that every step keeps it.                                         *)
(***************************************************************************)
EXTENDS DurableReceiving

\* The steps at which a handler holds the row of its run, item and operation.
RunLocked  == {"activating", "wrote", "linked", "unlinked", "cleaning"}
ItemLocked == {"creating", "wrote", "linked", "unlinked"}
OpLocked   == {"claiming", "final", "linked", "unlinked", "replayed"}

\* The steps of a request that was admitted for an operation and its item.
Admitted == {"chunk", "wrote", "final", "linked", "unlinked", "recorded", "leased", "replayed"}

LocksExclusive ==
  \A g, h \in Handlers : g # h =>
    /\ pc[g] \in RunLocked => pc[h] \notin RunLocked
    /\ pc[g] \in ItemLocked /\ pc[h] \in ItemLocked => job[g].item # job[h].item
    /\ pc[g] \in OpLocked /\ pc[h] \in OpLocked => job[g].op # job[h].op

OperationsBound ==
  /\ \A o \in Ops : opState[o] # "none" =>
       opItem[o] \in Items /\ itemState[opItem[o]] # "pending"
  /\ \A o1, o2 \in Ops :
       opItem[o1] = opItem[o2] /\ opState[o1] \in LiveOp /\ opState[o2] \in LiveOp => o1 = o2
  /\ sweeping \subseteq {o \in Ops : opState[o] # "none"}

HandlersBound ==
  \A h \in Handlers :
    /\ pc[h] \in Admitted => /\ job[h].op \in Ops /\ opState[job[h].op] # "none"
                             /\ job[h].item \in Items /\ itemState[job[h].item] # "pending"
    /\ pc[h] = "claiming" => job[h].op \in Ops /\ opState[job[h].op] = "pending"
    /\ pc[h] = "creating" =>
         /\ job[h].item \in Items
         /\ \A o \in Ops : opItem[o] = job[h].item => opState[o] \notin LiveOp

\* The file of an item is there unless cleanup of a failed run removed it.
HasFile(i) == runState # "failed" \/ partial[i] # None \/ ready[i] # None

OffsetConsistent(i) ==
  /\ offset[i] <= Size[i]
  /\ itemState[i] = "pending" => offset[i] = 0
  /\ itemState[i] = "transferring" => offset[i] < Size[i]
  /\ itemState[i] \in {"verifying", "ready"} => offset[i] = Size[i]

FilesConsistent(i) ==
  /\ HasFile(i) => offset[i] <= Len(Stored(i))
  /\ ready[i] # None => /\ Len(ready[i]) = Size[i] /\ offset[i] = Size[i]
                        /\ itemState[i] \in {"verifying", "ready", "failed"}
  /\ partial[i] # None /\ ready[i] # None => linked[i] /\ partial[i] = ready[i]
  /\ itemState[i] = "ready" => ready[i] # None /\ ready[i] = verified[i]

AckedConsistent(i) ==
  \A t \in acked[i] : /\ t[1] \in 1..offset[i]
                      /\ HasFile(i) => Stored(i)[t[1]] = t[2]

ItemConsistent(i) == OffsetConsistent(i) /\ FilesConsistent(i) /\ AckedConsistent(i)

\* A written chunk that is not committed yet is the tail of the partial file.
ChunkWritten(h) ==
  LET i    == job[h].item
      body == job[h].body IN
  /\ runState = "active" /\ itemState[i] = "transferring"
  /\ body # <<>> /\ offset[i] + Len(body) <= Size[i]
  /\ ready[i] = None /\ partial[i] # None /\ Len(partial[i]) = offset[i] + Len(body)
  /\ \A n \in 1..Len(body) : partial[i][offset[i] + n] = body[n]

HandlersConsistent ==
  \A h \in Handlers :
    /\ pc[h] = "activating" => runState = "planned"
    /\ pc[h] = "creating" => /\ runState # "planned"
                             /\ itemState[job[h].item] \in {"pending", "transferring"}
    /\ pc[h] = "wrote" => ChunkWritten(h)
    /\ pc[h] \in {"linked", "unlinked"} => /\ itemState[job[h].item] = "verifying"
                                           /\ ready[job[h].item] # None
    /\ pc[h] = "cleaning" =>
         /\ runState = "failed"
         /\ \A i \in job[h].removed : itemState[i] # "ready" /\ ready[i] = None

RunConsistent ==
  /\ runState = "planned" => \A i \in Items : itemState[i] = "pending"
  /\ \A i \in Items : itemState[i] = "failed" => runState = "failed"
  /\ RunSummarisesItems

\* Every request that has read, locked or written something finds it as it left it, and
\* the files, the items and the run differ by no more than the requests in flight (the
\* FOR UPDATE locks and the re-validations of receiving.py and operations.py).
IInv ==
  /\ TypeOK
  /\ LocksExclusive /\ OperationsBound /\ HandlersBound /\ HandlersConsistent
  /\ \A i \in Items : ItemConsistent(i)
  /\ RunConsistent
=============================================================================
