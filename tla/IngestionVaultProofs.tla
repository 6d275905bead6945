------------------------- MODULE IngestionVaultProofs -------------------------
(***************************************************************************)
(* What a run skips as known is kept, for every set of files, contents and *)
(* batch size, and any number of faults: VaultInv is inductive.            *)
(***************************************************************************)
EXTENDS IngestionVault, TLAPS

USE ContentAssumption, VaultBounds

LEMMA VaultInitInv == VaultInit => VaultInv
BY SMTT(30) DEF VaultInit, VaultInv, VaultTypeOK, KnownIsKept, Steps

\* The parts of the invariant that speak of the rows and the vault, and of nothing that a
\* step between two stages changes.
LEMMA StageSteps ==
  ASSUME VaultInv, EndRun \/ EndStorage \/ EndPersist \/ BeginMove \/ EndBatch \/ StopRun
                   \/ ClearDropZone
  PROVE  VaultInv'
<1> USE DEF VaultInv, VaultTypeOK, KnownIsKept, Steps, library, context
<1>1. CASE EndRun BY <1>1 DEF EndRun
<1>2. CASE EndStorage BY <1>2 DEF EndStorage
<1>3. CASE EndPersist BY <1>3 DEF EndPersist
<1>4. CASE BeginMove BY <1>4 DEF BeginMove
<1>5. CASE EndBatch BY <1>5 DEF EndBatch
<1>6. CASE StopRun BY <1>6 DEF StopRun
<1>7. CASE ClearDropZone BY <1>7 DEF ClearDropZone
<1> QED BY <1>1, <1>2, <1>3, <1>4, <1>5, <1>6, <1>7

LEMMA SelectSteps ==
  ASSUME VaultInv, Collect \/ SelectBatch
  PROVE  VaultInv'
<1> USE DEF VaultInv, VaultTypeOK, KnownIsKept, Steps, library
<1>1. CASE Collect BY <1>1 DEF Collect, Unknown
<1>2. CASE SelectBatch
  <2>1. PICK b \in SUBSET records :
          \E u \in SUBSET (b \ Unusable) :
            /\ \A f, g \in u : ContentOf[f] = ContentOf[g] => f = g
            /\ batch' = b /\ unique' = u /\ duplicates' = (b \ Unusable) \ u
            /\ refused' = b \cap Unusable
    BY <1>2 DEF SelectBatch, BatchOf
  <2>2. /\ step = "next" /\ step' = "store"
        /\ UNCHANGED <<dropZone, failures, library, records, copied, done, skipped, remove, faults>>
    BY <1>2 DEF SelectBatch
  <2>3. copied = {} /\ done = {} /\ skipped = {}
    BY <2>2
  <2> QED BY <2>1, <2>2, <2>3
<1> QED BY <1>1, <1>2

LEMMA StoreSteps ==
  ASSUME VaultInv, NEW f \in Files,
         ReuseExisting(f) \/ RefuseUntracked(f) \/ BeginCopy(f) \/ EndCopy(f) \/ CopyFails(f)
  PROVE  VaultInv'
<1> USE DEF VaultInv, VaultTypeOK, KnownIsKept, Steps, SetVault, Fault, Refuse
<1>1. CASE ReuseExisting(f) BY <1>1 DEF ReuseExisting, Storing, Stored, Unstored
<1>2. CASE RefuseUntracked(f) BY <1>2 DEF RefuseUntracked, Storing, Unstored
<1>3. CASE BeginCopy(f) BY <1>3 DEF BeginCopy, Storing
<1>4. CASE EndCopy(f) BY <1>4 DEF EndCopy, Copying
<1>5. CASE CopyFails(f) BY <1>5 DEF CopyFails, Copying
<1> QED BY <1>1, <1>2, <1>3, <1>4, <1>5

LEMMA PersistSteps ==
  ASSUME VaultInv, NEW f \in Files,
         PersistExisting(f) \/ InsertAsset(f) \/ InsertSkipped(f) \/ InsertFails(f) \/ PersistDuplicate(f)
  PROVE  VaultInv'
<1> USE DEF VaultInv, VaultTypeOK, KnownIsKept, Steps, Fault, Refuse, Persisting, Recorded
<1>1. CASE PersistExisting(f) BY <1>1 DEF PersistExisting
<1>2. CASE InsertAsset(f) BY <1>2 DEF InsertAsset
<1>3. CASE InsertFails(f) BY <1>3 DEF InsertFails
<1>4. CASE PersistDuplicate(f) BY <1>4 DEF PersistDuplicate
<1>5. CASE InsertSkipped(f) BY <1>5 DEF InsertSkipped
<1> QED BY <1>1, <1>2, <1>3, <1>4, <1>5

LEMMA CleanSteps ==
  ASSUME VaultInv,
         \/ \E f \in Files : Clean(f) \/ MoveFailed(f)
         \/ \E c \in Contents : RemoveCopy(c)
  PROVE  VaultInv'
<1> USE DEF VaultInv, VaultTypeOK, KnownIsKept, Steps, Fault, SetVault, library
<1>1. ASSUME NEW f \in Files, Clean(f) PROVE VaultInv' BY <1>1 DEF Clean
<1>2. ASSUME NEW f \in Files, MoveFailed(f) PROVE VaultInv' BY <1>2 DEF MoveFailed
<1>3. ASSUME NEW c \in Contents, RemoveCopy(c) PROVE VaultInv' BY <1>3 DEF RemoveCopy
<1> QED BY <1>1, <1>2, <1>3

\* Every reachable state satisfies the inductive invariant.
THEOREM VaultInvariant == VaultSpec => []VaultInv
<1>1. VaultInv /\ [VaultNext]_vaultVars => VaultInv'
  <2> SUFFICES ASSUME VaultInv, [VaultNext]_vaultVars PROVE VaultInv'
    OBVIOUS
  <2>1. CASE UNCHANGED vaultVars
    BY <2>1 DEF VaultInv, VaultTypeOK, KnownIsKept, vaultVars, library, context
  <2>2. CASE VaultNext
    BY <2>2, StageSteps, SelectSteps, StoreSteps, PersistSteps, CleanSteps DEF VaultNext
  <2> QED BY <2>1, <2>2
<1> QED BY VaultInitInv, <1>1, PTL DEF VaultSpec

\* A file that later runs skip has an asset whose vault copy is whole, whatever stops,
\* torn copies, failed inserts and removals came between, unless its insert was committed
\* and reported an error.
THEOREM KnownIsKeptCorrect == VaultSpec => []KnownIsKept
<1>1. VaultInv => KnownIsKept
  BY DEF VaultInv
<1> QED BY <1>1, VaultInvariant, PTL

\* A run takes a file out of the drop zone only when it is recorded or among the failures,
\* or its insert was skipped and its content is whole in the vault.
THEOREM NothingDroppedCorrect == VaultSpec => NothingDropped
<1> DEFINE Accounted(f) == \/ f \in provenance' \cup failures'
                           \/ f \in skipped /\ vault'[ContentOf[f]] = "whole"
<1>1. ASSUME VaultInv, VaultNext, step # "idle"
      PROVE  \A f \in dropZone \ dropZone' : Accounted(f)
  <2>1. CASE \E f \in Files : Clean(f)
    <3>1. PICK f \in Files : Clean(f)
      BY <2>1
    <3>2. /\ f \in done /\ dropZone \ dropZone' \subseteq {f}
          /\ vault' = vault /\ provenance' = provenance
      BY <3>1 DEF Clean, library
    <3> QED BY <1>1, <3>2 DEF VaultInv
  <2>2. CASE \E f \in Files : MoveFailed(f)
    BY <1>1, <2>2 DEF MoveFailed
  <2>3. CASE UNCHANGED dropZone
    BY <2>3
  <2>4. UNCHANGED dropZone \/ \E f \in Files : Clean(f) \/ MoveFailed(f)
    BY <1>1 DEF VaultNext, Collect, SelectBatch, EndRun, EndStorage, EndPersist, BeginMove,
                EndBatch, StopRun, ClearDropZone, ReuseExisting, RefuseUntracked, BeginCopy,
                EndCopy, CopyFails, Storing, Copying, Persisting, PersistExisting, InsertAsset,
                InsertSkipped, InsertFails, PersistDuplicate, RemoveCopy
  <2> QED BY <2>1, <2>2, <2>3, <2>4
<1>2. VaultInv /\ [VaultNext]_vaultVars
        => [step # "idle" => \A f \in dropZone \ dropZone' : Accounted(f)]_vaultVars
  BY <1>1
<1> QED BY <1>2, VaultInvariant, PTL DEF VaultSpec, NothingDropped

===============================================================================
