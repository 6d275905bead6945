---------------------------- MODULE IngestionVault ----------------------------
(***************************************************************************)
(* What one run of the ingestion pipeline does to the drop zone, the vault *)
(* and the asset rows (services/ingestion/pipeline_orchestrator.py,        *)
(* storage_manager.py, services/persistence/asset_repository.py): each     *)
(* batch is hashed, copied to the vault under the hash of its content,     *)
(* persisted, and taken out of the drop zone.  The run may stop after any  *)
(* step, and a copy or a commit may fail.                                  *)
(*                                                                         *)
(* One run at a time.  Generic runs do not overlap (OneGenericJob of       *)
(* SourceIntake); of an explicit run beside this one there is only the     *)
(* asset row that it commits first (InsertSkipped).  A vault path stands   *)
(* for the content it is named after; that two extensions of one content   *)
(* give two paths is left out.                                             *)
(***************************************************************************)
EXTENDS Integers, FiniteSets

CONSTANTS
  Files,        \* the files of the source
  Contents,     \* what files contain: their SHA-256
  ContentOf,    \* [Files -> Contents]
  Unusable,     \* files the filter rejects or the hasher cannot read
  BatchSize,    \* ingest_batch_size
  MaxFaults     \* bound: copies, commits and unlinks that fail

ASSUME ContentAssumption == ContentOf \in [Files -> Contents] /\ Unusable \subseteq Files
ASSUME VaultBounds == BatchSize \in Nat \ {0} /\ MaxFaults \in Nat

VARIABLES
  dropZone,    \* files in the drop zone
  failures,    \* files moved to the ingest failures, for review
  vault,       \* what the path of each content holds
  assets,      \* contents with an asset row
  provenance,  \* files with a provenance row: later runs skip them
  step,        \* where the run is
  records,     \* processing_records
  batch,       \* current_batch_records
  unique,      \* dedup_result.unique_files that are not stored or refused yet
  copied,      \* storage_result.copied_files that are not persisted yet
  duplicates,  \* dedup_result.duplicate_files that are not persisted yet
  done,        \* inserted, existing and successful duplicates: to be cleaned
  skipped,     \* those of them counted as existing because their insert was refused
  refused,     \* files of the batch that failed
  remove,      \* vault copies of inserts that failed
  doubtful,    \* history: contents whose insert was committed and reported an error
  faults

library   == <<vault, assets, provenance, doubtful>>
context   == <<records, batch, unique, copied, duplicates, done, skipped, refused, remove>>
vaultVars == <<dropZone, failures, library, step, context, faults>>

Steps == {"idle", "next", "store", "copying", "persist", "clean", "move"}

VaultInit ==
  /\ dropZone = {} /\ failures = {} /\ provenance = {} /\ assets = {}
  /\ vault = [c \in Contents |-> "absent"]
  /\ step = "idle" /\ records = {} /\ batch = {} /\ unique = {} /\ copied = {}
  /\ duplicates = {} /\ done = {} /\ skipped = {} /\ refused = {} /\ remove = {}
  /\ doubtful = {} /\ faults = 0

Fault == faults < MaxFaults /\ faults' = faults + 1
SetVault(c, held) == vault' = [vault EXCEPT ![c] = held]
Refuse(f) == refused' = refused \cup {f}

-----------------------------------------------------------------------------
(* Selecting files and batches.                                              *)

\* The skip-known scan of the source.
Unknown == Files \ provenance

\* _collect_input: the drop zone must be empty; some of the unknown files are staged
\* (the source limit, files that are not ready and staging failures take out others).
Collect ==
  /\ step = "idle" /\ dropZone = {}
  /\ \E staged \in SUBSET Unknown :
       /\ staged # {}
       /\ dropZone' = staged /\ records' = staged
  /\ step' = "next"
  /\ UNCHANGED <<failures, library, batch, unique, copied, duplicates, done, skipped, refused,
                 remove, faults>>

BatchOf(n) == {b \in SUBSET records : Cardinality(b) = n}

\* _select_next_batch: of the files with one content the first is unique, in the order of
\* the drop zone.
SelectBatch ==
  /\ step = "next" /\ records # {}
  /\ \E b \in BatchOf(IF Cardinality(records) < BatchSize THEN Cardinality(records)
                      ELSE BatchSize) :
     \E u \in SUBSET (b \ Unusable) :
       /\ \A f \in b \ Unusable : \E g \in u : ContentOf[g] = ContentOf[f]
       /\ \A f, g \in u : ContentOf[f] = ContentOf[g] => f = g
       /\ batch' = b /\ unique' = u /\ duplicates' = (b \ Unusable) \ u
       /\ refused' = b \cap Unusable
  /\ step' = "store"
  /\ UNCHANGED <<dropZone, failures, library, records, copied, done, skipped, remove, faults>>

EndRun ==
  /\ step = "next" /\ records = {}
  /\ step' = "idle"
  /\ UNCHANGED <<dropZone, failures, library, context, faults>>

-----------------------------------------------------------------------------
(* copy_unique_files_to_vault.                                               *)

Storing(f) == /\ step = "store" /\ f \in unique
              /\ UNCHANGED <<dropZone, failures, assets, provenance, doubtful, records, batch,
                             duplicates, done, skipped, remove>>
Stored(f)  == unique' = unique \ {f} /\ copied' = copied \cup {f} /\ UNCHANGED refused
Unstored(f) == unique' = unique \ {f} /\ Refuse(f) /\ UNCHANGED copied

\* _verify_existing_asset_vault_file: the size and the hash are those of the asset.
ReuseExisting(f) ==
  /\ Storing(f) /\ ContentOf[f] \in assets
  /\ IF vault[ContentOf[f]] = "whole" THEN Stored(f) ELSE Unstored(f)
  /\ UNCHANGED <<vault, step, faults>>

\* Mutant: a path that exists is taken for the copy.
AdoptUntracked(f) ==
  /\ Storing(f) /\ ContentOf[f] \notin assets /\ vault[ContentOf[f]] # "absent"
  /\ Stored(f)
  /\ UNCHANGED <<vault, step, faults>>

\* untracked_vault_path_conflict: a path without an asset is never used.
RefuseUntracked(f) ==
  /\ Storing(f) /\ ContentOf[f] \notin assets /\ vault[ContentOf[f]] # "absent"
  /\ Unstored(f)
  /\ UNCHANGED <<vault, step, faults>>

BeginCopy(f) ==
  /\ Storing(f) /\ ContentOf[f] \notin assets /\ vault[ContentOf[f]] = "absent"
  /\ SetVault(ContentOf[f], "torn")
  /\ unique' = unique \ {f} /\ copied' = copied \cup {f}
  /\ step' = "copying"
  /\ UNCHANGED <<refused, faults>>

\* The file being copied is the one whose vault path is torn.
Copying(f) == /\ step = "copying" /\ f \in copied /\ vault[ContentOf[f]] = "torn"
              /\ UNCHANGED <<dropZone, failures, assets, provenance, doubtful, records, batch, unique,
                             duplicates, done, skipped, remove>>

EndCopy(f) ==
  /\ Copying(f)
  /\ SetVault(ContentOf[f], "whole")
  /\ step' = "store"
  /\ UNCHANGED <<copied, refused, faults>>

\* The sizes differ and the copy is removed, or an OSError leaves it as it is.
CopyFails(f) ==
  /\ Copying(f) /\ Fault
  /\ \/ SetVault(ContentOf[f], "absent")
     \/ UNCHANGED vault
  /\ copied' = copied \ {f} /\ Refuse(f)
  /\ step' = "store"

EndStorage ==
  /\ step = "store" /\ unique = {}
  /\ step' = "persist"
  /\ UNCHANGED <<dropZone, failures, library, context, faults>>

-----------------------------------------------------------------------------
(* persist_copied_files and persist_duplicate_provenance.                    *)

Persisting(f) == /\ step = "persist"
                 /\ UNCHANGED <<dropZone, failures, vault, step, records, batch, unique>>
Recorded(f)   == provenance' = provenance \cup {f} /\ done' = done \cup {f}

\* The asset is there: only the provenance row is added.
PersistExisting(f) ==
  /\ Persisting(f) /\ f \in copied /\ ContentOf[f] \in assets
  /\ copied' = copied \ {f}
  /\ \/ Recorded(f) /\ UNCHANGED <<refused, faults>>
     \/ Fault /\ Refuse(f) /\ UNCHANGED <<provenance, done>>
  /\ UNCHANGED <<assets, doubtful, duplicates, skipped, remove>>

\* The asset and its provenance are one commit.
InsertAsset(f) ==
  /\ Persisting(f) /\ f \in copied /\ ContentOf[f] \notin assets
  /\ copied' = copied \ {f} /\ Recorded(f)
  /\ assets' = assets \cup {ContentOf[f]}
  /\ UNCHANGED <<doubtful, duplicates, skipped, refused, remove, faults>>

\* An IntegrityError counts the file as existing: no provenance, no failure, and its copy
\* stays.  The row of the content is that of another run, or a constraint of the new
\* rows is violated and there is none.
InsertSkipped(f) ==
  /\ Persisting(f) /\ f \in copied /\ ContentOf[f] \notin assets
  /\ Fault
  /\ copied' = copied \ {f} /\ done' = done \cup {f} /\ skipped' = skipped \cup {f}
  /\ assets' \in {assets, assets \cup {ContentOf[f]}}
  /\ UNCHANGED <<provenance, doubtful, duplicates, refused, remove>>

\* Another error: should_remove_vault_copy; the row may have been committed when only the answer is lost.
InsertFails(f) ==
  /\ Persisting(f) /\ f \in copied /\ ContentOf[f] \notin assets
  /\ Fault
  /\ copied' = copied \ {f} /\ Refuse(f) /\ remove' = remove \cup {ContentOf[f]}
  /\ \/ UNCHANGED <<assets, provenance, doubtful>>
     \/ /\ assets' = assets \cup {ContentOf[f]} /\ provenance' = provenance \cup {f}
        /\ doubtful' = doubtful \cup {ContentOf[f]}
  /\ UNCHANGED <<done, duplicates, skipped>>

\* Mutant: a duplicate is cleaned without a provenance row.
ForgetDuplicate(f) ==
  /\ Persisting(f) /\ copied = {} /\ f \in duplicates
  /\ duplicates' = duplicates \ {f}
  /\ done' = done \cup {f}
  /\ UNCHANGED <<provenance, doubtful, refused, assets, copied, skipped, remove, faults>>

\* The foreign key refuses a duplicate whose original has no asset row.
PersistDuplicate(f) ==
  /\ Persisting(f) /\ copied = {} /\ f \in duplicates
  /\ duplicates' = duplicates \ {f}
  /\ \/ ContentOf[f] \in assets /\ Recorded(f) /\ UNCHANGED <<refused, faults>>
     \/ ContentOf[f] \notin assets /\ Refuse(f) /\ UNCHANGED <<provenance, done, faults>>
     \/ Fault /\ Refuse(f) /\ UNCHANGED <<provenance, done>>
  /\ UNCHANGED <<assets, doubtful, copied, skipped, remove>>

EndPersist ==
  /\ step = "persist" /\ copied = {} /\ duplicates = {}
  /\ step' = "clean"
  /\ UNCHANGED <<dropZone, failures, library, context, faults>>

-----------------------------------------------------------------------------
(* _cleanup_drop_zone_stage: files that succeeded, then those that failed.   *)

Clean(f) ==
  /\ step = "clean" /\ f \in done
  /\ done' = done \ {f} /\ skipped' = skipped \ {f}
  /\ \/ dropZone' = dropZone \ {f} /\ UNCHANGED faults
     \/ Fault /\ UNCHANGED dropZone
  /\ UNCHANGED <<failures, library, step, records, batch, unique, copied, duplicates, refused,
                 remove>>

\* _remove_vault_copy_for_failed_insert; an unlink that fails is passed over.
RemoveCopy(c) ==
  /\ step = "clean" /\ done = {} /\ c \in remove
  /\ remove' = remove \ {c}
  /\ \/ SetVault(c, "absent") /\ UNCHANGED faults
     \/ Fault /\ UNCHANGED vault
  /\ UNCHANGED <<dropZone, failures, assets, provenance, doubtful, step, records, batch, unique,
                 copied, duplicates, done, skipped, refused>>

BeginMove ==
  /\ step = "clean" /\ done = {} /\ remove = {}
  /\ step' = "move"
  /\ UNCHANGED <<dropZone, failures, library, context, faults>>

\* move_record_to_ingest_failures.
MoveFailed(f) ==
  /\ step = "move" /\ f \in refused
  /\ refused' = refused \ {f}
  /\ \/ /\ dropZone' = dropZone \ {f} /\ failures' = failures \cup {f}
        /\ UNCHANGED faults
     \/ Fault /\ UNCHANGED <<dropZone, failures>>
  /\ UNCHANGED <<library, step, records, batch, unique, copied, duplicates, done, skipped, remove>>

\* _run_batch_loop drops the records of the batch, wherever their files are now.
EndBatch ==
  /\ step = "move" /\ refused = {}
  /\ records' = records \ batch /\ batch' = {}
  /\ step' = "next"
  /\ UNCHANGED <<dropZone, failures, library, unique, copied, duplicates, done, skipped, refused,
                 remove, faults>>

-----------------------------------------------------------------------------
\* The process stops, or a stage raises and the run ends failed.
StopRun ==
  /\ step # "idle"
  /\ step' = "idle" /\ records' = {} /\ batch' = {} /\ unique' = {} /\ copied' = {}
  /\ duplicates' = {} /\ done' = {} /\ skipped' = {} /\ refused' = {} /\ remove' = {}
  /\ UNCHANGED <<dropZone, failures, library, faults>>

\* Nothing but an operator empties a drop zone that a run has left.
ClearDropZone ==
  /\ step = "idle" /\ dropZone # {}
  /\ dropZone' = {}
  /\ UNCHANGED <<failures, library, step, context, faults>>

\* Deduplication, copies, rows and files of one run, in the order of the stages.
VaultNext ==
  \/ Collect \/ SelectBatch \/ EndRun \/ EndStorage \/ EndPersist \/ BeginMove \/ EndBatch
  \/ StopRun \/ ClearDropZone
  \/ \E f \in Files :
       \/ ReuseExisting(f) \/ RefuseUntracked(f) \/ BeginCopy(f) \/ EndCopy(f) \/ CopyFails(f)
       \/ PersistExisting(f) \/ InsertAsset(f) \/ InsertSkipped(f) \/ InsertFails(f)
       \/ PersistDuplicate(f) \/ Clean(f) \/ MoveFailed(f)
  \/ \E c \in Contents : RemoveCopy(c)

VaultSpec == VaultInit /\ [][VaultNext]_vaultVars

-----------------------------------------------------------------------------
(* Properties.                                                               *)

\* The lists of the context are disjoint pieces of the batch, each empty when its stage is over.
VaultTypeOK ==
  /\ vault \in [Contents -> {"absent", "torn", "whole"}]
  /\ assets \subseteq Contents /\ provenance \subseteq Files /\ failures \subseteq Files
  /\ step \in Steps /\ faults \in 0 .. MaxFaults
  /\ batch \subseteq records /\ records \subseteq Files /\ remove \subseteq Contents
  /\ unique \cup copied \cup duplicates \cup done \cup refused \subseteq batch
  /\ unique \cap copied = {} /\ (unique \cup copied) \cap duplicates = {}
  /\ (unique \cup copied \cup duplicates) \cap (done \cup refused) = {}
  /\ done \cap refused = {} /\ skipped \subseteq done
  /\ step \in {"persist", "clean", "move"} => unique = {}
  /\ step \in {"clean", "move"} => copied \cup duplicates = {}
  /\ step = "move" => done = {}
  /\ step \in {"idle", "next"} => batch = {} /\ remove = {}

\* What a later run skips is kept: a file with a provenance row has an asset whose vault
\* path holds all of its content.  No stop between a copy and its row, torn copy, failed
\* insert or removal of a copy may make a recorded file one that is nowhere; only an insert
\* that was committed and reported an error does.
KnownIsKept ==
  /\ \A f \in provenance : ContentOf[f] \in assets
  /\ \A c \in assets \ doubtful : vault[c] = "whole"

\* What KnownIsKept rests on: a copied file is whole or the one being copied, contents
\* are copied once in a batch, and no copy that is to be removed belongs to an asset.
VaultInv ==
  /\ VaultTypeOK /\ KnownIsKept
  /\ \A f \in copied : vault[ContentOf[f]] # "whole" =>
       /\ step = "copying" /\ ContentOf[f] \notin assets
       /\ \A g \in copied : g # f => vault[ContentOf[g]] = "whole"
  /\ \A f, g \in unique \cup copied : ContentOf[f] = ContentOf[g] => f = g
  /\ \A f \in unique \cup copied : ContentOf[f] \notin remove
  /\ remove # {} => step \in {"persist", "clean"}
  /\ remove \cap assets \subseteq doubtful
  /\ done \ skipped \subseteq provenance
  /\ \A f \in skipped : vault[ContentOf[f]] = "whole"

\* A run takes a file out of the drop zone only after it is recorded or among the failures;
\* the file of a skipped insert, which is neither, still leaves its content whole in the
\* vault.
NothingDropped ==
  [][step # "idle" => \A f \in dropZone \ dropZone' :
       \/ f \in provenance' \cup failures'
       \/ f \in skipped /\ vault'[ContentOf[f]] = "whole"]_vaultVars

\* The vault is immutable: a copy that an asset names is never touched again, whatever
\* later batches and runs do with files of the same content.  The removal of the copy of a
\* failed insert breaks this when the insert was committed.
OriginalsKept ==
  [][\A c \in assets : vault'[c] = vault[c]]_vaultVars

=============================================================================
