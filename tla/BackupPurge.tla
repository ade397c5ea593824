------------------------------ MODULE BackupPurge ------------------------------
(***************************************************************************)
(* When may the metadata of a deleted chunk be purged without breaking a   *)
(* backup?  Chunks lose their references, are tombstoned and purged; the   *)
(* backup coordinator checkpoints, uploads, reconciles its catalog and     *)
(* prunes.  The purge is guarded by the quarantine and by the catalog, and *)
(* both are only as good as the order and the age of what was read.        *)
(*                                                                         *)
(* Code: metadata/chunk_tombstone.go, metadata/backup_coordinator.go,      *)
(* metadata/backup_catalog.go.                                             *)
(***************************************************************************)
EXTENDS Integers, FiniteSets

CONSTANTS
    Chunks,         \* chunk ids
    Workers,        \* concurrent tombstone and purge callers
    Backups,        \* backup ids
    None,           \* an absent catalog, listing or run
    Quarantine,     \* chunkTombstoneQuarantine
    CatalogMaxAge,  \* chunkCatalogMaxAge
    MaxUpload,      \* longest time from the start of a run to its last effect
    MaxScan,        \* longest time from a reference snapshot to its last use
    Retention,      \* cfg.Retention
    MaxTime,        \* bound on the clock
    Unfenced        \* do attachments race with tombstones, as extent rows do?

ASSUME TimingAssumption ==
    /\ Quarantine \in Nat /\ CatalogMaxAge \in Nat
    /\ MaxUpload \in Nat /\ MaxScan \in Nat /\ MaxTime \in Nat
    /\ CatalogMaxAge + 2 * MaxUpload < Quarantine

ASSUME ConfigAssumption ==
    /\ Retention \in Nat \ {0}
    /\ Unfenced \in BOOLEAN
    /\ None \notin Backups

VARIABLES
    now,      \* the wall clock
    chunk,    \* chunk id -> state of its rows
    deleted,  \* chunk id -> DeletedAt of its tombstone
    refs,     \* the chunks some inode row references
    worker,   \* worker -> the tombstone or purge it is working on
    backup,   \* backup id -> the artifact
    run,      \* the backup of the leader's active run
    listing,  \* what the active run listed in the repository, and when
    catalog   \* the durable catalog state

chunks == <<chunk, deleted, refs>>
backups == <<backup, run, listing, catalog>>
vars == <<now, chunk, deleted, refs, worker, backup, run, listing, catalog>>

Idle == [pc |-> "idle", cur |-> None, since |-> 0, at |-> 0,
         seenCatalog |-> None]
NoBackup == [stage |-> "none", at |-> 0, refs |-> {}]
Exists(c) == chunk[c] \in {"live", "tombstoned"}
Committed == {b \in Backups : backup[b].stage = "committed"}

Init ==
    /\ now = 0
    /\ chunk = [c \in Chunks |-> "none"]
    /\ deleted = [c \in Chunks |-> 0]
    /\ refs = {}
    /\ worker = [w \in Workers |-> Idle]
    /\ backup = [b \in Backups |-> NoBackup]
    /\ run = None
    /\ listing = None
    /\ catalog = None

-----------------------------------------------------------------------------
(* References *)

\* allocateChunksConditionally creates the chunk row and its reference at once.
Allocate(c) ==
    /\ chunk[c] = "none"
    /\ chunk' = [chunk EXCEPT ![c] = "live"]
    /\ refs' = refs \cup {c}
    /\ UNCHANGED <<now, deleted, worker, backups>>

\* An overwrite, an unlink or a compensation drops the last reference.
Detach(c) ==
    /\ c \in refs
    /\ refs' = refs \ {c}
    /\ UNCHANGED <<now, chunk, deleted, worker, backups>>

Tombstoning(c) ==
    \E w \in Workers :
        worker[w].cur = c /\ worker[w].pc \in {"tombstone", "tombstoneCond"}

\* A V1 update attaches a live chunk.  The commit of an extent row attaches any,
\* and neither is kept apart from a tombstone under way: that is Unfenced.
Attach(c) ==
    /\ Exists(c) /\ c \notin refs
    /\ Unfenced \/ (chunk[c] = "live" /\ ~Tombstoning(c))
    /\ refs' = refs \cup {c}
    /\ UNCHANGED <<now, chunk, deleted, worker, backups>>

-----------------------------------------------------------------------------
(* Tombstone and purge: snapshot, read, conditional batch *)

SetWorker(w, st) == worker' = [worker EXCEPT ![w] = st]

TombstoneWithoutCandidate(w, c) ==
    /\ worker[w].pc = "idle"
    /\ chunk[c] = "live" /\ c \notin refs
    /\ SetWorker(w, [Idle EXCEPT !.pc = "tombstone", !.since = now])
    /\ UNCHANGED <<now, chunks, backups>>

\* tombstoneChunk: the snapshot does not hold the chunk.
TombstoneSnapshot(w, c) ==
    /\ worker[w].pc = "idle"
    /\ chunk[c] = "live" /\ c \notin refs
    /\ SetWorker(w, [Idle EXCEPT !.pc = "tombstone", !.cur = c, !.since = now])
    /\ UNCHANGED <<now, chunks, backups>>

\* tombstoneChunkWithReferences: DeletedAt is taken before the batch.
TombstoneRead(w) ==
    /\ worker[w].pc = "tombstone"
    /\ SetWorker(w, IF chunk[worker[w].cur] = "live"
                    THEN [worker[w] EXCEPT !.pc = "tombstoneCond", !.at = now]
                    ELSE Idle)
    /\ UNCHANGED <<now, chunks, backups>>

TombstoneApply(w) ==
    /\ worker[w].pc = "tombstoneCond"
    /\ LET c == worker[w].cur
           holds == chunk[c] = "live"
       IN  /\ chunk' = IF holds THEN [chunk EXCEPT ![c] = "tombstoned"] ELSE chunk
           /\ deleted' = IF holds THEN [deleted EXCEPT ![c] = worker[w].at]
                         ELSE deleted
    /\ SetWorker(w, Idle)
    /\ UNCHANGED <<now, refs, backups>>

\* PurgeChunk and ChunkGC phase 4: the second snapshot does not hold the chunk.
PurgeSnapshot(w, c) ==
    /\ worker[w].pc = "idle"
    /\ chunk[c] = "tombstoned" /\ c \notin refs
    /\ SetWorker(w, [Idle EXCEPT !.pc = "purge", !.cur = c, !.since = now])
    /\ UNCHANGED <<now, chunks, backups>>

\* canPurgeWithCatalog: a usable catalog is present, not empty and fresh ...
CatalogOfAnyAge(cat) == cat # None /\ cat.ids # {} /\ cat.at <= now
CatalogUsable(cat) ==
    /\ cat # None /\ cat.ids # {}
    /\ cat.at <= now /\ now - cat.at <= CatalogMaxAge

\* ... and every backup it lists is newer than the tombstone.
AllBackupsNewer(cat, t) == \A b \in cat.ids : backup[b].at > t

\* purgeChunkIfEligible and capturePurgeCatalog up to the conditional batch.
PurgeRead(w) ==
    /\ worker[w].pc = "purge"
    /\ LET c == worker[w].cur
           eligible == /\ chunk[c] = "tombstoned"
                       /\ now >= deleted[c] + Quarantine
                       /\ CatalogUsable(catalog)
                       /\ AllBackupsNewer(catalog, deleted[c])
       IN  SetWorker(w, IF eligible
                        THEN [worker[w] EXCEPT !.pc = "purgeCond",
                                !.at = deleted[c], !.seenCatalog = catalog]
                        ELSE Idle)
    /\ UNCHANGED <<now, chunks, backups>>

\* The batch is conditional on the tombstone and the catalog as read.
PurgeApply(w) ==
    /\ worker[w].pc = "purgeCond"
    /\ LET c == worker[w].cur
           holds == /\ chunk[c] = "tombstoned" /\ deleted[c] = worker[w].at
                    /\ catalog = worker[w].seenCatalog
       IN  chunk' = IF holds THEN [chunk EXCEPT ![c] = "purged"] ELSE chunk
    /\ SetWorker(w, Idle)
    /\ UNCHANGED <<now, deleted, refs, backups>>

\* The caller is cancelled or its process stops between two steps.
StopWorker(w) ==
    /\ worker[w].pc # "idle"
    /\ SetWorker(w, Idle)
    /\ UNCHANGED <<now, chunks, backups>>

-----------------------------------------------------------------------------
(* The backup coordinator *)

\* run: startedAt, which becomes the manifest's CreatedAt, is taken before the
\* checkpoint.
BackupStart(b) ==
    /\ run = None
    /\ backup[b].stage = "none"
    /\ backup' = [backup EXCEPT ![b] = [@ EXCEPT !.stage = "started", !.at = now]]
    /\ run' = b
    /\ UNCHANGED <<now, chunks, worker, listing, catalog>>

\* createCheckpoint: a consistent image of the store.
BackupCheckpoint ==
    /\ run # None /\ backup[run].stage = "started"
    /\ backup' = [backup EXCEPT ![run] =
          [@ EXCEPT !.stage = "uploading", !.refs = refs]]
    /\ UNCHANGED <<now, chunks, worker, run, listing, catalog>>

\* Publish: may also land after the run was cancelled.
BackupPublish(b) ==
    /\ backup[b].stage = "uploading"
    /\ backup' = [backup EXCEPT ![b].stage = "committed"]
    /\ UNCHANGED <<now, chunks, worker, run, listing, catalog>>

\* The run ends or fails, or the leadership and with it the term moves on: the
\* catalog replacement of the old run is refused by the term fence.
BackupEnd ==
    /\ run # None \/ listing # None
    /\ run' = None /\ listing' = None
    /\ backup' = IF run # None /\ backup[run].stage = "started"
                 THEN [backup EXCEPT ![run].stage = "lost"] ELSE backup
    /\ UNCHANGED <<now, chunks, worker, catalog>>

\* An upload nobody waits for any more dies with its process.
UploadLost(b) ==
    /\ backup[b].stage = "uploading" /\ b # run
    /\ backup' = [backup EXCEPT ![b].stage = "lost"]
    /\ UNCHANGED <<now, chunks, worker, run, listing, catalog>>

\* ListCommitted: every published artifact that was not deleted.
NewestListed ==
    {b \in Committed : \A d \in Committed : backup[d].at <= backup[b].at}
ListCommitted == Committed

\* reconcileRepository, preflight or before and after pruning: the listing ...
ReconcileList ==
    /\ listing = None
    /\ listing' = [ids |-> ListCommitted, at |-> now]
    /\ UNCHANGED <<now, chunks, worker, backup, run, catalog>>

\* ... and, after it was verified, the replacement, dated by the clock at that
\* moment.
ReconcileReplace ==
    /\ listing # None
    /\ catalog' = [ids |-> listing.ids, at |-> now]
    /\ listing' = None
    /\ UNCHANGED <<now, chunks, worker, backup, run>>

\* prune: an artifact that is not among the Retention newest is deleted.
BackupPrune(b) ==
    /\ run \in Committed
    /\ b \in Committed \ {run}
    /\ Cardinality({d \in Committed : backup[d].at >= backup[b].at}) > Retention
    /\ backup' = [backup EXCEPT ![b].stage = "pruned"]
    /\ UNCHANGED <<now, chunks, worker, run, listing, catalog>>

-----------------------------------------------------------------------------
\* Time advances while no upload or reconciliation exceeds MaxUpload, and no
\* snapshot is used for longer than MaxScan.
Tick ==
    /\ now < MaxTime
    /\ \A b \in Backups : backup[b].stage \in {"started", "uploading"} =>
          now < backup[b].at + MaxUpload
    /\ listing # None => now < listing.at + MaxUpload
    /\ \A w \in Workers : worker[w].pc # "idle" => now < worker[w].since + MaxScan
    /\ now' = now + 1
    /\ UNCHANGED <<chunks, worker, backups>>

ChunkStep(c) == Allocate(c) \/ Detach(c) \/ Attach(c)

WorkerStep(w) ==
    \/ TombstoneRead(w) \/ TombstoneApply(w)
    \/ PurgeRead(w) \/ PurgeApply(w) \/ StopWorker(w)
    \/ \E c \in Chunks : TombstoneSnapshot(w, c) \/ PurgeSnapshot(w, c)

BackupStep(b) ==
    BackupStart(b) \/ BackupPublish(b) \/ UploadLost(b) \/ BackupPrune(b)

RunStep ==
    BackupCheckpoint \/ BackupEnd \/ ReconcileList \/ ReconcileReplace

Next ==
    \/ \E c \in Chunks : ChunkStep(c)
    \/ \E w \in Workers : WorkerStep(w)
    \/ \E b \in Backups : BackupStep(b)
    \/ RunStep
    \/ Tick

Spec == Init /\ [][Next]_vars

-----------------------------------------------------------------------------
(* Properties *)

Catalogs == [ids : SUBSET Backups, at : Nat]
WorkerStates ==
    [pc : {"idle", "tombstone", "tombstoneCond", "purge", "purgeCond"},
     cur : Chunks \cup {None}, since : Nat, at : Nat,
     seenCatalog : Catalogs \cup {None}]
Artifacts ==
    [stage : {"none", "started", "uploading", "committed", "pruned", "lost"},
     at : Nat, refs : SUBSET Chunks]

\* The type invariant; a worker that is not idle works on a chunk.
TypeOK ==
    /\ now \in Nat
    /\ chunk \in [Chunks -> {"none", "live", "tombstoned", "purged"}]
    /\ deleted \in [Chunks -> Nat]
    /\ refs \in SUBSET Chunks
    /\ worker \in [Workers -> WorkerStates]
    /\ \A w \in Workers : worker[w].pc # "idle" => worker[w].cur \in Chunks
    /\ backup \in [Backups -> Artifacts]
    /\ run \in Backups \cup {None}
    /\ listing \in Catalogs \cup {None}
    /\ catalog \in Catalogs \cup {None}

\* The catalog the purge relies on omits only backups that started shortly
\* before it was reconciled, although artifacts of cancelled runs appear late
\* and the listing is older than the reconciliation time recorded with it.
CatalogComplete ==
    catalog # None =>
        \A b \in Committed :
            backup[b].at + 2 * MaxUpload < catalog.at => b \in catalog.ids

\* No backup in the repository, however late it was published, references a
\* purged chunk: a tombstone retains the payload "until every retained backup
\* is too new to reference the original chunk" (ChunkTombstone).
RetainedBackupsComplete ==
    \A b \in Committed : \A c \in backup[b].refs : Exists(c)

=============================================================================
