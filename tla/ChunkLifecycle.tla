---------------------------- MODULE ChunkLifecycle ----------------------------
(***************************************************************************)
(* The life of a chunk row in the metadata store: allocation, references   *)
(* from inode rows (V1 ChunkMap rows and V2 extent rows), logical deletion *)
(* (tombstone), and purge.  Concurrent actors: write sessions of the       *)
(* gateways, unlocked UpdateInode calls, DeleteChunk, PurgeChunk and       *)
(* ChunkGC workers.  What the backup catalog says of a purge is left open  *)
(* here; module BackupPurge models it.                                     *)
(*                                                                         *)
(* Code: metadata/chunk_tombstone.go, metadata/pebble_store.go,            *)
(* metadata/inode_v2_serving.go, metadata/production.go (ChunkGC).         *)
(***************************************************************************)
EXTENDS Integers, FiniteSets

CONSTANTS
    Inodes,         \* inode ids (recycled by the free list)
    Chunks,         \* chunk ids (minted once)
    Workers,        \* concurrent DeleteChunk / PurgeChunk / ChunkGC callers
    RowValues,      \* what a chunk row may hold (state, checksum, replicas)
    None,           \* an absent session or update
    Quarantine,     \* chunkTombstoneQuarantine
    MaxScan,        \* longest time from a reference snapshot to its last use
    MaxSession,     \* longest write session
    MaxTime,        \* bound on the clock
    PartialFlush,   \* do sessions carry untouched committed chunks over?
    StaleSetattr    \* do metadata-only updates of V2 rows race with commits?

ASSUME TimingAssumption ==
    /\ Quarantine \in Nat /\ MaxScan \in Nat
    /\ MaxSession \in Nat /\ MaxTime \in Nat
    /\ MaxSession + MaxScan < Quarantine
    /\ 2 * MaxScan < Quarantine

ASSUME ConfigAssumption ==
    /\ PartialFlush \in BOOLEAN /\ StaleSetattr \in BOOLEAN
    /\ RowValues # {}
    /\ RowValues \cap {"none", "purged"} = {}

VARIABLES
    now,      \* the wall clock
    row,      \* chunk id -> its ChunkMeta row, if it has one
    tomb,     \* chunk id -> DeletedAt of its tombstone row, -1 when absent
    tombRow,  \* chunk id -> the chunk row its tombstone was made from
    inode,    \* inode id -> its row
    session,  \* inode id -> the write session that holds its lock
    update,   \* inode id -> the row an UpdateInode in flight will write
    worker    \* worker -> its operation

store == <<row, tomb, tombRow, inode>>
writers == <<session, update>>
vars == <<now, row, tomb, tombRow, inode, session, update, worker>>

-----------------------------------------------------------------------------
(* Rows *)

\* "none": never allocated; "purged": allocated, and since removed.
Rows == RowValues \cup {"none", "purged"}
InodeRows == [kind : {"absent", "V1", "V2"}, refs : SUBSET Chunks]
DeletedInode == [kind |-> "deleted", refs |-> {}]
AbsentInode == [kind |-> "absent", refs |-> {}]
Exists(c) == row[c] \in RowValues
Live(c) == Exists(c) /\ tomb[c] = -1

\* The ChunkMap a row decodes to as InodeMeta: a V2 row decodes to an empty one.
ChunkMap(r) == IF r.kind = "V1" THEN r.refs ELSE {}

\* Mutant: a reference scan that reads every row as a ChunkMap row.
ChunkMapReferenced == UNION {ChunkMap(inode[i]) : i \in Inodes}

\* What a scan of the inode rows finds: ChunkMaps, inline extents and pages.
Referenced == UNION {inode[i].refs : i \in Inodes}

IdleWorker == [pc |-> "idle", kind |-> "none", snap |-> {}, snapAt |-> 0,
               todo |-> {}, cur |-> None, seenRow |-> "none", seenTomb |-> -1,
               at |-> 0]

Init ==
    /\ now = 0
    /\ row = [c \in Chunks |-> "none"]
    /\ tomb = [c \in Chunks |-> -1]
    /\ tombRow = [c \in Chunks |-> "none"]
    /\ inode = [i \in Inodes |-> AbsentInode]
    /\ session = [i \in Inodes |-> None]
    /\ update = [i \in Inodes |-> None]
    /\ worker = [w \in Workers |-> IdleWorker]

-----------------------------------------------------------------------------
(* Inodes and write sessions *)

\* CreateFile: a fresh V1 row without chunks.
CreateFile(i) ==
    /\ inode[i].kind = "absent"
    /\ inode' = [inode EXCEPT ![i] = [kind |-> "V1", refs |-> {}]]
    /\ UNCHANGED <<now, row, tomb, tombRow, writers, worker>>

\* Unlink of the last link: the row goes, whoever holds the advisory lock.
Unlink(i) ==
    /\ inode[i].kind # "absent"
    /\ inode' = [inode EXCEPT ![i] = AbsentInode]
    /\ UNCHANGED <<now, row, tomb, tombRow, writers, worker>>

\* A gateway takes the advisory lock and resolves the committed chunks.  A
\* flush carries the chunks it does not rewrite over to the new set.
OpenSession(i) ==
    /\ inode[i].kind # "absent"
    /\ session[i] = None
    /\ session' = [session EXCEPT ![i] =
          [stage |-> "open", since |-> now, alloc |-> {}, target |-> {},
           keep |-> IF PartialFlush THEN inode[i].refs ELSE {}]]
    /\ UNCHANGED <<now, store, update, worker>>

\* allocateChunksConditionally: one batch, conditional on the inode row, that
\* creates the chunk row and rewrites the inode row as V1 with the new
\* reference appended.  The layout of a V2 row is not part of what it decodes.
AllocateChunk(i, c) ==
    /\ session[i] # None /\ session[i].stage = "open"
    /\ inode[i].kind # "absent"
    /\ row[c] = "none"
    /\ \E v \in RowValues : row' = [row EXCEPT ![c] = v]
    /\ inode' = [inode EXCEPT ![i] =
          [kind |-> "V1", refs |-> ChunkMap(inode[i]) \cup {c}]]
    /\ session' = [session EXCEPT ![i].alloc = @ \cup {c}]
    /\ UNCHANGED <<now, tomb, tombRow, update, worker>>

\* CommitChunkRefsModelAware with an extent surface: SetInlineExtent or
\* ReplaceExtents first reads the inode row ...
CommitRead(i) ==
    /\ session[i] # None /\ session[i].stage = "open"
    /\ inode[i].kind # "absent"
    /\ \E R \in SUBSET (session[i].keep \cup session[i].alloc) :
          session' = [session EXCEPT ![i] =
              [@ EXCEPT !.stage = "put", !.target = R]]
    /\ UNCHANGED <<now, store, update, worker>>

\* ... and then puts it back as a V2 row.  Extent references are not subject to
\* the attachment check, and the put is not conditional on the row read.
CommitPut(i) ==
    /\ session[i] # None /\ session[i].stage = "put"
    /\ inode' = [inode EXCEPT ![i] =
          [kind |-> "V2", refs |-> session[i].target]]
    /\ session' = [session EXCEPT ![i] = None]
    /\ UNCHANGED <<now, row, tomb, tombRow, update, worker>>

\* The gateway fails, gives up or crashes before the commit.
AbandonSession(i) ==
    /\ session[i] # None
    /\ session' = [session EXCEPT ![i] = None]
    /\ UNCHANGED <<now, store, update, worker>>

\* UpdateInode reads the row to choose the model it writes: a ChunkMap for a V2
\* row is refused, a metadata-only update keeps the layout it read, anything
\* else writes the caller's ChunkMap R.
UpdateInodeRead(i, R) ==
    /\ update[i] = None
    /\ inode[i].kind = "V2" => R = {} /\ StaleSetattr
    /\ update' = [update EXCEPT ![i] =
          IF inode[i].kind = "V2" THEN inode[i] ELSE [kind |-> "V1", refs |-> R]]
    /\ UNCHANGED <<now, store, session, worker>>

\* prepareReferenceAwareBatch at apply time: every chunk added to the ChunkMap
\* must have a row and no tombstone, or the whole batch is refused.
UpdateInodeApply(i) ==
    /\ update[i] # None
    /\ LET added == ChunkMap(update[i]) \ ChunkMap(inode[i])
       IN  inode' = IF \A c \in added : Live(c)
                    THEN [inode EXCEPT ![i] = update[i]] ELSE inode
    /\ update' = [update EXCEPT ![i] = None]
    /\ UNCHANGED <<now, row, tomb, tombRow, session, worker>>

-----------------------------------------------------------------------------
(* Chunk rows: CommitChunk, SealChunk, UpdateChunk and ReportChunkState all  *)
(* write through this update, conditional on the row read and no tombstone.  *)

UpdateAnyChunkMetadata(c) ==
    /\ Exists(c)
    /\ \E v \in RowValues \ {row[c]} : row' = [row EXCEPT ![c] = v]
    /\ UNCHANGED <<now, tomb, tombRow, inode, writers, worker>>

updateLiveChunkMetadata(c) ==
    /\ Live(c)
    /\ \E v \in RowValues \ {row[c]} : row' = [row EXCEPT ![c] = v]
    /\ UNCHANGED <<now, tomb, tombRow, inode, writers, worker>>

-----------------------------------------------------------------------------
(* Tombstones *)

\* Has the DeletedAt t been in quarantine for its full term?
QuarantineIgnored(t) == TRUE
QuarantineOver(t) == now >= t + Quarantine

\* validateDurableChunkTombstonePair
PairValid(c) == tomb[c] # -1 /\ Exists(c) /\ row[c] = tombRow[c]

Goto(w, pc) == worker' = [worker EXCEPT ![w].pc = pc]
Abort(w) == worker' = [worker EXCEPT ![w] = IdleWorker]
Skip(w, c) == worker' = [worker EXCEPT ![w].todo = @ \ {c}]

\* DeleteChunk: one stable reference snapshot, one candidate.
DeleteChunk(w, c) ==
    /\ worker[w].pc = "idle"
    /\ row[c] # "none"
    /\ worker' = [worker EXCEPT ![w] = [IdleWorker EXCEPT
          !.pc = "tombstone", !.kind = "delete", !.todo = {c},
          !.snap = Referenced, !.snapAt = now]]
    /\ UNCHANGED <<now, store, writers>>

\* ChunkGC.Scan, phase 1: the ids of all chunk rows.
ScanChunks(w) ==
    /\ worker[w].pc = "idle"
    /\ worker' = [worker EXCEPT ![w] = [IdleWorker EXCEPT
          !.pc = "snapshotA", !.kind = "gc", !.snapAt = now,
          !.todo = {c \in Chunks : Exists(c)}]]
    /\ UNCHANGED <<now, store, writers>>

\* Phase 2: stableInodeReferenceSnapshot.  The reference epoch it is fenced
\* with is never advanced, so the fence always holds.
ScanReferencesA(w) ==
    /\ worker[w].pc = "snapshotA"
    /\ worker' = [worker EXCEPT ![w] = [@ EXCEPT !.pc = "tombstone",
          !.snapAt = now, !.snap = Referenced,
          !.todo = worker[w].todo \ Referenced]]
    /\ UNCHANGED <<now, store, writers>>

\* tombstoneChunkWithReferences up to its conditional batch.
TombstoneRead(w, c) ==
    /\ worker[w].pc = "tombstone" /\ c \in worker[w].todo
    /\ \/ /\ tomb[c] # -1
          /\ IF ~PairValid(c) \/ c \in worker[w].snap THEN Abort(w) ELSE Skip(w, c)
       \/ /\ tomb[c] = -1
          /\ c \in worker[w].snap \/ ~Exists(c)
          /\ Skip(w, c)
       \/ /\ tomb[c] = -1
          /\ c \notin worker[w].snap /\ Exists(c)
          /\ worker' = [worker EXCEPT ![w] = [@ EXCEPT !.pc = "tombstoneCond",
                !.cur = c, !.seenRow = row[c], !.at = now]]
    /\ UNCHANGED <<now, store, writers>>

\* The conditional batch: the chunk row as read and no tombstone.
TombstoneApply(w) ==
    /\ worker[w].pc = "tombstoneCond"
    /\ LET c == worker[w].cur
           holds == row[c] = worker[w].seenRow /\ tomb[c] = -1
       IN  /\ tomb' = IF holds THEN [tomb EXCEPT ![c] = worker[w].at] ELSE tomb
           /\ tombRow' = IF holds THEN [tombRow EXCEPT ![c] = row[c]] ELSE tombRow
           /\ worker' = [worker EXCEPT ![w] =
                 [@ EXCEPT !.pc = "tombstone", !.todo = worker[w].todo \ {c}]]
    /\ UNCHANGED <<now, row, inode, writers>>

TombstonesDone(w) ==
    /\ worker[w].pc = "tombstone" /\ worker[w].todo = {}
    /\ IF worker[w].kind = "gc" THEN Goto(w, "snapshotB") ELSE Abort(w)
    /\ UNCHANGED <<now, store, writers>>

-----------------------------------------------------------------------------
(* Purge *)

\* PurgeChunk: one stable reference snapshot, one candidate.
PurgeChunk(w, c) ==
    /\ worker[w].pc = "idle"
    /\ row[c] # "none"
    /\ worker' = [worker EXCEPT ![w] = [IdleWorker EXCEPT
          !.pc = "purge", !.kind = "purge", !.todo = {c},
          !.snap = Referenced, !.snapAt = now]]
    /\ UNCHANGED <<now, store, writers>>

\* ChunkGC.Scan, phase 4: a second snapshot ...
ScanReferencesB(w) ==
    /\ worker[w].pc = "snapshotB"
    /\ worker' = [worker EXCEPT ![w] = [@ EXCEPT !.pc = "list",
          !.snap = Referenced, !.snapAt = now]]
    /\ UNCHANGED <<now, store, writers>>

\* ... and then the tombstones, skipping the ones it saw referenced.
ScanTombstones(w) ==
    /\ worker[w].pc = "list"
    /\ worker' = [worker EXCEPT ![w] = [@ EXCEPT !.pc = "purge",
          !.todo = {c \in Chunks : tomb[c] # -1} \ worker[w].snap]]
    /\ UNCHANGED <<now, store, writers>>

\* purgeChunkIfEligible up to its conditional batch.
PurgeRead(w, c) ==
    /\ worker[w].pc = "purge" /\ c \in worker[w].todo
    /\ \/ /\ c \in worker[w].snap
          /\ Abort(w)
       \/ /\ c \notin worker[w].snap
          /\ ~Exists(c) /\ tomb[c] = -1
          /\ Skip(w, c)
       \/ /\ c \notin worker[w].snap
          /\ Exists(c) \/ tomb[c] # -1
          /\ ~PairValid(c)
          /\ Abort(w)
       \/ /\ c \notin worker[w].snap /\ PairValid(c)
          /\ ~QuarantineOver(tomb[c])
          /\ Skip(w, c)
       \/ /\ c \notin worker[w].snap /\ PairValid(c)
          /\ QuarantineOver(tomb[c])
          /\ \/ Abort(w)       \* no usable catalog
             \/ Skip(w, c)     \* an older backup is retained
             \/ worker' = [worker EXCEPT ![w] = [@ EXCEPT !.pc = "purgeCond",
                   !.cur = c, !.seenRow = row[c], !.seenTomb = tomb[c]]]
    /\ UNCHANGED <<now, store, writers>>

\* The conditional batch: chunk row and tombstone as read; it also fails when
\* the catalog was replaced.
PurgeApply(w) ==
    /\ worker[w].pc = "purgeCond"
    /\ LET c == worker[w].cur
           same == row[c] = worker[w].seenRow /\ tomb[c] = worker[w].seenTomb
       IN  \E holds \in {same, FALSE} :
           /\ row' = IF holds THEN [row EXCEPT ![c] = "purged"] ELSE row
           /\ tomb' = IF holds THEN [tomb EXCEPT ![c] = -1] ELSE tomb
           /\ tombRow' = IF holds THEN [tombRow EXCEPT ![c] = "none"] ELSE tombRow
           /\ worker' = [worker EXCEPT ![w] =
                 [@ EXCEPT !.pc = "purge", !.todo = worker[w].todo \ {c}]]
    /\ UNCHANGED <<now, inode, writers>>

PurgesDone(w) ==
    /\ worker[w].pc = "purge" /\ worker[w].todo = {}
    /\ Abort(w)
    /\ UNCHANGED <<now, store, writers>>

\* The process stops, or its context is cancelled, between two steps.
StopWorker(w) ==
    /\ worker[w].pc # "idle"
    /\ Abort(w)
    /\ UNCHANGED <<now, store, writers>>

-----------------------------------------------------------------------------
(* Time advances while no operation exceeds its longest duration; a single   *)
(* UpdateInode call takes no time on the scale of the quarantine.            *)

Tick ==
    /\ now < MaxTime
    /\ \A w \in Workers : worker[w].pc # "idle" => now < worker[w].snapAt + MaxScan
    /\ \A i \in Inodes : session[i] # None => now < session[i].since + MaxSession
    /\ \A i \in Inodes : update[i] = None
    /\ now' = now + 1
    /\ UNCHANGED <<store, writers, worker>>

InodeStep(i) ==
    \/ CreateFile(i) \/ Unlink(i)
    \/ OpenSession(i) \/ CommitRead(i) \/ CommitPut(i) \/ AbandonSession(i)
    \/ UpdateInodeApply(i)
    \/ \E R \in SUBSET Chunks : UpdateInodeRead(i, R)
    \/ \E c \in Chunks : AllocateChunk(i, c)

WorkerStep(w) ==
    \/ ScanChunks(w) \/ ScanReferencesA(w) \/ TombstoneApply(w)
    \/ TombstonesDone(w) \/ ScanReferencesB(w) \/ ScanTombstones(w)
    \/ PurgeApply(w) \/ PurgesDone(w) \/ StopWorker(w)
    \/ \E c \in Chunks : \/ DeleteChunk(w, c) \/ TombstoneRead(w, c)
                         \/ PurgeChunk(w, c) \/ PurgeRead(w, c)

Next ==
    \/ \E i \in Inodes : InodeStep(i)
    \/ \E c \in Chunks : updateLiveChunkMetadata(c)
    \/ \E w \in Workers : WorkerStep(w)
    \/ Tick

Spec == Init /\ [][Next]_vars

-----------------------------------------------------------------------------
(* Properties *)

WorkerPCs == {"idle", "snapshotA", "tombstone", "tombstoneCond", "snapshotB",
              "list", "purge", "purgeCond"}
WorkerStates ==
    [pc : WorkerPCs, kind : {"none", "delete", "gc", "purge"},
     snap : SUBSET Chunks, snapAt : Nat, todo : SUBSET Chunks,
     cur : Chunks \cup {None}, seenRow : Rows,
     seenTomb : Nat \cup {-1}, at : Nat]
Sessions == [stage : {"open", "put"}, since : Nat, alloc : SUBSET Chunks,
             keep : SUBSET Chunks, target : SUBSET Chunks]

\* The type invariant: rows and operations in flight have the shape their Go
\* types give them.
TypeOK ==
    /\ now \in Nat
    /\ row \in [Chunks -> Rows]
    /\ tomb \in [Chunks -> Nat \cup {-1}]
    /\ tombRow \in [Chunks -> Rows]
    /\ inode \in [Inodes -> InodeRows]
    /\ session \in [Inodes -> Sessions \cup {None}]
    /\ update \in [Inodes -> InodeRows \cup {None}]
    /\ worker \in [Workers -> WorkerStates]

\* A tombstone always sits beside the very chunk row it was made from
\* (validateDurableChunkTombstonePair): no update in flight when the tombstone
\* landed may change or remove the row under it.  A broken pair would abort
\* every later ChunkGC scan.
TombstonePair ==
    \A c \in Chunks : tomb[c] # -1 => PairValid(c)

\* A chunk allocated by a write session still in progress is not purged, even
\* when concurrent updates detach it and a GC worker tombstones it: the
\* quarantine outlasts the session.
SessionChunksSurvive ==
    \A i \in Inodes :
        session[i] # None => \A c \in session[i].alloc : Exists(c)

\* No inode row references a purged chunk: ChunkGC and PurgeChunk never
\* destroy data a file still needs.
NoDanglingReference == \A i \in Inodes : \A c \in inode[i].refs : Exists(c)

=============================================================================
