------------------------------- MODULE Namespace -------------------------------
(****************************************************************************)
(* The directory tree of the metadata service (metadata/pebble_store.go) as *)
(* the raft leader serves it: CreateFile, MkDir, RmDir, Unlink, Rename,     *)
(* Link, UpdateInode, CreateBucket and DeleteBucket, the inode numbers they *)
(* mint and recycle, the conditional batches they commit through the log    *)
(* (metadata/pebble_raft.go), the inode cache, and the gate a new leader    *)
(* puts in front of its requests.                                           *)
(*                                                                          *)
(* An operation reads rows from the leader's local database, builds a batch *)
(* from them and proposes it.  Only what the batch states as a precondition *)
(* is checked again when the log entry is applied; every other row it read  *)
(* may have changed since.  An entry of the log here carries the names of   *)
(* the reads that had gone stale when it was applied ("gaps"), so that the  *)
(* properties say which guarantees rest on the preconditions alone.         *)
(*                                                                          *)
(* All files of the model belong to one bucket, whose object counter is     *)
(* objs; symbolic links and special nodes are files.                        *)
(*                                                                          *)
(* Raft itself is external: an entry the leader applied survives a change   *)
(* of leader, later ones may or may not, and the new leader starts with any *)
(* known commit index and any applied prefix of it until its first entry of *)
(* the new term commits.                                                    *)
(****************************************************************************)
EXTENDS Integers, Sequences, FiniteSets, TLC
LOCAL INSTANCE SequencesExt
LOCAL INSTANCE FiniteSetsExt

CONSTANTS
    Requests,    \* concurrent client requests
    MaxId,       \* inode numbers 1..MaxId
    Slots,       \* directory entries considered: <<parent, name>>
    Seed,        \* the tables when the model starts
    SeedFree,    \* the recycled inode numbers when the model starts
    None,
    MaxOps,      \* operations started
    MaxFaults    \* changes of leader

Root == 1
Buckets == 0     \* the parent of bucket rows in a slot

Ids == 1..MaxId
Types == {"file", "dir"}

Rows == [type : Types, nlink : 0..(MaxId + 2), born : Requests \cup {None}]

Entries == [id : Ids, type : Types]

Tables ==
    [rows : [Ids -> Rows \cup {None}],
     ents : [Slots -> Entries \cup {None}],
     objs : Int]

ASSUME Bounds ==
    /\ MaxId \in Nat /\ Root \in Ids /\ Buckets \notin Ids
    /\ Slots \subseteq ({Buckets} \cup Ids) \X STRING
    /\ Seed \in Tables /\ SeedFree \subseteq Ids
    /\ MaxOps \in Nat /\ MaxFaults \in Nat

VARIABLES
    log,        \* raft log of the leader; an entry keeps its outcome and tables
    consumed,   \* entries handed to the leader's FSM   (lastConsumedIndex)
    applied,    \* entries that are in its tables
    commit,     \* commit index the leader knows        (CommitIndex)
    settled,    \* the first entry of the leader's term is committed
    acked,      \* history: last entry whose success a client was told
    seq,        \* inodeSeq, process local
    seeded,     \* inodeIDMaxInit
    freeList,   \* inodeFreeList, process local
    freeRows,   \* the persisted free list
    cache,      \* inCache
    req,        \* the requests in flight
    ops,        \* operations started
    faults      \* changes of leader

node == <<seq, seeded, freeList, freeRows, cache>>
vars == <<log, consumed, applied, commit, settled, acked, node, req, ops, faults>>

Idle == [phase |-> "idle"]

--------------------------------------------------------------------------------
(* The tables and the log. *)

At(k) == IF k = 0 THEN Seed ELSE log[k].state

Latest == At(Len(log))

\* What a read on the leader sees.
Local == At(applied)

Children(d, p) == {s \in Slots : s[1] = p /\ d.ents[s] # None}

Exists(d, p) == p = Buckets \/ d.rows[p] # None

\* A batch: preconditions on absent entries and rows and on the bytes of an
\* entry, then rows and entries to put or (None) delete, and the reads that
\* went into it.
NoBatch ==
    [noEnt |-> {}, noRow |-> {}, expect |-> <<>>, rows |-> <<>>, ents |-> <<>>,
     objs |-> None, plain |-> FALSE, readRows |-> <<>>, readEnts |-> <<>>,
     readObjs |-> None, empty |-> {}, parents |-> {}, gaps |-> {}]

Holds(b, d) ==
    /\ \A s \in b.noEnt : d.ents[s] = None
    /\ \A i \in b.noRow : d.rows[i] = None
    /\ \A s \in DOMAIN b.expect : d.ents[s] = b.expect[s]

\* Puts first, deletes after them: a name both put and deleted is gone.
Applied(b, d) ==
    [rows |-> b.rows @@ d.rows,
     ents |-> b.ents @@ d.ents,
     objs |-> IF b.objs = None THEN d.objs ELSE b.objs]

Gaps(b, d) ==
    b.gaps
    \cup (IF \E i \in DOMAIN b.readRows : d.rows[i] # b.readRows[i]
          THEN {"row"} ELSE {})
    \cup (IF \E s \in DOMAIN b.readEnts : d.ents[s] # b.readEnts[s]
          THEN {"entry"} ELSE {})
    \cup (IF b.readObjs # None /\ b.readObjs # d.objs THEN {"stats"} ELSE {})
    \cup (IF \E p \in b.empty : Children(d, p) # {} THEN {"children"} ELSE {})
    \cup (IF \E p \in b.parents : ~Exists(d, p) THEN {"parent"} ELSE {})

Entry(r, b) ==
    LET ok == Holds(b, Latest)
    IN [by    |-> r,
        ok    |-> ok,
        plain |-> b.plain,
        rows  |-> DOMAIN b.rows,
        gaps  |-> IF ok THEN Gaps(b, Latest) ELSE {},
        state |-> IF ok THEN Applied(b, Latest) ELSE Latest]

Propose(r, b) ==
    /\ log' = Append(log, Entry(r, b))
    /\ req' = [req EXCEPT ![r].phase = "wait", ![r].idx = Len(log) + 1]

--------------------------------------------------------------------------------
(* The gate in front of every namespace request: requireLeaderRedirect. *)

AlwaysCaughtUp == TRUE
CaughtUp == consumed >= commit

Gate == CaughtUp

--------------------------------------------------------------------------------
(* Inode numbers. *)

MaxRow(d) == Max({Root} \cup {i \in Ids : d.rows[i] # None})

\* Every process starts its counter at the root.
FirstSeqZero == 0
FirstSeq == Root

ensureInodeIDMax == IF seeded THEN seq ELSE Max({seq, MaxRow(Local)})

\* nextInodeID: recycled numbers first, then the counter above the largest
\* row seen when it was seeded.  "fresh" forces the re-seed of a second try.
nextInodeID(id, fresh) ==
    \/ /\ freeList # <<>>
       /\ id = Last(freeList)
       /\ freeList' = Front(freeList)
       /\ freeRows' = freeRows \ {id}
       /\ IF fresh
          THEN seq' = Max({seq, MaxRow(Local)}) /\ seeded' = TRUE
          ELSE UNCHANGED <<seq, seeded>>
    \/ /\ freeList = <<>>
       /\ id = 1 + (IF fresh THEN Max({seq, MaxRow(Local)}) ELSE ensureInodeIDMax)
       /\ id \in Ids
       /\ seq' = id
       /\ seeded' = TRUE
       /\ UNCHANGED <<freeList, freeRows>>

--------------------------------------------------------------------------------
(* The reads of an operation, on the leader's tables.  A request that finds *)
(* nothing to do answers its error and leaves no trace.                     *)

Loaded(o) == [phase |-> "loaded", op |-> o, idx |-> 0, try |-> 1]

LoadCreate(r, o, d, try) ==
    /\ o.kind \in {"create", "mkdir", "mkbucket"}
    /\ o.kind = "mkbucket" => d.ents[o.slot] = None
    /\ \E id \in Ids :
          /\ nextInodeID(id, try = 2)
          /\ req' = [req EXCEPT ![r] =
                       [Loaded(o) EXCEPT !.try = try] @@
                       [id   |-> id,
                        prow |-> IF o.slot[1] = Buckets THEN None
                                 ELSE d.rows[o.slot[1]],
                        objs |-> d.objs]]
    /\ UNCHANGED cache

\* Unlink's reads; also the first half of a Rename onto an existing file.
UnlinkReads(d, s) ==
    [ent |-> d.ents[s], row |-> d.rows[d.ents[s].id], objs |-> d.objs]

LoadUnlink(r, o, d) ==
    /\ o.kind = "unlink"
    /\ d.ents[o.slot] # None
    /\ d.ents[o.slot].type # "dir"
    /\ req' = [req EXCEPT ![r] = Loaded(o) @@ UnlinkReads(d, o.slot)]
    /\ UNCHANGED node

LoadRmDir(r, o, d) ==
    /\ o.kind \in {"rmdir", "rmbucket"}
    /\ d.ents[o.slot] # None
    /\ d.ents[o.slot].type = "dir"
    /\ Children(d, d.ents[o.slot].id) = {}
    /\ req' = [req EXCEPT ![r] = Loaded(o) @@
                 [ent  |-> d.ents[o.slot],
                  prow |-> IF o.slot[1] = Buckets THEN None
                           ELSE d.rows[o.slot[1]]]]
    /\ UNCHANGED node

LoadRename(r, o, d) ==
    LET dest == d.ents[o.to]
        source == [src |-> d.ents[o.slot]]
    IN /\ o.kind = "rename"
       /\ source.src # None
       /\ dest # None => dest.type # "dir"
       /\ req' = [req EXCEPT ![r] =
                    IF dest = None
                    THEN Loaded(o) @@ source @@ [stage |-> "move"]
                    ELSE Loaded(o) @@ source @@ [stage |-> "unlink"]
                         @@ UnlinkReads(d, o.to)]
       /\ UNCHANGED node

LoadLink(r, o, d) ==
    /\ o.kind = "link"
    /\ d.rows[o.id] # None
    /\ d.rows[o.id].type # "dir"
    /\ req' = [req EXCEPT ![r] = Loaded(o) @@ [row |-> d.rows[o.id]]]
    /\ UNCHANGED node

\* GetInode: the cache first; a row read from the tables is cached, at once for
\* the client that goes on to change attributes ("setattr" holds the row it was
\* given until it sends it back), or after other steps ("get").
LoadInode(r, o, d) ==
    LET row == IF cache[o.id] # None THEN cache[o.id] ELSE d.rows[o.id]
    IN /\ o.kind \in {"get", "setattr"}
       /\ row # None
       /\ req' = [req EXCEPT ![r] = Loaded(o) @@ [row |-> row]]
       /\ cache' = IF o.kind = "setattr" THEN [cache EXCEPT ![o.id] = row] ELSE cache
       /\ UNCHANGED <<seq, seeded, freeList, freeRows>>

Load(r, o) ==
    /\ Gate
    /\ \/ LoadCreate(r, o, Local, 1)
       \/ LoadUnlink(r, o, Local)
       \/ LoadRmDir(r, o, Local)
       \/ LoadRename(r, o, Local)
       \/ LoadLink(r, o, Local)
       \/ LoadInode(r, o, Local)
    /\ UNCHANGED <<log, consumed, applied, commit, settled, acked, faults>>

Operations ==
    [kind : {"create", "mkdir", "unlink", "rmdir"},
     slot : {s \in Slots : s[1] # Buckets}]
    \cup [kind : {"mkbucket", "rmbucket"}, slot : {s \in Slots : s[1] = Buckets}]
    \cup [kind : {"rename"}, slot : {s \in Slots : s[1] # Buckets},
                             to : {s \in Slots : s[1] # Buckets}]
    \cup [kind : {"link"}, slot : {s \in Slots : s[1] # Buckets}, id : Ids]
    \cup [kind : {"get", "setattr"}, id : Ids]

Begin(r) ==
    /\ req[r].phase = "idle"
    /\ ops < MaxOps
    /\ ops' = ops + 1
    /\ \E o \in Operations : Load(r, o)

\* The client library sends a request again when the leader it went to fails.
Retry(r) ==
    /\ req[r].phase = "again"
    /\ Load(r, req[r].op)
    /\ UNCHANGED ops

\* ... or the answer is an error, or its retry budget is used up.
GiveUp(r) ==
    /\ req[r].phase = "again"
    /\ req' = [req EXCEPT ![r] = Idle]
    /\ UNCHANGED <<log, consumed, applied, commit, settled, acked, node, ops, faults>>

--------------------------------------------------------------------------------
(* The batches. *)

\* buildNamespaceConditionalWithInodeGuard: neither the name nor the row exists.
GuardNameOnly(q) == [NoBatch EXCEPT !.noEnt = {q.op.slot}]
GuardRowOnly(q) == [NoBatch EXCEPT !.noRow = {q.id}]
CreateGuard(q) == [NoBatch EXCEPT !.noEnt = {q.op.slot}, !.noRow = {q.id}]

\* addBucketStatsOp: the counter that was read, plus the change.
StatsNeverShrink(b, q, delta) ==
    [b EXCEPT !.objs = q.objs + Max({delta, 0}), !.readObjs = q.objs]
addBucketStatsOp(b, q, delta) ==
    [b EXCEPT !.objs = q.objs + delta, !.readObjs = q.objs]

New(q, row) ==
    [CreateGuard(q) EXCEPT
       !.parents = {q.op.slot[1]},
       !.rows = q.id :> row,
       !.ents = q.op.slot :> [id |-> q.id, type |-> row.type]]

\* CreateFile; CreateNode and Symlink differ in the type of the row.
CreateFileBatch(r, q) ==
    addBucketStatsOp(New(q, [type |-> "file", nlink |-> 1, born |-> r]), q, 1)

CreateBucketBatch(r, q) == New(q, [type |-> "dir", nlink |-> 2, born |-> r])

MkDirBatch(r, q) ==
    LET new == New(q, [type |-> "dir", nlink |-> 2, born |-> r])
        p == q.op.slot[1]
    IN IF q.prow = None THEN new
       ELSE [new EXCEPT !.rows = @ @@ (p :> [q.prow EXCEPT !.nlink = @ + 1]),
                        !.readRows = p :> q.prow]

\* raw: the entry's bytes, which are read a second time for the precondition.
UnlinkBatch(q, s, raw) ==
    LET id == q.ent.id
        base == [NoBatch EXCEPT
                   !.expect = s :> raw, !.ents = s :> None,
                   !.readRows = id :> q.row,
                   !.gaps = IF raw # q.ent THEN {"reread"} ELSE {}]
    IN IF q.row = None THEN base
       ELSE IF q.row.nlink <= 1
       THEN addBucketStatsOp([base EXCEPT !.rows = id :> None], q, -1)
       ELSE [base EXCEPT !.rows = id :> [q.row EXCEPT !.nlink = @ - 1]]

RmDirBatch(q, raw) ==
    LET s == q.op.slot
        base == [NoBatch EXCEPT
                   !.expect = s :> raw, !.ents = s :> None,
                   !.rows = q.ent.id :> None, !.empty = {q.ent.id},
                   !.gaps = IF raw # q.ent THEN {"reread"} ELSE {}]
    IN IF q.prow = None THEN base
       ELSE [base EXCEPT
               !.rows = @ @@ (s[1] :> [q.prow EXCEPT !.nlink = Max({@ - 1, 0})]),
               !.readRows = s[1] :> q.prow]

DeleteBucketBatch(q) ==
    [NoBatch EXCEPT
       !.plain = TRUE, !.ents = q.op.slot :> None, !.rows = q.ent.id :> None,
       !.readEnts = q.op.slot :> q.ent, !.empty = {q.ent.id}]

RenameBatch(q) ==
    LET from == q.op.slot
        to == q.op.to
    IN [NoBatch EXCEPT
          !.plain = TRUE,
          !.ents = (from :> None) @@ (to :> q.src),
          !.readEnts = (from :> q.src) @@ (to :> None),
          !.parents = {to[1]},
          !.gaps = (IF q.src.type = "dir" /\ from[1] # to[1]
                    THEN {"movedir"} ELSE {})
                   \cup (IF from = to THEN {"itself"} ELSE {})]

LinkBatch(q) ==
    [NoBatch EXCEPT
       !.noEnt = {q.op.slot}, !.parents = {q.op.slot[1]},
       !.rows = q.op.id :> [q.row EXCEPT !.nlink = @ + 1],
       !.ents = q.op.slot :> [id |-> q.op.id, type |-> q.row.type],
       !.readRows = q.op.id :> q.row]

UpdateInodeBatch(q) ==
    [NoBatch EXCEPT
       !.plain = TRUE, !.rows = q.op.id :> q.row, !.readRows = q.op.id :> q.row]

\* The slot a request is about to unlink, itself or on behalf of a Rename.
Unlinks(q) ==
    CASE q.op.kind = "unlink" -> {q.op.slot}
      [] q.op.kind = "rename" /\ q.stage = "unlink" -> {q.op.to}
      [] OTHER -> {}

\* The second read of the entry returns what the first did, or what the name
\* holds by now.
Reread(q, s) == {q.ent, Local.ents[s]} \ {None}

Batches(r, q) ==
    CASE q.op.kind = "create" -> {CreateFileBatch(r, q)}
      [] q.op.kind = "mkdir" -> {MkDirBatch(r, q)}
      [] q.op.kind = "mkbucket" -> {CreateBucketBatch(r, q)}
      [] Unlinks(q) # {} ->
           UNION {{UnlinkBatch(q, s, raw) : raw \in Reread(q, s)} : s \in Unlinks(q)}
      [] q.op.kind = "rmdir" -> {RmDirBatch(q, raw) : raw \in Reread(q, q.op.slot)}
      [] q.op.kind = "rmbucket" -> {DeleteBucketBatch(q)}
      [] q.op.kind = "rename" -> {RenameBatch(q)}
      [] q.op.kind = "link" -> {LinkBatch(q)}
      [] OTHER -> {UpdateInodeBatch(q)}

--------------------------------------------------------------------------------
(* Proposing, applying, answering. *)

Submit(r) ==
    /\ req[r].phase = "loaded"
    /\ req[r].op.kind # "get"
    /\ req[r].op.kind = "setattr" => Gate
    /\ \E b \in Batches(r, req[r]) : Propose(r, b)
    /\ UNCHANGED <<consumed, applied, commit, settled, acked, node, ops, faults>>

Answer(r) ==
    /\ req[r].phase = "loaded"
    /\ req[r].op.kind = "get"
    /\ cache' = [cache EXCEPT ![req[r].op.id] = req[r].row]
    /\ req' = [req EXCEPT ![r] = Idle]
    /\ UNCHANGED <<log, consumed, applied, commit, settled, acked, seq, seeded,
                   freeList, freeRows, ops, faults>>

\* The client sends a request again after a server error; an attribute change
\* still holds its row.
Resend(q) ==
    IF q.op.kind = "setattr" THEN [q EXCEPT !.phase = "loaded", !.idx = 0]
    ELSE [Loaded(q.op) EXCEPT !.phase = "again"]

\* A request moves on when its entry is applied: the losing side of a create
\* tries once more, that of a removal is answered with a server error, and a
\* removal that won goes on to recycle the inode number.
Resolve(q, ok) ==
    LET removed == \/ q.op.kind = "rmdir"
                   \/ Unlinks(q) # {} /\ q.row # None /\ q.row.nlink <= 1
    IN IF ~ok
       THEN CASE q.op.kind \in {"create", "mkdir", "mkbucket"} /\ q.try = 1 ->
                   [q EXCEPT !.phase = "remint"]
              [] q.op.kind \in {"unlink", "rmdir", "rename"} -> Resend(q)
              [] OTHER -> Idle
       ELSE IF removed THEN [q EXCEPT !.phase = "release"]
       ELSE IF q.op.kind = "rename" /\ q.stage = "unlink"
       THEN [q EXCEPT !.phase = "loaded", !.stage = "move"]
       ELSE Idle

Waiting(k) == {r \in Requests : req[r].phase = "wait" /\ req[r].idx = k}

\* invalidateInodeCache on every node, for plain batches only; Unlink drops the
\* number it removed from its own node's cache once it is done.
Invalidated(k) ==
    (IF log[k].ok /\ log[k].plain THEN log[k].rows ELSE {})
    \cup {req[r].ent.id : r \in {w \in Waiting(k) :
                                    log[k].ok /\ Unlinks(req[w]) # {}}}

\* recordConsumed comes before the batch of the entry is committed.
Deliver ==
    /\ consumed = applied
    /\ consumed < Len(log)
    /\ settled \/ consumed < commit
    /\ consumed' = consumed + 1
    /\ commit' = Max({commit, consumed'})
    /\ UNCHANGED <<log, applied, settled, acked, node, req, ops, faults>>

Apply ==
    LET k == consumed
    IN /\ applied < consumed
       /\ applied' = k
       /\ req' = [r \in Requests |->
                    IF r \in Waiting(k) THEN Resolve(req[r], log[k].ok) ELSE req[r]]
       /\ acked' = IF \E r \in Waiting(k) : log[k].ok /\ req'[r] = Idle
                   THEN Max({acked, k}) ELSE acked
       /\ cache' = [i \in Ids |-> IF i \in Invalidated(k) THEN None ELSE cache[i]]
       /\ UNCHANGED <<log, consumed, commit, settled, seq, seeded, freeList, freeRows,
                      ops, faults>>

\* applyNamespaceCreate's second try, with a number above a fresh scan.
Remint(r) ==
    /\ req[r].phase = "remint"
    /\ LoadCreate(r, req[r].op, [Local EXCEPT !.ents = [s \in Slots |-> None]], 2)
    /\ UNCHANGED <<log, consumed, applied, commit, settled, acked, ops, faults>>

\* releaseInodeID, after which the request is answered or a Rename goes on.
Release(r) ==
    LET q == req[r]
    IN /\ q.phase = "release"
       /\ freeList' = IF q.ent.id > Root THEN Append(freeList, q.ent.id) ELSE freeList
       /\ freeRows' = freeRows \cup ({q.ent.id} \ {Root})
       /\ IF q.op.kind = "rename"
          THEN /\ req' = [req EXCEPT ![r].phase = "loaded", ![r].stage = "move"]
               /\ UNCHANGED acked
          ELSE /\ req' = [req EXCEPT ![r] = Idle]
               /\ acked' = Max({acked, q.idx})
       /\ UNCHANGED <<log, consumed, applied, commit, settled, seq, seeded, cache, ops,
                      faults>>

\* The wait for an entry ends before the entry is applied: the client is told
\* nothing and sends the request again.
Timeout(r) ==
    /\ req[r].phase = "wait"
    /\ req[r].idx > applied
    /\ faults < MaxFaults
    /\ faults' = faults + 1
    /\ req' = [req EXCEPT ![r] = Resend(@)]
    /\ UNCHANGED <<log, consumed, applied, commit, settled, acked, node, ops>>

--------------------------------------------------------------------------------
(* A change of leader.  What the old leader applied survives; the new one     *)
(* knows some commit index and has applied some prefix of it.  Its free list  *)
(* was read from the tables when its process started, its counter and its     *)
(* cache are empty.                                                           *)

Failover ==
    /\ faults < MaxFaults
    /\ faults' = faults + 1
    /\ \E keep \in consumed..Len(log) : \E known \in 0..keep : \E done \in 0..known :
          /\ log' = SubSeq(log, 1, keep)
          /\ commit' = known
          /\ consumed' = done /\ applied' = done
    /\ settled' = FALSE
    /\ seq' = FirstSeq /\ seeded' = FALSE
    /\ freeList' \in {SetToSortSeq(SeedFree, <), SetToSortSeq(freeRows, <)}
    /\ cache' = [i \in Ids |-> None]
    /\ req' = [r \in Requests |->
                 IF req[r] = Idle THEN Idle ELSE Resend(req[r])]
    /\ UNCHANGED <<acked, freeRows, ops>>

\* The first entry of the new term commits, and with it the whole log.
Settle ==
    /\ ~settled
    /\ settled' = TRUE
    /\ commit' = Len(log)
    /\ UNCHANGED <<log, consumed, applied, acked, node, req, ops, faults>>

--------------------------------------------------------------------------------
Init ==
    /\ log = <<>> /\ consumed = 0 /\ applied = 0 /\ commit = 0 /\ settled = TRUE
    /\ acked = 0
    /\ seq = FirstSeq /\ seeded = FALSE
    /\ freeList = SetToSortSeq(SeedFree, <) /\ freeRows = SeedFree
    /\ cache = [i \in Ids |-> None]
    /\ req = [r \in Requests |-> Idle]
    /\ ops = 0 /\ faults = 0

Next ==
    \/ \E r \in Requests :
          \/ Begin(r) \/ Retry(r) \/ GiveUp(r) \/ Submit(r) \/ Answer(r)
          \/ Remint(r) \/ Release(r) \/ Timeout(r)
    \/ Deliver
    \/ Apply
    \/ Failover
    \/ Settle

Spec == Init /\ [][Next]_vars

--------------------------------------------------------------------------------
(* Properties. *)

Requested ==
    [phase : {"loaded", "wait", "again", "release", "remint"},
     op : Operations, idx : 0..Len(log), try : {1, 2}]

\* The tables, after every log entry, the indexes into the log and the process-local
\* numbers keep their types.
TypeOK ==
    /\ Latest \in Tables
    /\ applied \in 0..consumed /\ consumed \in 0..commit /\ commit \in 0..Len(log)
    /\ acked \in 0..Len(log) /\ settled \in BOOLEAN
    /\ seq \in Ids /\ seeded \in BOOLEAN
    /\ freeList \in Seq(Ids) /\ freeRows \subseteq Ids
    /\ cache \in [Ids -> Rows \cup {None}]
    /\ \A r \in Requests : req[r] # Idle =>
          Restrict(req[r], {"phase", "op", "idx", "try"}) \in Requested
    /\ ops \in 0..MaxOps /\ faults \in 0..MaxFaults

\* Reads that were stale when their entry was applied, over the whole log.
Stale == UNION {log[k].gaps : k \in 1..Len(log)}

\* A create never takes over the row of a live inode: whatever number a leader
\* mints, also from a counter or a free list that a change of leader left behind,
\* the guard of buildNamespaceConditionalWithInodeGuard keeps the row's owner.
RowIdentity ==
    log # <<>> => \A i \in Ids :
       LET old == At(Len(log) - 1).rows[i]
           new == Latest.rows[i]
       IN old # None /\ new # None /\ "row" \notin Last(log).gaps
             => new.born = old.born

Named(d, i) == {s \in Slots : d.ents[s] # None /\ d.ents[s].id = i}

Subdirs(d, i) == {s \in Children(d, i) : d.ents[s].type = "dir"}

TreeOf(d) ==
    /\ \A s \in Slots : d.ents[s] # None =>
          /\ d.rows[d.ents[s].id] # None
          /\ d.rows[d.ents[s].id].type = d.ents[s].type
          /\ Exists(d, s[1])
    /\ \A i \in Ids \ {Root} : d.rows[i] # None =>
          /\ Named(d, i) # {}
          /\ IF d.rows[i].type = "dir"
             THEN Cardinality(Named(d, i)) = 1
             ELSE d.rows[i].nlink = Cardinality(Named(d, i))
    /\ \A i \in Ids : d.rows[i] # None /\ d.rows[i].type = "dir" =>
          d.rows[i].nlink = 2 + Cardinality(Subdirs(d, i))

\* The directory tree stays a tree through concurrent requests, retries, and
\* changes of leader as long as no batch rests on a stale read that it does not
\* state as a precondition: every name leads to a row of its type, every row is
\* named, link counts are the number of names, and directories count their
\* subdirectories.
Consistent == Stale = {} => TreeOf(Latest)

\* addBucketStatsOp keeps the number of objects of a bucket equal to the number of
\* file rows, as long as no two updates read the same counter.
ObjectsCounted ==
    Stale = {} =>
       Latest.objs = Cardinality({i \in Ids : Latest.rows[i] # None
                                               /\ Latest.rows[i].type = "file"})

\* WaitCatchUp: once the leader's own term has a committed entry, a request that
\* passes the gate reads every write a client was told of, short of the one entry
\* that is being applied.
FreshGate ==
    settled /\ CaughtUp => consumed >= acked /\ consumed - applied <= 1

\* What WaitCatchUp's comment says of every leader: "A nil return means the FSM is
\* linearizable with every write acknowledged before the call."
FreshRead == CaughtUp => applied >= acked
================================================================================
