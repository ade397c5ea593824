------------------------------ MODULE ObjectWrite ------------------------------
(***************************************************************************)
(* The life of one S3 key: concurrent PUTs and a DELETE, the write attempt *)
(* record each PUT leaves in the metadata store, the compensation of a     *)
(* failed PUT, the recovery worker and the write GC that act on attempts   *)
(* later.  One step is one metadata mutation or the read a later step      *)
(* relies on.  A PUT writes one chunk, named after it.                     *)
(*                                                                         *)
(* Code: gateway/s3/committer_put.go, write_recovery.go, write_gc.go,      *)
(* object.go, key_resolve.go; metadata/write_attempt.go, lock.go,          *)
(* pebble_store.go, inode_v2_serving.go.                                   *)
(***************************************************************************)
EXTENDS Integers, FiniteSets

CONSTANTS
    Puts,         \* PUT requests; also the chunks they write
    Old,          \* the chunk of the object that exists at the start, if any
    Ids,          \* inode ids, recycled by the free list
    None,
    InitObjects,  \* how the key may start: "none", "V1" or "V2"
    KeyKinds,     \* "flat" or "nested", a key with a "/" in it
    LiveRestart,  \* may metad restart while a request relies on its lock?
    MaxFaults     \* bound on failed calls and crashes

Chunks == Puts \cup {Old}

VARIABLES
    kind,       \* is the key flat or nested?
    entry,      \* the inode id the key leads to, or None
    inode,      \* inode id -> its row, or None
    chunk,      \* chunk -> state of its row
    lock,       \* inode id -> [owner, refcount] of its advisory lock, or None
    attempt,    \* PUT -> its ObjectWriteAttempt, or None
    put,        \* PUT -> the request in progress
    del,        \* the DELETE request
    rec,        \* the recovery worker
    gc,         \* the attempt the write GC is about to delete, or None
    clock,      \* source of CTimes
    faults,
    acked,      \* history: the chunk of the last acknowledged PUT, or None
    clobbered   \* history: has another PUT allocated since?

store == <<kind, entry, inode, chunk>>
history == <<acked, clobbered>>
actors == <<put, del, rec, gc>>
vars == <<kind, entry, inode, chunk, lock, attempt, put, del, rec, gc, clock,
          faults, acked, clobbered>>

-----------------------------------------------------------------------------
(* Rows.  v2 is the extent layout; data and bare are the ChunkMap, bare the *)
(* references that allocation appended with length 0.                       *)

Row(t, v2, data, bare) == [ctime |-> t, v2 |-> v2, data |-> data, bare |-> bare]
ChunkMap(r) == r.data \cup r.bare

\* resolveCommittedChunks: the ChunkMap, or the extents when it is empty.
resolveCommittedChunks(r) == IF ChunkMap(r) # {} THEN ChunkMap(r) ELSE r.v2

\* What a GET of the key returns: references of length 0 contribute nothing.
Visible == IF entry = None THEN {}
           ELSE IF ChunkMap(inode[entry]) # {} THEN inode[entry].data
           ELSE inode[entry].v2

Referenced == UNION {IF inode[i] = None THEN {}
                     ELSE inode[i].v2 \cup ChunkMap(inode[i]) : i \in Ids}

\* Mutant: DeleteChunk does not look for references.
DeleteAnyChunks(S) ==
    [c \in Chunks |-> IF c \in S /\ chunk[c] # "none" THEN "tomb" ELSE chunk[c]]

\* DeleteChunk of each member: nothing happens to a referenced chunk.
DeleteChunks(S) ==
    [c \in Chunks |-> IF c \in S \ Referenced /\ chunk[c] # "none" THEN "tomb"
                      ELSE chunk[c]]

NoRollback == [data |-> {}, bare |-> {}]
Projection(r) == [data |-> r.data, bare |-> r.bare]

\* UpdateInode with the V1 projection s: refused for a layout row when s has a
\* ChunkMap, merged into it when s has none; attached chunks must be live.
UpdateInodeOK(i, s) ==
    IF inode[i] # None /\ inode[i].v2 # {} THEN s.data \cup s.bare = {}
    ELSE \A c \in (s.data \cup s.bare) \
                  (IF inode[i] = None THEN {} ELSE ChunkMap(inode[i])) :
            chunk[c] \in {"alloc", "durable"}
Updated(i, s) ==
    [inode EXCEPT ![i] =
        Row(clock + 1, IF inode[i] = None THEN {} ELSE inode[i].v2, s.data, s.bare)]

\* Lookup(bucket root, whole key): the flat form finds no nested key.
FlatFound == kind = "flat" /\ entry # None

\* Mutant: the CTime half of the identity is not compared.
SameInode(i, t) == entry = i

\* Does the key still lead to the inode (ID, CTime) a request saw?
SameObject(i, t) == entry = i /\ inode[i].ctime = t

\* Mutant: the lock is granted to anyone.
LockShared(i, owner) == TRUE

\* A lock is granted to a new owner when free, and again to the one who has it.
AdvisoryLockFree(i, owner) == lock[i] = None \/ lock[i].owner = owner
AdvisoryLock(i, owner) ==
    lock' = [lock EXCEPT ![i] =
                [owner |-> owner, n |-> IF lock[i] = None THEN 1 ELSE lock[i].n + 1]]

\* releaseAdvisoryLock: releasing what is not held does nothing.
AdvisoryUnlock(i, owner) ==
    lock' = IF lock[i] = None \/ lock[i].owner # owner THEN lock
            ELSE IF lock[i].n > 1 THEN [lock EXCEPT ![i].n = @ - 1]
            ELSE [lock EXCEPT ![i] = None]

PutOwner(p) == <<"put", p>>
DelOwner == <<"delete", None>>
AttemptOwner(p) == <<"attempt", p>>

Fault == faults < MaxFaults /\ faults' = faults + 1

-----------------------------------------------------------------------------
(* Attempts *)

Attempt(state, p) ==
    [state |-> state, intent |-> "commit", ino |-> put[p].ino,
     ctime |-> put[p].ctime, chunks |-> {}, new |-> FALSE,
     rollback |-> NoRollback]

\* newCleanupAttempt
CleanupAttempt(p) ==
    [Attempt("recovery", p) EXCEPT !.intent = "cleanup", !.chunks = put[p].alloc,
         !.new = put[p].new, !.rollback = put[p].snap]

PutWriteAttempt(p, a) == attempt' = [attempt EXCEPT ![p] = a]

\* A PUT goes on when its record is lost; the loss is only logged.
recordAttempt(p, a) ==
    \/ PutWriteAttempt(p, a) /\ UNCHANGED faults
    \/ Fault /\ UNCHANGED attempt

IdlePut == [pc |-> "start", ino |-> None, ctime |-> 0, new |-> FALSE,
            snap |-> NoRollback, olds |-> {}, alloc |-> {}, match |-> FALSE,
            ok |-> FALSE]
IdleDel == [pc |-> "start", ino |-> None, ctime |-> 0]
IdleRec == [pc |-> "idle", batch |-> {}, p |-> None, a |-> None, then |-> None,
            match |-> FALSE]

Init ==
    /\ kind \in KeyKinds
    /\ \E model \in InitObjects, first \in Ids :
        LET has == model # "none"
        IN  /\ entry = IF has THEN first ELSE None
            /\ inode = [i \in Ids |-> IF has /\ i = first
                          THEN Row(0, IF model = "V2" THEN {Old} ELSE {},
                                      IF model = "V1" THEN {Old} ELSE {}, {})
                          ELSE None]
            /\ chunk = [c \in Chunks |-> IF has /\ c = Old THEN "durable" ELSE "none"]
            /\ acked = IF has THEN Old ELSE None
    /\ lock = [i \in Ids |-> None]
    /\ attempt = [p \in Puts |-> None]
    /\ put = [p \in Puts |-> IdlePut]
    /\ del = IdleDel /\ rec = IdleRec /\ gc = None
    /\ clock = 0 /\ faults = 0 /\ clobbered = FALSE

-----------------------------------------------------------------------------
(* PUT, up to the lock *)

At(p, pc) == put[p].pc = pc
Go(p, pc) == put' = [put EXCEPT ![p] =
    IF pc \in {"done", "dead"} THEN [IdlePut EXCEPT !.pc = pc] ELSE [@ EXCEPT !.pc = pc]]
others == <<del, rec, gc>>

\* The request gives up and leaves the attempt a.
GiveUp(p, a) ==
    /\ PutWriteAttempt(p, a)
    /\ Go(p, IF put[p].pc \in {"resolve", "create", "relookup", "lock"}
             THEN "done" ELSE "unlock")

Begin(p) ==
    /\ At(p, "start")
    /\ recordAttempt(p, Attempt("pending", p))
    /\ Go(p, "resolve")
    /\ UNCHANGED <<store, lock, others, clock, history>>

\* The existing object as the request sees it.
Seen(p, pc) ==
    [put[p] EXCEPT !.pc = pc, !.ino = entry, !.ctime = inode[entry].ctime,
         !.new = FALSE, !.snap = Projection(inode[entry]),
         !.olds = resolveCommittedChunks(inode[entry])]

\* resolveObjectForRead decides between an overwrite and a new object.
Resolve(p) ==
    /\ At(p, "resolve")
    /\ put' = [put EXCEPT ![p] =
          IF entry # None THEN Seen(p, "record") ELSE [@ EXCEPT !.pc = "create", !.new = TRUE]]
    /\ UNCHANGED <<store, lock, attempt, others, clock, faults, history>>

\* The bucket, the lookup or the quota check fails.
RejectEarly(p) ==
    /\ put[p].pc \in {"resolve", "create"}
    /\ Fault
    /\ GiveUp(p, Attempt("failed", p))
    /\ UNCHANGED <<store, lock, others, clock, history>>

\* CreateFile, conditional on the name and the id being free.
CreateFile(p) ==
    /\ At(p, "create")
    /\ \/ /\ entry = None
          /\ \E i \in Ids :
              /\ inode[i] = None
              /\ entry' = i
              /\ inode' = [inode EXCEPT ![i] = Row(clock + 1, {}, {}, {})]
              /\ put' = [put EXCEPT ![p] =
                    [@ EXCEPT !.pc = "record", !.ino = i, !.ctime = clock + 1]]
          /\ clock' = clock + 1
       \/ /\ entry # None
          /\ Go(p, "relookup")
          /\ UNCHANGED <<entry, inode, clock>>
    /\ UNCHANGED <<kind, chunk, lock, attempt, others, faults, history>>

\* ErrEntryExists: the request continues as an overwrite of what it finds.
Relookup(p) ==
    /\ At(p, "relookup")
    /\ IF entry # None
       THEN put' = [put EXCEPT ![p] = Seen(p, "record")] /\ UNCHANGED attempt
       ELSE GiveUp(p, Attempt("failed", p))
    /\ UNCHANGED <<store, lock, others, clock, faults, history>>

RecordAllocated(p) ==
    /\ At(p, "record")
    /\ recordAttempt(p, Attempt("allocated", p))
    /\ Go(p, "lock")
    /\ UNCHANGED <<store, lock, others, clock, history>>

\* AdvisoryLock.  Without the lock a new object is left to the recovery worker.
LockPut(p) ==
    /\ At(p, "lock")
    /\ IF AdvisoryLockFree(put[p].ino, PutOwner(p))
       THEN /\ AdvisoryLock(put[p].ino, PutOwner(p))
            /\ Go(p, "verify")
            /\ UNCHANGED attempt
       ELSE /\ GiveUp(p, IF put[p].new THEN CleanupAttempt(p) ELSE Attempt("failed", p))
            /\ UNCHANGED lock
    /\ UNCHANGED <<store, others, clock, faults, history>>

-----------------------------------------------------------------------------
(* PUT, under the lock *)

\* A request that fails here compensates a new object and leaves others alone.
FailLocked(p) ==
    IF put[p].new THEN Go(p, "plan") /\ UNCHANGED attempt
    ELSE GiveUp(p, Attempt("failed", p))

\* The key is resolved again; identity and rollback snapshot are taken now.
Verify(p) ==
    /\ At(p, "verify")
    /\ IF SameObject(put[p].ino, put[p].ctime)
       THEN /\ put' = [put EXCEPT ![p] =
                  IF put[p].new THEN [@ EXCEPT !.pc = "alloc"] ELSE Seen(p, "alloc")]
            /\ UNCHANGED attempt
       ELSE FailLocked(p)
    /\ UNCHANGED <<store, lock, others, clock, faults, history>>

\* The second quota check, or the lookup under the lock, fails.
RejectLocked(p) ==
    /\ At(p, "alloc")
    /\ Fault
    /\ FailLocked(p)
    /\ UNCHANGED <<store, lock, others, clock, history>>

\* The row as allocateChunksConditionally writes it: V1, the reference appended.
Allocated(i, c) ==
    [inode EXCEPT ![i] = [@ EXCEPT !.v2 = {}, !.bare = @ \cup {c}]]

\* AllocateChunk or AllocateRanges; a failed call may have taken effect, and
\* then the request does not know the chunk.
AllocateChunk(p) ==
    LET i == put[p].ino
        apply == /\ inode' = Allocated(i, p)
                 /\ chunk' = [chunk EXCEPT ![p] = "alloc"]
                 /\ clobbered' = TRUE
    IN  /\ At(p, "alloc")
        /\ \/ /\ inode[i] # None /\ apply
              /\ put' = [put EXCEPT ![p] = [@ EXCEPT !.pc = "write", !.alloc = {p}]]
              /\ UNCHANGED faults
           \/ /\ inode[i] # None /\ apply /\ Fault /\ Go(p, "plan")
           \/ /\ inode[i] = None
              /\ Go(p, "plan")
              /\ UNCHANGED <<inode, chunk, clobbered, faults>>
        /\ UNCHANGED <<kind, entry, lock, attempt, others, clock, acked>>

\* WriteAllocated: replicas, CommitChunk, SealChunk.
WriteAllocated(p) ==
    /\ At(p, "write")
    /\ \/ /\ chunk[p] = "alloc"
          /\ chunk' = [chunk EXCEPT ![p] = "durable"]
          /\ Go(p, "durable")
          /\ UNCHANGED faults
       \/ /\ Go(p, "plan") /\ Fault
          /\ chunk' \in {chunk, [chunk EXCEPT ![p] = "durable"]}
    /\ UNCHANGED <<kind, entry, inode, lock, attempt, others, clock, history>>

\* The final quota check, then the durable attempt with its chunks.
RecordDurable(p) ==
    /\ At(p, "durable")
    /\ \/ /\ recordAttempt(p, [Attempt("durable", p) EXCEPT !.chunks = put[p].alloc])
          /\ Go(p, "commit")
       \/ Go(p, "plan") /\ Fault /\ UNCHANGED attempt
    /\ UNCHANGED <<store, lock, others, clock, history>>

Committed(i, S) == [inode EXCEPT ![i] = Row(clock + 1, S, {}, {})]

\* CommitChunkRefsModelAware.  After an error, applied or not, the attempt is
\* left to the recovery worker.
CommitChunkRefs(p) ==
    LET i == put[p].ino
        apply == /\ inode' = Committed(i, put[p].alloc)
                 /\ clock' = clock + 1
                 /\ acked' = None
        needed == GiveUp(p, [Attempt("recovery", p) EXCEPT !.chunks = put[p].alloc])
    IN  /\ At(p, "commit")
        /\ \/ /\ inode[i] # None /\ apply /\ Go(p, "committed")
              /\ UNCHANGED <<attempt, faults>>
           \/ /\ inode[i] # None /\ apply /\ Fault /\ needed
           \/ /\ IF inode[i] = None THEN UNCHANGED faults ELSE Fault
              /\ needed /\ UNCHANGED <<inode, clock, acked>>
        /\ UNCHANGED <<kind, entry, chunk, lock, others, clobbered>>

RecordCommitted(p) ==
    /\ At(p, "committed")
    /\ recordAttempt(p, [Attempt("committed", p) EXCEPT !.chunks = put[p].alloc])
    /\ Go(p, "deleteOld")
    /\ UNCHANGED <<store, lock, others, clock, history>>

DeleteOld(p) ==
    /\ At(p, "deleteOld")
    /\ chunk' = DeleteChunks(put[p].olds)
    /\ put' = [put EXCEPT ![p] =
          [IdlePut EXCEPT !.pc = "unlock", !.ino = put[p].ino, !.ok = TRUE]]
    /\ UNCHANGED <<kind, entry, inode, lock, attempt, others, clock, faults, history>>

\* The deferred AdvisoryUnlock; the response follows it.
UnlockPut(p) ==
    /\ At(p, "unlock")
    /\ AdvisoryUnlock(put[p].ino, PutOwner(p))
    /\ Go(p, "done")
    /\ IF put[p].ok THEN acked' = p /\ clobbered' = FALSE ELSE UNCHANGED history
    /\ UNCHANGED <<store, attempt, others, clock, faults>>

-----------------------------------------------------------------------------
(* compensateFailedWrite, by the request that failed *)

PersistPlan(p) ==
    /\ At(p, "plan")
    /\ recordAttempt(p, CleanupAttempt(p))
    /\ Go(p, "lookup")
    /\ UNCHANGED <<store, lock, others, clock, history>>

\* The lookup whose answer decides what Undo does, and the chunk deletions.
Compensate(p) ==
    /\ At(p, "lookup")
    /\ put' = [put EXCEPT ![p] = [@ EXCEPT !.pc = "undo",
            !.match = FlatFound /\ SameObject(put[p].ino, put[p].ctime)]]
    /\ chunk' = DeleteChunks(put[p].alloc)
    /\ UNCHANGED <<kind, entry, inode, lock, attempt, others, clock, faults, history>>

\* Mutant: the row goes, the entry stays.
UnlinkRow ==
    IF FlatFound THEN inode' = [inode EXCEPT ![entry] = None] /\ UNCHANGED entry
    ELSE UNCHANGED <<entry, inode>>

\* Unlink(bucket root, whole key) removes whatever the flat entry names now.
UnlinkFlat ==
    IF FlatFound
    THEN entry' = None /\ inode' = [inode EXCEPT ![entry] = None]
    ELSE UNCHANGED <<entry, inode>>

\* cleanupQuotaRejectedWrite after its lookup: unlink a new object, put an
\* overwritten one back.  done tells whether the call succeeded.
Undo(match, new, i, rollback, done) ==
    \/ ~match /\ done /\ UNCHANGED <<entry, inode, clock, faults>>
    \/ match /\ new /\ done /\ UnlinkFlat /\ UNCHANGED <<clock, faults>>
    \/ /\ match /\ ~new /\ UpdateInodeOK(i, rollback) /\ done
       /\ inode' = Updated(i, rollback)
       /\ clock' = clock + 1
       /\ UNCHANGED <<entry, faults>>
    \/ /\ match /\ ~new /\ ~UpdateInodeOK(i, rollback) /\ ~done
       /\ UNCHANGED <<entry, inode, clock, faults>>
    \/ match /\ Fault /\ ~done /\ UNCHANGED <<entry, inode, clock>>

UndoPut(p) ==
    /\ At(p, "undo")
    /\ \E done \in BOOLEAN :
        /\ Undo(put[p].match, put[p].new, put[p].ino, put[p].snap, done)
        /\ Go(p, IF done THEN "finish" ELSE "unlock")
    /\ UNCHANGED <<kind, chunk, lock, attempt, others, history>>

FinishCleanup(p) ==
    /\ At(p, "finish")
    /\ GiveUp(p, [CleanupAttempt(p) EXCEPT !.state = "failed"])
    /\ UNCHANGED <<store, lock, others, clock, faults, history>>

\* The gateway dies: its lock stays, the attempt stays as it was.
CrashPut(p) ==
    /\ put[p].pc \notin {"start", "done", "dead"}
    /\ Fault
    /\ Go(p, "dead")
    /\ UNCHANGED <<store, lock, attempt, others, clock, history>>

-----------------------------------------------------------------------------
(* DELETE *)

DelGo(pc) ==
    del' = IF pc = "done" THEN [IdleDel EXCEPT !.pc = pc] ELSE [del EXCEPT !.pc = pc]

\* A key that is not there is already deleted.
DelResolve ==
    /\ del.pc = "start"
    /\ IF entry = None THEN DelGo("done")
       ELSE del' = [pc |-> "lock", ino |-> entry, ctime |-> inode[entry].ctime]
    /\ UNCHANGED <<store, lock, attempt, put, rec, gc, clock, faults, history>>

DelLock ==
    /\ del.pc = "lock"
    /\ IF AdvisoryLockFree(del.ino, DelOwner)
       THEN AdvisoryLock(del.ino, DelOwner) /\ DelGo("verify")
       ELSE UNCHANGED lock /\ DelGo("done")
    /\ UNCHANGED <<store, attempt, put, rec, gc, clock, faults, history>>

DelVerify ==
    /\ del.pc = "verify"
    /\ DelGo(IF SameObject(del.ino, del.ctime) THEN "unlink" ELSE "unlock")
    /\ UNCHANGED <<store, lock, attempt, put, rec, gc, clock, faults, history>>

DelUnlink ==
    /\ del.pc = "unlink"
    /\ UnlinkFlat
    /\ acked' = IF FlatFound THEN None ELSE acked
    /\ DelGo("unlock")
    /\ UNCHANGED <<kind, chunk, lock, attempt, put, rec, gc, clock, faults, clobbered>>

DelUnlock ==
    /\ del.pc = "unlock"
    /\ AdvisoryUnlock(del.ino, DelOwner)
    /\ DelGo("done")
    /\ UNCHANGED <<store, attempt, put, rec, gc, clock, faults, history>>

-----------------------------------------------------------------------------
(* WriteRecoveryWorker.RecoverOnce, on copies of the attempts it listed.    *)
(* Its lock owner is the attempt id, which is not the owner the PUT used.   *)

RecGo(pc) == rec' = [rec EXCEPT !.pc = pc]
Later(pc, then) == rec' = [rec EXCEPT !.pc = pc, !.then = then]
recOthers == <<put, del, gc>>

RecList ==
    /\ rec.pc = "idle"
    /\ \E state \in {"durable", "recovery"} :
        LET found == {p \in Puts : attempt[p] # None /\ attempt[p].state = state}
        IN  /\ found # {}
            /\ rec' = [rec EXCEPT !.pc = "next", !.batch = {<<p, attempt[p]>> : p \in found}]
    /\ UNCHANGED <<store, lock, attempt, recOthers, clock, faults, history>>

RecNext ==
    /\ rec.pc = "next"
    /\ IF rec.batch = {} THEN rec' = IdleRec
       ELSE \E x \in rec.batch :
              rec' = [IdleRec EXCEPT !.pc = "lock", !.batch = rec.batch \ {x},
                          !.p = x[1], !.a = x[2]]
    /\ UNCHANGED <<store, lock, attempt, recOthers, clock, faults, history>>

\* markFailed, markCleanupRetryable or markCleanupComplete of the copy.
RecMark ==
    /\ rec.pc = "mark"
    /\ PutWriteAttempt(rec.p, [rec.a EXCEPT !.state = rec.then])
    /\ RecGo("next")
    /\ UNCHANGED <<store, lock, recOthers, clock, faults, history>>

\* Mutant: a busy lock leaves every attempt for another time.
RecLockRetry ==
    /\ rec.pc = "lock"
    /\ IF AdvisoryLockFree(rec.a.ino, AttemptOwner(rec.p))
       THEN AdvisoryLock(rec.a.ino, AttemptOwner(rec.p)) /\ RecGo("inspect")
       ELSE Later("mark", "recovery") /\ UNCHANGED lock
    /\ UNCHANGED <<store, attempt, recOthers, clock, faults, history>>

\* A busy lock keeps a cleanup for later and fails a commit.
RecLock ==
    /\ rec.pc = "lock"
    /\ IF AdvisoryLockFree(rec.a.ino, AttemptOwner(rec.p))
       THEN AdvisoryLock(rec.a.ino, AttemptOwner(rec.p)) /\ RecGo("inspect")
       ELSE /\ Later("mark", IF rec.a.intent = "cleanup" THEN "recovery" ELSE "failed")
            /\ UNCHANGED lock
    /\ UNCHANGED <<store, attempt, recOthers, clock, faults, history>>

\* recoverAttempt up to the commit.
RecoverAttempt ==
    LET drop == chunk' = DeleteChunks(rec.a.chunks)
        keep == UNCHANGED chunk
        fail == Later("unlock", "failed")
    IN  /\ rec.pc = "inspect" /\ rec.a.intent = "commit"
        /\ \/ ~FlatFound /\ fail /\ keep /\ UNCHANGED <<attempt, faults>>
           \/ Fault /\ fail /\ keep /\ UNCHANGED attempt
           \/ FlatFound /\ entry # rec.a.ino /\ drop /\ fail /\ UNCHANGED <<attempt, faults>>
           \/ /\ FlatFound /\ entry = rec.a.ino /\ keep /\ UNCHANGED faults
              /\ resolveCommittedChunks(inode[entry]) = rec.a.chunks
              /\ inode[entry].bare = {}
              /\ PutWriteAttempt(rec.p, [rec.a EXCEPT !.state = "committed"])
              /\ Later("unlock", None)
           \/ /\ FlatFound /\ entry = rec.a.ino
              /\ \/ resolveCommittedChunks(inode[entry]) # rec.a.chunks
                 \/ inode[entry].bare # {}
              /\ \/ /\ SameObject(rec.a.ino, rec.a.ctime)
                    /\ IF \A c \in rec.a.chunks : chunk[c] = "durable"
                       THEN RecGo("commit") ELSE fail
                    /\ keep /\ UNCHANGED faults
                 \/ SameObject(rec.a.ino, rec.a.ctime) /\ Fault /\ drop /\ fail
                 \/ ~SameObject(rec.a.ino, rec.a.ctime) /\ drop /\ fail /\ UNCHANGED faults
              /\ UNCHANGED attempt
        /\ UNCHANGED <<kind, entry, inode, lock, recOthers, clock, history>>

RecCommit ==
    /\ rec.pc = "commit"
    /\ \/ /\ inode[rec.a.ino] # None
          /\ inode' = Committed(rec.a.ino, rec.a.chunks)
          /\ clock' = clock + 1
          /\ acked' = IF clobbered THEN None ELSE acked
          /\ RecGo("record")
          /\ UNCHANGED faults
       \/ /\ IF inode[rec.a.ino] = None THEN UNCHANGED faults ELSE Fault
          /\ Later("unlock", "failed")
          /\ UNCHANGED <<inode, clock, acked>>
    /\ UNCHANGED <<kind, entry, chunk, lock, attempt, recOthers, clobbered>>

RecRecord ==
    /\ rec.pc = "record"
    /\ PutWriteAttempt(rec.p, [rec.a EXCEPT !.state = "committed"])
    /\ Later("unlock", None)
    /\ UNCHANGED <<store, lock, recOthers, clock, faults, history>>

\* cleanupAttempt: the lookup and the chunk deletions, then Undo.
CleanupAttemptChunks ==
    /\ rec.pc = "inspect" /\ rec.a.intent = "cleanup"
    /\ rec' = [rec EXCEPT !.pc = "undo",
                 !.match = FlatFound /\ SameObject(rec.a.ino, rec.a.ctime)]
    /\ chunk' = DeleteChunks(rec.a.chunks)
    /\ UNCHANGED <<kind, entry, inode, lock, attempt, recOthers, clock, faults, history>>

RecUndo ==
    /\ rec.pc = "undo"
    /\ \E done \in BOOLEAN :
        /\ Undo(rec.match, rec.a.new, rec.a.ino, rec.a.rollback, done)
        /\ Later("unlock", IF done THEN "failed" ELSE "recovery")
    /\ UNCHANGED <<kind, chunk, lock, attempt, recOthers, history>>

\* The deferred unlock; the caller marks the attempt after it.
RecUnlock ==
    /\ rec.pc = "unlock"
    /\ AdvisoryUnlock(rec.a.ino, AttemptOwner(rec.p))
    /\ RecGo(IF rec.then = None THEN "next" ELSE "mark")
    /\ UNCHANGED <<store, attempt, recOthers, clock, faults, history>>

\* The gateway that runs the worker dies and starts again.
RecCrash ==
    /\ rec.pc # "idle"
    /\ Fault
    /\ rec' = IdleRec
    /\ UNCHANGED <<store, lock, attempt, recOthers, clock, history>>

-----------------------------------------------------------------------------
(* WriteGCWorker.SweepOnce *)

gcOthers == <<put, del, rec>>

\* Takes a failed attempt at any age, a pending or allocated one after
\* AbandonAge, which a slow PUT may outlive.  chunkReferencedByAttemptInode looks
\* at the ChunkMap of the attempt's inode.
SweepAttempt(p) ==
    LET a == attempt[p]
        kept == {c \in a.chunks : /\ a.ino # None /\ inode[a.ino] # None
                                  /\ c \in ChunkMap(inode[a.ino])}
    IN  /\ gc = None
        /\ a # None /\ a.state \in {"failed", "pending", "allocated"}
        /\ chunk' = DeleteChunks(a.chunks \ kept)
        /\ gc' = IF kept = {} THEN p ELSE None
        /\ UNCHANGED <<kind, entry, inode, lock, attempt, gcOthers, clock, faults, history>>

\* DeleteWriteAttempt by id, whatever the attempt has become.
DeleteWriteAttempt ==
    /\ gc # None
    /\ PutWriteAttempt(gc, None)
    /\ gc' = None
    /\ UNCHANGED <<store, lock, gcOthers, clock, faults, history>>

\* Nobody who is still running holds the lock of i.
Orphaned(i) ==
    /\ \A p \in Puts : lock[i].owner = PutOwner(p) => put[p].pc = "dead"
    /\ \A p \in Puts : lock[i].owner = AttemptOwner(p) =>
          ~(rec.p = p /\ rec.pc \in {"inspect", "commit", "record", "undo", "unlock"})
    /\ lock[i].owner # DelOwner

\* The metadata server restarts: advisory locks live in its memory only.
MetadRestart ==
    /\ LET held == {i \in Ids : lock[i] # None}
       IN  held # {} /\ (~LiveRestart => \A i \in held : Orphaned(i))
    /\ lock' = [i \in Ids |-> None]
    /\ UNCHANGED <<store, attempt, actors, clock, faults, history>>

-----------------------------------------------------------------------------
PutStep(p) ==
    \/ Begin(p) \/ Resolve(p) \/ CreateFile(p) \/ Relookup(p)
    \/ RecordAllocated(p) \/ LockPut(p) \/ Verify(p) \/ AllocateChunk(p)
    \/ WriteAllocated(p) \/ RecordDurable(p) \/ CommitChunkRefs(p)
    \/ RecordCommitted(p) \/ DeleteOld(p) \/ UnlockPut(p) \/ PersistPlan(p)
    \/ Compensate(p) \/ UndoPut(p) \/ FinishCleanup(p)

DelStep == DelResolve \/ DelLock \/ DelVerify \/ DelUnlink \/ DelUnlock

RecStep ==
    \/ RecList \/ RecNext \/ RecMark \/ RecLock \/ RecoverAttempt \/ RecCommit
    \/ RecRecord \/ CleanupAttemptChunks \/ RecUndo \/ RecUnlock

GCStep == (\E p \in Puts : SweepAttempt(p)) \/ DeleteWriteAttempt

Next ==
    \/ \E p \in Puts : PutStep(p) \/ RejectEarly(p) \/ RejectLocked(p) \/ CrashPut(p)
    \/ DelStep \/ RecStep \/ RecCrash \/ GCStep \/ MetadRestart

Spec == Init /\ [][Next]_vars

\* Requests, the recovery worker and the GC keep running; nothing is assumed of
\* failures.
FairSpec ==
    /\ Spec
    /\ \A p \in Puts : WF_vars(PutStep(p))
    /\ WF_vars(DelStep) /\ WF_vars(RecStep) /\ WF_vars(GCStep)

-----------------------------------------------------------------------------
RowType == [ctime : Nat, v2 : SUBSET Chunks, data : SUBSET Chunks, bare : SUBSET Chunks]

\* What the variables hold.
TypeOK ==
    /\ kind \in KeyKinds
    /\ entry \in Ids \cup {None}
    /\ \A i \in Ids : inode[i] = None \/ inode[i] \in RowType
    /\ chunk \in [Chunks -> {"none", "alloc", "durable", "tomb"}]
    /\ clock \in Nat /\ faults \in 0 .. MaxFaults
    /\ acked \in Chunks \cup {None} /\ clobbered \in BOOLEAN
    /\ entry # None => inode[entry] # None

\* An acknowledged PUT stays what a GET returns until another PUT allocates on
\* the object or a DELETE removes it: no compensation, recovery, rollback or
\* sweep of an older write undoes it, overwrites it or deletes its chunk.
AckedSurvives ==
    acked # None /\ ~clobbered => Visible = {acked} /\ chunk[acked] = "durable"

\* DeleteChunk by requests, recovery and GC never takes a chunk that a row's
\* layout or ChunkMap holds with data.
ContentNotDeleted ==
    \A i \in Ids : inode[i] # None =>
        \A c \in inode[i].v2 \cup inode[i].data : chunk[c] = "durable"

\* An attempt becomes committed only while the key shows its chunks.
CommittedIsVisible ==
    [][\A p \in Puts :
          /\ attempt'[p] # None /\ attempt'[p].state = "committed"
          /\ ~(attempt[p] # None /\ attempt[p].state = "committed")
          => Visible = {p}]_vars

\* A write that became durable, or whose commit failed, is decided: the
\* recovery worker does not leave its attempt waiting for ever.
CommitDecided ==
    \A p \in Puts :
        (attempt[p] # None /\ attempt[p].intent = "commit"
             /\ attempt[p].state \in {"durable", "recovery"})
        ~> (attempt[p] = None \/ attempt[p].state \in {"committed", "failed"}
             \/ attempt[p].intent = "cleanup")

================================================================================
