------------------------------ MODULE SegmentStore ------------------------------
(***************************************************************************)
(* One commit stream of a datanode disk: the segment log, the committed    *)
(* overlay, the derived index, group commit, the INDEX_SAFE checkpoint,    *)
(* rotation, crash and replay, clean shutdown and compaction.              *)
(*                                                                         *)
(* A log is a sequence of blocks: a batch of records under one BatchCommit,*)
(* an INDEX_SAFE marker, or a torn stretch that does not parse.  A block   *)
(* takes one of the SegCap places of a segment.                            *)
(*                                                                         *)
(* Code: datanode/storage/segment, index and maintenance.                  *)
(***************************************************************************)
EXTENDS Naturals, Sequences, FiniteSets
LOCAL INSTANCE SequencesExt

CONSTANTS
    Extents, Gens,   \* a key is an extent and a generation
    Encoded,         \* extents whose frames compress (or are encrypted)
    Requests,        \* client requests, one operation each
    None,
    SegCap, MaxSegs, \* blocks in a segment; bound on segment ids
    MaxBatch,        \* group commit limit
    ApplyCap,        \* room in the queue of asynchronous index applies
    MaxFaults,       \* crashes and I/O errors together
    MaxCompactions

ASSUME Bounds ==
    /\ Gens \subseteq Nat
    /\ {SegCap, MaxSegs, MaxBatch} \subseteq Nat \ {0}
    /\ {ApplyCap, MaxFaults, MaxCompactions} \subseteq Nat
    /\ None \notin Requests

Keys == Extents \X Gens
Segs == 1 .. MaxSegs

VARIABLES
    phase,      \* "up", "closing", "down", "recovering" or "refused"
    file,       \* segment id -> [header, log, synced, sealed], or None
    active,     \* the segment the writer appends to
    index,      \* key -> location in Pebble, or None; every apply is synced
    ckpt,       \* the recovery checkpoint beside the index, or None
    entries,    \* overlay: the delta since the last flush
    draining,   \* overlay: what a flush in progress took
    applyQ,     \* applyCh
    streamSeq, publishedSeq,
    flushMuts,  \* published mutations not yet under a checkpoint
    flush,      \* the flush in progress
    batch,      \* the requests of the batch being committed, or None
    req,        \* request -> what it is doing
    comp,       \* the compaction worker
    faults,     \* [fault, comp]: how much of each bound is used
    promise,    \* history: key -> the location of its last durable record
    gaps        \* history: the circumstances met that lose a guarantee

disk == <<file, active, index, ckpt>>
overlay == <<entries, draining>>
seqs == <<streamSeq, publishedSeq, flushMuts>>
history == <<promise, gaps>>
vars == <<phase, disk, overlay, applyQ, seqs, flush, batch, req, comp, faults, history>>

-----------------------------------------------------------------------------
(* A location is a segment and the stream sequence of the record in it; a    *)
(* tombstone is located at its DELETE record.                                *)

Loc(s, n, st) == [seg |-> s, n |-> n, st |-> st]
Unknown == Loc(0, 0, "unknown")
Open == Loc(0, 0, "open")
Empty == [k \in Keys |-> None]
Over(f, g) == [k \in Keys |-> IF f[k] # None THEN f[k] ELSE g[k]]

\* Overlay.Get: what is being flushed stays readable.
OverlayGet(k) == Over(entries, draining)[k]
lookup(k) == IF OverlayGet(k) # None THEN OverlayGet(k) ELSE index[k]

Live(v) == v # None /\ v.st = "durable"
Tomb(v) == v # None /\ v.st = "tomb"
Older(v, w) == v.seg < w.seg \/ (v.seg = w.seg /\ v.n < w.n)

Block(kind, recs, seq) == [kind |-> kind, recs |-> recs, seq |-> seq]
Torn == Block("torn", <<>>, 0)
Rec(op, k, n, enc) == [op |-> op, key |-> k, n |-> n, enc |-> enc]
State(op) == IF op = "put" THEN "durable" ELSE "tomb"
Records(log) == UNION {{log[i].recs[j] : j \in DOMAIN log[i].recs} : i \in DOMAIN log}

\* BuildFramedRecord: an encodable payload is stored under one layer of
\* encoding, and a read strips one.
Layers(k) == IF k[1] \in Encoded THEN 1 ELSE 0

\* A read at v finds the record of k with its payload intact.
ReadOK(k, v) ==
    /\ file[v.seg] # None
    /\ Rec("put", k, v.n, Layers(k)) \in Records(file[v.seg].log)

Room(s) == Len(file[s].log) < SegCap
MuFree == batch = None /\ flush.pc = "idle"
Fault == faults.fault < MaxFaults /\ faults' = [faults EXCEPT !.fault = @ + 1]

NewFile == [header |-> TRUE, log |-> <<>>, synced |-> 0, sealed |-> FALSE]
IdleReq == [pc |-> "new", op |-> None, key |-> None, seg |-> 0, n |-> 0]
Answered == [IdleReq EXCEPT !.pc = "done"]
IdleFlush == [pc |-> "idle", safe |-> 0, pending |-> 0]
IdleComp == [pc |-> "idle", src |-> 0, recs |-> <<>>, latest |-> <<>>, relocs |-> <<>>]

Init ==
    /\ phase = "up"
    /\ file = [s \in Segs |-> IF s = 1 THEN NewFile ELSE None] /\ active = 1
    /\ index = Empty /\ ckpt = None
    /\ entries = Empty /\ draining = Empty /\ applyQ = <<>>
    /\ streamSeq = 0 /\ publishedSeq = 0 /\ flushMuts = 0
    /\ flush = IdleFlush /\ batch = None
    /\ req = [r \in Requests |-> IdleReq] /\ comp = IdleComp
    /\ faults = [fault |-> 0, comp |-> 0]
    /\ promise = [k \in Keys |-> Unknown] /\ gaps = {}

-----------------------------------------------------------------------------
(* Requests and group commit *)

\* Write up to Submit: a key that is already known is answered from its entry
\* (a key has one payload, so the checksums agree).
BeginWrite(r, k) ==
    /\ phase = "up" /\ req[r].pc = "new"
    /\ req' = [req EXCEPT ![r] =
                  IF lookup(k) # None THEN Answered
                  ELSE [IdleReq EXCEPT !.pc = "submitted", !.op = "put", !.key = k]]
    /\ UNCHANGED <<phase, disk, overlay, applyQ, seqs, flush, batch, comp, faults, history>>

\* Delete up to Submit: an unknown key is already gone.
BeginDelete(r, k) ==
    /\ phase = "up" /\ req[r].pc = "new"
    /\ req' = [req EXCEPT ![r] =
                  IF lookup(k) = None THEN Answered
                  ELSE [IdleReq EXCEPT !.pc = "submitted", !.op = "delete", !.key = k]]
    /\ UNCHANGED <<phase, disk, overlay, applyQ, seqs, flush, batch, comp, faults, history>>

\* Mutant: the segment is never sealed.
AppendSeg_noSeal == active

\* Where one block goes: sealActiveLocked writes and syncs the footer of a full
\* segment and opens the next.  What only the overlay knows of the sealed
\* segment is not flushed first.
AppendSeg == IF Room(active) THEN active ELSE active + 1
Sealed == IF Room(active) THEN file
          ELSE [file EXCEPT ![active] = [@ EXCEPT !.sealed = TRUE, !.synced = Len(file[active].log)],
                            ![active + 1] = NewFile]
Appended(b) == [Sealed EXCEPT ![AppendSeg] = [@ EXCEPT !.log = Append(@, b)]]
Synced(f, s) == [f EXCEPT ![s].synced = Len(f[s].log)]

\* collectAndCommit and commitBatch up to the sync, for the requests of rs.
CommitAppend(rs) ==
    /\ phase \in {"up", "closing"} /\ MuFree
    /\ \A i \in DOMAIN rs : req[rs[i]].pc = "submitted"
    /\ AppendSeg \in Segs
    /\ LET recs == [i \in DOMAIN rs |->
                       LET q == req[rs[i]]
                       IN  Rec(q.op, q.key, streamSeq + i,
                               IF q.op = "put" THEN Layers(q.key) ELSE 0)]
           at(r) == CHOOSE i \in DOMAIN rs : rs[i] = r
       IN  /\ file' = Appended(Block("batch", recs, streamSeq + Len(rs)))
           /\ req' = [r \in Requests |->
                         IF \E i \in DOMAIN rs : rs[i] = r
                         THEN [req[r] EXCEPT !.pc = "batched", !.seg = AppendSeg,
                                             !.n = streamSeq + at(r)]
                         ELSE req[r]]
           /\ promise' = [k \in Keys |-> IF \E i \in DOMAIN recs : recs[i].key = k
                                         THEN Open ELSE promise[k]]
    /\ active' = AppendSeg
    /\ streamSeq' = streamSeq + Len(rs)
    /\ batch' = rs
    /\ UNCHANGED <<phase, index, ckpt, overlay, applyQ, publishedSeq, flushMuts,
                   flush, comp, faults, gaps>>

\* What a block says of each key: its last record of that key.
Says(b, s) ==
    [k \in Keys |->
        LET mine == {i \in DOMAIN b.recs : b.recs[i].key = k}
            last == CHOOSE i \in mine : \A j \in mine : j <= i
        IN  IF mine = {} THEN None ELSE Loc(s, b.recs[last].n, State(b.recs[last].op))]

\* publishRecoveryBatch: the watermark passes contiguous batches only.
Publish(prev, n) ==
    IF prev = publishedSeq
    THEN publishedSeq' = prev + n /\ flushMuts' = flushMuts + n
    ELSE UNCHANGED <<publishedSeq, flushMuts>>

\* The one sync of commitBatch, then the overlay, still under the lock.
CommitSync ==
    /\ batch # None
    /\ LET log == file[active].log
           says == Says(log[Len(log)], active)
       IN  entries' = Over(says, entries) /\ promise' = Over(says, promise)
    /\ file' = Synced(file, active)
    /\ Publish(streamSeq - Len(batch), Len(batch))
    /\ req' = [r \in Requests |-> IF req[r].pc = "batched"
                                  THEN [req[r] EXCEPT !.pc = "committed"] ELSE req[r]]
    /\ batch' = None
    /\ UNCHANGED <<phase, active, index, ckpt, draining, applyQ, streamSeq, flush,
                   comp, faults, gaps>>

\* An append or the sync fails: every request of the batch gets the error, and
\* the place stays taken by a block that is torn, or whole but not published.
CommitFail ==
    /\ batch # None
    /\ Fault
    /\ file' \in {file, [file EXCEPT ![active].log[Len(file[active].log)] = Torn]}
    /\ req' = [r \in Requests |-> IF req[r].pc = "batched" THEN Answered ELSE req[r]]
    /\ batch' = None
    /\ UNCHANGED <<phase, active, index, ckpt, overlay, applyQ, seqs, flush, comp, history>>

-----------------------------------------------------------------------------
(* The derived index *)

\* applyNow of one mutation: nothing compares it with what is there.
Overtaken(k, v) == IF index[k] # None /\ Older(v, index[k]) THEN {"stale"} ELSE {}

\* enqueueApply: the queue or, when it is full, the index itself.
EnqueueApply(k, v) ==
    IF Len(applyQ) < ApplyCap
    THEN applyQ' = Append(applyQ, [key |-> k, loc |-> v]) /\ UNCHANGED index
    ELSE index' = [index EXCEPT ![k] = v] /\ UNCHANGED applyQ
EnqueueGap(k, v) == IF Len(applyQ) < ApplyCap THEN {} ELSE Overtaken(k, v)

\* The rest of Write or Delete: schedule the apply and answer.
Finish(r) ==
    LET k == req[r].key
        v == Loc(req[r].seg, req[r].n, State(req[r].op))
    IN  /\ phase \in {"up", "closing"} /\ req[r].pc = "committed"
        /\ EnqueueApply(k, v)
        /\ gaps' = gaps \cup EnqueueGap(k, v)
        /\ req' = [req EXCEPT ![r] = Answered]
        /\ UNCHANGED <<phase, file, active, ckpt, overlay, seqs, flush, batch, comp,
                       faults, promise>>

\* One turn of applyLoop.
ApplyLoop ==
    /\ phase \in {"up", "closing"} /\ applyQ # <<>>
    /\ LET m == Head(applyQ)
       IN  /\ index' = [index EXCEPT ![m.key] = m.loc]
           /\ gaps' = gaps \cup Overtaken(m.key, m.loc)
    /\ applyQ' = Tail(applyQ)
    /\ UNCHANGED <<phase, file, active, ckpt, overlay, seqs, flush, batch, req, comp,
                   faults, promise>>

-----------------------------------------------------------------------------
(* Flush: overlay to index, INDEX_SAFE marker, checkpoint sidecar, under mu *)

InFlight == \E r \in Requests : req[r].pc \in {"submitted", "batched", "committed"}

\* Mutant: the checkpoint is published without the apply.
FlushApply_noApply ==
    /\ \/ phase = "up" /\ flushMuts > 0
       \/ phase = "recovering"
       \/ phase = "closing" /\ ~InFlight
    /\ MuFree /\ entries # Empty
    /\ flush' = [pc |-> "mark", safe |-> publishedSeq, pending |-> flushMuts]
    /\ draining' = Over(entries, draining) /\ entries' = Empty
    /\ UNCHANGED <<phase, disk, applyQ, seqs, batch, req, comp, faults, history>>

\* flushLoop and flush through the apply (nothing observes the moment between
\* Drain and the apply); startup flushes what it replayed, and shutdown flushes
\* once no request is left inside.
FlushApply ==
    /\ \/ phase = "up" /\ flushMuts > 0
       \/ phase = "recovering"
       \/ phase = "closing" /\ ~InFlight
    /\ MuFree /\ entries # Empty
    /\ flush' = [pc |-> "mark", safe |-> publishedSeq, pending |-> flushMuts]
    /\ draining' = Over(entries, draining) /\ entries' = Empty
    /\ index' = Over(entries, index)
    /\ UNCHANGED <<phase, file, active, ckpt, applyQ, seqs, batch, req, comp, faults, history>>

\* Mutant: the marker is not synced before the sidecar names it.
FlushMark_noSync ==
    /\ flush.pc = "mark" /\ Room(active)
    /\ file' = Appended(Block("safe", <<>>, flush.safe))
    /\ flush' = [flush EXCEPT !.pc = "store"]
    /\ UNCHANGED <<phase, active, index, ckpt, overlay, applyQ, seqs, batch, req, comp,
                   faults, history>>

\* writeIndexSafeLocked
FlushMark ==
    /\ flush.pc = "mark" /\ Room(active)
    /\ file' = Synced(Appended(Block("safe", <<>>, flush.safe)), active)
    /\ flush' = [flush EXCEPT !.pc = "store"]
    /\ UNCHANGED <<phase, active, index, ckpt, overlay, applyQ, seqs, batch, req, comp,
                   faults, history>>

Checkpoint == [seg |-> active, blk |-> Len(file[active].log), seq |-> flush.safe]

\* StoreRecoveryCheckpoint, and the end of flush.
FlushStore ==
    /\ flush.pc = "store" /\ flush.safe > 0
    /\ ckpt' = Checkpoint
    /\ draining' = Empty
    /\ flushMuts' = flushMuts - flush.pending
    /\ flush' = IdleFlush
    /\ UNCHANGED <<phase, file, active, index, entries, applyQ, streamSeq, publishedSeq,
                   batch, req, comp, faults, history>>

\* What a stopped process forgets, and what its callers have seen.
Forget ==
    /\ entries' = Empty /\ draining' = Empty /\ applyQ' = <<>>
    /\ streamSeq' = 0 /\ publishedSeq' = 0 /\ flushMuts' = 0
    /\ flush' = IdleFlush /\ batch' = None /\ comp' = IdleComp
    /\ req' = [r \in Requests |-> IF req[r].pc = "new" THEN req[r] ELSE Answered]

\* The marker does not fit, or the checkpoint has no sequence to name.
FlushCannot == (flush.pc = "mark" /\ ~Room(active)) \/ (flush.pc = "store" /\ flush.safe = 0)

\* An error after the apply puts the drained entries back (one of the apply
\* itself leaves all as it was); at startup it makes New fail.  A sidecar may be
\* in place although its directory sync failed.
FlushFail ==
    /\ flush.pc # "idle"
    /\ (FlushCannot /\ UNCHANGED faults) \/ Fault
    /\ ckpt' \in {ckpt} \cup (IF flush.pc = "store" /\ flush.safe > 0
                              THEN {Checkpoint} ELSE {})
    /\ IF phase = "recovering"
       THEN Forget /\ phase' = IF FlushCannot THEN "refused" ELSE "down"
       ELSE /\ entries' = Over(entries, draining) /\ draining' = Empty
            /\ flush' = IdleFlush
            /\ UNCHANGED <<phase, applyQ, seqs, batch, req, comp>>
    /\ UNCHANGED <<file, active, index, history>>

-----------------------------------------------------------------------------
(* Shutdown, crash and startup *)

CloseBegin ==
    /\ phase = "up"
    /\ phase' = "closing"
    /\ UNCHANGED <<disk, overlay, applyQ, seqs, flush, batch, req, comp, faults, history>>

\* closeInternal once the gate, the flush loop and the apply loop are done.
CloseFinish ==
    /\ phase = "closing" /\ MuFree /\ ~InFlight /\ applyQ = <<>>
    /\ index' = Over(Over(entries, draining), index)
    /\ Forget
    /\ phase' = "down"
    /\ UNCHANGED <<file, active, ckpt, faults, history>>

Present(f) == {s \in Segs : f[s] # None}
\* maxSegmentID
MaxSeg(f) == IF Present(f) = {} THEN 0 ELSE CHOOSE s \in Present(f) : \A t \in Present(f) : t <= s

\* What may be left of the active segment: its synced blocks and any of the
\* rest; and of one never synced, a file without a header or no file (directory
\* changes reach the disk in order, so not once the one before it was removed).
Leftovers ==
    LET a == file[active]
    IN  {[file EXCEPT ![active] = [a EXCEPT !.log = SubSeq(a.log, 1, n), !.synced = n]] :
            n \in a.synced .. Len(a.log)}
        \cup (IF a.synced > 0 THEN {}
              ELSE {[file EXCEPT ![active] = [a EXCEPT !.header = FALSE, !.log = <<>>]]})
        \cup (IF a.synced > 0 \/ active - 1 \notin Present(file) \cup {0} THEN {}
              ELSE {[file EXCEPT ![active] = None]})

\* Where replay starts in segment s of f, and the last block it reaches.
Start(f, s) == IF ckpt # None /\ ckpt.seg = s THEN ckpt.blk ELSE 0
End(f, s) ==
    LET log == f[s].log
        good == {e \in Start(f, s) .. Len(log) :
                    \A i \in Start(f, s) + 1 .. e : log[i].kind # "torn"}
    IN  CHOOSE e \in good : \A d \in good : d <= e

Crash ==
    /\ phase \in {"up", "closing", "recovering"}
    /\ Fault
    /\ file' \in IF active = 0 THEN {file} ELSE Leftovers
    /\ LET behind == {k \in Keys : OverlayGet(k) # None /\ OverlayGet(k) # index[k]}
       IN  gaps' = IF \E k \in behind : OverlayGet(k).seg # MaxSeg(file')
                   THEN gaps \cup {"rotated"} ELSE gaps
    /\ Forget
    /\ phase' = "down"
    /\ UNCHANGED <<active, index, ckpt, promise>>

\* A checkpoint of this segment must stand right behind its marker.
CheckpointFits(s) ==
    Start(file, s) > 0 =>
        /\ Start(file, s) <= Len(file[s].log)
        /\ file[s].log[Start(file, s)] = Block("safe", <<>>, ckpt.seq)

BatchesIn(log, from, to) == {i \in from + 1 .. to : log[i].kind = "batch"}
Newest(S) == CHOOSE i \in S : \A j \in S : j <= i

\* Mutant: replay knows no DELETE records.
Replayed_putsOnly(s, from, to) ==
    LET says(i) == Says(file[s].log[i], s)
        mentions(k) == {i \in BatchesIn(file[s].log, from, to) : Live(says(i)[k])}
    IN  [k \in Keys |-> IF mentions(k) = {} THEN None ELSE says(Newest(mentions(k)))[k]]

\* The overlay that replay of segment s between two blocks builds.
Replayed(s, from, to) ==
    LET says(i) == Says(file[s].log[i], s)
        mentions(k) == {i \in BatchesIn(file[s].log, from, to) : says(i)[k] # None}
    IN  [k \in Keys |-> IF mentions(k) = {} THEN None ELSE says(Newest(mentions(k)))[k]]

\* New up to the replayed overlay: recoverActiveSegment of the highest-numbered
\* segment, whose tail (a footer too) is truncated behind the last good block.
Recover ==
    LET s == MaxSeg(file)
        from == Start(file, s)
        to == End(file, s)
        log == file[s].log
        later == BatchesIn(log, from, to)
        lastSeq == IF later # {} THEN log[Newest(later)].seq
                   ELSE IF from > 0 THEN ckpt.seq ELSE 0
    IN  /\ phase = "down"
        /\ active' = s
        /\ IF s = 0
           THEN phase' = "recovering" /\ UNCHANGED <<file, entries, seqs>>
           ELSE IF ~(file[s].header /\ CheckpointFits(s))
           THEN phase' = "refused" /\ UNCHANGED <<file, entries, seqs>>
           ELSE /\ phase' = "recovering"
                /\ file' = [file EXCEPT ![s] = [@ EXCEPT !.log = SubSeq(log, 1, to),
                                                         !.synced = to, !.sealed = FALSE]]
                /\ entries' = Replayed(s, from, to)
                /\ streamSeq' = lastSeq /\ publishedSeq' = lastSeq /\ UNCHANGED flushMuts
        /\ gaps' = IF s # 0 /\ to < Len(log) THEN gaps \cup {"torn"} ELSE gaps
        /\ UNCHANGED <<index, ckpt, draining, applyQ, flush, batch, req, comp, faults, promise>>

\* The end of New: a fresh segment, once the replayed overlay is persisted.
NewActive ==
    /\ phase = "recovering" /\ flush.pc = "idle" /\ entries = Empty
    /\ MaxSeg(file) + 1 \in Segs
    /\ active' = MaxSeg(file) + 1
    /\ file' = [file EXCEPT ![active'] = NewFile]
    /\ phase' = "up"
    /\ UNCHANGED <<index, ckpt, overlay, applyQ, seqs, flush, batch, req, comp, faults, history>>

-----------------------------------------------------------------------------
(* Compaction of one sealed segment *)

\* ScanSegmentRecords: the walk ends at the first block that starts with no
\* record magic, and an INDEX_SAFE marker has none.
ScanEnd(log) ==
    LET ends == {i \in DOMAIN log : log[i].kind # "batch"}
    IN  IF ends = {} THEN Len(log) ELSE (CHOOSE i \in ends : \A j \in ends : i <= j) - 1
Scan(log) ==
    SelectSeq(FlattenSeq([i \in 1 .. ScanEnd(log) |-> log[i].recs]), LAMBDA x : x.op = "put")

\* latestGenerations over ListExtents: the newest generation of each extent that
\* has an entry, unless that entry is a tombstone.
LatestGenerations ==
    {k \in Keys : /\ Live(lookup(k))
                  /\ \A g \in Gens : g > k[2] => lookup(<<k[1], g>>) = None}
\* Mutant: liveness is read from the index, which lags the overlay.
isLive_index(latest, src, k) == k \in latest /\ Live(index[k]) /\ index[k].seg = src

isLive(latest, src, k) == k \in latest /\ Live(lookup(k)) /\ lookup(k).seg = src

\* Eligible, with records of one size.
Eligible(src, recs) ==
    LET dead == {i \in DOMAIN recs : ~isLive(LatestGenerations, src, recs[i].key)}
    IN  Len(recs) > 0 /\ 10 * Cardinality(dead) >= 3 * Len(recs)

\* compactOne, score and the start of compactSegment.
CompactStart(src) ==
    /\ phase = "up" /\ comp.pc = "idle" /\ faults.comp < MaxCompactions
    /\ file[src] # None /\ file[src].sealed
    /\ Eligible(src, Scan(file[src].log))
    /\ faults' = [faults EXCEPT !.comp = @ + 1]
    /\ comp' = [pc |-> "check", src |-> src, recs |-> Scan(file[src].log),
                latest |-> LatestGenerations, relocs |-> <<>>]
    /\ UNCHANGED <<phase, disk, overlay, applyQ, seqs, flush, batch, req, history>>

\* The live check of the next record, and what follows the last.
CompactCheck ==
    /\ phase = "up" /\ comp.pc = "check"
    /\ comp' = IF comp.recs = <<>> THEN [comp EXCEPT !.pc = "relocate"]
               ELSE IF isLive(comp.latest, comp.src, Head(comp.recs).key)
               THEN [comp EXCEPT !.pc = "append"]
               ELSE [comp EXCEPT !.recs = Tail(@)]
    /\ UNCHANGED <<phase, disk, overlay, applyQ, seqs, flush, batch, req, faults, history>>

\* AppendRecord of the stored bytes of the record: they are framed, and so
\* encoded, once more; a tombstone committed since the check is overwritten.
CompactAppend ==
    LET x == Head(comp.recs)
        k == x.key
        n == streamSeq + 1
        v == Loc(AppendSeg, n, "durable")
        b == Block("batch", <<Rec("put", k, n, x.enc + Layers(k))>>, n)
    IN  /\ phase = "up" /\ comp.pc = "append" /\ MuFree /\ AppendSeg \in Segs
        /\ file' = Synced(Appended(b), AppendSeg)
        /\ active' = AppendSeg
        /\ streamSeq' = n
        /\ entries' = [entries EXCEPT ![k] = v]
        /\ Publish(n - 1, 1)
        /\ EnqueueApply(k, v)
        /\ promise' = IF promise[k].st = "durable" THEN [promise EXCEPT ![k] = v] ELSE promise
        /\ gaps' = gaps \cup EnqueueGap(k, v)
                        \cup (IF Live(lookup(k)) THEN {} ELSE {"race"})
                        \cup (IF Layers(k) = 0 THEN {} ELSE {"encoded"})
        /\ comp' = [comp EXCEPT !.pc = "check", !.recs = Tail(@),
                                !.relocs = Append(@, [key |-> k, loc |-> v])]
        /\ UNCHANGED <<phase, ckpt, draining, flush, batch, req, faults>>

\* Relocate looks for a tombstone in the overlay ...
RelocateCheck ==
    /\ phase = "up" /\ comp.pc = "relocate" /\ comp.relocs # <<>>
    /\ comp' = IF Tomb(OverlayGet(Head(comp.relocs).key))
               THEN [comp EXCEPT !.relocs = Tail(@)]
               ELSE [comp EXCEPT !.pc = "repoint"]
    /\ UNCHANGED <<phase, disk, overlay, applyQ, seqs, flush, batch, req, faults, history>>

\* ... and then puts the new location there.
RelocatePut ==
    LET k == Head(comp.relocs).key
    IN  /\ phase \in {"up", "closing"} /\ comp.pc = "repoint"
        /\ entries' = [entries EXCEPT ![k] = Head(comp.relocs).loc]
        /\ gaps' = IF Tomb(lookup(k)) THEN gaps \cup {"race"} ELSE gaps
        /\ comp' = [comp EXCEPT !.pc = "relocate", !.relocs = Tail(@)]
        /\ UNCHANGED <<phase, disk, draining, applyQ, seqs, flush, batch, req, faults, promise>>

\* compactSegment removes the source, whatever the scan did not reach included.
CompactRemove ==
    LET log == file[comp.src].log
        missed == UNION {Records(<<log[i]>>) : i \in ScanEnd(log) + 1 .. Len(log)}
    IN  /\ phase \in {"up", "closing"} /\ comp.pc = "relocate" /\ comp.relocs = <<>>
        /\ file' = [file EXCEPT ![comp.src] = None]
        /\ gaps' = IF \E x \in missed : x.op = "put" THEN gaps \cup {"marker"} ELSE gaps
        /\ comp' = IdleComp
        /\ UNCHANGED <<phase, active, index, ckpt, overlay, applyQ, seqs, flush, batch, req,
                       faults, promise>>

\* A failed append, or a closing store, leaves the source for a later pass.
CompactAbort ==
    /\ comp.pc \in {"check", "append", "relocate"}
    /\ \/ phase = "closing" /\ UNCHANGED <<faults, file, active, streamSeq>>
       \/ /\ phase = "up" /\ comp.pc = "append" /\ MuFree /\ AppendSeg \in Segs
          /\ Fault
          /\ file' = Appended(Torn) /\ active' = AppendSeg /\ streamSeq' = streamSeq + 1
    /\ comp' = IdleComp
    /\ UNCHANGED <<phase, index, ckpt, overlay, applyQ, publishedSeq, flushMuts, flush,
                   batch, req, history>>

-----------------------------------------------------------------------------
\* The orders in which the coordinator may collect up to MaxBatch requests.
Batches ==
    {rs \in UNION {[1 .. n -> Requests] : n \in 1 .. MaxBatch} :
        \A i, j \in DOMAIN rs : rs[i] = rs[j] => i = j}

Next ==
    \/ \E r \in Requests, k \in Keys : BeginWrite(r, k) \/ BeginDelete(r, k)
    \/ \E rs \in Batches : CommitAppend(rs)
    \/ CommitSync \/ CommitFail
    \/ \E r \in Requests : Finish(r)
    \/ ApplyLoop
    \/ FlushApply \/ FlushMark \/ FlushStore \/ FlushFail
    \/ CloseBegin \/ CloseFinish \/ Crash \/ Recover \/ NewActive
    \/ \E s \in Segs : CompactStart(s)
    \/ CompactCheck \/ CompactAppend \/ RelocateCheck \/ RelocatePut
    \/ CompactRemove \/ CompactAbort

Spec == Init /\ [][Next]_vars

-----------------------------------------------------------------------------
(* Properties *)

Locs == [seg : Segs, n : Nat, st : {"durable", "tomb"}]

TypeOK ==
    /\ phase \in {"up", "closing", "down", "recovering", "refused"}
    /\ active \in 0 .. MaxSegs
    /\ \A s \in Segs : file[s] # None =>
          /\ file[s].synced \in 0 .. Len(file[s].log) /\ Len(file[s].log) <= SegCap
          /\ {file[s].sealed, file[s].header} \subseteq BOOLEAN
    /\ {index, entries, draining} \subseteq [Keys -> Locs \cup {None}]
    /\ Len(applyQ) <= ApplyCap
    /\ publishedSeq <= streamSeq
    /\ batch = None \/ batch \in Batches
    /\ gaps \subseteq {"rotated", "torn", "stale", "race", "encoded", "marker"}

\* The newest generation of an extent: compaction drops the older ones.
Current(k) == \A g \in Gens : g > k[2] => promise[<<k[1], g>>] = Unknown

\* A durable write stays readable, with its payload, through flushes, failed
\* flushes, rotation, compaction, shutdown, crashes and replay, apart from five
\* circumstances: a crash finds the newest record of a key in a segment that is
\* no longer the last and not yet in the index; replay meets a block that a
\* failed append tore; a queued apply overtakes a flush; compaction removes a
\* segment its scan did not read to the end; or it re-encodes a stored record.
AckedServed ==
    phase = "up" /\ gaps \cap {"rotated", "torn", "stale", "encoded", "marker"} = {} =>
        \A k \in Keys : promise[k].st = "durable" /\ Current(k) =>
            Live(lookup(k)) /\ ReadOK(k, lookup(k))

\* A durable delete is never undone, apart from a crash after a rotation or a
\* torn block, an overtaken apply, and a compaction that copies the extent while
\* it is being deleted.
DeletedStaysDeleted ==
    phase = "up" /\ gaps \cap {"rotated", "torn", "stale", "race"} = {} =>
        \A k \in Keys : promise[k].st = "tomb" => ~Live(lookup(k))

\* What the comment on enqueueApply says: a crash after the answer and before the
\* apply "loses only the derived index, which recovery rebuilds from the committed
\* segment log".
RecoveryRebuilds ==
    phase = "up" /\ gaps \cap {"torn", "stale", "encoded", "marker"} = {} =>
        \A k \in Keys : promise[k].st = "durable" /\ Current(k) => Live(lookup(k))

\* The checkpoint never runs ahead of the index: replay skips what is in front
\* of the marker, so the index must have it.
CheckpointCovers ==
    ckpt # None /\ file[ckpt.seg] # None /\ gaps \cap {"stale", "race"} = {} =>
        LET covered == Records(SubSeq(file[ckpt.seg].log, 1, ckpt.blk))
        IN  \A k \in Keys :
                (promise[k].seg = ckpt.seg /\ \E x \in covered : x.key = k /\ x.n = promise[k].n)
                    => index[k] = promise[k]

\* A published checkpoint is always acceptable to the next startup: its marker
\* is durable in front of it.
CheckpointAccepted ==
    ckpt # None /\ file[ckpt.seg] # None =>
        /\ ckpt.blk <= file[ckpt.seg].synced
        /\ file[ckpt.seg].log[ckpt.blk] = Block("safe", <<>>, ckpt.seq)
=============================================================================
