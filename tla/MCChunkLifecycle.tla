--------------------------- MODULE MCChunkLifecycle ---------------------------
(* Small instances of ChunkLifecycle for TLC. *)
EXTENDS ChunkLifecycle, TLC

Symmetry == Permutations(Chunks) \cup Permutations(Workers)

\* Files that are only created and flushed, and the periodic ChunkGC scan: no
\* unlink, no unlocked update, no DeleteChunk or PurgeChunk call, no failure.
FlushAndScan ==
    \/ \E i \in Inodes :
          \/ CreateFile(i) \/ OpenSession(i) \/ CommitRead(i) \/ CommitPut(i)
          \/ \E c \in Chunks : AllocateChunk(i, c)
    \/ \E w \in Workers :
          \/ ScanChunks(w) \/ ScanReferencesA(w) \/ TombstoneApply(w)
          \/ TombstonesDone(w) \/ ScanReferencesB(w) \/ ScanTombstones(w)
          \/ PurgeApply(w) \/ PurgesDone(w)
          \/ \E c \in Chunks : TombstoneRead(w, c) \/ PurgeRead(w, c)
    \/ Tick

FlushSpec == Init /\ [][FlushAndScan]_vars

=============================================================================
