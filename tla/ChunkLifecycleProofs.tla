------------------------- MODULE ChunkLifecycleProofs -------------------------
(***************************************************************************)
(* Proofs about ChunkLifecycle, for every set of inodes, chunks and        *)
(* workers and all durations that satisfy TimingAssumption.                *)
(***************************************************************************)
EXTENDS ChunkLifecycle, TLAPS

-----------------------------------------------------------------------------
(* Type correctness *)

\* The initial state has the types.
LEMMA InitType == Init => TypeOK
  BY TimingAssumption DEF Init, TypeOK, Rows, InodeRows, AbsentInode, IdleWorker,
     WorkerStates, WorkerPCs

\* The idle worker state is a worker state.
LEMMA IdleIsWorker == IdleWorker \in WorkerStates
  BY DEF IdleWorker, WorkerStates, WorkerPCs, Rows

\* Steps of inodes, sessions and updates keep the types.
LEMMA InodeStepType ==
  ASSUME TypeOK, NEW i \in Inodes, InodeStep(i) PROVE TypeOK'
  <1> USE DEF TypeOK, InodeRows, Sessions, Rows, store, writers
  <1>1. CASE CreateFile(i)
    BY <1>1 DEF CreateFile
  <1>2. CASE Unlink(i)
    BY <1>2 DEF Unlink, AbsentInode
  <1>3. CASE OpenSession(i)
    BY <1>3 DEF OpenSession
  <1>4. CASE CommitRead(i)
    <2>1. PICK R \in SUBSET (session[i].keep \cup session[i].alloc) :
            session' = [session EXCEPT ![i] =
              [@ EXCEPT !.stage = "put", !.target = R]]
      BY <1>4 DEF CommitRead
    <2>2. session[i] \in Sessions
      BY <1>4 DEF CommitRead
    <2>3. [session[i] EXCEPT !.stage = "put", !.target = R] \in Sessions
      BY <2>2
    <2> QED
      BY <1>4, <2>1, <2>3 DEF CommitRead
  <1>5. CASE CommitPut(i)
    BY <1>5 DEF CommitPut
  <1>6. CASE AbandonSession(i)
    BY <1>6 DEF AbandonSession
  <1>7. CASE UpdateInodeApply(i)
    BY <1>7 DEF UpdateInodeApply, ChunkMap
  <1>8. CASE \E R \in SUBSET Chunks : UpdateInodeRead(i, R)
    BY <1>8 DEF UpdateInodeRead
  <1>9. ASSUME NEW c \in Chunks, AllocateChunk(i, c) PROVE TypeOK'
    <2>1. inode' \in [Inodes -> InodeRows]
      BY <1>9 DEF AllocateChunk, ChunkMap
    <2>2. session' \in [Inodes -> Sessions \cup {None}]
      <3>1. session[i] \in Sessions
        BY <1>9 DEF AllocateChunk
      <3>2. [session[i] EXCEPT !.alloc = @ \cup {c}] \in Sessions
        BY <3>1
      <3> QED
        BY <1>9, <3>2 DEF AllocateChunk
    <2>3. row' \in [Chunks -> Rows]
      BY <1>9 DEF AllocateChunk
    <2> HIDE DEF InodeRows, Sessions, Rows
    <2> QED
      BY <1>9, <2>1, <2>2, <2>3 DEF AllocateChunk
  <1> QED
    BY <1>1, <1>2, <1>3, <1>4, <1>5, <1>6, <1>7, <1>8, <1>9 DEF InodeStep

\* Steps of DeleteChunk, PurgeChunk and ChunkGC keep the types.
LEMMA WorkerStepType ==
  ASSUME TypeOK, NEW w \in Workers, WorkerStep(w) PROVE TypeOK'
  <1>a. IdleWorker \in WorkerStates
    BY IdleIsWorker
  <1>b. Referenced \in SUBSET Chunks
    BY DEF Referenced, InodeRows, TypeOK
  <1>c. worker[w] \in WorkerStates
    BY DEF TypeOK
  <1>d. ASSUME NEW st \in WorkerStates, worker' = [worker EXCEPT ![w] = st],
               UNCHANGED <<now, store, writers>>
        PROVE  TypeOK'
    BY <1>d DEF TypeOK, store, writers
  <1>e. ASSUME Abort(w), UNCHANGED <<now, store, writers>> PROVE TypeOK'
    BY <1>a, <1>d, <1>e DEF Abort
  <1>f. ASSUME NEW c \in Chunks, Skip(w, c), UNCHANGED <<now, store, writers>>
        PROVE  TypeOK'
    <2>1. [worker[w] EXCEPT !.todo = @ \ {c}] \in WorkerStates
      BY <1>c DEF WorkerStates
    <2> QED
      BY <1>d, <1>f, <2>1 DEF Skip
  <1>1. CASE ScanChunks(w)
    <2>1. [IdleWorker EXCEPT !.pc = "snapshotA", !.kind = "gc", !.snapAt = now,
             !.todo = {c \in Chunks : Exists(c)}] \in WorkerStates
      BY <1>a DEF WorkerStates, WorkerPCs, TypeOK
    <2> QED
      BY <1>1, <1>d, <2>1 DEF ScanChunks
  <1>2. CASE ScanReferencesA(w)
    <2>1. [worker[w] EXCEPT !.pc = "tombstone", !.snapAt = now,
             !.snap = Referenced, !.todo = worker[w].todo \ Referenced]
            \in WorkerStates
      BY <1>b, <1>c DEF WorkerStates, WorkerPCs, TypeOK
    <2> QED
      BY <1>2, <1>d, <2>1 DEF ScanReferencesA
  <1>3. CASE TombstoneApply(w)
    <2>1. [worker[w] EXCEPT !.pc = "tombstone", !.todo = worker[w].todo \ {worker[w].cur}]
            \in WorkerStates
      BY <1>c DEF WorkerStates, WorkerPCs
    <2>2. worker[w].at \in Nat
      BY <1>c DEF WorkerStates
    <2>3. worker' \in [Workers -> WorkerStates]
      BY <1>3, <2>1 DEF TombstoneApply, TypeOK
    <2> QED
      BY <1>3, <2>2, <2>3 DEF TombstoneApply, TypeOK, writers
  <1>4. CASE TombstonesDone(w)
    <2>1. [worker[w] EXCEPT !.pc = "snapshotB"] \in WorkerStates
      BY <1>c DEF WorkerStates, WorkerPCs
    <2> QED
      BY <1>4, <1>d, <1>e, <2>1 DEF TombstonesDone, Goto
  <1>5. CASE ScanReferencesB(w)
    <2>1. [worker[w] EXCEPT !.pc = "list", !.snap = Referenced, !.snapAt = now]
            \in WorkerStates
      BY <1>b, <1>c DEF WorkerStates, WorkerPCs, TypeOK
    <2> QED
      BY <1>5, <1>d, <2>1 DEF ScanReferencesB
  <1>6. CASE ScanTombstones(w)
    <2>1. [worker[w] EXCEPT !.pc = "purge",
             !.todo = {c \in Chunks : tomb[c] # -1} \ worker[w].snap]
            \in WorkerStates
      BY <1>c DEF WorkerStates, WorkerPCs
    <2> QED
      BY <1>6, <1>d, <2>1 DEF ScanTombstones
  <1>7. CASE PurgeApply(w)
    <2>1. [worker[w] EXCEPT !.pc = "purge", !.todo = worker[w].todo \ {worker[w].cur}]
            \in WorkerStates
      BY <1>c DEF WorkerStates, WorkerPCs
    <2>3. worker' \in [Workers -> WorkerStates]
      BY <1>7, <2>1 DEF PurgeApply, TypeOK
    <2> QED
      BY <1>7, <2>3 DEF PurgeApply, TypeOK, Rows, writers
  <1>8. CASE PurgesDone(w)
    BY <1>8, <1>e DEF PurgesDone
  <1>9. CASE StopWorker(w)
    BY <1>9, <1>e DEF StopWorker
  <1>10. ASSUME NEW c \in Chunks, DeleteChunk(w, c) PROVE TypeOK'
    <2>1. [IdleWorker EXCEPT !.pc = "tombstone", !.kind = "delete",
             !.todo = {c}, !.snap = Referenced, !.snapAt = now] \in WorkerStates
      BY <1>a, <1>b DEF WorkerStates, WorkerPCs, TypeOK
    <2> QED
      BY <1>10, <1>d, <2>1 DEF DeleteChunk
  <1>11. ASSUME NEW c \in Chunks, TombstoneRead(w, c) PROVE TypeOK'
    <2>1. [worker[w] EXCEPT !.pc = "tombstoneCond", !.cur = c,
             !.seenRow = row[c], !.at = now] \in WorkerStates
      BY <1>c DEF WorkerStates, WorkerPCs, TypeOK
    <2> QED
      BY <1>11, <1>d, <1>e, <1>f, <2>1 DEF TombstoneRead
  <1>12. ASSUME NEW c \in Chunks, PurgeChunk(w, c) PROVE TypeOK'
    <2>1. [IdleWorker EXCEPT !.pc = "purge", !.kind = "purge",
             !.todo = {c}, !.snap = Referenced, !.snapAt = now] \in WorkerStates
      BY <1>a, <1>b DEF WorkerStates, WorkerPCs, TypeOK
    <2> QED
      BY <1>12, <1>d, <2>1 DEF PurgeChunk
  <1>13. ASSUME NEW c \in Chunks, PurgeRead(w, c) PROVE TypeOK'
    <2>1. [worker[w] EXCEPT !.pc = "purgeCond", !.cur = c,
             !.seenRow = row[c], !.seenTomb = tomb[c]] \in WorkerStates
      BY <1>c DEF WorkerStates, WorkerPCs, TypeOK
    <2> QED
      BY <1>13, <1>d, <1>e, <1>f, <2>1 DEF PurgeRead
  <1> QED
    BY <1>1, <1>2, <1>3, <1>4, <1>5, <1>6, <1>7, <1>8, <1>9, <1>10, <1>11,
       <1>12, <1>13 DEF WorkerStep

\* Every step of the system keeps the types.
LEMMA TypeStep == TypeOK /\ [Next]_vars => TypeOK'
  <1> SUFFICES ASSUME TypeOK, [Next]_vars PROVE TypeOK'
    OBVIOUS
  <1>1. CASE \E i \in Inodes : InodeStep(i)
    BY <1>1, InodeStepType
  <1>2. CASE \E w \in Workers : WorkerStep(w)
    BY <1>2, WorkerStepType
  <1>3. CASE \E c \in Chunks : updateLiveChunkMetadata(c)
    BY <1>3 DEF updateLiveChunkMetadata, TypeOK, Rows, writers
  <1>4. CASE Tick
    BY <1>4 DEF Tick, TypeOK, store, writers
  <1>5. CASE UNCHANGED vars
    BY <1>5 DEF vars, TypeOK
  <1> QED
    BY <1>1, <1>2, <1>3, <1>4, <1>5 DEF Next

\* Every reachable state has rows and operations in flight of the shape their
\* Go types give them.
THEOREM TypeCorrect == Spec => []TypeOK
  BY InitType, TypeStep, PTL DEF Spec

-----------------------------------------------------------------------------
(* The inductive invariant.  A chunk is purged only when its tombstone has    *)
(* outlived the quarantine, so the argument is about the age of tombstones:   *)
(* a chunk that gains a reference after a purger's snapshot has no tombstone, *)
(* or one too young to be purged before that snapshot's last use.             *)

\* No worker acts on a snapshot older than MaxScan.
ScanClock ==
    \A w \in Workers : worker[w].pc # "idle" =>
        worker[w].snapAt <= now /\ now <= worker[w].snapAt + MaxScan

\* No session outlives MaxSession.
SessionClock ==
    \A i \in Inodes : session[i] # None =>
        session[i].since <= now /\ now <= session[i].since + MaxSession

\* What a worker knows when it submits the conditional batch of a tombstone ...
TombstoneBatch ==
    \A w \in Workers : worker[w].pc = "tombstoneCond" =>
        /\ worker[w].cur \in Chunks
        /\ worker[w].seenRow \in RowValues
        /\ row[worker[w].cur] # "none"
        /\ worker[w].snapAt <= worker[w].at /\ worker[w].at <= now

\* ... and that of a purge.
PurgeBatch ==
    \A w \in Workers : worker[w].pc = "purgeCond" =>
        /\ worker[w].cur \in Chunks
        /\ worker[w].cur \notin worker[w].snap
        /\ worker[w].seenTomb \in Nat
        /\ worker[w].seenTomb + Quarantine <= now

\* The chunks a session allocated exist, and whatever tombstone they have, or
\* are about to get, is younger than the session.
SessionChunks ==
    \A i \in Inodes : session[i] # None =>
        \A c \in session[i].alloc :
            /\ Exists(c)
            /\ tomb[c] = -1 \/ tomb[c] >= session[i].since
            /\ \A w \in Workers :
                  worker[w].pc = "tombstoneCond" /\ worker[w].cur = c =>
                      worker[w].at >= session[i].since

Base ==
    /\ TypeOK /\ TombstonePair /\ ScanClock /\ SessionClock
    /\ TombstoneBatch /\ PurgeBatch /\ SessionChunks

\* Whole-object sessions commit chunks they allocated, and nothing else.
SessionTargets ==
    \A i \in Inodes : session[i] # None =>
        session[i].keep = {} /\ session[i].target \subseteq session[i].alloc

\* Updates in flight write ChunkMaps, which are subject to the attachment check.
Updates == \A i \in Inodes : update[i] # None => update[i].kind = "V1"

\* A purger whose snapshot misses a chunk that is referenced now cannot find its
\* tombstone old enough while it may still use that snapshot.
StalePurge ==
    \A w \in Workers, c \in Chunks :
        /\ worker[w].pc \in {"list", "purge", "purgeCond"}
        /\ c \notin worker[w].snap
        /\ c \in Referenced
        => tomb[c] = -1 \/ tomb[c] + Quarantine > worker[w].snapAt + MaxScan

\* NoDanglingReference in terms of what a reference scan finds.
NoneDangling == \A c \in Referenced : Exists(c)

IInv ==
    /\ Base /\ SessionTargets /\ Updates /\ StalePurge /\ NoneDangling

-----------------------------------------------------------------------------
(* What a worker step does, as far as the invariant can tell *)

InPurge(st) == st.pc \in {"list", "purge", "purgeCond"}

WorkerChange(w) ==
    LET old == worker[w]
        new == worker'[w]
    IN  /\ \A v \in Workers \ {w} : worker'[v] = worker[v]
        /\ \/ new.pc = "idle" \/ new.snapAt = now
           \/ old.pc # "idle" /\ new.snapAt = old.snapAt
        /\ new.pc = "tombstoneCond" =>
              /\ new.cur \in Chunks /\ new.seenRow = row[new.cur]
              /\ new.seenRow \in RowValues
              /\ new.at = now /\ new.snapAt = old.snapAt /\ old.pc # "idle"
        /\ new.pc = "purgeCond" =>
              /\ new.cur \in Chunks /\ new.cur \notin new.snap
              /\ new.seenTomb = tomb[new.cur] /\ new.seenTomb # -1
              /\ now >= new.seenTomb + Quarantine
        /\ InPurge(new) =>
              \/ new.snap = Referenced
              \/ InPurge(old) /\ new.snap = old.snap /\ new.snapAt = old.snapAt

\* What a step of a worker may change: its own record, and the rows of the one
\* chunk its batch is about.
LEMMA WorkerStepChange ==
  ASSUME TypeOK, NEW w \in Workers, WorkerStep(w)
  PROVE  /\ WorkerChange(w)
         /\ UNCHANGED <<now, inode, session, update>>
         /\ UNCHANGED <<row, tomb, tombRow>> \/ TombstoneApply(w) \/ PurgeApply(w)
  <1> DEFINE Goal == /\ WorkerChange(w)
                     /\ UNCHANGED <<now, inode, session, update>>
                     /\ \/ UNCHANGED <<row, tomb, tombRow>>
                        \/ TombstoneApply(w) \/ PurgeApply(w)
  <1>c. worker[w] \in WorkerStates /\ worker \in [Workers -> WorkerStates]
    BY DEF TypeOK
  <1> USE DEF WorkerChange, InPurge, store, writers
  <1>e. ASSUME Abort(w), UNCHANGED <<now, store, writers>> PROVE Goal
    BY <1>c, <1>e DEF Abort, IdleWorker
  <1>f. ASSUME NEW c \in Chunks, Skip(w, c), UNCHANGED <<now, store, writers>>,
               worker[w].pc \in {"tombstone", "purge"}
        PROVE  Goal
    BY <1>c, <1>f DEF Skip, WorkerStates
  <1>1. ASSUME ScanChunks(w) PROVE Goal
    BY <1>1, <1>c DEF ScanChunks, IdleWorker
  <1>2. ASSUME ScanReferencesA(w) PROVE Goal
    BY <1>2, <1>c DEF ScanReferencesA, WorkerStates
  <1>3. ASSUME TombstoneApply(w) PROVE Goal
    BY <1>3, <1>c DEF TombstoneApply, WorkerStates
  <1>4. ASSUME TombstonesDone(w) PROVE Goal
    BY <1>4, <1>c, <1>e DEF TombstonesDone, Goto, WorkerStates
  <1>5. ASSUME ScanReferencesB(w) PROVE Goal
    BY <1>5, <1>c DEF ScanReferencesB, WorkerStates
  <1>6. ASSUME ScanTombstones(w) PROVE Goal
    BY <1>6, <1>c DEF ScanTombstones, WorkerStates
  <1>7. ASSUME PurgeApply(w) PROVE Goal
    <2>1. /\ worker' = [worker EXCEPT ![w] =
                 [@ EXCEPT !.pc = "purge", !.todo = worker[w].todo \ {worker[w].cur}]]
          /\ worker[w].pc = "purgeCond" /\ UNCHANGED <<now, inode, writers>>
      BY <1>7 DEF PurgeApply
    <2>2. /\ \A v \in Workers \ {w} : worker'[v] = worker[v]
          /\ worker'[w].pc = "purge" /\ worker'[w].snap = worker[w].snap
          /\ worker'[w].snapAt = worker[w].snapAt
      BY <1>c, <2>1 DEF WorkerStates
    <2>3. WorkerChange(w)
      BY <2>1, <2>2
    <2> QED
      BY <1>7, <2>1, <2>3
  <1>8. ASSUME PurgesDone(w) PROVE Goal
    BY <1>8, <1>e DEF PurgesDone
  <1>9. ASSUME StopWorker(w) PROVE Goal
    BY <1>9, <1>e DEF StopWorker
  <1>10. ASSUME NEW c \in Chunks, DeleteChunk(w, c) PROVE Goal
    BY <1>10, <1>c DEF DeleteChunk, IdleWorker
  <1>11. ASSUME NEW c \in Chunks, TombstoneRead(w, c) PROVE Goal
    <2>1. CASE Abort(w) \/ Skip(w, c)
      BY <1>11, <1>e, <1>f, <2>1 DEF TombstoneRead
    <2>2. CASE /\ worker[w].pc = "tombstone" /\ Exists(c)
               /\ worker' = [worker EXCEPT ![w] = [@ EXCEPT
                    !.pc = "tombstoneCond", !.cur = c, !.seenRow = row[c],
                    !.at = now]]
      BY <1>11, <1>c, <2>2 DEF TombstoneRead, WorkerStates, Exists
    <2> QED
      BY <1>11, <2>1, <2>2 DEF TombstoneRead
  <1>12. ASSUME NEW c \in Chunks, PurgeChunk(w, c) PROVE Goal
    BY <1>12, <1>c DEF PurgeChunk, IdleWorker
  <1>13. ASSUME NEW c \in Chunks, PurgeRead(w, c) PROVE Goal
    <2>1. CASE Abort(w) \/ Skip(w, c)
      BY <1>13, <1>e, <1>f, <2>1 DEF PurgeRead
    <2>2. CASE /\ worker[w].pc = "purge" /\ c \notin worker[w].snap
               /\ PairValid(c) /\ QuarantineOver(tomb[c])
               /\ worker' = [worker EXCEPT ![w] = [@ EXCEPT
                    !.pc = "purgeCond", !.cur = c, !.seenRow = row[c],
                    !.seenTomb = tomb[c]]]
      BY <1>13, <1>c, <2>2 DEF PurgeRead, WorkerStates, PairValid, QuarantineOver
    <2> QED
      BY <1>13, <2>1, <2>2 DEF PurgeRead
  <1> HIDE DEF Goal
  <1>14. Goal
    BY <1>1, <1>2, <1>3, <1>4, <1>5, <1>6, <1>7, <1>8, <1>9, <1>10, <1>11,
       <1>12, <1>13 DEF WorkerStep
  <1> QED
    BY <1>14 DEF Goal

-----------------------------------------------------------------------------
(* What a step of an inode or a session does *)

SessionChange(i) ==
    /\ \A j \in Inodes \ {i} : session'[j] = session[j]
    /\ \A c \in Chunks :
          row'[c] = row[c] \/ (row[c] = "none" /\ row'[c] \in RowValues)
    /\ session'[i] # None =>
          \/ session'[i].since = now /\ session'[i].alloc = {}
          \/ /\ session[i] # None /\ session'[i].since = session[i].since
             /\ \A c \in session'[i].alloc :
                   \/ c \in session[i].alloc
                   \/ row[c] = "none" /\ row'[c] \in RowValues

\* What a step on an inode may change in chunk rows, sessions and workers.
LEMMA InodeStepChange ==
  ASSUME TypeOK, NEW i \in Inodes, InodeStep(i)
  PROVE  SessionChange(i) /\ UNCHANGED <<now, tomb, tombRow, worker>>
  <1> DEFINE Goal == SessionChange(i) /\ UNCHANGED <<now, tomb, tombRow, worker>>
  <1>c. session \in [Inodes -> Sessions \cup {None}] /\ row \in [Chunks -> Rows]
    BY DEF TypeOK
  <1> USE DEF SessionChange, store, writers
  <1>1. ASSUME CreateFile(i) \/ Unlink(i) \/ UpdateInodeApply(i) PROVE Goal
    BY <1>1, <1>c DEF CreateFile, Unlink, UpdateInodeApply
  <1>3. ASSUME OpenSession(i) PROVE Goal
    BY <1>3, <1>c DEF OpenSession
  <1>4. ASSUME CommitRead(i) PROVE Goal
    BY <1>4, <1>c DEF CommitRead, Sessions
  <1>5. ASSUME CommitPut(i) \/ AbandonSession(i) PROVE Goal
    BY <1>5, <1>c DEF CommitPut, AbandonSession
  <1>8. ASSUME \E R \in SUBSET Chunks : UpdateInodeRead(i, R) PROVE Goal
    BY <1>8, <1>c DEF UpdateInodeRead
  <1>9. ASSUME NEW c \in Chunks, AllocateChunk(i, c) PROVE Goal
    BY <1>9, <1>c DEF AllocateChunk, Sessions
  <1> HIDE DEF Goal
  <1>10. Goal
    BY <1>1, <1>3, <1>4, <1>5, <1>8, <1>9 DEF InodeStep
  <1> QED
    BY <1>10 DEF Goal

\* A tombstone batch changes at most the tombstone of its chunk ...
LEMMA TombstoneChange ==
  ASSUME Base, NEW w \in Workers, TombstoneApply(w)
  PROVE  /\ worker[w].pc = "tombstoneCond" /\ row' = row
         /\ \A c \in Chunks :
              \/ tomb'[c] = tomb[c] /\ tombRow'[c] = tombRow[c]
              \/ /\ c = worker[w].cur
                 /\ tomb[c] = -1 /\ tomb'[c] = worker[w].at
                 /\ tombRow'[c] = row[c] /\ row[c] \in RowValues
  BY DEF Base, TypeOK, TombstoneBatch, TombstoneApply

\* ... and a purge batch at most the rows of its chunk.
LEMMA PurgeChange ==
  ASSUME Base, NEW w \in Workers, PurgeApply(w)
  PROVE  /\ worker[w].pc = "purgeCond"
         /\ \A c \in Chunks :
              \/ UNCHANGED <<row[c], tomb[c], tombRow[c]>>
              \/ /\ c = worker[w].cur
                 /\ tomb[c] = worker[w].seenTomb
                 /\ tomb'[c] = -1 /\ row'[c] = "purged"
  BY DEF Base, TypeOK, PurgeBatch, PurgeApply

-----------------------------------------------------------------------------
(* The part of the invariant that holds for every kind of session and update *)

\* A step on an inode (sessions, updates, unlink) preserves the base invariant.
LEMMA InodeStepBase ==
  ASSUME Base, TypeOK', NEW i \in Inodes, InodeStep(i) PROVE Base'
  <1>1. SessionChange(i) /\ UNCHANGED <<now, tomb, tombRow, worker>>
    BY InodeStepChange DEF Base
  <1>2. TombstonePair'
    BY <1>1, ConfigAssumption DEF Base, SessionChange, TombstonePair, PairValid, Exists
  <1>3. ScanClock' /\ PurgeBatch'
    BY <1>1 DEF Base, ScanClock, PurgeBatch
  <1>4. SessionClock'
    BY <1>1, TimingAssumption DEF Base, TypeOK, SessionChange, SessionClock
  <1>5. TombstoneBatch'
    BY <1>1, ConfigAssumption DEF Base, SessionChange, TombstoneBatch
  <1>6. SessionChunks'
    <2> SUFFICES ASSUME NEW j \in Inodes, session'[j] # None,
                        NEW c \in session'[j].alloc
                 PROVE  /\ Exists(c)'
                        /\ tomb[c] = -1 \/ tomb[c] >= session'[j].since
                        /\ \A w \in Workers :
                              worker[w].pc = "tombstoneCond" /\ worker[w].cur = c
                              => worker[w].at >= session'[j].since
      BY <1>1 DEF SessionChunks
    <2>1. c \in Chunks
      BY DEF TypeOK, Sessions
    <2>2. CASE /\ session[j] # None /\ session'[j].since = session[j].since
               /\ c \in session[j].alloc
      BY <1>1, <2>1, <2>2, ConfigAssumption
         DEF Base, SessionChunks, SessionChange, Exists
    <2>3. CASE row[c] = "none" /\ row'[c] \in RowValues
      <3>1. tomb[c] = -1
        BY <2>1, <2>3, ConfigAssumption DEF Base, TombstonePair, PairValid, Exists
      <3>2. \A w \in Workers :
              ~(worker[w].pc = "tombstoneCond" /\ worker[w].cur = c)
        BY <2>3 DEF Base, TombstoneBatch
      <3> QED
        BY <2>3, <3>1, <3>2 DEF Exists
    <2> QED
      BY <1>1, <2>2, <2>3 DEF SessionChange
  <1> QED
    BY <1>2, <1>3, <1>4, <1>5, <1>6 DEF Base

\* A step of DeleteChunk, PurgeChunk or ChunkGC preserves the base invariant.
LEMMA WorkerStepBase ==
  ASSUME Base, TypeOK', NEW w \in Workers, WorkerStep(w) PROVE Base'
  <1>1. /\ WorkerChange(w)
        /\ UNCHANGED <<now, inode, session, update>>
        /\ UNCHANGED <<row, tomb, tombRow>> \/ TombstoneApply(w) \/ PurgeApply(w)
    BY WorkerStepChange DEF Base
  <1>2. TombstonePair'
    BY <1>1, TombstoneChange, PurgeChange
       DEF Base, TombstonePair, PairValid, Exists
  <1>3. ScanClock'
    BY <1>1, TimingAssumption DEF Base, TypeOK, ScanClock, WorkerChange
  <1>4. SessionClock'
    BY <1>1 DEF Base, SessionClock
  <1>5. \A c \in Chunks : row[c] # "none" => row'[c] # "none"
    BY <1>1, TombstoneChange, PurgeChange
  <1>6. TombstoneBatch'
    <2> SUFFICES ASSUME NEW v \in Workers, worker'[v].pc = "tombstoneCond"
                 PROVE  /\ worker'[v].cur \in Chunks
                        /\ worker'[v].seenRow \in RowValues
                        /\ row'[worker'[v].cur] # "none"
                        /\ worker'[v].snapAt <= worker'[v].at
                        /\ worker'[v].at <= now'
      BY DEF TombstoneBatch
    <2>1. CASE v = w
      BY <1>1, <1>5, <2>1, ConfigAssumption
         DEF Base, TypeOK, WorkerChange, ScanClock
    <2>2. CASE v # w
      BY <1>1, <1>5, <2>2 DEF Base, WorkerChange, TombstoneBatch
    <2> QED
      BY <2>1, <2>2
  <1>7. PurgeBatch'
    <2> SUFFICES ASSUME NEW v \in Workers, worker'[v].pc = "purgeCond"
                 PROVE  /\ worker'[v].cur \in Chunks
                        /\ worker'[v].cur \notin worker'[v].snap
                        /\ worker'[v].seenTomb \in Nat
                        /\ worker'[v].seenTomb + Quarantine <= now'
      BY DEF PurgeBatch
    <2>1. CASE v = w
      BY <1>1, <2>1, TimingAssumption DEF Base, TypeOK, WorkerChange
    <2>2. CASE v # w
      BY <1>1, <2>2 DEF Base, WorkerChange, PurgeBatch
    <2> QED
      BY <2>1, <2>2
  <1>8. SessionChunks'
    <2> SUFFICES ASSUME NEW j \in Inodes, session[j] # None,
                        NEW c \in session[j].alloc
                 PROVE  /\ Exists(c)'
                        /\ tomb'[c] = -1 \/ tomb'[c] >= session[j].since
                        /\ \A v \in Workers :
                              worker'[v].pc = "tombstoneCond" /\ worker'[v].cur = c
                              => worker'[v].at >= session[j].since
      BY <1>1 DEF SessionChunks
    <2>1. /\ c \in Chunks /\ session[j].since \in Nat
          /\ session[j].since <= now /\ now <= session[j].since + MaxSession
      BY DEF Base, TypeOK, Sessions, SessionClock
    <2>2. Exists(c) /\ (tomb[c] = -1 \/ tomb[c] >= session[j].since)
      BY DEF Base, SessionChunks
    <2>3. \A v \in Workers :
            worker[v].pc = "tombstoneCond" /\ worker[v].cur = c
              => worker[v].at >= session[j].since
      BY DEF Base, SessionChunks
    <2>4. \A v \in Workers :
            worker'[v].pc = "tombstoneCond" /\ worker'[v].cur = c
              => worker'[v].at >= session[j].since
      BY <1>1, <2>1, <2>3 DEF WorkerChange
    <2>5. CASE UNCHANGED <<row, tomb, tombRow>>
      BY <2>2, <2>4, <2>5 DEF Exists
    <2>6. CASE TombstoneApply(w)
      BY <2>1, <2>2, <2>3, <2>4, <2>6, TombstoneChange DEF Exists
    <2>7. CASE PurgeApply(w)
      <3>1. worker[w].seenTomb \in Nat /\ worker[w].seenTomb + Quarantine <= now
        BY <2>7, PurgeChange DEF Base, PurgeBatch
      <3>2. ~(c = worker[w].cur /\ tomb[c] = worker[w].seenTomb)
        BY <2>1, <2>2, <3>1, TimingAssumption DEF Base, TypeOK
      <3> QED
        BY <2>1, <2>2, <2>4, <2>7, <3>2, PurgeChange DEF Exists
    <2> QED
      BY <1>1, <2>5, <2>6, <2>7
  <1> QED
    BY <1>2, <1>3, <1>4, <1>6, <1>7, <1>8 DEF Base

\* The base invariant holds initially.
LEMMA InitBase == Init => Base
  <1> SUFFICES ASSUME Init PROVE Base
    OBVIOUS
  <1>1. TypeOK
    BY InitType
  <1>2. \A w \in Workers : worker[w].pc = "idle"
    BY DEF Init, IdleWorker
  <1>3. \A i \in Inodes : session[i] = None
    BY DEF Init
  <1>4. \A c \in Chunks : tomb[c] = -1
    BY DEF Init
  <1> QED
    BY <1>1, <1>2, <1>3, <1>4 DEF Base, TombstonePair, ScanClock, SessionClock,
       TombstoneBatch, PurgeBatch, SessionChunks

\* The base invariant is inductive.
LEMMA BaseStep == Base /\ [Next]_vars => Base'
  <1> SUFFICES ASSUME Base, [Next]_vars PROVE Base'
    OBVIOUS
  <1>0. TypeOK'
    BY TypeStep DEF Base
  <1>1. CASE \E i \in Inodes : InodeStep(i)
    BY <1>0, <1>1, InodeStepBase
  <1>2. CASE \E w \in Workers : WorkerStep(w)
    BY <1>0, <1>2, WorkerStepBase
  <1>3. ASSUME NEW c \in Chunks, updateLiveChunkMetadata(c) PROVE Base'
    <2>1. /\ Live(c) /\ UNCHANGED <<now, tomb, tombRow, session, worker>>
          /\ \A d \in Chunks : row'[d] = row[d] \/ (d = c /\ row'[d] \in RowValues)
      BY <1>3 DEF updateLiveChunkMetadata, Base, TypeOK, writers
    <2>2. TombstonePair'
      BY <2>1 DEF Base, TombstonePair, PairValid, Exists, Live
    <2>3. TombstoneBatch'
      BY <2>1, ConfigAssumption DEF Base, TombstoneBatch
    <2>4. SessionChunks'
      BY <2>1 DEF Base, TypeOK, Sessions, SessionChunks, Exists
    <2> QED
      BY <1>0, <2>1, <2>2, <2>3, <2>4
         DEF Base, ScanClock, SessionClock, PurgeBatch
  <1>4. CASE Tick
    <2>1. now' = now + 1 /\ UNCHANGED <<row, tomb, tombRow, session, worker>>
      BY <1>4 DEF Tick, store, writers
    <2>2. ScanClock' /\ SessionClock'
      BY <1>4, <2>1, TimingAssumption
         DEF Tick, Base, TypeOK, ScanClock, SessionClock, WorkerStates, Sessions
    <2>3. TombstoneBatch' /\ PurgeBatch'
      BY <2>1, TimingAssumption
         DEF Base, TypeOK, TombstoneBatch, PurgeBatch, WorkerStates
    <2> QED
      BY <1>0, <2>1, <2>2, <2>3
         DEF Base, TombstonePair, PairValid, Exists, SessionChunks
  <1>5. CASE UNCHANGED vars
    BY <1>0, <1>5 DEF vars, Base, TombstonePair, PairValid, Exists, ScanClock,
       SessionClock, TombstoneBatch, PurgeBatch, SessionChunks
  <1> QED
    BY <1>1, <1>2, <1>3, <1>4, <1>5 DEF Next

\* Every tombstone sits beside the chunk row it was made from, whatever writers
\* and workers race: ChunkGC never meets a pair it would refuse.
THEOREM TombstonePaired == Spec => []TombstonePair
  <1>1. Base => TombstonePair
    BY DEF Base
  <1> QED
    BY <1>1, InitBase, BaseStep, PTL DEF Spec

\* No chunk of an open write session is purged, even when it was detached and
\* tombstoned under the session.
THEOREM SessionChunksSafe == Spec => []SessionChunksSurvive
  <1>1. Base => SessionChunksSurvive
    BY DEF Base, SessionChunks, SessionChunksSurvive
  <1> QED
    BY <1>1, InitBase, BaseStep, PTL DEF Spec

-----------------------------------------------------------------------------
(* References: whole-object sessions, and no metadata update of a V2 row that *)
(* races with a commit                                                        *)

WholeObjects == ~PartialFlush /\ ~StaleSetattr

\* A chunk is referenced when some inode row holds it ...
LEMMA InReferenced ==
  \A c : c \in Referenced <=> \E i \in Inodes : c \in inode[i].refs
  BY DEF Referenced

\* ... and likewise in the next state.
LEMMA InReferencedPrime ==
  \A c : c \in Referenced' <=> \E i \in Inodes : c \in inode'[i].refs
  BY DEF Referenced

\* A chunk gains a reference only while it is live or owned by an open session.
LEMMA NewReference ==
  ASSUME WholeObjects, IInv, NEW i \in Inodes, InodeStep(i),
         NEW c \in Referenced'
  PROVE  \/ c \in Referenced
         \/ tomb[c] = -1 /\ Exists(c)'
         \/ session[i] # None /\ c \in session[i].alloc
  <1> DEFINE Goal == \/ c \in Referenced
                     \/ tomb[c] = -1 /\ Exists(c)'
                     \/ session[i] # None /\ c \in session[i].alloc
  <1>t. inode \in [Inodes -> InodeRows]
    BY DEF IInv, Base, TypeOK
  <1>r. PICK j \in Inodes : c \in inode'[j].refs
    BY InReferencedPrime
  <1>s. \A k \in Inodes : c \in inode[k].refs => c \in Referenced
    BY InReferenced
  <1>1. ASSUME CreateFile(i) \/ Unlink(i) PROVE Goal
    <2>1. \E k \in {"V1", "absent"} :
             inode' = [inode EXCEPT ![i] = [kind |-> k, refs |-> {}]]
      BY <1>1 DEF CreateFile, Unlink, AbsentInode
    <2>2. inode'[i].refs = {} /\ \A k \in Inodes \ {i} : inode'[k] = inode[k]
      BY <2>1, <1>t
    <2>3. c \in inode[j].refs
      BY <2>2, <1>r
    <2> QED
      BY <2>3, <1>s
  <1>2. ASSUME OpenSession(i) \/ CommitRead(i) \/ AbandonSession(i) PROVE Goal
    BY <1>2, <1>r, <1>s DEF OpenSession, CommitRead, AbandonSession, store
  <1>3. ASSUME CommitPut(i) PROVE Goal
    BY <1>3, <1>r, <1>s, <1>t DEF CommitPut, IInv, SessionTargets
  <1>4. ASSUME UpdateInodeApply(i) PROVE Goal
    <2>1. CASE inode' = inode
      BY <1>r, <1>s, <2>1
    <2>2. CASE inode' # inode
      <3>1. /\ inode' = [inode EXCEPT ![i] = update[i]]
            /\ \A d \in ChunkMap(update[i]) \ ChunkMap(inode[i]) : Live(d)
            /\ row' = row
        BY <1>4, <2>2 DEF UpdateInodeApply
      <3>2. ChunkMap(update[i]) = update[i].refs
        BY <1>4 DEF UpdateInodeApply, IInv, Updates, ChunkMap
      <3>3. c \in ChunkMap(inode[i]) => c \in inode[i].refs
        BY DEF ChunkMap
      <3> QED
        BY <1>r, <1>s, <1>t, <3>1, <3>2, <3>3 DEF Live, Exists
    <2> QED
      BY <2>1, <2>2
  <1>5. ASSUME \E R \in SUBSET Chunks : UpdateInodeRead(i, R) PROVE Goal
    BY <1>5, <1>r, <1>s DEF UpdateInodeRead, store
  <1>6. ASSUME NEW d \in Chunks, AllocateChunk(i, d) PROVE Goal
    <2>1. CASE c = d
      <3>1. tomb[d] = -1
        BY <1>6, ConfigAssumption
           DEF AllocateChunk, IInv, Base, TombstonePair, PairValid, Exists
      <3>2. row'[d] \in RowValues
        BY <1>6 DEF AllocateChunk, IInv, Base, TypeOK
      <3> QED
        BY <2>1, <3>1, <3>2 DEF Exists
    <2>2. CASE c # d
      BY <1>6, <1>r, <1>s, <1>t, <2>2 DEF AllocateChunk, ChunkMap
    <2> QED
      BY <2>1, <2>2
  <1> HIDE DEF Goal
  <1>7. Goal
    BY <1>1, <1>2, <1>3, <1>4, <1>5, <1>6 DEF InodeStep
  <1> QED
    BY <1>7 DEF Goal

\* A step on an inode preserves the invariant about references.
LEMMA InodeStepRefs ==
  ASSUME WholeObjects, IInv, Base', NEW i \in Inodes, InodeStep(i) PROVE IInv'
  <1>1. SessionChange(i) /\ UNCHANGED <<now, tomb, tombRow, worker>>
    BY InodeStepChange DEF IInv, Base
  <1>2. SessionTargets'
    <2>t. session \in [Inodes -> Sessions \cup {None}]
      BY DEF IInv, Base, TypeOK
    <2>1. CASE OpenSession(i)
      BY <2>1, <2>t DEF OpenSession, IInv, SessionTargets, WholeObjects
    <2>2. CASE CommitRead(i)
      BY <2>2, <2>t DEF CommitRead, IInv, SessionTargets, Sessions
    <2>3. CASE CommitPut(i) \/ AbandonSession(i)
      BY <2>3, <2>t DEF CommitPut, AbandonSession, IInv, SessionTargets
    <2>4. ASSUME NEW c \in Chunks, AllocateChunk(i, c) PROVE SessionTargets'
      BY <2>4, <2>t DEF AllocateChunk, IInv, SessionTargets, Sessions
    <2>5. CASE UNCHANGED session
      BY <2>5 DEF IInv, SessionTargets
    <2> QED
      BY <2>1, <2>2, <2>3, <2>4, <2>5 DEF InodeStep, CreateFile, Unlink,
         UpdateInodeApply, UpdateInodeRead, writers
  <1>3. Updates'
    <2>t. update \in [Inodes -> InodeRows \cup {None}]
      BY DEF IInv, Base, TypeOK
    <2>1. CASE \E R \in SUBSET Chunks : UpdateInodeRead(i, R)
      BY <2>1, <2>t DEF UpdateInodeRead, IInv, Updates, WholeObjects
    <2>2. CASE UpdateInodeApply(i)
      BY <2>2, <2>t DEF UpdateInodeApply, IInv, Updates
    <2>3. CASE UNCHANGED update
      BY <2>3 DEF IInv, Updates
    <2> QED
      BY <2>1, <2>2, <2>3 DEF InodeStep, CreateFile, Unlink, OpenSession,
         CommitRead, CommitPut, AbandonSession, AllocateChunk, writers
  <1>4. StalePurge'
    <2> SUFFICES ASSUME NEW w \in Workers, NEW c \in Chunks,
                        worker[w].pc \in {"list", "purge", "purgeCond"},
                        c \notin worker[w].snap, c \in Referenced'
                 PROVE  tomb[c] = -1 \/ tomb[c] + Quarantine > worker[w].snapAt + MaxScan
      BY <1>1 DEF StalePurge
    <2>1. CASE c \in Referenced
      BY <2>1 DEF IInv, StalePurge
    <2>2. CASE session[i] # None /\ c \in session[i].alloc
      <3>1. /\ session[i].since \in Nat /\ tomb[c] \in Nat \cup {-1}
            /\ worker[w].snapAt \in Nat /\ now \in Nat
        BY <2>2 DEF IInv, Base, TypeOK, Sessions, WorkerStates
      <3>2. tomb[c] = -1 \/ tomb[c] >= session[i].since
        BY <2>2 DEF IInv, Base, SessionChunks
      <3>3. now <= session[i].since + MaxSession /\ worker[w].snapAt <= now
        BY <2>2 DEF IInv, Base, SessionClock, ScanClock
      <3> QED
        BY <3>1, <3>2, <3>3, TimingAssumption
    <2> QED
      BY <2>1, <2>2, NewReference
  <1>5. NoneDangling'
    <2> SUFFICES ASSUME NEW c \in Referenced' PROVE Exists(c)'
      BY DEF NoneDangling
    <2>0. c \in Chunks
      BY InReferencedPrime DEF Base, TypeOK, InodeRows
    <2>1. CASE c \in Referenced
      BY <1>1, <2>0, <2>1, ConfigAssumption
         DEF IInv, NoneDangling, SessionChange, Exists
    <2>2. CASE session[i] # None /\ c \in session[i].alloc
      BY <1>1, <2>0, <2>2, ConfigAssumption
         DEF IInv, Base, SessionChunks, SessionChange, Exists
    <2> QED
      BY <2>1, <2>2, NewReference
  <1> QED
    BY <1>2, <1>3, <1>4, <1>5 DEF IInv

\* A step of a worker preserves the invariant about references.
LEMMA WorkerStepRefs ==
  ASSUME IInv, Base', NEW w \in Workers, WorkerStep(w) PROVE IInv'
  <1>1. /\ WorkerChange(w)
        /\ UNCHANGED <<now, inode, session, update>>
        /\ UNCHANGED <<row, tomb, tombRow>> \/ TombstoneApply(w) \/ PurgeApply(w)
    BY WorkerStepChange DEF IInv, Base
  <1>2. SessionTargets' /\ Updates' /\ Referenced' = Referenced
    BY <1>1 DEF IInv, SessionTargets, Updates, Referenced
  <1>3. \A v \in Workers, c \in Chunks :
          /\ InPurge(worker[v]) /\ c \notin worker[v].snap /\ c \in Referenced
          => tomb'[c] = -1 \/ tomb'[c] + Quarantine > worker[v].snapAt + MaxScan
    <2> SUFFICES ASSUME NEW v \in Workers, NEW c \in Chunks, InPurge(worker[v]),
                        c \notin worker[v].snap, c \in Referenced
                 PROVE  \/ tomb'[c] = -1
                        \/ tomb'[c] + Quarantine > worker[v].snapAt + MaxScan
      OBVIOUS
    <2>1. tomb[c] = -1 \/ tomb[c] + Quarantine > worker[v].snapAt + MaxScan
      BY DEF InPurge, IInv, StalePurge
    <2>2. CASE tomb'[c] = tomb[c]
      BY <2>1, <2>2
    <2>3. CASE TombstoneApply(w) /\ tomb'[c] # tomb[c]
      <3>1. worker[w].pc = "tombstoneCond" /\ tomb'[c] = worker[w].at
        BY <2>3, TombstoneChange DEF IInv
      <3>2. /\ worker[w].snapAt <= worker[w].at
            /\ now <= worker[w].snapAt + MaxScan /\ worker[v].snapAt <= now
        BY <3>1 DEF IInv, Base, TombstoneBatch, ScanClock, InPurge
      <3>3. /\ worker[w].snapAt \in Nat /\ worker[w].at \in Nat
            /\ worker[v].snapAt \in Nat /\ now \in Nat
        BY DEF IInv, Base, TypeOK, WorkerStates
      <3> QED
        BY <3>1, <3>2, <3>3, TimingAssumption
    <2>4. CASE PurgeApply(w)
      BY <2>2, <2>4, PurgeChange DEF IInv
    <2> QED
      BY <1>1, <2>2, <2>3, <2>4
  <1>4. StalePurge'
    BY <1>1, <1>2, <1>3 DEF StalePurge, WorkerChange, InPurge
  <1>5. NoneDangling'
    <2> SUFFICES ASSUME NEW c \in Referenced PROVE Exists(c)'
      BY <1>2 DEF NoneDangling
    <2>0. c \in Chunks /\ Exists(c)
      BY InReferenced DEF IInv, Base, TypeOK, InodeRows, NoneDangling
    <2>1. CASE row' = row
      BY <2>0, <2>1 DEF Exists
    <2>2. CASE PurgeApply(w)
      <3>1. /\ worker[w].pc = "purgeCond" /\ worker[w].cur \notin worker[w].snap
            /\ worker[w].seenTomb \in Nat
            /\ worker[w].seenTomb + Quarantine <= now
            /\ now <= worker[w].snapAt + MaxScan
        BY <2>2, PurgeChange DEF IInv, Base, PurgeBatch, ScanClock
      <3>2. worker[w].snapAt \in Nat /\ now \in Nat
        BY DEF IInv, Base, TypeOK, WorkerStates
      <3>3. ~(c = worker[w].cur /\ tomb[c] = worker[w].seenTomb)
        BY <2>0, <3>1, <3>2, TimingAssumption DEF IInv, StalePurge
      <3> QED
        BY <2>0, <2>2, <3>3, PurgeChange DEF IInv, Exists
    <2> QED
      BY <1>1, <2>1, <2>2, TombstoneChange DEF IInv
  <1> QED
    BY <1>2, <1>4, <1>5 DEF IInv

\* The invariant about references holds initially.
LEMMA InitRefs == Init => IInv
  BY InitBase DEF Init, IInv, SessionTargets, Updates, StalePurge, Referenced,
     AbsentInode, NoneDangling

\* The invariant about references is inductive for whole-object sessions.
LEMMA RefsStep == ASSUME WholeObjects PROVE IInv /\ [Next]_vars => IInv'
  <1> SUFFICES ASSUME IInv, [Next]_vars PROVE IInv'
    OBVIOUS
  <1>0. Base'
    BY BaseStep DEF IInv
  <1>1. CASE \E i \in Inodes : InodeStep(i)
    BY <1>0, <1>1, InodeStepRefs
  <1>2. CASE \E w \in Workers : WorkerStep(w)
    BY <1>0, <1>2, WorkerStepRefs
  <1>3. ASSUME NEW c \in Chunks, updateLiveChunkMetadata(c) PROVE IInv'
    <2>1. /\ UNCHANGED <<tomb, inode, session, update, worker>>
          /\ \A d \in Chunks : Exists(d) => Exists(d)'
      BY <1>3 DEF updateLiveChunkMetadata, IInv, Base, TypeOK, writers, Exists
    <2>2. Referenced' = Referenced /\ Referenced \in SUBSET Chunks
      BY <2>1 DEF IInv, Base, TypeOK, InodeRows, Referenced
    <2> QED
      BY <1>0, <2>1, <2>2
         DEF IInv, SessionTargets, Updates, StalePurge, NoneDangling
  <1>4. CASE Tick
    BY <1>0, <1>4 DEF Tick, store, writers, IInv, SessionTargets, Updates,
       StalePurge, Referenced, NoneDangling, Exists
  <1>5. CASE UNCHANGED vars
    BY <1>0, <1>5 DEF vars, IInv, SessionTargets, Updates,
       StalePurge, Referenced, NoneDangling, Exists
  <1> QED
    BY <1>1, <1>2, <1>3, <1>4, <1>5 DEF Next

\* No inode row ever references a purged chunk, provided sessions replace whole
\* objects and metadata updates of V2 rows do not race with commits: ChunkGC,
\* DeleteChunk and PurgeChunk are safe although nothing fences their snapshots.
THEOREM ReferencesSafe ==
  ASSUME WholeObjects PROVE Spec => []NoDanglingReference
  <1>1. IInv /\ [Next]_vars => IInv'
    BY RefsStep
  <1>2. IInv => NoDanglingReference
    BY DEF IInv, NoneDangling, Referenced, NoDanglingReference
  <1> QED
    BY <1>1, <1>2, InitRefs, PTL DEF Spec

=============================================================================
