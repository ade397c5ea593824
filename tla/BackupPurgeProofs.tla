--------------------------- MODULE BackupPurgeProofs ---------------------------
(***************************************************************************)
(* Proofs about BackupPurge, for all chunks, workers, backups and every    *)
(* choice of durations that satisfies TimingAssumption.                    *)
(***************************************************************************)
EXTENDS BackupPurge, TLAPS

-----------------------------------------------------------------------------
(* Type correctness *)

\* The initial state has the declared types.
LEMMA InitType == Init => TypeOK
  BY DEF Init, TypeOK, Idle, NoBackup, WorkerStates, Artifacts

\* Steps that give or take references keep the types.
LEMMA ChunkStepType ==
  ASSUME TypeOK, NEW c \in Chunks, ChunkStep(c) PROVE TypeOK'
  BY DEF TypeOK, ChunkStep, Allocate, Detach, Attach, backups

\* What a tombstone or purge step does to its worker.
LEMMA WorkerStepState ==
  ASSUME TypeOK, NEW w \in Workers, WorkerStep(w)
  PROVE  /\ worker'[w] \in WorkerStates
         /\ worker'[w].pc # "idle" => worker'[w].cur \in Chunks
         /\ worker' = [worker EXCEPT ![w] = worker'[w]]
  <1> DEFINE Goal == /\ worker'[w] \in WorkerStates
                     /\ worker'[w].pc # "idle" => worker'[w].cur \in Chunks
                     /\ worker' = [worker EXCEPT ![w] = worker'[w]]
  <1>a. Idle \in WorkerStates /\ Idle.pc = "idle"
    BY DEF Idle, WorkerStates
  <1>b. /\ worker[w] \in WorkerStates /\ worker \in [Workers -> WorkerStates]
        /\ worker[w].pc # "idle" => worker[w].cur \in Chunks
    BY DEF TypeOK
  <1>c. ASSUME NEW st \in WorkerStates, st.pc # "idle" => st.cur \in Chunks,
               SetWorker(w, st)
        PROVE  Goal
    BY <1>b, <1>c DEF SetWorker
  <1>d. ASSUME SetWorker(w, Idle) PROVE Goal
    BY <1>a, <1>c, <1>d
  <1>1. ASSUME TombstoneRead(w) PROVE Goal
    <2>1. /\ [worker[w] EXCEPT !.pc = "tombstoneCond", !.at = now] \in WorkerStates
          /\ [worker[w] EXCEPT !.pc = "tombstoneCond", !.at = now].cur \in Chunks
      BY <1>1, <1>b DEF WorkerStates, TypeOK, TombstoneRead
    <2> QED
      BY <1>1, <1>c, <1>d, <2>1 DEF TombstoneRead
  <1>2. ASSUME TombstoneApply(w) \/ PurgeApply(w) \/ StopWorker(w) PROVE Goal
    BY <1>2, <1>d DEF TombstoneApply, PurgeApply, StopWorker
  <1>3. ASSUME PurgeRead(w) PROVE Goal
    <2> DEFINE st == [worker[w] EXCEPT !.pc = "purgeCond",
                        !.at = deleted[worker[w].cur], !.seenCatalog = catalog]
    <2>1. worker[w].cur \in Chunks
      BY <1>3, <1>b DEF PurgeRead
    <2>2. deleted[worker[w].cur] \in Nat
      BY <2>1 DEF TypeOK
    <2>3. st \in WorkerStates /\ st.cur \in Chunks
      BY <1>b, <2>1, <2>2 DEF WorkerStates, TypeOK
    <2> HIDE DEF st
    <2>4. SetWorker(w, st) \/ SetWorker(w, Idle)
      BY <1>3 DEF PurgeRead, st
    <2> QED
      BY <1>c, <1>d, <2>3, <2>4
  <1>4. ASSUME NEW c \in Chunks, TombstoneSnapshot(w, c) PROVE Goal
    <2>1. LET st == [Idle EXCEPT !.pc = "tombstone", !.cur = c, !.since = now]
          IN  st \in WorkerStates /\ st.cur \in Chunks
      BY DEF Idle, WorkerStates, TypeOK
    <2> QED
      BY <1>4, <1>c, <2>1 DEF TombstoneSnapshot
  <1>5. ASSUME NEW c \in Chunks, PurgeSnapshot(w, c) PROVE Goal
    <2>1. LET st == [Idle EXCEPT !.pc = "purge", !.cur = c, !.since = now]
          IN  st \in WorkerStates /\ st.cur \in Chunks
      BY DEF Idle, WorkerStates, TypeOK
    <2> QED
      BY <1>5, <1>c, <2>1 DEF PurgeSnapshot
  <1> HIDE DEF Goal
  <1>6. Goal
    BY <1>1, <1>2, <1>3, <1>4, <1>5 DEF WorkerStep
  <1> QED
    BY <1>6 DEF Goal

\* Tombstone and purge steps keep the types.
LEMMA WorkerStepType ==
  ASSUME TypeOK, NEW w \in Workers, WorkerStep(w) PROVE TypeOK'
  <1>1. /\ worker' \in [Workers -> WorkerStates]
        /\ \A v \in Workers : worker'[v].pc # "idle" => worker'[v].cur \in Chunks
    BY WorkerStepState DEF TypeOK
  <1>2. worker[w].at \in Nat
    BY DEF TypeOK, WorkerStates
  <1> QED
    BY <1>1, <1>2 DEF WorkerStep, TombstoneRead, TombstoneApply, PurgeRead,
       PurgeApply, StopWorker, TombstoneSnapshot, PurgeSnapshot, TypeOK,
       chunks, backups

\* Steps of the coordinator keep the types.
LEMMA BackupStepType ==
  ASSUME TypeOK, RunStep \/ \E b \in Backups : BackupStep(b) PROVE TypeOK'
  <1> USE DEF TypeOK, Artifacts, Catalogs, chunks, backups
  <1>1. ASSUME NEW b \in Backups, BackupStart(b) PROVE TypeOK'
    BY <1>1 DEF BackupStart
  <1>2. ASSUME NEW b \in Backups,
               BackupPublish(b) \/ UploadLost(b) \/ BackupPrune(b)
        PROVE  TypeOK'
    BY <1>2 DEF BackupPublish, UploadLost, BackupPrune
  <1>3. CASE BackupCheckpoint
    BY <1>3 DEF BackupCheckpoint
  <1>4. CASE BackupEnd
    BY <1>4 DEF BackupEnd
  <1>5. CASE ReconcileList
    BY <1>5 DEF ReconcileList, ListCommitted, Committed
  <1>6. CASE ReconcileReplace
    BY <1>6 DEF ReconcileReplace
  <1> QED
    BY <1>1, <1>2, <1>3, <1>4, <1>5, <1>6 DEF RunStep, BackupStep

\* Every step keeps the types.
LEMMA TypeStep == TypeOK /\ [Next]_vars => TypeOK'
  <1> SUFFICES ASSUME TypeOK, [Next]_vars PROVE TypeOK'
    OBVIOUS
  <1>1. CASE Tick
    BY <1>1 DEF Tick, TypeOK, chunks, backups
  <1>2. CASE UNCHANGED vars
    BY <1>2 DEF vars, TypeOK
  <1> QED
    BY <1>1, <1>2, ChunkStepType, WorkerStepType, BackupStepType DEF Next

-----------------------------------------------------------------------------
(* What the catalog is good for: the artifacts it omits are recent *)

\* An artifact on its way was started at most MaxUpload ago.
UploadClock ==
    \A b \in Backups :
        /\ backup[b].at <= now
        /\ backup[b].stage \in {"started", "uploading"} =>
              now <= backup[b].at + MaxUpload

\* The listing of the active run is recent, and holds all but recent artifacts.
ListingRecent ==
    listing # None =>
        /\ listing.at <= now /\ now <= listing.at + MaxUpload
        /\ \A b \in Committed :
              backup[b].at + MaxUpload < listing.at => b \in listing.ids

\* Only artifacts that were published are listed.
Published(ids) == \A b \in ids : backup[b].stage \in {"committed", "pruned"}

CatalogInv ==
    /\ TypeOK /\ UploadClock /\ ListingRecent /\ CatalogComplete
    /\ catalog # None => catalog.at <= now /\ Published(catalog.ids)
    /\ listing # None => Published(listing.ids)

\* The parts of CatalogInv only depend on the clock and the coordinator.
LEMMA CatalogFrame ==
  ASSUME CatalogInv, TypeOK', UNCHANGED <<now, backup, run, listing, catalog>>
  PROVE  CatalogInv'
  BY DEF CatalogInv, UploadClock, ListingRecent, CatalogComplete, Published, Committed

\* Steps of artifacts and of the active run keep CatalogInv.
LEMMA CatalogBackupStep ==
  ASSUME CatalogInv, TypeOK', RunStep \/ \E b \in Backups : BackupStep(b)
  PROVE  CatalogInv'
  <1> USE TimingAssumption, ConfigAssumption
      DEF CatalogInv, TypeOK, Artifacts, Catalogs
  <1>1. ASSUME NEW b \in Backups, BackupStart(b) PROVE CatalogInv'
    BY <1>1 DEF BackupStart, UploadClock, ListingRecent, CatalogComplete,
       Published, Committed
  <1>2. ASSUME NEW b \in Backups, BackupPublish(b) PROVE CatalogInv'
    BY <1>2 DEF BackupPublish, UploadClock, ListingRecent, CatalogComplete,
       Published, Committed
  <1>3. ASSUME NEW b \in Backups, UploadLost(b) \/ BackupPrune(b)
        PROVE  CatalogInv'
    <2>1. /\ UNCHANGED <<now, listing, catalog>>
          /\ \/ backup[b].stage = "uploading"
                /\ backup' = [backup EXCEPT ![b].stage = "lost"]
             \/ backup[b].stage = "committed"
                /\ backup' = [backup EXCEPT ![b].stage = "pruned"]
      BY <1>3 DEF UploadLost, BackupPrune, Committed
    <2>2. /\ \A d \in Backups : backup'[d].at = backup[d].at
          /\ \A d \in Backups \ {b} : backup'[d].stage = backup[d].stage
          /\ backup'[b].stage \in {"lost", "pruned"}
          /\ backup[b].stage \in {"committed", "pruned"} => backup'[b].stage = "pruned"
      <3>1. backup \in [Backups -> Artifacts]
        OBVIOUS
      <3>2. CASE /\ backup[b].stage = "uploading"
                 /\ backup' = [backup EXCEPT ![b].stage = "lost"]
        BY ONLY <3>1, <3>2, b \in Backups DEF Artifacts
      <3>3. CASE /\ backup[b].stage = "committed"
                 /\ backup' = [backup EXCEPT ![b].stage = "pruned"]
        BY ONLY <3>1, <3>3, b \in Backups DEF Artifacts
      <3> QED
        BY <2>1, <3>2, <3>3
    <2>3. UploadClock' /\ ListingRecent' /\ CatalogComplete'
      BY <2>1, <2>2 DEF UploadClock, ListingRecent, CatalogComplete, Committed
    <2>4. ASSUME NEW ids \in SUBSET Backups, Published(ids) PROVE Published(ids)'
      BY <2>2, <2>4 DEF Published
    <2> QED
      BY <2>1, <2>3, <2>4
  <1>4. CASE BackupCheckpoint
    BY <1>4 DEF BackupCheckpoint, UploadClock, ListingRecent,
       CatalogComplete, Published, Committed
  <1>5. CASE BackupEnd
    BY <1>5 DEF BackupEnd, UploadClock, ListingRecent,
       CatalogComplete, Published, Committed
  <1>6. CASE ReconcileList
    BY <1>6 DEF ReconcileList, ListCommitted, UploadClock, ListingRecent,
       CatalogComplete, Published, Committed
  <1>7. CASE ReconcileReplace
    BY <1>7 DEF ReconcileReplace, UploadClock, ListingRecent,
       CatalogComplete, Published, Committed
  <1> QED
    BY <1>1, <1>2, <1>3, <1>4, <1>5, <1>6, <1>7 DEF RunStep, BackupStep

\* Completeness of listing and catalog is preserved by every step.
LEMMA CatalogStep == CatalogInv /\ [Next]_vars => CatalogInv'
  <1> SUFFICES ASSUME CatalogInv, [Next]_vars PROVE CatalogInv'
    OBVIOUS
  <1>0. TypeOK'
    BY TypeStep DEF CatalogInv
  <1>1. CASE RunStep \/ \E b \in Backups : BackupStep(b)
    BY <1>0, <1>1, CatalogBackupStep
  <1>2. CASE \E c \in Chunks : ChunkStep(c)
    BY <1>0, <1>2, CatalogFrame DEF ChunkStep, Allocate, Detach, Attach, backups
  <1>3. CASE \E w \in Workers : WorkerStep(w)
    BY <1>0, <1>3, CatalogFrame DEF WorkerStep, TombstoneRead, TombstoneApply,
       PurgeRead, PurgeApply, StopWorker, TombstoneSnapshot, PurgeSnapshot, backups
  <1>4. CASE Tick
    BY <1>0, <1>4, TimingAssumption DEF Tick, backups, CatalogInv, TypeOK,
       Artifacts, Catalogs, UploadClock, ListingRecent, CatalogComplete,
       Published, Committed
  <1>5. CASE UNCHANGED vars
    BY <1>0, <1>5, CatalogFrame DEF vars
  <1> QED
    BY <1>1, <1>2, <1>3, <1>4, <1>5 DEF Next

\* Listing and catalog are complete initially.
LEMMA InitCatalog == Init => CatalogInv
  BY InitType, ConfigAssumption, TimingAssumption
     DEF Init, CatalogInv, UploadClock, ListingRecent, CatalogComplete,
         NoBackup, Committed

\* The catalog only ever omits backups that started shortly before it was
\* reconciled, whatever is published late.
THEOREM CatalogIsComplete == Spec => []CatalogComplete
  <1>1. CatalogInv => CatalogComplete
    BY DEF CatalogInv
  <1> QED
    BY <1>1, InitCatalog, CatalogStep, PTL DEF Spec

-----------------------------------------------------------------------------
(* Retained backups: chunks regain references only apart from tombstones *)

\* A referenced chunk is live, and nobody is about to tombstone it.
ReferencedLive ==
    \A c \in refs :
        /\ chunk[c] = "live"
        /\ \A w \in Workers :
              worker[w].cur = c => worker[w].pc \notin {"tombstone", "tombstoneCond"}

\* A chunk that a worker picked has been allocated.
PickedExisted ==
    \A w \in Workers : worker[w].pc # "idle" => chunk[worker[w].cur] # "none"

\* What a purger knows when it submits its batch.
PurgeBatch ==
    \A w \in Workers : worker[w].pc = "purgeCond" =>
        LET cat == worker[w].seenCatalog
        IN  /\ cat # None
            /\ worker[w].at + Quarantine <= now
            /\ worker[w].at + Quarantine <= cat.at + CatalogMaxAge
            /\ Published(cat.ids)
            /\ \A b \in cat.ids : backup[b].at > worker[w].at

\* A chunk that an artifact references exists; its tombstone, on its row or
\* about to be, is not older than the artifact.
ArtifactChunks ==
    \A b \in Backups : backup[b].stage \in {"uploading", "committed"} =>
        \A c \in backup[b].refs :
            /\ Exists(c)
            /\ chunk[c] = "tombstoned" => deleted[c] >= backup[b].at
            /\ \A w \in Workers :
                  worker[w].pc = "tombstoneCond" /\ worker[w].cur = c =>
                      worker[w].at >= backup[b].at

IInv ==
    /\ CatalogInv /\ ReferencedLive /\ PickedExisted /\ PurgeBatch
    /\ ArtifactChunks

\* Giving and taking references keeps the invariant.
LEMMA IInvChunkStep ==
  ASSUME ~Unfenced, IInv, CatalogInv', NEW c \in Chunks, ChunkStep(c)
  PROVE  IInv'
  <1>1. CASE Allocate(c)
    <2>1. /\ chunk[c] = "none" /\ refs' = refs \cup {c}
          /\ chunk' = [chunk EXCEPT ![c] = "live"]
          /\ UNCHANGED <<now, deleted, worker, backup, run, listing, catalog>>
      BY <1>1 DEF Allocate, backups
    <2>2. ReferencedLive' /\ PickedExisted'
      BY <2>1 DEF IInv, CatalogInv, TypeOK, ReferencedLive, PickedExisted
    <2>3. ArtifactChunks'
      BY <2>1 DEF IInv, CatalogInv, TypeOK, Artifacts, ArtifactChunks, Exists
    <2> QED
      BY <2>1, <2>2, <2>3 DEF IInv, PurgeBatch, Published
  <1>2. CASE Detach(c)
    BY <1>2 DEF Detach, backups, IInv, ReferencedLive, PickedExisted, PurgeBatch,
       Published, ArtifactChunks, Exists
  <1>3. CASE Attach(c)
    <2>1. /\ chunk[c] = "live" /\ ~Tombstoning(c) /\ refs' = refs \cup {c}
          /\ UNCHANGED <<now, chunk, deleted, worker, backup, run, listing, catalog>>
      BY <1>3 DEF Attach, backups
    <2>2. ReferencedLive'
      BY <2>1 DEF IInv, ReferencedLive, Tombstoning
    <2> QED
      BY <2>1, <2>2 DEF IInv, PickedExisted, PurgeBatch, Published, ArtifactChunks,
         Exists
  <1> QED
    BY <1>1, <1>2, <1>3 DEF ChunkStep

\* Tombstone and purge steps keep the invariant.
LEMMA IInvWorkerStep ==
  ASSUME IInv, CatalogInv', NEW w \in Workers, WorkerStep(w) PROVE IInv'
  <1>t. /\ worker \in [Workers -> WorkerStates] /\ worker[w] \in WorkerStates
        /\ worker[w].pc # "idle" => worker[w].cur \in Chunks
        /\ worker[w].at \in Nat
        /\ chunk \in [Chunks -> {"none", "live", "tombstoned", "purged"}]
        /\ deleted \in [Chunks -> Nat] /\ now \in Nat
        /\ backup \in [Backups -> Artifacts] /\ refs \in SUBSET Chunks
    BY DEF IInv, CatalogInv, TypeOK, WorkerStates
  <1> DEFINE Parts == ReferencedLive /\ PickedExisted /\ PurgeBatch /\ ArtifactChunks
  <1>p. Parts
    BY DEF IInv
  <1> USE DEF ReferencedLive, PickedExisted, ArtifactChunks, chunks, backups, SetWorker
  <1>0. ASSUME SetWorker(w, Idle), UNCHANGED <<now, chunks, backups>> PROVE Parts'
    BY <1>0, <1>p, <1>t DEF Idle, PurgeBatch, Published, Exists
  <1>1. ASSUME NEW c \in Chunks, TombstoneSnapshot(w, c) PROVE Parts'
    BY <1>1, <1>p, <1>t DEF TombstoneSnapshot, Idle, PurgeBatch, Published, Exists
  <1>2. ASSUME TombstoneRead(w) PROVE Parts'
    <2>1. CASE SetWorker(w, Idle)
      BY <1>0, <1>2, <2>1 DEF TombstoneRead
    <2>2. CASE SetWorker(w, [worker[w] EXCEPT !.pc = "tombstoneCond", !.at = now])
      <3>1. UNCHANGED <<now, chunk, deleted, refs, backup>> /\ worker[w].pc = "tombstone"
        BY <1>2 DEF TombstoneRead
      <3>2. \A b \in Backups : backup[b].at <= now
        BY DEF IInv, CatalogInv, UploadClock
      <3>3. ReferencedLive' /\ PickedExisted'
        BY <1>p, <1>t, <2>2, <3>1 DEF WorkerStates
      <3>4. PurgeBatch'
        BY <1>p, <1>t, <2>2, <3>1 DEF WorkerStates, PurgeBatch, Published
      <3>5. ArtifactChunks'
        BY <1>p, <1>t, <2>2, <3>1, <3>2 DEF WorkerStates, Exists
      <3> QED
        BY <3>3, <3>4, <3>5
    <2> QED
      BY <1>2, <2>1, <2>2 DEF TombstoneRead
  <1>3. ASSUME TombstoneApply(w) PROVE Parts'
    <2>1. /\ worker[w].pc = "tombstoneCond" /\ worker[w].cur \in Chunks
          /\ worker' = [worker EXCEPT ![w] = Idle]
          /\ UNCHANGED <<now, refs, backup>>
          /\ \A c \in Chunks :
               \/ chunk'[c] = chunk[c] /\ deleted'[c] = deleted[c]
               \/ /\ c = worker[w].cur /\ chunk[c] = "live"
                  /\ chunk'[c] = "tombstoned" /\ deleted'[c] = worker[w].at
      BY <1>3, <1>t DEF TombstoneApply
    <2>2. ReferencedLive' /\ PickedExisted'
      BY <1>p, <1>t, <2>1 DEF Idle, CatalogInv, TypeOK
    <2>3. PurgeBatch'
      BY <1>p, <1>t, <2>1 DEF Idle, PurgeBatch, Published
    <2>4. ArtifactChunks'
      BY <1>p, <1>t, <2>1 DEF Idle, Exists, Artifacts
    <2> QED
      BY <2>2, <2>3, <2>4
  <1>4. ASSUME NEW c \in Chunks, PurgeSnapshot(w, c) PROVE Parts'
    BY <1>4, <1>p, <1>t DEF PurgeSnapshot, Idle, PurgeBatch, Published, Exists
  <1>5. ASSUME PurgeRead(w) PROVE Parts'
    <2> DEFINE st == [worker[w] EXCEPT !.pc = "purgeCond",
                        !.at = deleted[worker[w].cur], !.seenCatalog = catalog]
    <2>1. CASE SetWorker(w, Idle)
      BY <1>0, <1>5, <2>1 DEF PurgeRead
    <2>2. CASE ~SetWorker(w, Idle)
      <3>1. /\ worker' = [worker EXCEPT ![w] = st] /\ worker[w].pc = "purge"
            /\ UNCHANGED <<now, chunk, deleted, refs, backup, catalog>>
            /\ now >= deleted[worker[w].cur] + Quarantine
            /\ CatalogUsable(catalog)
            /\ AllBackupsNewer(catalog, deleted[worker[w].cur])
        BY <1>5, <2>2 DEF PurgeRead
      <3>2. /\ st.pc = "purgeCond" /\ st.cur = worker[w].cur
            /\ st.at = deleted[worker[w].cur] /\ st.seenCatalog = catalog
        BY <1>t DEF WorkerStates
      <3> HIDE DEF st
      <3>3. ReferencedLive' /\ PickedExisted' /\ ArtifactChunks'
        BY <1>p, <1>t, <3>1, <3>2 DEF Exists
      <3>4. /\ catalog # None /\ Published(catalog.ids)
            /\ catalog.at \in Nat /\ deleted[worker[w].cur] \in Nat
        BY <1>t, <3>1 DEF CatalogUsable, IInv, CatalogInv, TypeOK, Catalogs
      <3>5. PurgeBatch'
        BY <1>p, <1>t, <3>1, <3>2, <3>4, TimingAssumption
           DEF CatalogUsable, AllBackupsNewer, PurgeBatch, Published
      <3> QED
        BY <3>3, <3>5
    <2> QED
      BY <2>1, <2>2
  <1>6. ASSUME PurgeApply(w) PROVE Parts'
    <2>1. /\ worker[w].pc = "purgeCond" /\ worker[w].cur \in Chunks
          /\ worker' = [worker EXCEPT ![w] = Idle]
          /\ UNCHANGED <<now, deleted, refs, backup>>
          /\ \A c \in Chunks :
               \/ chunk'[c] = chunk[c]
               \/ /\ c = worker[w].cur /\ chunk[c] = "tombstoned"
                  /\ chunk'[c] = "purged" /\ deleted[c] = worker[w].at
                  /\ catalog = worker[w].seenCatalog
      BY <1>6, <1>t DEF PurgeApply
    <2>a. ReferencedLive'
      BY <1>p, <1>t, <2>1 DEF Idle
    <2>b. PickedExisted'
      <3>1. \A v \in Workers : worker[v].pc # "idle" => worker[v].cur \in Chunks
        BY DEF IInv, CatalogInv, TypeOK
      <3> QED
        BY <1>p, <1>t, <2>1, <3>1 DEF Idle
    <2>2. PurgeBatch'
      BY <1>p, <1>t, <2>1 DEF Idle, PurgeBatch, Published
    <2>3. ASSUME NEW b \in Backups, backup[b].stage \in {"uploading", "committed"},
                 NEW c \in backup[b].refs, chunk'[c] # chunk[c], c \in Chunks
          PROVE  FALSE
      <3>1. /\ c = worker[w].cur /\ chunk[c] = "tombstoned"
            /\ deleted[c] = worker[w].at /\ catalog = worker[w].seenCatalog
        BY <2>1, <2>3
      <3>2. worker[w].at >= backup[b].at /\ backup[b].at \in Nat
        BY <1>p, <1>t, <2>3, <3>1 DEF Artifacts
      <3>3. /\ catalog # None /\ worker[w].at + Quarantine <= now
            /\ worker[w].at + Quarantine <= catalog.at + CatalogMaxAge
            /\ \A d \in catalog.ids : backup[d].at > worker[w].at
        BY <1>p, <2>1, <3>1 DEF PurgeBatch
      <3>4. CASE backup[b].stage = "uploading"
        BY <1>t, <3>2, <3>3, <3>4, TimingAssumption DEF IInv, CatalogInv, UploadClock
      <3>5. CASE backup[b].stage = "committed"
        <4>1. catalog.at \in Nat
          BY <3>3 DEF IInv, CatalogInv, TypeOK, Catalogs
        <4>2. backup[b].at + 2 * MaxUpload < catalog.at
          BY <1>t, <3>2, <3>3, <4>1, TimingAssumption
        <4>3. b \in catalog.ids
          BY <3>3, <3>5, <4>2 DEF IInv, CatalogInv, CatalogComplete, Committed
        <4> QED
          BY <1>t, <3>2, <3>3, <4>3
      <3> QED
        BY <2>3, <3>4, <3>5
    <2>4. ArtifactChunks'
      BY <1>p, <1>t, <2>1, <2>3 DEF Idle, Exists, Artifacts
    <2> QED
      BY <2>a, <2>b, <2>2, <2>4
  <1>7. ASSUME StopWorker(w) PROVE Parts'
    BY <1>0, <1>7 DEF StopWorker
  <1> HIDE DEF Parts
  <1>8. Parts'
    BY <1>1, <1>2, <1>3, <1>4, <1>5, <1>6, <1>7 DEF WorkerStep
  <1> QED
    BY <1>8 DEF IInv, Parts

\* Steps of the coordinator keep the invariant: a checkpoint only holds live
\* chunks, and what was published keeps its date.
LEMMA IInvBackupStep ==
  ASSUME IInv, CatalogInv', RunStep \/ \E b \in Backups : BackupStep(b)
  PROVE  IInv'
  <1>t. /\ backup \in [Backups -> Artifacts] /\ refs \in SUBSET Chunks
        /\ run \in Backups \cup {None} /\ now \in Nat
    BY DEF IInv, CatalogInv, TypeOK
  <1>f. UNCHANGED <<now, chunk, deleted, refs, worker>>
    BY DEF RunStep, BackupStep, BackupStart, BackupPublish, UploadLost,
       BackupPrune, BackupCheckpoint, BackupEnd, ReconcileList,
       ReconcileReplace, chunks
  <1>1. ReferencedLive' /\ PickedExisted'
    BY <1>f DEF IInv, ReferencedLive, PickedExisted
  <1> DEFINE Change ==
        \A b \in Backups :
          /\ backup[b].stage \in {"committed", "pruned"} =>
               /\ backup'[b].stage \in {"committed", "pruned"}
               /\ backup'[b].at = backup[b].at
          /\ backup'[b].stage \in {"uploading", "committed"} =>
               \/ /\ backup[b].stage \in {"uploading", "committed"}
                  /\ backup'[b].at = backup[b].at /\ backup'[b].refs = backup[b].refs
               \/ backup'[b].refs = refs
  <1>2. Change
    <2>1. ASSUME NEW b \in Backups, BackupStart(b) PROVE Change
      BY <1>t, <2>1 DEF BackupStart, Artifacts
    <2>2. ASSUME NEW b \in Backups, BackupPublish(b) PROVE Change
      BY <1>t, <2>2 DEF BackupPublish, Artifacts
    <2>3. ASSUME NEW b \in Backups, UploadLost(b) PROVE Change
      BY <1>t, <2>3 DEF UploadLost, Artifacts
    <2>4. ASSUME NEW b \in Backups, BackupPrune(b) PROVE Change
      <3>1. backup' = [backup EXCEPT ![b].stage = "pruned"]
        BY <2>4 DEF BackupPrune
      <3> QED
        BY <1>t, <3>1 DEF Artifacts
    <2>5. ASSUME BackupCheckpoint PROVE Change
      BY <1>t, <2>5 DEF BackupCheckpoint, Artifacts
    <2>6. ASSUME BackupEnd PROVE Change
      BY <1>t, <2>6 DEF BackupEnd, Artifacts
    <2>7. ASSUME ReconcileList \/ ReconcileReplace PROVE Change
      BY <2>7 DEF ReconcileList, ReconcileReplace
    <2> HIDE DEF Change
    <2> QED
      BY <2>1, <2>2, <2>3, <2>4, <2>5, <2>6, <2>7 DEF RunStep, BackupStep
  <1>3. PurgeBatch'
    <2>1. \A w \in Workers : worker[w].seenCatalog # None =>
            worker[w].seenCatalog.ids \subseteq Backups
      BY DEF IInv, CatalogInv, TypeOK, WorkerStates, Catalogs
    <2> QED
      BY <1>2, <1>f, <2>1 DEF IInv, PurgeBatch, Published
  <1>5. ArtifactChunks'
    BY <1>2, <1>f DEF IInv, ReferencedLive, ArtifactChunks, Exists
  <1> QED
    BY <1>1, <1>3, <1>5 DEF IInv

\* The invariant about tombstones, snapshots and backups is inductive when no
\* chunk gains a reference while it is being tombstoned, or after.
LEMMA IInvStep == ASSUME ~Unfenced PROVE IInv /\ [Next]_vars => IInv'
  <1> SUFFICES ASSUME IInv, [Next]_vars PROVE IInv'
    OBVIOUS
  <1>0. CatalogInv'
    BY CatalogStep DEF IInv
  <1>1. CASE \E c \in Chunks : ChunkStep(c)
    BY <1>0, <1>1, IInvChunkStep
  <1>2. CASE \E w \in Workers : WorkerStep(w)
    BY <1>0, <1>2, IInvWorkerStep
  <1>3. CASE RunStep \/ \E b \in Backups : BackupStep(b)
    BY <1>0, <1>3, IInvBackupStep
  <1>4. CASE Tick
    <2>1. /\ now' = now + 1
          /\ UNCHANGED <<chunk, deleted, refs, worker, backup, catalog>>
      BY <1>4 DEF Tick, chunks, backups
    <2>2. PurgeBatch'
      BY <2>1, TimingAssumption
         DEF IInv, CatalogInv, TypeOK, WorkerStates, PurgeBatch, Published
    <2> QED
      BY <1>0, <2>1, <2>2
         DEF IInv, ReferencedLive, PickedExisted, ArtifactChunks, Exists
  <1>5. CASE UNCHANGED vars
    BY <1>0, <1>5 DEF vars, IInv, ReferencedLive, PickedExisted, PurgeBatch,
       Published, ArtifactChunks, Exists
  <1> QED
    BY <1>1, <1>2, <1>3, <1>4, <1>5 DEF Next

\* The invariant holds initially.
LEMMA InitIInv == Init => IInv
  BY InitCatalog DEF Init, Idle, NoBackup, IInv, ReferencedLive, PickedExisted,
     PurgeBatch, ArtifactChunks

\* As long as attachments are kept apart from tombstones, no backup in the
\* repository references a purged chunk: the quarantine and the catalog check
\* of PurgeChunk together cover uploads that are published late.
THEOREM BackupsComplete ==
  ASSUME ~Unfenced PROVE Spec => []RetainedBackupsComplete
  <1>1. IInv /\ [Next]_vars => IInv'
    BY IInvStep
  <1>2. IInv => RetainedBackupsComplete
    BY DEF IInv, ArtifactChunks, RetainedBackupsComplete, Committed
  <1> QED
    BY <1>1, <1>2, InitIInv, PTL DEF Spec

=============================================================================
