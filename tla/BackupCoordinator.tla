--------------------------- MODULE BackupCoordinator ---------------------------
(***************************************************************************)
(* The backup coordinator of every metadata node: shared runs bound to a   *)
(* leadership generation, the task rows and the catalog they write through *)
(* Raft, and the repository they publish to and prune.  A node may believe *)
(* it leads after it was deposed; a batch whose outcome its caller never   *)
(* learned may still apply; a remote call may finish after its caller gave *)
(* up.                                                                     *)
(*                                                                         *)
(* Code: metadata/backup_coordinator.go, metadata/backup_catalog.go.       *)
(***************************************************************************)
EXTENDS Integers, Sequences, FiniteSets, FiniteSetsExt

CONSTANTS
    Nodes,      \* metadata nodes
    Backups,    \* backup ids, a set of positive integers
    Clock,      \* what a node's clock may read when a backup starts
    Retention,  \* cfg.Retention
    MaxFaults   \* bound on timeouts, failed calls, crashes and depositions

ASSUME ConfigAssumption ==
    /\ Backups \subseteq Nat \ {0} /\ IsFiniteSet(Backups)
    /\ Clock \subseteq Nat \ {0}
    /\ Retention \in Nat \ {0} /\ MaxFaults \in Nat

VARIABLES
    term,      \* the current Raft term
    leads,     \* node -> the term it believes it leads, 0 when follower
    log,       \* batches in the leader's log whose callers gave up waiting
    run,       \* node -> its active shared run
    pending,   \* node -> pendingGeneration
    task,      \* backup id -> state of its task row
    at,        \* backup id -> StartedAt, 0 before the id is minted
    artifact,  \* backup id -> its artifact in the repository
    late,      \* remote calls still in flight whose callers gave up
    catalog,   \* ids in the durable catalog
    faults     \* faults so far

raft == <<term, leads>>
durable == <<task, catalog>>
vars == <<term, leads, log, run, pending, task, at, artifact, late, catalog, faults>>

-----------------------------------------------------------------------------
Active == {"creating", "uploading", "verifying"}
Terminal == {"committed", "failed"}

IdleRun == [pc |-> "idle", gen |-> 0, b |-> 0, list |-> {}, round |-> 0,
            verified |-> FALSE]

\* validateBackupTaskUpdate
TaskUpdateValid(from, to) ==
    \/ from \in Active /\ to = "failed"
    \/ <<from, to>> \in {<<"none", "creating">>, <<"creating", "uploading">>,
                         <<"uploading", "verifying">>, <<"verifying", "committed">>}

\* Repository and catalog order: newest first, ties by id.
Newer(a, b) == at[a] > at[b] \/ (at[a] = at[b] /\ a < b)

Present == {b \in Backups : artifact[b] = "present"}

\* The candidates of prune: what a listing holds beyond the Retention newest.
ObsoleteByOne(list) == {b \in list : Cardinality({d \in list : Newer(d, b)}) + 1 >= Retention}
Obsolete(list) == {b \in list : Cardinality({d \in list : Newer(d, b)}) >= Retention}

Init ==
    /\ term = 0
    /\ leads = [n \in Nodes |-> 0]
    /\ log = <<>>
    /\ run = [n \in Nodes |-> IdleRun]
    /\ pending = [n \in Nodes |-> 0]
    /\ task = [b \in Backups |-> "none"]
    /\ at = [b \in Backups |-> 0]
    /\ artifact = [b \in Backups |-> "none"]
    /\ late = {}
    /\ catalog = {}
    /\ faults = 0

Fault == faults < MaxFaults /\ faults' = faults + 1

-----------------------------------------------------------------------------
(* Raft *)

\* A node is elected.  Its log holds a prefix of the batches in flight.
NewLeader(n) ==
    /\ term' = term + 1
    /\ leads' = [leads EXCEPT ![n] = term + 1]
    /\ \E k \in 0..Len(log) : log' = SubSeq(log, 1, k)
    /\ UNCHANGED <<run, pending, durable, at, artifact, late>>

Vacant == term = 0 \/ \A m \in Nodes : leads[m] # term

Elect(n) == Vacant /\ NewLeader(n) /\ UNCHANGED faults

\* The leader is deposed by another node, and may not know it for a while.
Depose(n) == ~Vacant /\ leads[n] # term /\ Fault /\ NewLeader(n)

\* A deposed leader notices.
StepDown(n) ==
    /\ leads[n] \notin {0, term}
    /\ leads' = [leads EXCEPT ![n] = 0]
    /\ UNCHANGED <<term, log, run, pending, durable, at, artifact, late, faults>>

\* applyConditionalBatch: the precondition is the task row as it was read.
ApplyUnconditionally(x) ==
    /\ task' = IF x.op = "task" THEN [task EXCEPT ![x.b] = x.to] ELSE task
    /\ catalog' = IF x.op = "catalog" THEN x.ids ELSE catalog
ApplyConditional(x) ==
    /\ task' = IF x.op = "task" /\ task[x.b] = x.from
               THEN [task EXCEPT ![x.b] = x.to] ELSE task
    /\ catalog' = IF x.op = "catalog" THEN x.ids ELSE catalog

\* The oldest batch in flight is committed and applied.
ApplyLog ==
    /\ log # <<>>
    /\ ApplyConditional(Head(log))
    /\ log' = Tail(log)
    /\ UNCHANGED <<raft, run, pending, at, artifact, late, faults>>

\* requireGeneration
Generation(n) == run[n].gen # 0 /\ leads[n] = run[n].gen

TaskBatch(b, to) == [op |-> "task", b |-> b, from |-> task[b], to |-> to, ids |-> {}]
CatalogBatchMerged(ids) ==
    [op |-> "catalog", b |-> 0, from |-> "none", to |-> "none", ids |-> ids \cup catalog]
CatalogBatch(ids) == [op |-> "catalog", b |-> 0, from |-> "none", to |-> "none", ids |-> ids]

\* A term-fenced batch of a node that still leads, behind everything in the log.
Applied(n, x) ==
    /\ leads[n] = term /\ log = <<>>
    /\ ApplyConditional(x)
    /\ UNCHANGED <<log, faults>>

\* The caller's context ends first: the batch may or may not be in the log.
OutcomeUnknown(n, x) ==
    /\ Fault
    /\ \/ leads[n] = term /\ log' = Append(log, x)
       \/ UNCHANGED log
    /\ UNCHANGED durable

-----------------------------------------------------------------------------
(* Shared runs *)

NewRunUploadsOnly(g) ==
    [IdleRun EXCEPT !.pc = "recover", !.gen = g,
                    !.list = {b \in Backups : task[b] = "uploading"}]
NewRun(g) == [IdleRun EXCEPT !.pc = "recover", !.gen = g,
                             !.list = {b \in Backups : task[b] \in Active}]

\* executeSharedRun after run returned: a pending generation starts at once.
EndRun(n) ==
    /\ run' = [run EXCEPT ![n] =
          IF pending[n] > run[n].gen /\ leads[n] >= pending[n]
          THEN NewRun(leads[n]) ELSE IdleRun]
    /\ pending' = [pending EXCEPT ![n] = 0]

Goto(n, pc) ==
    /\ run' = [run EXCEPT ![n].pc = pc]
    /\ UNCHANGED pending

\* The error path of run: a task that was created and did not commit is marked
\* failed by the deferred call.
Error(n, pc) ==
    IF pc \in {"uploading", "publish", "verifying", "verify", "committed"}
    THEN Goto(n, "failing") ELSE EndRun(n)

\* schedulerLoop, Trigger: start a run unless one is active.
Begin(n) ==
    /\ run[n].pc = "idle" /\ leads[n] # 0
    /\ run' = [run EXCEPT ![n] = NewRun(leads[n])]
    /\ UNCHANGED <<raft, log, pending, durable, at, artifact, late, faults>>

\* leadershipLoop: a new generation joins the active run and stays pending.
Join(n) ==
    /\ run[n].pc # "idle"
    /\ leads[n] > run[n].gen /\ leads[n] > pending[n]
    /\ pending' = [pending EXCEPT ![n] = leads[n]]
    /\ UNCHANGED <<raft, log, run, durable, at, artifact, late, faults>>

\* requireGeneration fails, or the monitor cancels the run; the deferred call
\* does not write either.
LoseRun(n) ==
    /\ run[n].pc # "idle" /\ ~Generation(n)
    /\ EndRun(n)
    /\ UNCHANGED <<raft, log, durable, at, artifact, late, faults>>

\* Any call fails or UploadTimeout ends the run's context.
FailRun(n) ==
    /\ run[n].pc \notin {"idle", "failing"} /\ Generation(n)
    /\ Fault
    /\ Error(n, run[n].pc)
    /\ UNCHANGED <<raft, log, durable, at, artifact, late>>

\* recoverInterruptedTasks: every task that was active when the scan began.  A
\* task that became terminal since is an error.
Recover(n) ==
    /\ run[n].pc = "recover" /\ Generation(n)
    /\ \/ /\ run[n].list = {}
          /\ run' = [run EXCEPT ![n].pc = "list", ![n].round = 1]
          /\ UNCHANGED <<log, pending, durable, faults>>
       \/ /\ run[n].list # {}
          /\ LET b == Min(run[n].list)
                 x == TaskBatch(b, "failed")
             IN  \/ /\ TaskUpdateValid(task[b], "failed")
                    /\ Applied(n, x)
                    /\ run' = [run EXCEPT ![n].list = @ \ {b}]
                    /\ UNCHANGED pending
                 \/ /\ TaskUpdateValid(task[b], "failed")
                    /\ OutcomeUnknown(n, x)
                    /\ EndRun(n)
                 \/ /\ ~TaskUpdateValid(task[b], "failed")
                    /\ EndRun(n)
                    /\ UNCHANGED <<log, durable, faults>>
    /\ UNCHANGED <<raft, at, artifact, late>>

\* startedAt and the checkpoint.
Checkpoint(n, b, t) ==
    /\ run[n].pc = "start" /\ Generation(n)
    /\ at[b] = 0
    /\ at' = [at EXCEPT ![b] = t]
    /\ run' = [run EXCEPT ![n].pc = "creating", ![n].b = b]
    /\ UNCHANGED <<raft, log, pending, durable, artifact, late, faults>>

\* Bound: no id is left.
NoBackupID(n) ==
    /\ run[n].pc = "start" /\ \A b \in Backups : at[b] # 0
    /\ EndRun(n)
    /\ UNCHANGED <<raft, log, durable, at, artifact, late, faults>>

AfterCommitPrune(n, to) ==
    CASE to = "creating" -> "uploading"
      [] to = "uploading" -> "publish"
      [] to = "verifying" -> IF run[n].verified THEN "committed" ELSE "verify"
      [] to = "committed" -> "prune"

\* Where run goes once the task row has reached the state.
After(n, to) ==
    CASE to = "creating" -> "uploading"
      [] to = "uploading" -> "publish"
      [] to = "verifying" -> IF run[n].verified THEN "committed" ELSE "verify"
      [] to = "committed" -> "list"

\* persistTask: the pc names the state to write.  When the outcome is unknown
\* the row is read again; the context is over, so run ends on its error path,
\* but knows whether the state was reached.
PersistTask(n) ==
    /\ run[n].pc \in {"creating", "uploading", "verifying", "committed"}
    /\ Generation(n)
    /\ LET to == run[n].pc
           b == run[n].b
           x == TaskBatch(b, to)
       IN  \/ /\ TaskUpdateValid(task[b], to)
              /\ Applied(n, x)
              /\ run' = [run EXCEPT ![n].pc = After(n, to),
                            ![n].round = IF to = "committed" THEN 2 ELSE @]
              /\ UNCHANGED pending
           \/ /\ TaskUpdateValid(task[b], to)
              /\ OutcomeUnknown(n, x)
              /\ Goto(n, "reread")
           \/ /\ ~TaskUpdateValid(task[b], to)
              /\ Error(n, to)
              /\ UNCHANGED <<log, durable, faults>>
    /\ UNCHANGED <<raft, at, artifact, late>>

\* A row that is there is marked failed, unless it is the committed row: only
\* the run that owns the task commits it.
Reread(n) ==
    /\ run[n].pc = "reread"
    /\ IF task[run[n].b] \in {"none", "committed"}
       THEN EndRun(n) ELSE Goto(n, "failing")
    /\ UNCHANGED <<raft, log, durable, at, artifact, late, faults>>

\* The deferred call of run.
PersistFailed(n) ==
    /\ run[n].pc = "failing" /\ Generation(n)
    /\ LET x == TaskBatch(run[n].b, "failed")
           valid == TaskUpdateValid(x.from, "failed")
       IN  \/ valid /\ Applied(n, x)
           \/ valid /\ OutcomeUnknown(n, x)
           \/ ~valid /\ UNCHANGED <<log, durable, faults>>
    /\ EndRun(n)
    /\ UNCHANGED <<raft, at, artifact, late>>

PublishErrorIgnored(n) ==
    /\ run[n].pc = "publish" /\ Generation(n)
    /\ artifact' \in {artifact, [artifact EXCEPT ![run[n].b] = "present"]}
    /\ run' = [run EXCEPT ![n].pc = "verifying", ![n].verified = TRUE]
    /\ UNCHANGED <<raft, log, durable, at, pending, late, faults>>

\* Publish, and the verification of the remote artifact when it fails.
Publish(n) ==
    /\ run[n].pc = "publish" /\ Generation(n)
    /\ LET b == run[n].b
       IN  \/ /\ artifact' = [artifact EXCEPT ![b] = "present"]
              /\ Goto(n, "verifying")
              /\ UNCHANGED <<late, faults>>
           \/ /\ Fault
              /\ artifact' = [artifact EXCEPT ![b] = "present"]
              /\ run' = [run EXCEPT ![n].pc = "verifying", ![n].verified = TRUE]
              /\ UNCHANGED <<late, pending>>
           \/ /\ Fault
              /\ late' \in {late, late \cup {[op |-> "publish", b |-> b]}}
              /\ Error(n, "publish")
              /\ UNCHANGED artifact
    /\ UNCHANGED <<raft, log, durable, at>>

\* fetchAndVerify after the task row says verifying.
Verify(n) ==
    /\ run[n].pc = "verify" /\ Generation(n)
    /\ IF run[n].b \in Present THEN Goto(n, "committed") ELSE Error(n, "verify")
    /\ UNCHANGED <<raft, log, durable, at, artifact, late, faults>>

-----------------------------------------------------------------------------
(* reconcileRepository and prune.  Round 1 is the preflight, 2 and 3 come   *)
(* before and after pruning, 4 follows a failed deletion.                   *)

List(n) ==
    /\ run[n].pc = "list" /\ Generation(n)
    /\ run' = [run EXCEPT ![n].pc = "replace", ![n].list = Present]
    /\ UNCHANGED <<raft, log, pending, durable, at, artifact, late, faults>>

\* What follows a durable replacement.
Reconciled(n) ==
    LET r == run[n]
    IN  CASE r.round = 1 -> Goto(n, "start")
          [] r.round = 2 /\ r.b \in r.list ->
                /\ run' = [run EXCEPT ![n].pc = "delete", ![n].list = Obsolete(r.list)]
                /\ UNCHANGED pending
          [] OTHER -> EndRun(n)

\* The replacement of the catalog.  A listed artifact the catalog does not know
\* must be fetched, which fails when it was deleted since.
ReplaceCatalog(n) ==
    /\ run[n].pc = "replace" /\ Generation(n)
    /\ LET x == CatalogBatch(run[n].list)
           fetched == run[n].list \ catalog \subseteq Present
       IN  \/ fetched /\ Applied(n, x) /\ Reconciled(n)
           \/ fetched /\ OutcomeUnknown(n, x) /\ EndRun(n)
           \/ ~fetched /\ EndRun(n) /\ UNCHANGED <<log, durable, faults>>
    /\ UNCHANGED <<raft, at, artifact, late>>

\* prune deletes its candidates, newest first, and stops at the current backup.
Delete(n) ==
    /\ run[n].pc = "delete" /\ Generation(n)
    /\ \/ /\ run[n].list = {}
          /\ run' = [run EXCEPT ![n].pc = "list", ![n].round = 3]
          /\ UNCHANGED <<pending, artifact, late, faults>>
       \/ \E b \in run[n].list :
          /\ \A d \in run[n].list : ~Newer(d, b)
          /\ \/ /\ b = run[n].b
                /\ EndRun(n)
                /\ UNCHANGED <<artifact, late, faults>>
             \/ /\ b # run[n].b
                /\ artifact' = [artifact EXCEPT ![b] = "deleted"]
                /\ run' = [run EXCEPT ![n].list = @ \ {b}]
                /\ UNCHANGED <<pending, late, faults>>
             \/ /\ b # run[n].b
                /\ Fault
                /\ late' \in {late, late \cup {[op |-> "delete", b |-> b]}}
                /\ run' = [run EXCEPT ![n].pc = "list", ![n].round = 4]
                /\ UNCHANGED <<pending, artifact>>
    /\ UNCHANGED <<raft, log, durable, at>>

\* A remote call nobody waits for finishes.
LateCall(c) ==
    /\ c \in late
    /\ late' = late \ {c}
    /\ artifact' = [artifact EXCEPT ![c.b] =
          IF c.op = "publish" THEN "present" ELSE "deleted"]
    /\ UNCHANGED <<raft, log, run, pending, durable, at, faults>>

\* The remote call run n may be waiting for.
RemoteCalls(n) ==
    LET r == run[n]
    IN  CASE r.pc = "publish" -> {[op |-> "publish", b |-> r.b]}
          [] r.pc = "delete" -> {[op |-> "delete", b |-> b] : b \in
                {d \in r.list \ {r.b} : \A e \in r.list : ~Newer(e, d)}}
          [] OTHER -> {}

\* The process stops, also in the middle of Publish or Delete.
Crash(n) ==
    /\ Fault
    /\ leads[n] # 0 \/ run[n].pc # "idle"
    /\ late' \in {late, late \cup RemoteCalls(n)}
    /\ run' = [run EXCEPT ![n] = IdleRun]
    /\ pending' = [pending EXCEPT ![n] = 0]
    /\ leads' = [leads EXCEPT ![n] = 0]
    /\ UNCHANGED <<term, log, durable, at, artifact>>

-----------------------------------------------------------------------------
RunStep(n) ==
    \/ Recover(n) \/ PersistTask(n) \/ Reread(n) \/ PersistFailed(n)
    \/ Publish(n) \/ Verify(n) \/ List(n) \/ ReplaceCatalog(n) \/ Delete(n)
    \/ NoBackupID(n) \/ LoseRun(n)
    \/ \E b \in Backups, t \in Clock : Checkpoint(n, b, t)

Next ==
    \/ \E n \in Nodes : \/ Elect(n) \/ Depose(n) \/ StepDown(n) \/ Begin(n) \/ Join(n)
                        \/ RunStep(n) \/ FailRun(n) \/ Crash(n)
    \/ ApplyLog
    \/ \E c \in late : LateCall(c)

\* The coordinator's goroutines keep running, Raft elects leaders, applies what
\* it logged, and tells a deposed leader; the scheduler starts runs for ever.
Fairness ==
    /\ \A n \in Nodes : WF_vars(RunStep(n)) /\ WF_vars(Begin(n)) /\ WF_vars(StepDown(n))
    /\ WF_vars(\E n \in Nodes : Elect(n))
    /\ WF_vars(ApplyLog)
    /\ WF_vars(\E c \in late : LateCall(c))

Spec == Init /\ [][Next]_vars
FairSpec == Spec /\ Fairness

-----------------------------------------------------------------------------
(* Properties *)

Runs == [pc : {"idle", "recover", "list", "replace", "start", "creating", "uploading",
               "publish", "verifying", "verify", "committed", "reread", "failing",
               "delete"},
         gen : Nat, b : Backups \cup {0}, list : SUBSET Backups, round : 0..4,
         verified : BOOLEAN]
TaskStates == Active \cup Terminal \cup {"none"}

\* The type invariant.
TypeOK ==
    /\ term \in Nat /\ leads \in [Nodes -> Nat]
    /\ run \in [Nodes -> Runs] /\ pending \in [Nodes -> Nat]
    /\ task \in [Backups -> TaskStates]
    /\ at \in [Backups -> Nat]
    /\ artifact \in [Backups -> {"none", "present", "deleted"}]
    /\ late \subseteq [op : {"publish", "delete"}, b : Backups]
    /\ catalog \in SUBSET Backups
    /\ faults \in 0..MaxFaults

\* A task row says committed only when its artifact was published: also when
\* Publish failed, its answer was lost, or another leader ran meanwhile.
CommittedPublished ==
    \A b \in Backups : task[b] = "committed" => artifact[b] # "none"

\* Whatever was deleted from the repository is outside the Retention newest
\* artifacts in it, even when a deletion of a deposed leader lands late: "a
\* stale completion is limited to an already-obsolete candidate and never
\* targets current/top-N" (prune).
NewestRetained ==
    \A b \in Backups : artifact[b] = "deleted" =>
        Cardinality({d \in Present : Newer(d, b)}) >= Retention

\* A task row only moves forward, and a terminal row never changes, although
\* batches apply long after they were submitted.
TasksAdvance ==
    [][\A b \in Backups : task'[b] # task[b] => TaskUpdateValid(task[b], task'[b])]_vars

\* Every task that was created ends, whatever became of its run.
TasksEnd ==
    \A b \in Backups : task[b] \in Active ~> task[b] \in Terminal

\* Once the faults are over, the catalog agrees with the repository for good.
CatalogConverges == <>[](catalog = Present)

=============================================================================
