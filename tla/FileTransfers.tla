--------------------------- MODULE FileTransfers ---------------------------
(***************************************************************************)
(* The transfers of a file store: FileTransferRuntime, beginFileTransfer   *)
(* and shutdownFileTransfers (file-share library, index.ts) with the       *)
(* FairTransferOwner that each transfer has (transfer-scheduling.ts).      *)
(*                                                                         *)
(* A job is one slot that a transfer asks a scheduler for: a chunk to put, *)
(* the payload of a small file, or a chunk to read.  job[j] follows it     *)
(* through the scheduler and the owner:                                    *)
(*   idle      nothing                                                     *)
(*   queued    acquire is pending in the scheduler                         *)
(*   granted   the scheduler granted it, acquireBatch has not continued    *)
(*   revoked   the same, but the owner has failed meanwhile                *)
(*   handed    a lease of the owner, the caller has not continued          *)
(*   leased    a lease that the caller keeps                               *)
(*   decoding  a lease that covers an operation in flight                  *)
(*   running   a lease with the task it was acquired for                   *)
(*   rejected  a lease with a task that was not started                    *)
(*   deferred  a lease to be released once the owner has no tasks          *)
(*   detached  no lease any more: released when its operation settles      *)
(*                                                                         *)
(* JavaScript runs what is between two awaits without interruption: that   *)
(* is one action.  Left out: bytes, lanes and the order of the grants (see *)
(* FairTransferScheduler), diagnostics, and the permit of acquireBatch,    *)
(* whose slots are granted one by one here.  A name of a transfer is used  *)
(* again only after the code that began the earlier one has returned.      *)
(***************************************************************************)
EXTENDS Integers, FiniteSets

CONSTANTS
    Uploads, Reads,   \* names of transfers
    Jobs,
    Transfer,         \* the transfer of each job
    Payloads,         \* jobs for the payload of a small file (TinyFile)
    Prefetched,       \* chunks that are read ahead of any demand for them
    Limit,            \* slots of the upload and of the download scheduler
    MaxTracked,       \* bound: operations a transfer tracks at once
    Parents,          \* the programs that hold the store open
    Overlapping       \* may a parent close the store while another closes it?

Kinds == {"upload", "read"}

ASSUME TransferAssumption ==
    /\ Uploads \cap Reads = {}
    /\ Transfer \in [Jobs -> Uploads \cup Reads]
    /\ Payloads \subseteq Jobs
    /\ Prefetched \subseteq Jobs
    /\ Payloads \cap Prefetched = {}
    /\ \A j \in Payloads \cup Prefetched : Transfer[j] \in Reads
    /\ Limit \in [Kinds -> Nat]
    /\ MaxTracked \in Nat
    /\ IsFiniteSet(Jobs)
    /\ Parents # {}
    /\ Overlapping \in BOOLEAN

VARIABLES
    runtime,   \* FileTransferRuntime.state
    phase,     \* "none" (not active), "active", "draining" (finish waits until
               \* the owner is idle), "drained" (that wait is over)
    body,      \* the code of the transfer: "none", "running", "suspended" (at
               \* a yield), "unwinding" (an upload in its finally)
    failed,    \* owner.hasFailure
    tracked,   \* tasks of the owner that hold no lease
    job,
    used,      \* activePermitCount of the two schedulers
    parents,   \* the parents that still hold the store
    closer     \* "none", "waiting" (for the shutdown), "closing" the store

transferVars == <<phase, body, failed, tracked, job, used>>
storeVars == <<runtime, parents, closer>>
vars == <<transferVars, storeVars>>

Transfers == Uploads \cup Reads
Kind(t) == IF t \in Uploads THEN "upload" ELSE "read"
JobsOf(t) == {j \in Jobs : Transfer[j] = t}

\* The stages of a job in which its slot is taken; in which it is a lease of
\* its owner; in which its owner has a task for it; and in which the code that
\* asked for it still waits.
Tasks == {"running", "rejected"}
Leases == {"handed", "leased", "decoding", "deferred"} \cup Tasks
Holding == Leases \cup {"granted", "revoked", "detached"}
Acquiring == {"queued", "granted", "revoked", "handed"}
Stages == Holding \cup {"idle", "queued"}

Init ==
    /\ runtime = "open"
    /\ phase = [t \in Transfers |-> "none"]
    /\ body = [t \in Transfers |-> "none"]
    /\ failed = [t \in Transfers |-> FALSE]
    /\ tracked = [t \in Transfers |-> 0]
    /\ job = [j \in Jobs |-> "idle"]
    /\ used = [k \in Kinds |-> 0]
    /\ parents = Parents
    /\ closer = [p \in Parents |-> "none"]

-----------------------------------------------------------------------------
\* What the schedulers have granted: slots whose job came to hold or gave back.
Recount(k) ==
    LET now == {j \in Jobs : Kind(Transfer[j]) = k /\ job[j] \in Holding}
        next == {j \in Jobs : Kind(Transfer[j]) = k /\ job'[j] \in Holding}
    IN  used[k] + Cardinality(next \ now) - Cardinality(now \ next)

Move(jobs) ==
    /\ job' = jobs
    /\ used' = [k \in Kinds |-> Recount(k)]

MoveJob(j, stage) == Move([job EXCEPT ![j] = stage])

\* owner.taskCount, and whether the owner has neither tasks nor leases.
TaskCount(t, jobs, others) ==
    others + Cardinality({j \in JobsOf(t) : jobs[j] \in Tasks})

Idle(t, jobs, others) ==
    /\ others = 0
    /\ \A j \in JobsOf(t) : jobs[j] \notin Leases

\* releaseLeaseAfterTasksSettle.
ReleaseAfterTasks(t) ==
    IF TaskCount(t, job, tracked[t]) = 0 THEN "idle" ELSE "deferred"

\* What the cleanup that a read registers with addCancellationCleanup makes of
\* a lease: a lease that covers an operation is detached from the transfer.
CleanedUp(t, stage) ==
    CASE stage = "leased" -> ReleaseAfterTasks(t)
      [] stage = "decoding" -> "detached"
      [] OTHER -> stage

\* fail: pending acquires are cancelled, reads clean up.  A granted permit that
\* its caller has not received yet is left to acquireBatch.
MutFailedStage(j) ==
    LET t == Transfer[j]
    IN  CASE job[j] = "granted" -> "revoked"
          [] t \in Reads /\ job[j] \in {"leased", "decoding"} -> CleanedUp(t, job[j])
          [] OTHER -> job[j]

FailedStage(j) ==
    LET t == Transfer[j]
    IN  CASE job[j] = "queued" -> "idle"
          [] job[j] = "granted" -> "revoked"
          [] t \in Reads /\ job[j] \in {"leased", "decoding"} -> CleanedUp(t, job[j])
          [] OTHER -> job[j]

\* All these transfers fail.  The abort of a read also finishes it: at once if
\* its owner is idle, else when its owner has become idle.
FailAll(ts) ==
    LET failing == {t \in ts : ~failed[t]}
        jobs == [j \in Jobs |-> IF Transfer[j] \in failing THEN FailedStage(j)
                                                           ELSE job[j]]
    IN  /\ failed' = [t \in Transfers |-> failed[t] \/ t \in ts]
        /\ Move(jobs)
        /\ phase' = [t \in Transfers |->
               IF t \in failing \cap Reads
               THEN IF Idle(t, jobs, tracked[t]) THEN "none" ELSE "draining"
               ELSE phase[t]]

-----------------------------------------------------------------------------
\* beginFileTransfer.
Begin(t) ==
    /\ runtime = "open"
    /\ phase[t] = "none"
    /\ body[t] = "none"
    /\ tracked[t] = 0
    /\ phase' = [phase EXCEPT ![t] = "active"]
    /\ body' = [body EXCEPT ![t] = "running"]
    /\ failed' = [failed EXCEPT ![t] = FALSE]
    /\ UNCHANGED <<tracked, job, used, storeVars>>

\* A tracked operation rejects, a task fails, cancelTransfer, or the signal of
\* the caller aborts.
Fail(t) ==
    /\ phase[t] # "none"
    /\ ~failed[t]
    /\ FailAll({t})
    /\ UNCHANGED <<body, tracked, storeVars>>

\* acquireBatch up to its await.  Chunks are acquired by tracked operations.
Acquire(j) ==
    LET t == Transfer[j]
    IN  /\ phase[t] = "active"
        /\ ~failed[t]
        /\ job[j] = "idle"
        /\ \/ t \in Uploads \cup {Transfer[i] : i \in Payloads}
              /\ body[t] = "running"
           \/ t \in Reads /\ tracked[t] > 0
        /\ MoveJob(j, "queued")
        /\ UNCHANGED <<phase, body, failed, tracked, storeVars>>

\* The scheduler grants a request that fits.
Grant(j) ==
    /\ job[j] = "queued"
    /\ used[Kind(Transfer[j])] < Limit[Kind(Transfer[j])]
    /\ MoveJob(j, "granted")
    /\ UNCHANGED <<phase, body, failed, tracked, storeVars>>

\* acquireBatch after its await: a lease, or, if the owner has failed, the
\* permit goes straight back.
MutReceive(j) ==
    /\ job[j] \in {"granted", "revoked"}
    /\ MoveJob(j, "handed")
    /\ UNCHANGED <<phase, body, failed, tracked, storeVars>>

Receive(j) ==
    /\ job[j] \in {"granted", "revoked"}
    /\ MoveJob(j, IF job[j] = "granted" THEN "handed" ELSE "idle")
    /\ UNCHANGED <<phase, body, failed, tracked, storeVars>>

\* The caller of acquire continues.  The read of a small file registers its
\* cleanup, which runs at once on an owner that has failed; the others keep the
\* lease.
Take(j) ==
    LET t == Transfer[j]
    IN  /\ job[j] = "handed"
        /\ MoveJob(j, IF j \in Payloads /\ failed[t] THEN ReleaseAfterTasks(t)
                                                     ELSE "leased")
        /\ UNCHANGED <<phase, body, failed, tracked, storeVars>>

\* enqueueWithPermit: an owner that has failed does not start the task.
Enqueue(j) ==
    LET t == Transfer[j]
    IN  /\ t \in Uploads
        /\ body[t] = "running"
        /\ job[j] = "leased"
        /\ MoveJob(j, IF failed[t] THEN "rejected" ELSE "running")
        /\ UNCHANGED <<phase, body, failed, tracked, storeVars>>

\* The finally of a task, and of a tracked operation: what is gone from the
\* owner's tasks; the last task releases the deferred leases.
MutSettle(t, jobs, others) ==
    /\ Move(jobs)
    /\ tracked' = [tracked EXCEPT ![t] = others]
    /\ UNCHANGED <<phase, body, failed, storeVars>>

Settle(t, jobs, others) ==
    /\ Move([j \in Jobs |->
           IF /\ Transfer[j] = t
              /\ jobs[j] = "deferred"
              /\ TaskCount(t, jobs, others) = 0
           THEN "idle" ELSE jobs[j]])
    /\ tracked' = [tracked EXCEPT ![t] = others]
    /\ UNCHANGED <<phase, body, failed, storeVars>>

TaskSettles(j) ==
    /\ job[j] \in Tasks
    /\ Settle(Transfer[j], [job EXCEPT ![j] = "idle"], tracked[Transfer[j]])

\* track, and the settlement of what was tracked: not before the chunks that
\* it acquires.
Track(t) ==
    /\ body[t] = "running"
    /\ phase[t] = "active"
    /\ ~failed[t]
    /\ tracked[t] < MaxTracked
    /\ tracked' = [tracked EXCEPT ![t] = @ + 1]
    /\ UNCHANGED <<phase, body, failed, job, used, storeVars>>

TrackedSettles(t) ==
    /\ tracked[t] > 0
    /\ tracked[t] = 1 /\ t \in Reads =>
           \A j \in JobsOf(t) \ Payloads : job[j] \notin Acquiring
    /\ Settle(t, job, tracked[t] - 1)

\* An operation covered by a lease starts: a read of the source, a decoding.
StartOperation(j) ==
    /\ job[j] = "leased"
    /\ j \notin Payloads
    /\ ~failed[Transfer[j]]
    /\ MoveJob(j, "decoding")
    /\ UNCHANGED <<phase, body, failed, tracked, storeVars>>

OperationSettles(j) ==
    /\ job[j] = "decoding"
    /\ MoveJob(j, "leased")
    /\ UNCHANGED <<phase, body, failed, tracked, storeVars>>

\* releaseChunkPermit: what was read was consumed; if it is still being stored,
\* the permit is detached instead.
Consume(j) ==
    LET t == Transfer[j]
    IN  /\ t \in Reads
        /\ body[t] = "running"
        /\ ~failed[t]
        /\ job[j] \in {"leased", "decoding"}
        /\ MoveJob(j, IF job[j] = "leased" THEN "idle" ELSE "detached")
        /\ UNCHANGED <<phase, body, failed, tracked, storeVars>>

\* The resolver of a chunk fails because the read has failed, and gives back
\* the permit that it finds: one taken after the cleanup.
ReleaseResolved(j) ==
    LET t == Transfer[j]
    IN  /\ t \in Reads
        /\ j \notin Payloads \cup Prefetched
        /\ failed[t]
        /\ job[j] = "leased"
        /\ MoveJob(j, "idle")
        /\ UNCHANGED <<phase, body, failed, tracked, storeVars>>

\* detachLeaseUntilSettled: the operation settles, however late.
DetachedSettles(j) ==
    /\ job[j] = "detached"
    /\ MoveJob(j, "idle")
    /\ UNCHANGED <<phase, body, failed, tracked, storeVars>>

-----------------------------------------------------------------------------
\* A read is suspended at a yield for as long as its consumer likes.
Yield(t) ==
    /\ t \in Reads
    /\ body[t] = "running"
    /\ ~failed[t]
    /\ body' = [body EXCEPT ![t] = "suspended"]
    /\ UNCHANGED <<phase, failed, tracked, job, used, storeVars>>

Resume(t) ==
    /\ body[t] = "suspended"
    /\ body' = [body EXCEPT ![t] = "running"]
    /\ UNCHANGED <<phase, failed, tracked, job, used, storeVars>>

\* A read is over: it cleans up and finishes, unless its failure did.
EndRead(t) ==
    /\ t \in Reads
    /\ body[t] = "running"
    /\ \A j \in JobsOf(t) \cap Payloads : job[j] \notin Acquiring
    /\ body' = [body EXCEPT ![t] = "none"]
    /\ FailAll({t})
    /\ UNCHANGED <<tracked, storeVars>>

\* writeFile after a failure: it tracks the abort of its sink, even if the
\* transfer has finished.
AbortSink(t) ==
    /\ t \in Reads
    /\ body[t] = "running"
    /\ failed[t]
    /\ \A j \in JobsOf(t) \cap Payloads : job[j] \notin Acquiring
    /\ tracked[t] < MaxTracked
    /\ tracked' = [tracked EXCEPT ![t] = @ + 1]
    /\ body' = [body EXCEPT ![t] = "none"]
    /\ UNCHANGED <<phase, failed, job, used, storeVars>>

\* An upload has put everything or gives up: it releases the permit it holds,
\* and detaches one that covers a read of the source it no longer waits for.
StopUpload(t) ==
    /\ t \in Uploads
    /\ body[t] = "running"
    /\ \A j \in JobsOf(t) : /\ job[j] \notin Acquiring
                            /\ job[j] = "decoding" => failed[t]
    /\ Move([j \in Jobs |->
           CASE Transfer[j] = t /\ job[j] = "leased" -> "idle"
             [] Transfer[j] = t /\ job[j] = "decoding" -> "detached"
             [] OTHER -> job[j]])
    /\ body' = [body EXCEPT ![t] = "unwinding"]
    /\ UNCHANGED <<phase, failed, tracked, storeVars>>

\* settle and finish of an upload.
FinishUpload(t) ==
    /\ body[t] = "unwinding"
    /\ TaskCount(t, job, tracked[t]) = 0
    /\ body' = [body EXCEPT ![t] = "none"]
    /\ failed' = [failed EXCEPT ![t] = TRUE]
    /\ phase' = [phase EXCEPT ![t] =
           IF Idle(t, job, tracked[t]) THEN "none" ELSE "draining"]
    /\ UNCHANGED <<tracked, job, used, storeVars>>

\* waitForIdle, then completeFinish, which releases what is still leased.
Drain(t) ==
    /\ phase[t] = "draining"
    /\ Idle(t, job, tracked[t])
    /\ phase' = [phase EXCEPT ![t] = "drained"]
    /\ UNCHANGED <<body, failed, tracked, job, used, storeVars>>

CompleteFinish(t) ==
    /\ phase[t] = "drained"
    /\ phase' = [phase EXCEPT ![t] = "none"]
    /\ Move([j \in Jobs |-> IF Transfer[j] = t /\ job[j] \in Leases
                            THEN "idle" ELSE job[j]])
    /\ UNCHANGED <<body, failed, tracked, storeVars>>

-----------------------------------------------------------------------------
\* close, drop: the first call shuts the transfers down; a call that finds the
\* shutdown under way waits for the same one.
Close(p) ==
    /\ p \in parents
    /\ closer[p] = "none"
    /\ Overlapping \/ \A q \in Parents : closer[q] = "none"
    /\ IF runtime = "open"
       THEN /\ runtime' = "closing"
            /\ closer' = [closer EXCEPT ![p] = "waiting"]
            /\ FailAll({t \in Transfers : phase[t] # "none"})
       ELSE /\ closer' = [closer EXCEPT ![p] =
                   IF runtime = "closing" THEN "waiting" ELSE "closing"]
            /\ UNCHANGED <<runtime, failed, phase, job, used>>
    /\ UNCHANGED <<body, tracked, parents>>

\* The shutdown is complete when every transfer is done.
ShutDown ==
    /\ runtime = "closing"
    /\ \A t \in Transfers : phase[t] = "none"
    /\ runtime' = "closed"
    /\ closer' = [p \in Parents |->
           IF closer[p] = "waiting" THEN "closing" ELSE closer[p]]
    /\ UNCHANGED <<transferVars, parents>>

\* reopen of the schedulers: a new one takes the place of one with nothing
\* granted; else what is granted stays charged.
MutReopenSchedulers == used' = [k \in Kinds |-> 0]

ReopenSchedulers == used' = [k \in Kinds |-> IF used[k] = 0 THEN 0 ELSE used[k]]

\* The store's own close ends for one parent: it stays open while another
\* parent holds it, and then the transfers are let in again.
StoreCloses(p) ==
    /\ closer[p] = "closing"
    /\ closer' = [closer EXCEPT ![p] = "none"]
    /\ parents' = parents \ {p}
    /\ IF parents' # {} /\ \A t \in Transfers : phase[t] = "none"
       THEN runtime' = "open" /\ ReopenSchedulers
       ELSE UNCHANGED <<runtime, used>>
    /\ UNCHANGED <<phase, body, failed, tracked, job>>

\* open of a store that was closed.
Open ==
    /\ parents = {}
    /\ \A p \in Parents : closer[p] = "none"
    /\ \A t \in Transfers : phase[t] = "none"
    /\ parents' = Parents
    /\ runtime' = "open"
    /\ ReopenSchedulers
    /\ UNCHANGED <<phase, body, failed, tracked, job, closer>>

JobStep(j) ==
    \/ Acquire(j)
    \/ Grant(j)
    \/ Receive(j)
    \/ Take(j)
    \/ Enqueue(j)
    \/ TaskSettles(j)
    \/ StartOperation(j)
    \/ OperationSettles(j)
    \/ Consume(j)
    \/ ReleaseResolved(j)
    \/ DetachedSettles(j)

TransferStep(t) ==
    \/ Begin(t)
    \/ Fail(t)
    \/ Track(t)
    \/ TrackedSettles(t)
    \/ Yield(t)
    \/ Resume(t)
    \/ EndRead(t)
    \/ AbortSink(t)
    \/ StopUpload(t)
    \/ FinishUpload(t)
    \/ Drain(t)
    \/ CompleteFinish(t)

Next ==
    \/ \E j \in Jobs : JobStep(j)
    \/ \E t \in Transfers : TransferStep(t)
    \/ \E p \in Parents : Close(p) \/ StoreCloses(p)
    \/ ShutDown
    \/ Open

Spec == Init /\ [][Next]_vars

\* What settles by itself once it has started: continuations of settled
\* promises, tasks (puts into the store), tracked operations (lookups, writes
\* to a sink), and an upload that has failed.  Nothing is assumed of the
\* consumer of a suspended read, nor of operations whose lease was detached.
FairSpec ==
    /\ Spec
    /\ \A j \in Jobs :
           /\ WF_vars(Receive(j))
           /\ WF_vars(Take(j))
           /\ WF_vars(TaskSettles(j))
           /\ WF_vars(ReleaseResolved(j))
    /\ \A t \in Transfers :
           /\ WF_vars(TrackedSettles(t))
           /\ WF_vars(failed[t] /\ StopUpload(t))
           /\ WF_vars(FinishUpload(t))
           /\ WF_vars(Drain(t))
           /\ WF_vars(CompleteFinish(t))
    /\ WF_vars(ShutDown)

-----------------------------------------------------------------------------
TypeOK ==
    /\ runtime \in {"open", "closing", "closed"}
    /\ phase \in [Transfers -> {"none", "active", "draining", "drained"}]
    /\ body \in [Transfers -> {"none", "running", "suspended", "unwinding"}]
    /\ failed \in [Transfers -> BOOLEAN]
    /\ tracked \in [Transfers -> 0 .. MaxTracked]
    /\ job \in [Jobs -> Stages]
    /\ used \in [Kinds -> Nat]
    /\ parents \subseteq Parents
    /\ closer \in [Parents -> {"none", "waiting", "closing"}]

\* A transfer that is not active any more (done has resolved, its name is free)
\* has no request in a scheduler and no lease; an upload has no task either.
\* A permit granted too late is on its way back.  The store's own close starts
\* only when no transfer is active.
FinishedOwnsNothing ==
    /\ \A t \in Transfers :
           phase[t] = "none" =>
               /\ \A j \in JobsOf(t) :
                      job[j] \notin Leases \cup {"queued", "granted"}
               /\ t \in Uploads => tracked[t] = 0
    /\ runtime = "closed" => \A t \in Transfers : phase[t] = "none"

\* An owner that has failed acquires no lease and starts no task any more,
\* also with a permit that was granted before it failed.
FailedStartsNothing ==
    [][\A j \in Jobs :
           failed[Transfer[j]] /\ failed'[Transfer[j]] =>
               /\ job'[j] \in Leases => job[j] \in Leases
               /\ job'[j] = "running" => job[j] = "running"]_vars

\* What is asked of and held in the two schedulers.
PoolStatus == [j \in Jobs |->
    CASE job[j] \in Holding -> "held"
      [] job[j] = "queued" -> "queued"
      [] OTHER -> "new"]

PoolHeld == [j \in Jobs |->
    [count |-> IF job[j] \in Holding THEN 1 ELSE 0, bytes |-> 0]]

Pool == INSTANCE PermitPool WITH
    Requests <- Jobs,
    Count <- [j \in Jobs |-> 1],
    Bytes <- [j \in Jobs |-> 0],
    Lane <- [j \in Jobs |-> Kind(Transfer[j])],
    CountLimit <- Limit["upload"] + Limit["read"],
    ByteLimit <- 0,
    LaneLimit <- Limit,
    status <- PoolStatus,
    held <- PoolHeld,
    closed <- runtime # "open"

\* The stages of the jobs hide no permit from the schedulers and free none:
\* to the transfers, the two schedulers are a permit pool with a lane for each
\* kind of transfer, which a shutdown closes and which reopens with the store.
PoolSpec == Pool!Spec

\* close and drop always get to the store's own close, even if consumers never
\* resume suspended reads and detached operations never settle.
CloseCompletes == runtime = "closing" ~> runtime = "closed"

\* A transfer that was cancelled gets out of the way of its siblings: it gives
\* back or detaches its leases, and its name is free again.
CancelledFinishes ==
    \A t \in Transfers : failed[t] ~> phase[t] = "none"

\* "File store is closed": once the last parent has closed the store,
\* beginFileTransfer throws, so no transfer is active.
ClosedStoreRefusesTransfers ==
    parents = {} => \A t \in Transfers : phase[t] = "none"
=============================================================================
