------------------------ MODULE FileTransfersProofs ------------------------
(***************************************************************************)
(* Proofs about the transfers of a file store, for any transfers, jobs,    *)
(* limits and parents, overlapping closes included.                        *)
(***************************************************************************)
EXTENDS FileTransfers, SequenceFacts

\* What the schedulers have granted to transfers of a kind.
Holders(k) == {j \in Jobs : Kind(Transfer[j]) = k /\ job[j] \in Holding}

\* The schedulers know exactly which slots are taken, and grant no slot too many.
PermitsCounted ==
    /\ used = [k \in Kinds |-> Cardinality(Holders(k))]
    /\ \A k \in Kinds : used[k] <= Limit[k]

\* An owner that has failed waits for nothing.
FailureClears ==
    \A j \in Jobs : failed[Transfer[j]] => job[j] \notin {"queued", "granted"}

\* A transfer that has not failed is active, or nothing of it is there.
FailedWhenOver ==
    \A t \in Transfers :
        phase[t] = "active" \/ failed[t] \/ (phase[t] = "none" /\ body[t] = "none")

\* An upload is active as long as its code runs.  In its finally it waits for no
\* permit, and it finishes when it has no tasks.
UploadsInOrder ==
    /\ \A t \in Uploads : body[t] # "none" <=> phase[t] = "active"
    /\ \A t \in Uploads : phase[t] # "active" => tracked[t] = 0
    /\ \A j \in Jobs : body[Transfer[j]] = "unwinding" => job[j] \notin {"queued", "granted"}
    /\ \A t \in Reads : body[t] # "unwinding"

\* The types of the variables other than the counters.
PlainTypes ==
    /\ runtime \in {"open", "closing", "closed"}
    /\ phase \in [Transfers -> {"none", "active", "draining", "drained"}]
    /\ body \in [Transfers -> {"none", "running", "suspended", "unwinding"}]
    /\ failed \in [Transfers -> BOOLEAN]
    /\ tracked \in [Transfers -> 0 .. MaxTracked]
    /\ job \in [Jobs -> Stages]
    /\ parents \subseteq Parents
    /\ closer \in [Parents -> {"none", "waiting", "closing"}]

\* The inductive invariant.
TransferInv ==
    /\ TypeOK /\ PermitsCounted
    /\ FailureClears /\ FailedWhenOver /\ UploadsInOrder /\ FinishedOwnsNothing

\* The type invariant, with the counters apart.
LEMMA TypeParts == TypeOK <=> PlainTypes /\ used \in [Kinds -> Nat]
BY DEF TypeOK, PlainTypes

\* Every transfer is of one kind.
LEMMA KindOf == \A t \in Transfers : Kind(t) \in Kinds /\ (t \in Uploads <=> t \notin Reads)
BY TransferAssumption DEF Transfers, Kinds, Kind

\* What is in one set and not yet in the other makes the difference of their sizes.
LEMMA Exchange ==
    ASSUME NEW S, NEW T, IsFiniteSet(S), IsFiniteSet(T)
    PROVE  Cardinality(S) + Cardinality(T \ S) - Cardinality(S \ T) = Cardinality(T)
<1>1. Cardinality(T \ S) = Cardinality(T) - Cardinality(T \cap S)
  BY FS_Difference
<1>2. Cardinality(S \ T) = Cardinality(S) - Cardinality(S \cap T)
  BY FS_Difference
<1>3. S \cap T = T \cap S
  OBVIOUS
<1>4. IsFiniteSet(S \cap T)
  BY FS_Intersection
<1>5. Cardinality(S) \in Nat /\ Cardinality(T) \in Nat /\ Cardinality(S \cap T) \in Nat
  BY <1>4, FS_CardinalityType
<1>6. Cardinality(T \ S) = Cardinality(T) - Cardinality(S \cap T)
  BY <1>1, <1>3
<1>. QED
  BY <1>2, <1>5, <1>6

\* Sets of jobs are finite.
LEMMA HoldersFinite == \A k \in Kinds : IsFiniteSet(Holders(k)) /\ IsFiniteSet(Holders(k)')
<1>. TAKE k \in Kinds
<1>1. Holders(k) \in SUBSET Jobs /\ Holders(k)' \in SUBSET Jobs
  BY DEF Holders
<1>. QED
  BY <1>1, TransferAssumption, FS_Subset

\* The counters follow the jobs.
LEMMA MoveCounts ==
    ASSUME PermitsCounted, NEW jobs, Move(jobs)
    PROVE  used' = [k \in Kinds |-> Cardinality(Holders(k)')]
<1>1. ASSUME NEW k \in Kinds PROVE Recount(k) = Cardinality(Holders(k)')
  <2>1. Recount(k) = used[k] + Cardinality(Holders(k)' \ Holders(k))
                             - Cardinality(Holders(k) \ Holders(k)')
    BY DEF Recount, Holders
  <2>. QED
    BY <2>1, HoldersFinite, Exchange DEF PermitsCounted
<1>. QED
  BY <1>1 DEF Move

\* Nobody is granted a slot in this step.
NoneGranted == \A j \in Jobs : job'[j] \in Holding => job[j] \in Holding

\* A step that grants nothing stays within the limits.
LEMMA MoveKeepsLimits ==
    ASSUME PermitsCounted, NEW jobs, Move(jobs), NoneGranted
    PROVE  PermitsCounted'
<1>. SUFFICES ASSUME NEW k \in Kinds PROVE used'[k] <= Limit[k]
  BY MoveCounts DEF PermitsCounted
<1>1. Holders(k)' \in SUBSET Holders(k)
  BY DEF NoneGranted, Holders
<1>2. Cardinality(Holders(k)') <= Cardinality(Holders(k))
  BY <1>1, HoldersFinite, FS_Subset
<1>3. used'[k] = Cardinality(Holders(k)')
  BY MoveCounts
<1>4. Cardinality(Holders(k)') \in Nat /\ Cardinality(Holders(k)) \in Nat /\ Limit[k] \in Nat
  BY HoldersFinite, FS_CardinalityType, TransferAssumption
<1>. QED
  BY <1>2, <1>3, <1>4 DEF PermitsCounted

\* The only step that takes a slot checks that one is free.
LEMMA GrantKeepsLimits ==
    ASSUME PlainTypes, PermitsCounted, NEW j \in Jobs, Grant(j)
    PROVE  PermitsCounted'
<1>. SUFFICES ASSUME NEW k \in Kinds PROVE used'[k] <= Limit[k]
  BY MoveCounts DEF PermitsCounted, Grant, MoveJob
<1>1. used'[k] = Cardinality(Holders(k)')
  BY MoveCounts DEF Grant, MoveJob
<1>2. job' = [job EXCEPT ![j] = "granted"] /\ job[j] = "queued"
  BY DEF Grant, MoveJob, Move
<1>3. CASE Kind(Transfer[j]) = k
  <2>1. Holders(k)' = Holders(k) \cup {j} /\ j \notin Holders(k)
    BY <1>2, <1>3 DEF PlainTypes, Holders, Holding, Leases, Tasks
  <2>2. Cardinality(Holders(k)') = Cardinality(Holders(k)) + 1
    BY <2>1, HoldersFinite, FS_AddElement
  <2>3. used[k] < Limit[k] /\ Cardinality(Holders(k)) \in Nat /\ Limit[k] \in Nat
    BY <1>3, HoldersFinite, FS_CardinalityType, TransferAssumption DEF Grant
  <2>. QED
    BY <1>1, <2>2, <2>3 DEF PermitsCounted
<1>4. CASE Kind(Transfer[j]) # k
  <2>1. Holders(k)' = Holders(k)
    BY <1>2, <1>4 DEF PlainTypes, Holders
  <2>. QED
    BY <1>1, <2>1 DEF PermitsCounted
<1>. QED
  BY <1>3, <1>4

\* Reopening a scheduler forgets nothing that is granted.
LEMMA ReopenKeeps == TypeOK /\ ReopenSchedulers => used' = used
BY DEF TypeOK, ReopenSchedulers

\* The stage of a job whose owner fails.
LEMMA FailedStages ==
    ASSUME PlainTypes, NEW j \in Jobs
    PROVE  /\ FailedStage(j) \in Stages \ {"queued", "granted"}
           /\ FailedStage(j) \in Leases => job[j] \in Leases
           /\ FailedStage(j) \in Holding => job[j] \in Holding
           /\ FailedStage(j) = "running" => job[j] = "running"
<1>. DEFINE t == Transfer[j]
            s == CleanedUp(t, job[j])
<1>1. job[j] \in Stages /\ ReleaseAfterTasks(t) \in {"idle", "deferred"}
  BY DEF PlainTypes, ReleaseAfterTasks
<1>2. CASE job[j] \in {"queued", "granted"}
  <2>1. CASE job[j] = "queued"
    <3>1. FailedStage(j) = "idle"
      BY <2>1, Zenon DEF FailedStage
    <3>. QED
      BY <2>1, <3>1 DEF Stages, Holding, Leases, Tasks
  <2>2. CASE job[j] = "granted"
    <3>1. job[j] # "queued"
      BY <2>2
    <3>2. FailedStage(j) = "revoked"
      BY <2>2, <3>1, Zenon DEF FailedStage
    <3>. QED
      BY <2>2, <3>2 DEF Stages, Holding, Leases, Tasks
  <2>. QED
    BY <1>2, <2>1, <2>2
<1>3. CASE job[j] \notin {"queued", "granted"}
  <2>1. FailedStage(j) \in {job[j], s}
    BY <1>3, Zenon DEF FailedStage
  <2>2. s = job[j] \/ (job[j] \in {"leased", "decoding"} /\ s \in {"idle", "deferred", "detached"})
    <3>1. CASE job[j] \in {"leased", "decoding"}
      BY <1>1, <3>1 DEF CleanedUp
    <3>2. CASE job[j] \notin {"leased", "decoding"}
      BY <3>2, Zenon DEF CleanedUp
    <3>. QED
      BY <3>1, <3>2
  <2>. QED
    BY <1>1, <1>3, <2>1, <2>2 DEF Stages, Holding, Leases, Tasks
<1>. QED
  BY <1>2, <1>3

\* What happens to the jobs and to the phases of the transfers that fail together.
LEMMA FailAllFacts ==
    ASSUME PlainTypes, NEW ts, FailAll(ts)
    PROVE  /\ job' \in [Jobs -> Stages]
           /\ \A j \in Jobs :
                  /\ ~(Transfer[j] \in ts /\ ~failed[Transfer[j]]) => job'[j] = job[j]
                  /\ Transfer[j] \in ts /\ ~failed[Transfer[j]] => job'[j] = FailedStage(j)
           /\ failed' = [t \in Transfers |-> failed[t] \/ t \in ts]
           /\ phase' \in [Transfers -> {"none", "active", "draining", "drained"}]
           /\ \A t \in Transfers :
                  IF t \in ts \cap Reads /\ ~failed[t]
                  THEN /\ phase'[t] \in {"none", "draining"}
                       /\ phase'[t] = "none" => \A j \in JobsOf(t) : job'[j] \notin Leases
                  ELSE phase'[t] = phase[t]
           /\ \E jobs : Move(jobs)
<1>. DEFINE failing == {t \in ts : ~failed[t]}
            jobs == [j \in Jobs |-> IF Transfer[j] \in failing THEN FailedStage(j) ELSE job[j]]
<1>1. /\ failed' = [t \in Transfers |-> failed[t] \/ t \in ts]
      /\ Move(jobs) /\ job' = jobs
      /\ phase' = [t \in Transfers |->
             IF t \in failing \cap Reads
             THEN IF Idle(t, jobs, tracked[t]) THEN "none" ELSE "draining"
             ELSE phase[t]]
  BY Zenon DEF FailAll, Move
<1>2. \A j \in Jobs : FailedStage(j) \in Stages /\ job[j] \in Stages
  BY FailedStages DEF PlainTypes
<1>3. job' \in [Jobs -> Stages]
  BY <1>1, <1>2
<1>4. \A j \in Jobs :
          /\ ~(Transfer[j] \in ts /\ ~failed[Transfer[j]]) => job'[j] = job[j]
          /\ Transfer[j] \in ts /\ ~failed[Transfer[j]] => job'[j] = FailedStage(j)
  BY <1>1
<1>5. phase' \in [Transfers -> {"none", "active", "draining", "drained"}]
  BY <1>1 DEF PlainTypes
<1>6. ASSUME NEW t \in Transfers
      PROVE  IF t \in ts \cap Reads /\ ~failed[t]
             THEN /\ phase'[t] \in {"none", "draining"}
                  /\ phase'[t] = "none" => \A j \in JobsOf(t) : job'[j] \notin Leases
             ELSE phase'[t] = phase[t]
  <2>1. phase'[t] = IF t \in failing \cap Reads
                    THEN IF Idle(t, jobs, tracked[t]) THEN "none" ELSE "draining"
                    ELSE phase[t]
    BY <1>1
  <2>2. Idle(t, jobs, tracked[t]) => \A j \in JobsOf(t) : job'[j] \notin Leases
    BY <1>1, Zenon DEF Idle
  <2>. QED
    BY <2>1, <2>2
<1>. QED
  BY <1>1, <1>3, <1>4, <1>5, <1>6

\* A failure takes no slot.
LEMMA FailAllGrantsNone ==
    ASSUME PlainTypes, PermitsCounted, NEW ts, FailAll(ts) PROVE PermitsCounted'
<1>1. NoneGranted
  BY FailAllFacts, FailedStages DEF NoneGranted
<1>. QED
  BY <1>1, FailAllFacts, MoveKeepsLimits

\* What settles gives back slots only.
LEMMA SettleFacts ==
    ASSUME PlainTypes, NEW t \in Transfers, NEW jobs \in [Jobs -> Stages],
           NEW others \in 0 .. MaxTracked, Settle(t, jobs, others)
    PROVE  /\ job' \in [Jobs -> Stages]
           /\ \A j \in Jobs : job'[j] \in {jobs[j], "idle"}
           /\ tracked' \in [Transfers -> 0 .. MaxTracked]
           /\ tracked' = [tracked EXCEPT ![t] = others]
           /\ UNCHANGED <<phase, body, failed, storeVars>>
           /\ \E js : Move(js)
<1>. USE DEF Settle, Move, PlainTypes, Stages
<1>1. job' \in [Jobs -> Stages] /\ \A j \in Jobs : job'[j] \in {jobs[j], "idle"}
  OBVIOUS
<1>2. tracked' = [tracked EXCEPT ![t] = others] /\ tracked' \in [Transfers -> 0 .. MaxTracked]
  OBVIOUS
<1>3. UNCHANGED <<phase, body, failed, storeVars>> /\ \E js : Move(js)
  OBVIOUS
<1>. QED
  BY <1>1, <1>2, <1>3

\* Its types alone.
LEMMA FailAllTypes ==
    ASSUME PlainTypes, NEW ts, FailAll(ts)
    PROVE  /\ job' \in [Jobs -> Stages]
           /\ failed' \in [Transfers -> BOOLEAN]
           /\ phase' \in [Transfers -> {"none", "active", "draining", "drained"}]
<1>1. failed' = [t \in Transfers |-> failed[t] \/ t \in ts]
  BY FailAllFacts
<1>2. failed' \in [Transfers -> BOOLEAN]
  BY <1>1
<1>. QED
  BY <1>2, FailAllFacts

\* Who has failed before and after it.
LEMMA FailAllFailed ==
    ASSUME PlainTypes, NEW ts, FailAll(ts), NEW t \in Transfers
    PROVE  /\ failed'[t] <=> failed[t] \/ t \in ts
           /\ failed[t] \/ t \notin ts => phase'[t] = phase[t]
<1>1. failed' = [s \in Transfers |-> failed[s] \/ s \in ts]
  BY FailAllFacts
<1>2. failed'[t] <=> failed[t] \/ t \in ts
  BY <1>1, Zenon
<1>. QED
  BY <1>2, FailAllFacts

\* An owner without tasks has no tracked operation.
LEMMA NoTasks ==
    ASSUME PlainTypes, NEW t \in Transfers, TaskCount(t, job, tracked[t]) = 0
    PROVE  tracked[t] = 0
<1>1. {j \in JobsOf(t) : job[j] \in Tasks} \in SUBSET Jobs
  BY DEF JobsOf
<1>2. Cardinality({j \in JobsOf(t) : job[j] \in Tasks}) \in Nat
  BY <1>1, TransferAssumption, FS_Subset, FS_CardinalityType
<1>3. tracked[t] \in Nat
  BY TransferAssumption DEF PlainTypes
<1>. QED
  BY <1>2, <1>3 DEF TaskCount

\* The tasks and the tracked operations that settle.
LEMMA SettlingSteps ==
    ASSUME PlainTypes, NEW t \in Transfers,
           TrackedSettles(t) \/ \E j \in JobsOf(t) : TaskSettles(j)
    PROVE  /\ job' \in [Jobs -> Stages]
           /\ \A j \in Jobs : job'[j] \in {job[j], "idle"}
           /\ tracked' \in [Transfers -> 0 .. MaxTracked]
           /\ \A s \in Transfers : tracked'[s] \in 0 .. tracked[s]
           /\ UNCHANGED <<phase, body, failed, storeVars>>
           /\ \E js : Move(js)
<1>1. CASE TrackedSettles(t)
  <2>1. tracked[t] - 1 \in 0 .. MaxTracked /\ Settle(t, job, tracked[t] - 1)
    BY <1>1, TransferAssumption DEF TrackedSettles, PlainTypes
  <2>2. job \in [Jobs -> Stages]
    BY DEF PlainTypes
  <2>3. /\ job' \in [Jobs -> Stages]
        /\ \A j \in Jobs : job'[j] \in {job[j], "idle"}
        /\ tracked' \in [Transfers -> 0 .. MaxTracked]
        /\ tracked' = [tracked EXCEPT ![t] = tracked[t] - 1]
        /\ UNCHANGED <<phase, body, failed, storeVars>>
        /\ \E js : Move(js)
    BY <2>1, <2>2, SettleFacts
  <2>4. \A s \in Transfers : tracked'[s] \in 0 .. tracked[s]
    BY <2>1, <2>3, TransferAssumption DEF PlainTypes
  <2>. QED
    BY <2>3, <2>4
<1>2. ASSUME NEW i \in JobsOf(t), TaskSettles(i)
      PROVE  /\ job' \in [Jobs -> Stages]
             /\ \A j \in Jobs : job'[j] \in {job[j], "idle"}
             /\ tracked' \in [Transfers -> 0 .. MaxTracked]
             /\ \A s \in Transfers : tracked'[s] \in 0 .. tracked[s]
             /\ UNCHANGED <<phase, body, failed, storeVars>>
             /\ \E js : Move(js)
  <2>. DEFINE jobs == [job EXCEPT ![i] = "idle"]
  <2>1. i \in Jobs /\ Transfer[i] = t /\ Settle(t, jobs, tracked[t])
    BY <1>2 DEF TaskSettles, JobsOf
  <2>2. jobs \in [Jobs -> Stages] /\ tracked[t] \in 0 .. MaxTracked
    BY DEF PlainTypes, Stages
  <2>3. \A j \in Jobs : jobs[j] \in {job[j], "idle"}
    BY DEF PlainTypes
  <2>. HIDE DEF jobs
  <2>4. /\ job' \in [Jobs -> Stages]
        /\ \A j \in Jobs : job'[j] \in {jobs[j], "idle"}
        /\ tracked' \in [Transfers -> 0 .. MaxTracked]
        /\ tracked' = [tracked EXCEPT ![t] = tracked[t]]
        /\ UNCHANGED <<phase, body, failed, storeVars>>
        /\ \E js : Move(js)
    BY <2>1, <2>2, SettleFacts
  <2>5. \A s \in Transfers : tracked'[s] \in 0 .. tracked[s]
    BY <2>4, TransferAssumption DEF PlainTypes
  <2>. QED
    BY <2>3, <2>4, <2>5
<1>. QED
  BY <1>1, <1>2

\* Every step keeps the types.
LEMMA PlainTypesStep == TransferInv /\ [Next]_vars => PlainTypes'
<1>. SUFFICES ASSUME PlainTypes,
                     [Next]_vars
              PROVE  PlainTypes'
  BY TypeParts DEF TransferInv
<1>. USE TransferAssumption DEF PlainTypes, Stages, Holding, Leases, Tasks, Transfers,
         MoveJob, Move, transferVars, storeVars
<1>1. ASSUME NEW j \in Jobs, Acquire(j) PROVE PlainTypes'
  BY <1>1 DEF Acquire
<1>2. ASSUME NEW j \in Jobs, Grant(j) PROVE PlainTypes'
  BY <1>2 DEF Grant
<1>3. ASSUME NEW j \in Jobs, Receive(j) PROVE PlainTypes'
  BY <1>3 DEF Receive
<1>4. ASSUME NEW j \in Jobs, Take(j) PROVE PlainTypes'
  BY <1>4 DEF Take, ReleaseAfterTasks
<1>5. ASSUME NEW j \in Jobs, Enqueue(j) PROVE PlainTypes'
  BY <1>5 DEF Enqueue
<1>6. ASSUME NEW j \in Jobs, StartOperation(j) PROVE PlainTypes'
  BY <1>6 DEF StartOperation
<1>7. ASSUME NEW j \in Jobs, OperationSettles(j) PROVE PlainTypes'
  BY <1>7 DEF OperationSettles
<1>8. ASSUME NEW j \in Jobs, Consume(j) PROVE PlainTypes'
  BY <1>8 DEF Consume
<1>9. ASSUME NEW j \in Jobs, ReleaseResolved(j) PROVE PlainTypes'
  BY <1>9 DEF ReleaseResolved
<1>10. ASSUME NEW j \in Jobs, DetachedSettles(j) PROVE PlainTypes'
  BY <1>10 DEF DetachedSettles
<1>11. ASSUME NEW t \in Transfers, Begin(t) PROVE PlainTypes'
  BY <1>11 DEF Begin
<1>12. ASSUME NEW t \in Transfers, Fail(t) PROVE PlainTypes'
  BY <1>12, FailAllTypes DEF Fail
<1>13. ASSUME NEW t \in Transfers, Track(t) PROVE PlainTypes'
  BY <1>13 DEF Track
<1>14. ASSUME NEW t \in Transfers, Yield(t) PROVE PlainTypes'
  BY <1>14 DEF Yield
<1>15. ASSUME NEW t \in Transfers, Resume(t) PROVE PlainTypes'
  BY <1>15 DEF Resume
<1>16. ASSUME NEW t \in Transfers, EndRead(t) PROVE PlainTypes'
  BY <1>16, FailAllTypes DEF EndRead
<1>17. ASSUME NEW t \in Transfers, AbortSink(t) PROVE PlainTypes'
  BY <1>17 DEF AbortSink
<1>18. ASSUME NEW t \in Transfers, StopUpload(t) PROVE PlainTypes'
  BY <1>18 DEF StopUpload
<1>19. ASSUME NEW t \in Transfers, FinishUpload(t) PROVE PlainTypes'
  BY <1>19 DEF FinishUpload
<1>20. ASSUME NEW t \in Transfers, Drain(t) PROVE PlainTypes'
  BY <1>20 DEF Drain
<1>21. ASSUME NEW t \in Transfers, CompleteFinish(t) PROVE PlainTypes'
  BY <1>21 DEF CompleteFinish
<1>22. ASSUME NEW p \in Parents, Close(p) PROVE PlainTypes'
  BY <1>22, FailAllTypes DEF Close
<1>23. ASSUME NEW p \in Parents, StoreCloses(p) PROVE PlainTypes'
  BY <1>23 DEF StoreCloses
<1>24. CASE ShutDown
  BY <1>24 DEF ShutDown
<1>25. CASE Open
  BY <1>25 DEF Open
<1>26. ASSUME NEW t \in Transfers, TrackedSettles(t) \/ \E j \in JobsOf(t) : TaskSettles(j)
      PROVE  PlainTypes'
  BY <1>26, SettlingSteps
<1>27. CASE UNCHANGED <<runtime, phase, body, failed, tracked, job, parents, closer>>
  BY <1>27
<1>. QED
  BY <1>1, <1>2, <1>3, <1>4, <1>5, <1>6, <1>7, <1>8, <1>9, <1>10, <1>11, <1>12, <1>13,
     <1>14, <1>15, <1>16, <1>17, <1>18, <1>19, <1>20, <1>21, <1>22, <1>23, <1>24, <1>25,
     <1>26, <1>27, TransferAssumption
  DEF Next, JobStep, TransferStep, JobsOf, Transfers, vars, transferVars, storeVars

\* One job moves on without taking a slot.
LEMMA MoveJobKeepsLimits ==
    ASSUME PlainTypes, PermitsCounted, NEW j \in Jobs, NEW stage, MoveJob(j, stage),
           stage \in Holding => job[j] \in Holding
    PROVE  PermitsCounted'
<1>1. Move([job EXCEPT ![j] = stage]) /\ job' = [job EXCEPT ![j] = stage]
  BY DEF MoveJob, Move
<1>2. NoneGranted
  BY <1>1 DEF NoneGranted, PlainTypes
<1>. QED
  BY <1>1, <1>2, MoveKeepsLimits

\* Neither does a step that leaves the jobs alone disturb the counters.
LEMMA SameKeepsLimits == PermitsCounted /\ UNCHANGED <<job, used>> => PermitsCounted'
BY DEF PermitsCounted, Holders

\* The counters of the schedulers stay exact.
LEMMA PermitsStep == TransferInv /\ [Next]_vars => PermitsCounted'
<1>. SUFFICES ASSUME TypeOK, PlainTypes, PermitsCounted,
                     [Next]_vars
              PROVE  PermitsCounted'
  BY TypeParts DEF TransferInv
<1>. USE DEF Holding, Leases, Tasks
<1>1. ASSUME NEW j \in Jobs, Acquire(j) PROVE PermitsCounted'
  BY <1>1, MoveJobKeepsLimits DEF Acquire
<1>2. ASSUME NEW j \in Jobs, Receive(j) PROVE PermitsCounted'
  BY <1>2, MoveJobKeepsLimits DEF Receive
<1>3. ASSUME NEW j \in Jobs, Take(j) PROVE PermitsCounted'
  BY <1>3, MoveJobKeepsLimits DEF Take, ReleaseAfterTasks
<1>4. ASSUME NEW j \in Jobs, Enqueue(j) PROVE PermitsCounted'
  BY <1>4, MoveJobKeepsLimits DEF Enqueue
<1>5. ASSUME NEW j \in Jobs, StartOperation(j) PROVE PermitsCounted'
  BY <1>5, MoveJobKeepsLimits DEF StartOperation
<1>6. ASSUME NEW j \in Jobs, OperationSettles(j) PROVE PermitsCounted'
  BY <1>6, MoveJobKeepsLimits DEF OperationSettles
<1>7. ASSUME NEW j \in Jobs, Consume(j) PROVE PermitsCounted'
  BY <1>7, MoveJobKeepsLimits DEF Consume
<1>8. ASSUME NEW j \in Jobs, ReleaseResolved(j) PROVE PermitsCounted'
  BY <1>8, MoveJobKeepsLimits DEF ReleaseResolved
<1>9. ASSUME NEW j \in Jobs, DetachedSettles(j) PROVE PermitsCounted'
  BY <1>9, MoveJobKeepsLimits DEF DetachedSettles
<1>10. ASSUME NEW t \in Transfers, StopUpload(t) PROVE PermitsCounted'
  BY <1>10, MoveKeepsLimits DEF StopUpload, Move, NoneGranted
<1>11. ASSUME NEW t \in Transfers, CompleteFinish(t) PROVE PermitsCounted'
  BY <1>11, MoveKeepsLimits DEF CompleteFinish, Move, NoneGranted
<1>12. ASSUME NEW j \in Jobs, Grant(j) PROVE PermitsCounted'
  BY <1>12, GrantKeepsLimits DEF Grant
<1>13. ASSUME NEW t \in Transfers, TrackedSettles(t) \/ \E j \in JobsOf(t) : TaskSettles(j)
      PROVE  PermitsCounted'
  BY <1>13, SettlingSteps, MoveKeepsLimits DEF NoneGranted
<1>14. ASSUME NEW t \in Transfers, Fail(t) PROVE PermitsCounted'
  BY <1>14, FailAllGrantsNone DEF Fail
<1>15. ASSUME NEW t \in Transfers, EndRead(t) PROVE PermitsCounted'
  BY <1>15, FailAllGrantsNone DEF EndRead
<1>16. ASSUME NEW p \in Parents, Close(p) PROVE PermitsCounted'
  BY <1>16, FailAllGrantsNone, SameKeepsLimits DEF Close
<1>17. ASSUME NEW p \in Parents, StoreCloses(p) PROVE PermitsCounted'
  BY <1>17, ReopenKeeps, SameKeepsLimits DEF StoreCloses
<1>18. CASE Open
  BY <1>18, ReopenKeeps, SameKeepsLimits DEF Open
<1>19. CASE UNCHANGED <<job, used>>
  BY SameKeepsLimits, <1>19
<1>. QED
  BY <1>1, <1>2, <1>3, <1>4, <1>5, <1>6, <1>7, <1>8, <1>9, <1>10, <1>11, <1>12, <1>13,
     <1>14, <1>15, <1>16, <1>17, <1>18, <1>19, TransferAssumption
  DEF Next, JobStep, TransferStep, JobsOf, Transfers, Begin, Track, Yield, Resume,
      AbortSink, FinishUpload, Drain, ShutDown, vars, transferVars, storeVars

\* A failure withdraws what was asked for, and nothing is asked for after it.
LEMMA ClearsStep == TransferInv /\ [Next]_vars => FailureClears'
<1>. SUFFICES ASSUME PlainTypes, FailureClears, FailedWhenOver, UploadsInOrder, FinishedOwnsNothing,
                     [Next]_vars
              PROVE  FailureClears'
  BY TypeParts DEF TransferInv
<1>. USE TransferAssumption DEF PlainTypes, FailureClears, Transfers, JobsOf, MoveJob, Move,
         transferVars, storeVars
<1>1. ASSUME NEW j \in Jobs, Acquire(j) PROVE FailureClears'
  BY <1>1 DEF Acquire
<1>2. ASSUME NEW j \in Jobs, Receive(j) PROVE FailureClears'
  BY <1>2 DEF Receive
<1>3. ASSUME NEW j \in Jobs, Take(j) PROVE FailureClears'
  BY <1>3 DEF Take, ReleaseAfterTasks
<1>4. ASSUME NEW j \in Jobs, Enqueue(j) PROVE FailureClears'
  BY <1>4 DEF Enqueue
<1>5. ASSUME NEW j \in Jobs, StartOperation(j) PROVE FailureClears'
  BY <1>5 DEF StartOperation
<1>6. ASSUME NEW j \in Jobs, OperationSettles(j) PROVE FailureClears'
  BY <1>6 DEF OperationSettles
<1>7. ASSUME NEW j \in Jobs, Consume(j) PROVE FailureClears'
  BY <1>7 DEF Consume
<1>8. ASSUME NEW j \in Jobs, ReleaseResolved(j) PROVE FailureClears'
  BY <1>8 DEF ReleaseResolved
<1>9. ASSUME NEW j \in Jobs, DetachedSettles(j) PROVE FailureClears'
  BY <1>9 DEF DetachedSettles
<1>10. ASSUME NEW j \in Jobs, Grant(j) PROVE FailureClears'
  BY <1>10 DEF Grant
<1>11. ASSUME NEW t \in Transfers, StopUpload(t) PROVE FailureClears'
  BY <1>11 DEF StopUpload
<1>12. ASSUME NEW t \in Transfers, CompleteFinish(t) PROVE FailureClears'
  BY <1>12 DEF CompleteFinish
<1>13. ASSUME NEW t \in Transfers, TrackedSettles(t) \/ \E j \in JobsOf(t) : TaskSettles(j)
      PROVE  FailureClears'
  BY <1>13, SettlingSteps
<1>14. ASSUME NEW t \in Transfers, Begin(t) PROVE FailureClears'
  BY <1>14 DEF Begin, FinishedOwnsNothing
<1>15. ASSUME NEW t \in Transfers, FinishUpload(t) PROVE FailureClears'
  BY <1>15 DEF FinishUpload, UploadsInOrder
<1>16. ASSUME NEW t \in Transfers, Fail(t) PROVE FailureClears'
  BY <1>16, FailAllFacts, FailedStages DEF Fail
<1>17. ASSUME NEW t \in Transfers, EndRead(t) PROVE FailureClears'
  BY <1>17, FailAllFacts, FailedStages DEF EndRead
<1>18. ASSUME NEW p \in Parents, Close(p) PROVE FailureClears'
  BY <1>18, FailAllFacts, FailedStages DEF Close
<1>19. CASE UNCHANGED <<job, failed>>
  BY <1>19
<1>. QED
  BY <1>1, <1>2, <1>3, <1>4, <1>5, <1>6, <1>7, <1>8, <1>9, <1>10, <1>11, <1>12, <1>13,
     <1>14, <1>15, <1>16, <1>17, <1>18, <1>19, TransferAssumption
  DEF Next, JobStep, TransferStep, JobsOf, Transfers, Track, Yield, Resume, AbortSink,
      Drain, StoreCloses, ShutDown, Open, vars, transferVars, storeVars

\* A transfer that ends has failed, if only to end.
LEMMA OverStep == TransferInv /\ [Next]_vars => FailedWhenOver'
<1>. SUFFICES ASSUME PlainTypes, FailureClears, FailedWhenOver, UploadsInOrder, FinishedOwnsNothing,
                     [Next]_vars
              PROVE  FailedWhenOver'
  BY TypeParts DEF TransferInv
<1>. USE TransferAssumption DEF FailedWhenOver, PlainTypes, UploadsInOrder, Transfers,
         JobsOf, Move, transferVars, storeVars
<1>1. ASSUME NEW t \in Transfers, Begin(t) PROVE FailedWhenOver'
  BY <1>1 DEF Begin
<1>2. ASSUME NEW t \in Transfers, Fail(t) PROVE FailedWhenOver'
  BY <1>2, FailAllFailed DEF Fail
<1>3. ASSUME NEW t \in Transfers, EndRead(t) PROVE FailedWhenOver'
  BY <1>3, FailAllFailed DEF EndRead
<1>4. ASSUME NEW t \in Transfers, AbortSink(t) PROVE FailedWhenOver'
  BY <1>4 DEF AbortSink
<1>5. ASSUME NEW t \in Transfers, StopUpload(t) PROVE FailedWhenOver'
  BY <1>5 DEF StopUpload
<1>6. ASSUME NEW t \in Transfers, FinishUpload(t) PROVE FailedWhenOver'
  BY <1>6 DEF FinishUpload
<1>7. ASSUME NEW t \in Transfers, Drain(t) PROVE FailedWhenOver'
  BY <1>7 DEF Drain
<1>8. ASSUME NEW t \in Transfers, CompleteFinish(t) PROVE FailedWhenOver'
  BY <1>8 DEF CompleteFinish
<1>9. ASSUME NEW t \in Transfers, Yield(t) PROVE FailedWhenOver'
  BY <1>9 DEF Yield
<1>10. ASSUME NEW t \in Transfers, Resume(t) PROVE FailedWhenOver'
  BY <1>10 DEF Resume
<1>11. ASSUME NEW t \in Transfers, TrackedSettles(t) \/ \E j \in JobsOf(t) : TaskSettles(j)
      PROVE  FailedWhenOver'
  BY <1>11, SettlingSteps
<1>12. ASSUME NEW p \in Parents, Close(p) PROVE FailedWhenOver'
  BY <1>12, FailAllFailed DEF Close
<1>13. CASE UNCHANGED <<phase, failed, body>>
  BY <1>13
<1>. QED
  BY <1>1, <1>2, <1>3, <1>4, <1>5, <1>6, <1>7, <1>8, <1>9, <1>10, <1>11, <1>12, <1>13,
     TransferAssumption
  DEF Next, JobStep, TransferStep, JobsOf, Transfers, Acquire, Grant, Receive, Take,
      Enqueue, StartOperation, OperationSettles, Consume, ReleaseResolved, DetachedSettles,
      Track, StoreCloses, ShutDown, Open, vars, transferVars, storeVars

\* An upload ends in its finally, when its tasks have settled.
LEMMA UploadsStep == TransferInv /\ [Next]_vars => UploadsInOrder'
<1>. SUFFICES ASSUME PlainTypes, FailureClears, FailedWhenOver, UploadsInOrder, FinishedOwnsNothing,
                     [Next]_vars
              PROVE  UploadsInOrder'
  BY TypeParts DEF TransferInv
<1>. USE TransferAssumption DEF PlainTypes, UploadsInOrder, Transfers, JobsOf, MoveJob,
         Move, transferVars, storeVars
<1>1. ASSUME NEW j \in Jobs, Acquire(j) PROVE UploadsInOrder'
  BY <1>1 DEF Acquire
<1>2. ASSUME NEW j \in Jobs, Receive(j) PROVE UploadsInOrder'
  BY <1>2 DEF Receive
<1>3. ASSUME NEW j \in Jobs, Take(j) PROVE UploadsInOrder'
  BY <1>3 DEF Take, ReleaseAfterTasks
<1>4. ASSUME NEW j \in Jobs, Enqueue(j) PROVE UploadsInOrder'
  BY <1>4 DEF Enqueue
<1>5. ASSUME NEW j \in Jobs, StartOperation(j) PROVE UploadsInOrder'
  BY <1>5 DEF StartOperation
<1>6. ASSUME NEW j \in Jobs, OperationSettles(j) PROVE UploadsInOrder'
  BY <1>6 DEF OperationSettles
<1>7. ASSUME NEW j \in Jobs, Consume(j) PROVE UploadsInOrder'
  BY <1>7 DEF Consume
<1>8. ASSUME NEW j \in Jobs, ReleaseResolved(j) PROVE UploadsInOrder'
  BY <1>8 DEF ReleaseResolved
<1>9. ASSUME NEW j \in Jobs, DetachedSettles(j) PROVE UploadsInOrder'
  BY <1>9 DEF DetachedSettles
<1>10. ASSUME NEW j \in Jobs, Grant(j) PROVE UploadsInOrder'
  BY <1>10 DEF Grant
<1>11. ASSUME NEW t \in Transfers, StopUpload(t) PROVE UploadsInOrder'
  BY <1>11 DEF StopUpload, Acquiring
<1>12. ASSUME NEW t \in Transfers, CompleteFinish(t) PROVE UploadsInOrder'
  BY <1>12 DEF CompleteFinish
<1>13. ASSUME NEW t \in Transfers, TrackedSettles(t) \/ \E j \in JobsOf(t) : TaskSettles(j)
      PROVE  UploadsInOrder'
  BY <1>13, SettlingSteps
<1>14. ASSUME NEW t \in Transfers, Begin(t) PROVE UploadsInOrder'
  BY <1>14 DEF Begin, FinishedOwnsNothing
<1>15. ASSUME NEW t \in Transfers, FinishUpload(t) PROVE UploadsInOrder'
  BY <1>15, NoTasks DEF FinishUpload
<1>16. ASSUME NEW t \in Transfers, Track(t) PROVE UploadsInOrder'
  BY <1>16 DEF Track
<1>17. ASSUME NEW t \in Transfers, AbortSink(t) PROVE UploadsInOrder'
  BY <1>17 DEF AbortSink
<1>18. ASSUME NEW t \in Transfers, Drain(t) PROVE UploadsInOrder'
  BY <1>18 DEF Drain
<1>19. ASSUME NEW t \in Transfers, Yield(t) PROVE UploadsInOrder'
  BY <1>19 DEF Yield
<1>20. ASSUME NEW t \in Transfers, Resume(t) PROVE UploadsInOrder'
  BY <1>20 DEF Resume
<1>21. ASSUME NEW t \in Transfers, Fail(t) PROVE UploadsInOrder'
  BY <1>21, FailAllFacts, FailedStages DEF Fail
<1>22. ASSUME NEW t \in Transfers, EndRead(t) PROVE UploadsInOrder'
  BY <1>22, FailAllFacts, FailedStages DEF EndRead
<1>23. ASSUME NEW p \in Parents, Close(p) PROVE UploadsInOrder'
  BY <1>23, FailAllFacts, FailedStages DEF Close
<1>24. CASE UNCHANGED <<phase, job, body, tracked>>
  BY <1>24
<1>. QED
  BY <1>1, <1>2, <1>3, <1>4, <1>5, <1>6, <1>7, <1>8, <1>9, <1>10, <1>11, <1>12, <1>13,
     <1>14, <1>15, <1>16, <1>17, <1>18, <1>19, <1>20, <1>21, <1>22, <1>23, <1>24,
     TransferAssumption
  DEF Next, JobStep, TransferStep, JobsOf, Transfers, StoreCloses, ShutDown, Open, vars,
      transferVars, storeVars

\* A transfer leaves nothing behind.
LEMMA FinishedStep == TransferInv /\ [Next]_vars => FinishedOwnsNothing'
<1>. SUFFICES ASSUME PlainTypes, FailureClears, FailedWhenOver, UploadsInOrder, FinishedOwnsNothing,
                     [Next]_vars
              PROVE  FinishedOwnsNothing'
  BY TypeParts DEF TransferInv
<1>. USE TransferAssumption DEF PlainTypes, FinishedOwnsNothing, UploadsInOrder, Transfers,
         JobsOf, MoveJob, Move, Leases, Tasks, transferVars, storeVars
<1>1. ASSUME NEW j \in Jobs, Acquire(j) PROVE FinishedOwnsNothing'
  BY <1>1 DEF Acquire
<1>2. ASSUME NEW j \in Jobs, Receive(j) PROVE FinishedOwnsNothing'
  BY <1>2 DEF Receive
<1>3. ASSUME NEW j \in Jobs, Take(j) PROVE FinishedOwnsNothing'
  BY <1>3 DEF Take, ReleaseAfterTasks
<1>4. ASSUME NEW j \in Jobs, Enqueue(j) PROVE FinishedOwnsNothing'
  BY <1>4 DEF Enqueue
<1>5. ASSUME NEW j \in Jobs, StartOperation(j) PROVE FinishedOwnsNothing'
  BY <1>5 DEF StartOperation
<1>6. ASSUME NEW j \in Jobs, OperationSettles(j) PROVE FinishedOwnsNothing'
  BY <1>6 DEF OperationSettles
<1>7. ASSUME NEW j \in Jobs, Consume(j) PROVE FinishedOwnsNothing'
  BY <1>7 DEF Consume
<1>8. ASSUME NEW j \in Jobs, ReleaseResolved(j) PROVE FinishedOwnsNothing'
  BY <1>8 DEF ReleaseResolved
<1>9. ASSUME NEW j \in Jobs, DetachedSettles(j) PROVE FinishedOwnsNothing'
  BY <1>9 DEF DetachedSettles
<1>10. ASSUME NEW j \in Jobs, Grant(j) PROVE FinishedOwnsNothing'
  BY <1>10 DEF Grant
<1>11. ASSUME NEW t \in Transfers, StopUpload(t) PROVE FinishedOwnsNothing'
  BY <1>11 DEF StopUpload
<1>12. ASSUME NEW t \in Transfers, CompleteFinish(t) PROVE FinishedOwnsNothing'
  BY <1>12 DEF CompleteFinish, FailureClears, FailedWhenOver
<1>13. ASSUME NEW t \in Transfers, TrackedSettles(t) \/ \E j \in JobsOf(t) : TaskSettles(j)
      PROVE  FinishedOwnsNothing'
  BY <1>13, SettlingSteps
<1>14. ASSUME NEW t \in Transfers, Begin(t) PROVE FinishedOwnsNothing'
  BY <1>14 DEF Begin
<1>15. ASSUME NEW t \in Transfers, FinishUpload(t) PROVE FinishedOwnsNothing'
  BY <1>15 DEF FinishUpload, Idle
<1>16. ASSUME NEW t \in Transfers, Track(t) PROVE FinishedOwnsNothing'
  BY <1>16 DEF Track
<1>17. ASSUME NEW t \in Transfers, AbortSink(t) PROVE FinishedOwnsNothing'
  BY <1>17 DEF AbortSink
<1>18. ASSUME NEW t \in Transfers, Drain(t) PROVE FinishedOwnsNothing'
  BY <1>18 DEF Drain, Idle
<1>19. CASE ShutDown
  BY <1>19 DEF ShutDown
<1>20. ASSUME NEW p \in Parents, StoreCloses(p) PROVE FinishedOwnsNothing'
  BY <1>20 DEF StoreCloses
<1>21. CASE Open
  BY <1>21 DEF Open
<1>22. ASSUME NEW t \in Transfers, Fail(t) PROVE FinishedOwnsNothing'
  BY <1>22, FailAllFacts, FailedStages DEF Fail
<1>23. ASSUME NEW t \in Transfers, EndRead(t) PROVE FinishedOwnsNothing'
  BY <1>23, FailAllFacts, FailedStages DEF EndRead, FailedWhenOver
<1>24. ASSUME NEW p \in Parents, Close(p) PROVE FinishedOwnsNothing'
  BY <1>24, FailAllFacts, FailedStages DEF Close
<1>25. CASE UNCHANGED <<runtime, phase, job, body, tracked>>
  BY <1>25
<1>. QED
  BY <1>1, <1>2, <1>3, <1>4, <1>5, <1>6, <1>7, <1>8, <1>9, <1>10, <1>11, <1>12, <1>13,
     <1>14, <1>15, <1>16, <1>17, <1>18, <1>19, <1>20, <1>21, <1>22, <1>23, <1>24, <1>25,
     TransferAssumption
  DEF Next, JobStep, TransferStep, JobsOf, Transfers, Yield, Resume, vars, transferVars,
      storeVars

\* Nothing is granted at first.
LEMMA InitTransferInv == Init => TransferInv
<1>. SUFFICES ASSUME Init PROVE TransferInv
  OBVIOUS
<1>1. PlainTypes /\ used \in [Kinds -> Nat]
  BY TransferAssumption DEF Init, PlainTypes, Stages
<1>2. PermitsCounted
  <2>1. \A k \in Kinds : Holders(k) = {}
    BY DEF Init, Holders, Holding, Leases, Tasks
  <2>2. \A k \in Kinds : Cardinality(Holders(k)) = 0
    BY <2>1, FS_EmptySet
  <2>. QED
    BY <2>2, TransferAssumption DEF Init, PermitsCounted
<1>3. FailureClears /\ FailedWhenOver /\ UploadsInOrder /\ FinishedOwnsNothing
  BY TransferAssumption
  DEF Init, FailureClears, FailedWhenOver, UploadsInOrder, FinishedOwnsNothing, Transfers,
      JobsOf, Leases, Tasks
<1>. QED
  BY <1>1, <1>2, <1>3, TypeParts DEF TransferInv

\* The invariant is inductive.
LEMMA TransferStepKeeps == TransferInv /\ [Next]_vars => TransferInv'
<1>. SUFFICES ASSUME TransferInv, [Next]_vars PROVE TransferInv'
  OBVIOUS
<1>1. PlainTypes' /\ PermitsCounted'
  BY PlainTypesStep, PermitsStep
<1>2. used' \in [Kinds -> Nat]
  BY <1>1, HoldersFinite, FS_CardinalityType DEF PermitsCounted
<1>. QED
  BY <1>1, <1>2, TypeParts, ClearsStep, OverStep, UploadsStep, FinishedStep
  DEF TransferInv, TypeOK, PlainTypes

\* The inductive invariant holds in every state.
THEOREM TransfersSafe == Spec => []TransferInv
BY InitTransferInv, TransferStepKeeps, PTL DEF Spec

\* What FailedStartsNothing says of one step.
StartsNothing ==
    \A j \in Jobs :
        failed[Transfer[j]] /\ failed'[Transfer[j]] =>
            /\ job'[j] \in Leases => job[j] \in Leases
            /\ job'[j] = "running" => job[j] = "running"

\* The owner that has failed was told so before the permit came: its job is revoked.
LEMMA FailedStepsStartNothing == TransferInv /\ [Next]_vars => StartsNothing
<1>. SUFFICES ASSUME PlainTypes, FailureClears,
                     [Next]_vars
              PROVE  StartsNothing
  BY TypeParts DEF TransferInv
<1>. USE TransferAssumption DEF PlainTypes, StartsNothing, FailureClears, MoveJob, Leases,
         Tasks, Transfers, transferVars, storeVars
<1>1. ASSUME NEW j \in Jobs, Acquire(j) PROVE StartsNothing
  BY <1>1 DEF Acquire, Move
<1>2. ASSUME NEW j \in Jobs, Receive(j) PROVE StartsNothing
  BY <1>2 DEF Receive, Move
<1>3. ASSUME NEW j \in Jobs, Take(j) PROVE StartsNothing
  BY <1>3 DEF Take, ReleaseAfterTasks, Move
<1>4. ASSUME NEW j \in Jobs, Enqueue(j) PROVE StartsNothing
  BY <1>4 DEF Enqueue, Move
<1>5. ASSUME NEW j \in Jobs, StartOperation(j) PROVE StartsNothing
  BY <1>5 DEF StartOperation, Move
<1>6. ASSUME NEW j \in Jobs, OperationSettles(j) PROVE StartsNothing
  BY <1>6 DEF OperationSettles, Move
<1>7. ASSUME NEW j \in Jobs, Consume(j) PROVE StartsNothing
  BY <1>7 DEF Consume, Move
<1>8. ASSUME NEW j \in Jobs, ReleaseResolved(j) PROVE StartsNothing
  BY <1>8 DEF ReleaseResolved, Move
<1>9. ASSUME NEW j \in Jobs, DetachedSettles(j) PROVE StartsNothing
  BY <1>9 DEF DetachedSettles, Move
<1>10. ASSUME NEW j \in Jobs, Grant(j) PROVE StartsNothing
  BY <1>10 DEF Grant, Move
<1>11. ASSUME NEW t \in Transfers, StopUpload(t) PROVE StartsNothing
  BY <1>11 DEF StopUpload, Move
<1>12. ASSUME NEW t \in Transfers, CompleteFinish(t) PROVE StartsNothing
  BY <1>12 DEF CompleteFinish, Move
<1>13. ASSUME NEW t \in Transfers, TrackedSettles(t) \/ \E j \in JobsOf(t) : TaskSettles(j)
      PROVE  StartsNothing
  BY <1>13, SettlingSteps
<1>14. ASSUME NEW t \in Transfers, Begin(t) PROVE StartsNothing
  BY <1>14 DEF Begin
<1>15. ASSUME NEW t \in Transfers, Fail(t) PROVE StartsNothing
  BY <1>15, FailAllFacts, FailedStages DEF Fail
<1>16. ASSUME NEW t \in Transfers, EndRead(t) PROVE StartsNothing
  BY <1>16, FailAllFacts, FailedStages DEF EndRead
<1>17. ASSUME NEW p \in Parents, Close(p) PROVE StartsNothing
  BY <1>17, FailAllFacts, FailedStages DEF Close
<1>18. CASE UNCHANGED <<job, failed>>
  BY <1>18
<1>. QED
  BY <1>1, <1>2, <1>3, <1>4, <1>5, <1>6, <1>7, <1>8, <1>9, <1>10, <1>11, <1>12, <1>13,
     <1>14, <1>15, <1>16, <1>17, <1>18, TransferAssumption
  DEF Next, JobStep, TransferStep, JobsOf, Transfers, Track, Yield, Resume, AbortSink,
      FinishUpload, Drain, StoreCloses, ShutDown, Open, vars, transferVars, storeVars

\* The variables keep their types, the counters of the schedulers never below zero.
THEOREM TransferTypesOK == Spec => []TypeOK
<1>1. TransferInv => TypeOK
  BY DEF TransferInv
<1>. QED
  BY <1>1, TransfersSafe, PTL

\* Whatever fails, detaches, closes and reopens, the schedulers count exactly the slots that
\* are held, and no more than their limits.
THEOREM PermitsAreCounted == Spec => []PermitsCounted
<1>1. TransferInv => PermitsCounted
  BY DEF TransferInv
<1>. QED
  BY <1>1, TransfersSafe, PTL

\* A transfer that is over has no request and no lease left, and the store's own close
\* starts only then.
THEOREM FinishedTransfersOwnNothing == Spec => []FinishedOwnsNothing
<1>1. TransferInv => FinishedOwnsNothing
  BY DEF TransferInv
<1>. QED
  BY <1>1, TransfersSafe, PTL

\* An owner that has failed acquires no lease and starts no task any more.
THEOREM FailedTransfersStartNothing == Spec => FailedStartsNothing
<1>1. TransferInv /\ [Next]_vars => [StartsNothing]_vars
  BY FailedStepsStartNothing
<1>. QED
  BY <1>1, TransfersSafe, PTL DEF Spec, FailedStartsNothing, StartsNothing

\* Closes that do not overlap: one parent closes the store at a time, after a shutdown
\* that is over when its own close begins, and the last one leaves it closed.
OneCloses ==
    /\ \A p, q \in Parents : closer[p] # "none" /\ closer[q] # "none" => p = q
    /\ \A p \in Parents : /\ closer[p] # "none" => p \in parents
                          /\ closer[p] = "waiting" => runtime = "closing"
                          /\ closer[p] = "closing" => runtime = "closed"
    /\ parents = {} => runtime = "closed"

\* One parent follows the other.
LEMMA OneClosesStep == TransferInv /\ OneCloses /\ ~Overlapping /\ [Next]_vars => OneCloses'
<1>. SUFFICES ASSUME PlainTypes, FinishedOwnsNothing, OneCloses, ~Overlapping,
                     [Next]_vars
              PROVE  OneCloses'
  BY TypeParts DEF TransferInv
<1>. USE TransferAssumption DEF OneCloses, PlainTypes, transferVars, storeVars
<1>1. ASSUME NEW p \in Parents, Close(p) PROVE OneCloses'
  BY <1>1 DEF Close
<1>2. ASSUME NEW p \in Parents, StoreCloses(p) PROVE OneCloses'
  BY <1>2 DEF StoreCloses
<1>3. CASE ShutDown
  BY <1>3 DEF ShutDown
<1>4. CASE Open
  BY <1>4 DEF Open
<1>5. CASE UNCHANGED storeVars
  BY <1>5
<1>. QED
  BY <1>1, <1>2, <1>3, <1>4, <1>5, TransferAssumption
  DEF Next, Settle, JobStep, TransferStep, JobsOf, Transfers, Acquire, Grant, Receive, Take,
      Enqueue, TaskSettles, StartOperation, OperationSettles, Consume, ReleaseResolved,
      DetachedSettles, Begin, Fail, Track, TrackedSettles, Yield, Resume, EndRead,
      AbortSink, StopUpload, FinishUpload, Drain, CompleteFinish, vars, transferVars,
      storeVars

\* If no parent closes the store while another does, then no transfer is active once the
\* last parent has closed it.
THEOREM OrderlyCloseRefusesTransfers ==
    ASSUME ~Overlapping PROVE Spec => []ClosedStoreRefusesTransfers
<1>1. Init => OneCloses
  BY TransferAssumption DEF Init, OneCloses
<1>2. TransferInv /\ OneCloses /\ [Next]_vars => OneCloses'
  BY OneClosesStep
<1>3. TransferInv /\ OneCloses => ClosedStoreRefusesTransfers
  BY DEF TransferInv, OneCloses, FinishedOwnsNothing, ClosedStoreRefusesTransfers
<1>. QED
  BY <1>1, <1>2, <1>3, TransfersSafe, PTL DEF Spec

-----------------------------------------------------------------------------
\* The two schedulers as a permit pool.

\* A shutdown fails every transfer that is active, and none begins before the store
\* is open again.
ClosingFails == runtime # "open" => \A t \in Transfers : phase[t] = "none" \/ failed[t]

LEMMA ClosingStep == TransferInv /\ ClosingFails /\ [Next]_vars => ClosingFails'
<1>. SUFFICES ASSUME PlainTypes, ClosingFails, [Next]_vars
              PROVE  ClosingFails'
  BY TypeParts DEF TransferInv
<1>. USE TransferAssumption DEF ClosingFails, PlainTypes, transferVars, storeVars
<1>1. ASSUME NEW t \in Transfers, Begin(t) PROVE ClosingFails'
  BY <1>1 DEF Begin
<1>2. ASSUME NEW t \in Transfers, Fail(t) PROVE ClosingFails'
  BY <1>2, FailAllFailed DEF Fail
<1>3. ASSUME NEW t \in Transfers, EndRead(t) PROVE ClosingFails'
  BY <1>3, FailAllFailed DEF EndRead
<1>4. ASSUME NEW t \in Transfers, FinishUpload(t) PROVE ClosingFails'
  BY <1>4 DEF FinishUpload
<1>5. ASSUME NEW t \in Transfers, Drain(t) PROVE ClosingFails'
  BY <1>5 DEF Drain
<1>6. ASSUME NEW t \in Transfers, CompleteFinish(t) PROVE ClosingFails'
  BY <1>6 DEF CompleteFinish
<1>7. ASSUME NEW p \in Parents, Close(p) PROVE ClosingFails'
  <2>1. CASE runtime = "open"
    <3>1. FailAll({t \in Transfers : phase[t] # "none"})
      BY <1>7, <2>1 DEF Close
    <3>2. ASSUME NEW t \in Transfers PROVE phase'[t] = "none" \/ failed'[t]
      BY <3>1, FailAllFailed
    <3>. QED
      BY <3>2
  <2>2. CASE runtime # "open"
    BY <1>7, <2>2 DEF Close
  <2>. QED
    BY <2>1, <2>2
<1>8. ASSUME NEW p \in Parents, StoreCloses(p) PROVE ClosingFails'
  BY <1>8 DEF StoreCloses
<1>9. CASE ShutDown
  BY <1>9 DEF ShutDown
<1>10. CASE Open
  BY <1>10 DEF Open
<1>11. CASE UNCHANGED <<runtime, phase, failed>>
  BY <1>11
<1>. QED
  BY <1>1, <1>2, <1>3, <1>4, <1>5, <1>6, <1>7, <1>8, <1>9, <1>10, <1>11
  DEF Next, Settle, JobStep, TransferStep, Acquire, Grant, Receive, Take, Enqueue,
      TaskSettles, StartOperation, OperationSettles, Consume, ReleaseResolved,
      DetachedSettles, Track, TrackedSettles, Yield, Resume, AbortSink, StopUpload, vars

\* Nobody asks for a permit and nobody is granted one.
Recedes ==
    \A j \in Jobs : /\ job'[j] \in Holding => job[j] \in Holding
                    /\ job'[j] = "queued" => job[j] = "queued"

LEMMA FailAllRecedes == ASSUME PlainTypes, NEW ts, FailAll(ts) PROVE Recedes
BY FailAllFacts, FailedStages DEF Recedes

\* Only Acquire asks, and only Grant grants.
LEMMA OthersRecede ==
    ASSUME TransferInv, [Next]_vars, \A j \in Jobs : ~Acquire(j) /\ ~Grant(j)
    PROVE  Recedes
<1>. SUFFICES ASSUME PlainTypes PROVE Recedes
  BY TypeParts DEF TransferInv
<1>. USE TransferAssumption DEF PlainTypes, MoveJob, Move, Holding, Leases, Tasks,
         transferVars, storeVars
<1>1. ASSUME NEW j \in Jobs, Receive(j) PROVE Recedes
  BY <1>1 DEF Receive, Recedes
<1>2. ASSUME NEW j \in Jobs, Take(j) PROVE Recedes
  BY <1>2 DEF Take, ReleaseAfterTasks, Recedes
<1>3. ASSUME NEW j \in Jobs, Enqueue(j) PROVE Recedes
  BY <1>3 DEF Enqueue, Recedes
<1>4. ASSUME NEW j \in Jobs, StartOperation(j) PROVE Recedes
  BY <1>4 DEF StartOperation, Recedes
<1>5. ASSUME NEW j \in Jobs, OperationSettles(j) PROVE Recedes
  BY <1>5 DEF OperationSettles, Recedes
<1>6. ASSUME NEW j \in Jobs, Consume(j) PROVE Recedes
  BY <1>6 DEF Consume, Recedes
<1>7. ASSUME NEW j \in Jobs, ReleaseResolved(j) PROVE Recedes
  BY <1>7 DEF ReleaseResolved, Recedes
<1>8. ASSUME NEW j \in Jobs, DetachedSettles(j) PROVE Recedes
  BY <1>8 DEF DetachedSettles, Recedes
<1>9. ASSUME NEW t \in Transfers, StopUpload(t) PROVE Recedes
  BY <1>9 DEF StopUpload, Recedes
<1>10. ASSUME NEW t \in Transfers, CompleteFinish(t) PROVE Recedes
  BY <1>10 DEF CompleteFinish, Recedes
<1>11. ASSUME NEW t \in Transfers, TrackedSettles(t) \/ \E j \in JobsOf(t) : TaskSettles(j)
       PROVE  Recedes
  BY <1>11, SettlingSteps DEF Recedes
<1>12. ASSUME NEW t \in Transfers, Fail(t) PROVE Recedes
  BY <1>12, FailAllRecedes DEF Fail
<1>13. ASSUME NEW t \in Transfers, EndRead(t) PROVE Recedes
  BY <1>13, FailAllRecedes DEF EndRead
<1>14. ASSUME NEW p \in Parents, Close(p) PROVE Recedes
  <2>1. CASE runtime = "open"
    BY <1>14, <2>1, FailAllRecedes DEF Close
  <2>2. CASE runtime # "open"
    BY <1>14, <2>2 DEF Close, Recedes
  <2>. QED
    BY <2>1, <2>2
<1>15. CASE UNCHANGED job
  BY <1>15 DEF Recedes
<1>. QED
  BY <1>1, <1>2, <1>3, <1>4, <1>5, <1>6, <1>7, <1>8, <1>9, <1>10, <1>11, <1>12, <1>13,
     <1>14, <1>15, TransferAssumption
  DEF Next, JobStep, TransferStep, JobsOf, Transfers, Begin, Track, Yield, Resume,
      AbortSink, FinishUpload, Drain, StoreCloses, ShutDown, Open, vars

\* A job in the pool.
LEMMA PoolJob ==
    ASSUME NEW j \in Jobs
    PROVE  /\ PoolStatus[j] = IF job[j] \in Holding THEN "held"
                              ELSE IF job[j] = "queued" THEN "queued" ELSE "new"
           /\ PoolHeld[j] = [count |-> IF job[j] \in Holding THEN 1 ELSE 0, bytes |-> 0]
           /\ DOMAIN PoolStatus = Jobs /\ DOMAIN PoolHeld = Jobs
<1>1. "queued" \notin Holding
  BY DEF Holding, Leases, Tasks
<1>2. PoolStatus[j] = CASE job[j] \in Holding -> "held"
                        [] job[j] = "queued" -> "queued"
                        [] OTHER -> "new"
  BY Zenon DEF PoolStatus
<1>3. PoolStatus[j] = IF job[j] \in Holding THEN "held"
                      ELSE IF job[j] = "queued" THEN "queued" ELSE "new"
  BY <1>1, <1>2
<1>4. PoolHeld[j] = [count |-> IF job[j] \in Holding THEN 1 ELSE 0, bytes |-> 0]
  BY Zenon DEF PoolHeld
<1>5. DOMAIN PoolStatus = Jobs /\ DOMAIN PoolHeld = Jobs
  BY DEF PoolStatus, PoolHeld
<1>. QED
  BY <1>3, <1>4, <1>5

\* The slots that the pool knows to be held are the holders.
LEMMA SlotsAreHolders ==
    ASSUME NEW S \in SUBSET Jobs
    PROVE  /\ Pool!SlotsHeld(S) = Cardinality({j \in S : job[j] \in Holding})
           /\ Pool!BytesHeld(S) = 0
<1>. DEFINE T == {j \in S : job[j] \in Holding}
            counts == [j \in S |-> PoolHeld[j].count]
            ones == [j \in T |-> 1]
            sizes == [j \in S |-> PoolHeld[j].bytes]
<1>1. IsFiniteSet(S) /\ IsFiniteSet(T)
  BY TransferAssumption, FS_Subset
<1>2. \A j \in S : /\ PoolHeld[j].count \in Nat /\ PoolHeld[j].bytes = 0
                   /\ PoolHeld[j].bytes \in Nat
                   /\ PoolHeld[j].count = IF job[j] \in Holding THEN 1 ELSE 0
  <2>. TAKE j \in S
  <2>1. PoolHeld[j] = [count |-> IF job[j] \in Holding THEN 1 ELSE 0, bytes |-> 0]
    BY PoolJob
  <2>. QED
    BY <2>1
<1>3. Pool!SlotsHeld(S) = Total(counts, S)
  <2>1. MapThenSumSet(LAMBDA r : PoolHeld[r].count, S) = Total([r \in S |-> PoolHeld[r].count], S)
    BY <1>1, <1>2, SumOfCounts
  <2>2. Pool!SlotsHeld(S) = MapThenSumSet(LAMBDA r : PoolHeld[r].count, S)
    BY Zenon DEF Pool!SlotsHeld, Pool!MapThenSumSet, Pool!MapThenFoldSet, MapThenSumSet,
                 MapThenFoldSet
  <2>. QED
    BY <2>1, <2>2
<1>4. Pool!BytesHeld(S) = Total(sizes, S)
  <2>1. MapThenSumSet(LAMBDA r : PoolHeld[r].bytes, S) = Total([r \in S |-> PoolHeld[r].bytes], S)
    BY <1>1, <1>2, SumOfBytes
  <2>2. Pool!BytesHeld(S) = MapThenSumSet(LAMBDA r : PoolHeld[r].bytes, S)
    BY Zenon DEF Pool!BytesHeld, Pool!MapThenSumSet, Pool!MapThenFoldSet, MapThenSumSet,
                 MapThenFoldSet
  <2>. QED
    BY <2>1, <2>2
<1>5. Total(counts, S) = Total(ones, T)
  <2>1. \A j \in T : counts[j] = ones[j]
    BY <1>2
  <2>2. \A j \in S \ T : counts[j] = 0
    BY <1>2
  <2>. HIDE DEF counts, ones
  <2>. QED
    BY <2>1, <2>2, TotalSame
<1>6. Total(ones, T) = Cardinality(T)
  <2>1. \A j \in T : ones[j] = 1
    OBVIOUS
  <2>. HIDE DEF ones, T
  <2>. QED
    BY <1>1, <2>1, TotalOfOnes
<1>7. Total(sizes, S) = 0
  <2>1. \A j \in S : sizes[j] = 0
    BY <1>2
  <2>. HIDE DEF sizes
  <2>2. Total(sizes, S) = Total(sizes, {})
    BY <2>1, TotalSame
  <2>. QED
    BY <2>2, TotalOfNone
<1>. QED
  BY <1>3, <1>4, <1>5, <1>6, <1>7

LEMMA JobsRecede ==
    ASSUME PlainTypes, PlainTypes', Recedes
    PROVE  Pool!Recede
<1>1. ASSUME NEW j \in Jobs
      PROVE  /\ PoolStatus'[j] = IF job'[j] \in Holding THEN "held"
                                 ELSE IF job'[j] = "queued" THEN "queued" ELSE "new"
             /\ PoolHeld'[j] = [count |-> IF job'[j] \in Holding THEN 1 ELSE 0, bytes |-> 0]
  <2>1. "queued" \notin Holding
    BY DEF Holding, Leases, Tasks
  <2>2. PoolStatus'[j] = CASE job'[j] \in Holding -> "held"
                           [] job'[j] = "queued" -> "queued"
                           [] OTHER -> "new"
    BY Zenon DEF PoolStatus
  <2>3. PoolHeld'[j] = [count |-> IF job'[j] \in Holding THEN 1 ELSE 0, bytes |-> 0]
    BY Zenon DEF PoolHeld
  <2>. QED
    BY <2>1, <2>2, <2>3
<1>2. "queued" \notin Holding
  BY DEF Holding, Leases, Tasks
<1>3. Pool!Nothing = [count |-> 0, bytes |-> 0]
  BY DEF Pool!Nothing
<1>4. ASSUME NEW j \in Jobs, PoolStatus[j] = "held"
      PROVE  /\ PoolHeld'[j].count \in 0 .. PoolHeld[j].count
             /\ PoolHeld'[j].bytes \in 0 .. PoolHeld[j].bytes
             /\ PoolStatus'[j] = IF PoolHeld'[j] = Pool!Nothing THEN "new" ELSE "held"
  <2>1. job[j] \in Holding /\ PoolHeld[j] = [count |-> 1, bytes |-> 0]
    BY <1>4, PoolJob
  <2>2. CASE job'[j] \in Holding
    <3>1. PoolHeld'[j] = [count |-> 1, bytes |-> 0] /\ PoolStatus'[j] = "held"
      BY <1>1, <2>2
    <3>. QED
      BY <1>3, <2>1, <3>1
  <2>3. CASE job'[j] \notin Holding
    <3>1. PoolHeld'[j] = [count |-> 0, bytes |-> 0] /\ PoolStatus'[j] = "new"
      BY <1>1, <1>2, <2>1, <2>3 DEF Recedes
    <3>. QED
      BY <1>3, <2>1, <3>1
  <2>. QED
    BY <2>2, <2>3
<1>5. ASSUME NEW j \in Jobs, PoolStatus[j] = "queued"
      PROVE  PoolStatus'[j] \in {"new", "queued"} /\ PoolHeld'[j] = Pool!Nothing
  BY <1>1, <1>3, <1>5, PoolJob DEF Recedes
<1>6. ASSUME NEW j \in Jobs, PoolStatus[j] = "new"
      PROVE  PoolStatus'[j] = "new" /\ PoolHeld'[j] = Pool!Nothing
  BY <1>1, <1>3, <1>6, PoolJob DEF Recedes
<1>7. \A j \in Jobs : PoolStatus[j] \in {"held", "queued", "new"}
  BY PoolJob
<1>8. DOMAIN PoolStatus' = Jobs /\ DOMAIN PoolHeld' = Jobs
  BY DEF PoolStatus, PoolHeld
<1>. HIDE DEF PoolStatus, PoolHeld
<1>. QED
  BY <1>4, <1>5, <1>6, <1>7, <1>8 DEF Pool!Recede

\* A grant is one of the pool: the slots in use are within the limits of both kinds.
LEMMA GrantIsGrant ==
    ASSUME TransferInv, ClosingFails, NEW j \in Jobs, Grant(j)
    PROVE  Pool!Grant(j)
<1>. DEFINE t == Transfer[j]
            k == Kind(t)
<1>1. /\ job' = [job EXCEPT ![j] = "granted"] /\ job[j] = "queued" /\ used[k] < Limit[k]
      /\ UNCHANGED runtime /\ job \in [Jobs -> Stages] /\ PlainTypes
  BY TypeParts DEF Grant, MoveJob, Move, TransferInv, PlainTypes, storeVars
<1>2. t \in Transfers /\ k \in Kinds
  BY KindOf, TransferAssumption DEF Transfers
<1>3. runtime = "open"
  <2>1. ~failed[t] /\ phase[t] # "none"
    BY <1>1, <1>2 DEF TransferInv, FailureClears, FinishedOwnsNothing, JobsOf
  <2>. QED
    BY <1>2, <2>1 DEF ClosingFails
<1>4. "queued" \notin Holding /\ "granted" \in Holding
  BY DEF Holding, Leases, Tasks
<1>5. /\ Cardinality(Holders("upload")) = used["upload"]
      /\ Cardinality(Holders("read")) = used["read"]
      /\ \A l \in Kinds : used[l] \in Nat /\ used[l] <= Limit[l] /\ Limit[l] \in Nat
      /\ \A l \in Kinds : Cardinality(Holders(l)) = used[l]
  BY TransferAssumption DEF TransferInv, PermitsCounted, TypeOK, Kinds
<1>6. Cardinality({i \in Jobs : job[i] \in Holding}) = used["upload"] + used["read"]
  <2>1. /\ {i \in Jobs : job[i] \in Holding} = Holders("upload") \cup Holders("read")
        /\ Holders("upload") \cap Holders("read") = {}
    BY TransferAssumption DEF Holders, Kind
  <2>2. IsFiniteSet(Holders("upload")) /\ IsFiniteSet(Holders("read"))
    BY HoldersFinite DEF Kinds
  <2>3. Cardinality(Holders("upload") \cup Holders("read"))
            = Cardinality(Holders("upload")) + Cardinality(Holders("read"))
              - Cardinality(Holders("upload") \cap Holders("read"))
    BY <2>2, FS_Union
  <2>4. Cardinality(Holders("upload") \cap Holders("read")) = 0
    BY <2>1, FS_EmptySet
  <2>. QED
    BY <1>5, <2>1, <2>3, <2>4 DEF Kinds
<1>7. Pool!SlotsHeld(Jobs) = used["upload"] + used["read"] /\ Pool!BytesHeld(Jobs) = 0
  BY <1>6, SlotsAreHolders
<1>8. used["upload"] + used["read"] + 1 <= Limit["upload"] + Limit["read"]
  BY <1>1, <1>2, <1>5 DEF Kinds
<1>9. Pool!SlotsHeld(Pool!InLane(k)) = used[k]
  <2>1. Pool!InLane(k) = {i \in Jobs : Kind(Transfer[i]) = k}
    BY DEF Pool!InLane
  <2>2. Pool!InLane(k) \in SUBSET Jobs
    BY <2>1
  <2>3. {i \in Pool!InLane(k) : job[i] \in Holding} = Holders(k)
    BY <2>1 DEF Holders
  <2>. HIDE DEF k
  <2>4. Pool!SlotsHeld(Pool!InLane(k)) = Cardinality(Holders(k))
    BY <2>2, <2>3, SlotsAreHolders
  <2>. QED
    BY <1>2, <1>5, <2>4
<1>10. used[k] + 1 <= Limit[k]
  BY <1>1, <1>2, <1>5
<1>11. PoolStatus' = [PoolStatus EXCEPT ![j] = "held"] /\ PoolStatus[j] = "queued"
  BY <1>1, <1>4 DEF PoolStatus
<1>12. PoolHeld' = [PoolHeld EXCEPT ![j] = [count |-> 1, bytes |-> 0]]
  BY <1>1, <1>4 DEF PoolHeld
<1>. HIDE DEF PoolStatus, PoolHeld
<1>. QED
  BY <1>1, <1>3, <1>7, <1>8, <1>9, <1>10, <1>11, <1>12 DEF Pool!Grant

\* The store opens again, for a parent that still holds it or after it was closed.
LEMMA RuntimeOpens ==
    ASSUME [Next]_vars, runtime # "open", runtime' = "open" PROVE UNCHANGED job
BY DEF Next, Settle, JobStep, TransferStep, Acquire, Grant, Receive, Take, Enqueue,
       TaskSettles, StartOperation, OperationSettles, Consume, ReleaseResolved,
       DetachedSettles, Begin, Fail, Track, TrackedSettles, Yield, Resume, EndRead,
       AbortSink, StopUpload, FinishUpload, Drain, CompleteFinish, Close, ShutDown,
       StoreCloses, Open, vars, transferVars, storeVars

LEMMA TransferPoolStep ==
    ASSUME TransferInv, TransferInv', ClosingFails, [Next]_vars
    PROVE  [Pool!Next]_<<PoolStatus, PoolHeld, runtime # "open">>
<1>1. PlainTypes /\ PlainTypes'
  BY TypeParts DEF TransferInv, TypeOK, PlainTypes
<1>2. ASSUME NEW j \in Jobs, Acquire(j) PROVE Pool!Next
  <2>1. /\ job' = [job EXCEPT ![j] = "queued"] /\ job[j] = "idle"
        /\ phase[Transfer[j]] # "none" /\ ~failed[Transfer[j]]
        /\ UNCHANGED runtime
    BY <1>2 DEF Acquire, MoveJob, Move, storeVars
  <2>2. runtime = "open"
    BY <2>1, TransferAssumption DEF ClosingFails, Transfers
  <2>3. "queued" \notin Holding /\ "idle" \notin Holding
    BY DEF Holding, Leases, Tasks
  <2>4. PoolStatus' = [PoolStatus EXCEPT ![j] = "queued"] /\ PoolStatus[j] = "new"
    BY <1>1, <2>1, <2>3 DEF PoolStatus, PlainTypes
  <2>5. PoolHeld' = PoolHeld
    BY <1>1, <2>1, <2>3 DEF PoolHeld, PlainTypes
  <2>6. Pool!Ask(j)
    BY <2>1, <2>2, <2>4, <2>5 DEF Pool!Ask
  <2>. QED
    BY <2>6 DEF Pool!Next
<1>3. ASSUME NEW j \in Jobs, Grant(j) PROVE Pool!Next
  BY <1>3, GrantIsGrant DEF Pool!Next
<1>4. CASE \A j \in Jobs : ~Acquire(j) /\ ~Grant(j)
  <2>1. Recedes
    BY <1>4, OthersRecede
  <2>2. Pool!Recede
    BY <1>1, <2>1, JobsRecede
  <2>3. CASE (runtime' # "open") = (runtime # "open")
    BY <2>2, <2>3 DEF Pool!Next, Pool!Withdraw
  <2>4. CASE runtime = "open" /\ runtime' # "open"
    <3>1. runtime' # "open" => \A t \in Transfers : phase'[t] = "none" \/ failed'[t]
      BY ClosingStep DEF ClosingFails
    <3>2. ASSUME NEW j \in Jobs PROVE job'[j] # "queued"
      <4>1. Transfer[j] \in Transfers /\ j \in JobsOf(Transfer[j])
        BY TransferAssumption DEF Transfers, JobsOf
      <4>. QED
        BY <2>4, <3>1, <4>1 DEF TransferInv, FailureClears, FinishedOwnsNothing
    <3>3. \A j \in Jobs : PoolStatus'[j] # "queued"
      BY <3>2 DEF PoolStatus
    <3>. QED
      BY <2>2, <2>4, <3>3 DEF Pool!Next, Pool!Close
  <2>5. CASE runtime # "open" /\ runtime' = "open"
    <3>1. UNCHANGED job
      BY <2>5, RuntimeOpens
    <3>2. PoolStatus' = PoolStatus /\ PoolHeld' = PoolHeld
      BY <3>1 DEF PoolStatus, PoolHeld
    <3>. QED
      BY <2>5, <3>2 DEF Pool!Next, Pool!Reopen
  <2>. QED
    BY <2>3, <2>4, <2>5
<1>. QED
  BY <1>2, <1>3, <1>4

\* To the transfers the two schedulers are a permit pool with a lane for each kind: no
\* stage of a job hides a permit or frees one that is in use, a shutdown withdraws
\* what is asked for, and what is still held when the store opens again is charged.
THEOREM TransfersUsePool == Spec => PoolSpec
<1>1. Init => ClosingFails
  BY DEF Init, ClosingFails
<1>2. Init => Pool!Init
  <2>1. "idle" \notin Holding
    BY DEF Holding, Leases, Tasks
  <2>. QED
    BY <2>1 DEF Init, Pool!Init, Pool!Nothing, PoolStatus, PoolHeld
<1>3. TransferInv /\ TransferInv' /\ ClosingFails /\ [Next]_vars
          => [Pool!Next]_<<PoolStatus, PoolHeld, runtime # "open">>
  BY TransferPoolStep
<1>. QED
  BY <1>1, <1>2, <1>3, ClosingStep, TransfersSafe, PTL DEF Spec, PoolSpec, Pool!Spec
=============================================================================
