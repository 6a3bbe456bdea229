----------------------- MODULE RemoteRootConfirmation -----------------------
(***************************************************************************)
(* createRemoteRootConfirmationScheduler (frontend of the file-share,      *)
(* remote-root-reconciliation.ts).  Variables are those of the closure.    *)
(* The drain of an epoch is one loop of promises; drains and flights of    *)
(* earlier epochs go on after a reset until their answers are back, and    *)
(* are kept here for what they might still change.  Contexts stand for     *)
(* themselves: only whether an id has one matters to the scheduler.        *)
(***************************************************************************)
EXTENDS Integers, SequenceUtils

CONSTANTS
    Ids,
    MaxCandidates, Concurrency,
    MaxEpoch, MaxForgotten, MaxRuns   \* bounds: resets, forgets per id, runs asked for

ASSUME ConfirmationAssumption ==
    /\ MaxCandidates \in Nat \ {0} /\ Concurrency \in Nat \ {0}
    /\ MaxEpoch \in Nat /\ MaxForgotten \in Nat /\ MaxRuns \in Nat

VARIABLES
    queue, deferred,
    inFlight,        \* inFlight[r]: the epoch and version of its entry, or NoFlight
    contexts,        \* the ids that have a context
    versions,        \* versions[r]: how often r was forgotten in this epoch
    epoch,
    requestedRuns,
    drainPromise,    \* the epoch of the drain that drainPromise is, or -1
    drain,           \* drain[e]: "none", "loop", "batch", "ending"
    batch,           \* batch[e]: the entries of the batch that it runs
    runs             \* number of runs asked for

confirmationVars == <<queue, deferred, inFlight, contexts, versions, epoch,
                      requestedRuns, drainPromise, drain, batch, runs>>

Epochs == 0..MaxEpoch
NoFlight == [epoch |-> -1, version |-> -1]

ConfirmationInit ==
    /\ queue = <<>> /\ deferred = {}
    /\ inFlight = [r \in Ids |-> NoFlight]
    /\ contexts = {}
    /\ versions = [r \in Ids |-> 0]
    /\ epoch = 0 /\ requestedRuns = 0 /\ drainPromise = -1
    /\ drain = [e \in Epochs |-> "none"]
    /\ batch = [e \in Epochs |-> <<>>]
    /\ runs = 0

-----------------------------------------------------------------------------
\* ensureDrain
EnsureDrain ==
    IF drainPromise # -1 THEN UNCHANGED <<drainPromise, drain>>
    ELSE drainPromise' = epoch /\ drain' = [drain EXCEPT ![epoch] = "loop"]

\* enqueue, of ids that are not queued: one in flight is deferred, unless its
\* flight is the one that is wanted.
InFlight(ids) == {r \in ids : inFlight[r] # NoFlight}
OutOfDate(ids) ==
    {r \in InFlight(ids) : inFlight[r] # [epoch |-> epoch, version |-> versions[r]]}

MutEnqueue(ids) ==
    /\ queue' = queue \o SetToSeq(ids \ InFlight(ids))
    /\ deferred' = deferred

Enqueue(ids) ==
    /\ queue' = queue \o SetToSeq(ids \ InFlight(ids))
    /\ deferred' = deferred \cup OutOfDate(ids)

\* schedule(ids, context, run)
Schedule(ids, run) ==
    /\ contexts' = contexts \cup ids
    /\ Enqueue(ids \ ToSet(queue))
    /\ IF run
       THEN /\ runs < MaxRuns /\ runs' = runs + 1
            /\ requestedRuns' = requestedRuns + 1
            /\ EnsureDrain
       ELSE UNCHANGED <<requestedRuns, drainPromise, drain, runs>>
    /\ UNCHANGED <<inFlight, versions, epoch, batch>>

\* forget
ForgetRoot(r) ==
    /\ versions[r] < MaxForgotten
    /\ versions' = [versions EXCEPT ![r] = @ + 1]
    /\ contexts' = contexts \ {r}
    /\ deferred' = deferred \ {r}
    /\ queue' = Without(queue, r)
    /\ UNCHANGED <<inFlight, epoch, requestedRuns, drainPromise, drain, batch, runs>>

\* reset
Reset ==
    /\ epoch < MaxEpoch /\ epoch' = epoch + 1
    /\ requestedRuns' = 0 /\ drainPromise' = -1
    /\ queue' = <<>> /\ deferred' = {} /\ contexts' = {}
    /\ inFlight' = [r \in Ids |-> NoFlight]
    /\ versions' = [r \in Ids |-> 0]
    /\ UNCHANGED <<drain, batch, runs>>

-----------------------------------------------------------------------------
\* The loop of ensureDrain starts another runBatch, or ends.
Candidates == SubSeq(queue, 1, Min({Len(queue), MaxCandidates}))

RunBatch(e) ==
    LET taken == OnlyOf(Candidates, {r \in contexts : inFlight[r] = NoFlight})
    IN
    /\ drain[e] = "loop" /\ requestedRuns > 0 /\ e = epoch
    /\ requestedRuns' = requestedRuns - 1
    /\ queue' = SubSeq(queue, Len(Candidates) + 1, Len(queue))
    /\ inFlight' = [r \in Ids |->
           IF r \in ToSet(taken) THEN [epoch |-> e, version |-> versions[r]] ELSE inFlight[r]]
    /\ batch' = [batch EXCEPT ![e] =
           [i \in DOMAIN taken |-> [id |-> taken[i], version |-> versions[taken[i]],
                                    stage |-> "taken", retry |-> FALSE]]]
    /\ drain' = [drain EXCEPT ![e] = "batch"]
    /\ UNCHANGED <<deferred, contexts, versions, epoch, drainPromise, runs>>

At(e, stages) == {i \in DOMAIN batch[e] : batch[e][i].stage \in stages}

\* A worker takes the next entry and asks the peers.
TakeEntry(e) ==
    /\ drain[e] = "batch" /\ e = epoch
    /\ Cardinality(At(e, {"asked", "told"})) < Concurrency
    /\ At(e, {"taken"}) # {}
    /\ batch' = [batch EXCEPT ![e][Min(At(e, {"taken"}))].stage = "asked"]
    /\ UNCHANGED <<queue, deferred, inFlight, contexts, versions, epoch, requestedRuns,
                   drainPromise, drain, runs>>

\* The finally of a worker.
MutSettle(e, i, retry) ==
    LET r == batch[e][i].id
        current == e = epoch /\ batch[e][i].version = versions[r]
    IN
    /\ batch' = [batch EXCEPT ![e] = RemoveAt(@, i)]
    /\ inFlight' = [inFlight EXCEPT ![r] = NoFlight]
    /\ deferred' = deferred \ {r}
    /\ queue' = IF r \notin ToSet(queue) /\ ((current /\ retry) \/ r \in deferred)
                THEN Append(queue, r) ELSE queue
    /\ contexts' = IF current /\ ~retry /\ r \notin deferred
                   THEN contexts \ {r} ELSE contexts

Settle(e, i, retry) ==
    LET r == batch[e][i].id
        owns == inFlight[r] = [epoch |-> e, version |-> batch[e][i].version]
        current == e = epoch /\ batch[e][i].version = versions[r]
        replaced == owns /\ r \in deferred
    IN
    /\ batch' = [batch EXCEPT ![e] = RemoveAt(@, i)]
    /\ inFlight' = IF owns THEN [inFlight EXCEPT ![r] = NoFlight] ELSE inFlight
    /\ deferred' = IF owns THEN deferred \ {r} ELSE deferred
    /\ queue' = IF owns /\ r \notin ToSet(queue) /\ ((current /\ retry) \/ replaced)
                THEN Append(queue, r) ELSE queue
    /\ contexts' = IF current /\ ~retry /\ ~replaced THEN contexts \ {r} ELSE contexts

\* confirm has an answer: it is told to the page only if the entry is still the
\* one that was asked for.
Answer(e, i) ==
    LET entry == batch[e][i]
        current == e = epoch /\ entry.version = versions[entry.id]
    IN
    /\ entry.stage = "asked"
    /\ IF current
       THEN /\ \E retry \in BOOLEAN :
                   batch' = [batch EXCEPT ![e][i] = [@ EXCEPT !.stage = "told", !.retry = retry]]
            /\ UNCHANGED <<inFlight, deferred, queue, contexts>>
       ELSE Settle(e, i, FALSE)
    /\ UNCHANGED <<versions, epoch, requestedRuns, drainPromise, drain, runs>>

\* confirm or onResult threw.
AnswerFails(e, i) ==
    /\ batch[e][i].stage = "asked"
    /\ Settle(e, i, TRUE)
    /\ UNCHANGED <<versions, epoch, requestedRuns, drainPromise, drain, runs>>

\* The await of onResult is over.
Told(e, i) ==
    /\ batch[e][i].stage = "told"
    /\ Settle(e, i, batch[e][i].retry)
    /\ UNCHANGED <<versions, epoch, requestedRuns, drainPromise, drain, runs>>

\* All workers have returned; those of an earlier epoch leave entries behind.
BatchEnds(e) ==
    /\ drain[e] = "batch"
    /\ At(e, {"asked", "told"}) = {}
    /\ At(e, {"taken"}) = {} \/ e # epoch
    /\ batch' = [batch EXCEPT ![e] = <<>>]
    /\ drain' = [drain EXCEPT ![e] = "loop"]
    /\ UNCHANGED <<queue, deferred, inFlight, contexts, versions, epoch, requestedRuns,
                   drainPromise, runs>>

LoopEnds(e) ==
    /\ drain[e] = "loop" /\ ~(requestedRuns > 0 /\ e = epoch)
    /\ drain' = [drain EXCEPT ![e] = "ending"]
    /\ UNCHANGED <<queue, deferred, inFlight, contexts, versions, epoch, requestedRuns,
                   drainPromise, batch, runs>>

\* The finally of ensureDrain: runs may have been asked for since the loop ended.
DrainEnds(e) ==
    LET again == drainPromise = e /\ requestedRuns > 0
    IN
    /\ drain[e] = "ending"
    /\ drain' = [drain EXCEPT ![e] = IF again THEN "loop" ELSE "none"]
    /\ drainPromise' = IF drainPromise = e /\ ~again THEN -1 ELSE drainPromise
    /\ UNCHANGED <<queue, deferred, inFlight, contexts, versions, epoch, requestedRuns,
                   batch, runs>>

DrainStep(e) == RunBatch(e) \/ TakeEntry(e) \/ BatchEnds(e) \/ LoopEnds(e) \/ DrainEnds(e)
FlightStep(e) == \E i \in DOMAIN batch[e] : Answer(e, i) \/ AnswerFails(e, i) \/ Told(e, i)

ConfirmationNext ==
    \/ \E ids \in {{}} \cup {{r} : r \in Ids}, run \in BOOLEAN : Schedule(ids, run)
    \/ \E r \in Ids : ForgetRoot(r)
    \/ Reset
    \/ \E e \in Epochs : DrainStep(e) \/ FlightStep(e)

ConfirmationSpec == ConfirmationInit /\ [][ConfirmationNext]_confirmationVars

-----------------------------------------------------------------------------
ToldNow(r) == \E i \in At(epoch, {"told"}) :
                  batch[epoch][i].id = r /\ batch[epoch][i].version = versions[r]

InquiryOf(r) ==
    IF r \in ToSet(queue) THEN "waiting"
    ELSE IF inFlight[r] = NoFlight THEN "none"
    ELSE IF OutOfDate({r}) = {} THEN IF ToldNow(r) THEN "told" ELSE "asked"
    ELSE IF r \in deferred THEN "again" ELSE "dropped"

Inquiry == INSTANCE Inquiries WITH Roots <- Ids, inquiry <- [r \in Ids |-> InquiryOf(r)]

\* The scheduler keeps the promises that the page relies on: one inquiry at a
\* time, no answer for what was forgotten, and none from before a reset.
ConfirmationsAreInquiries == Inquiry!InquirySpec

\* What was scheduled, and neither forgotten nor settled since, is queued, in
\* flight or deferred behind a flight that it may not use: no request is lost
\* between a forget, a late answer and a retry, and none is left over.  A run that
\* was asked for has a drain that has yet to look for it: neither a reset nor a
\* schedule between the end of the loop and its finally leaves one behind that no
\* drain will run.
WantedIsPending ==
    /\ contexts = {r \in Ids : InquiryOf(r) \in {"waiting", "asked", "told", "again"}}
    /\ requestedRuns > 0 => drainPromise = epoch /\ drain[epoch] # "none"
=============================================================================
