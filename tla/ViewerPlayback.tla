--------------------------- MODULE ViewerPlayback ---------------------------
(***************************************************************************)
(* The playback of a mounted viewer (View.tsx): seeking, the iterator over *)
(* the tracks and the control of one track that it feeds, play and pause,  *)
(* the end of the stream, and unmounting.  Every await may end before or   *)
(* after the generation that made it has been replaced, or never.  Handles *)
(* are retired through the coordinator of module PlaybackHandles, which    *)
(* DurableCleanup implements.                                              *)
(***************************************************************************)
EXTENDS Integers, Sequences

CONSTANTS
    MaxGeneration, MaxControls,         \* bounds: seeks and failures, controls made,
    MaxRequests, MaxFailures            \* requests, and calls that fail

ASSUME ViewerAssumption ==
    /\ MaxGeneration \in Nat \ {0} /\ MaxControls \in Nat
    /\ MaxRequests \in Nat /\ MaxFailures \in Nat

VARIABLES
    generation,
    live,               \* the generation has a controller that is not aborted
    intent, request,    \* playbackIntent, playbackStateRequest
    isPlaying,          \* what the page shows
    streamListener,     \* the iterator that is published, or NoHandle
    controls,           \* controls.current
    handle,             \* of the coordinator
    created, playing,   \* the handles that exist, and those that are not paused
    open,               \* open[g]: the task of setProgress for generation g
    closeObserved,      \* the generations whose stream has ended
    creation,           \* creation[g]: the creation of a control
    tasks,              \* updateProgressQueue: the first one runs
    transition,         \* what the play or pause that runs does
    failures,           \* number of calls of play, pause, iterate or push that failed
    disturbed           \* a transition has failed, or its rollback as well

viewerVars == <<generation, live, intent, request, isPlaying, streamListener, controls,
                handle, created, playing, open, closeObserved, creation, tasks,
                transition, failures, disturbed>>

Generations == 0..MaxGeneration
Iterator(g) == <<"iterator", g>>
Controls == {"control"} \X (1..MaxControls)
ViewerHandles == {Iterator(g) : g \in Generations} \cup Controls
NoHandle == <<"none", 0>>

INSTANCE PlaybackHandles WITH Handles <- ViewerHandles

NotOpen == [stage |-> "none", request |-> 0, play |-> FALSE]
NoCreation == [stage |-> "none", control |-> NoHandle, request |-> 0, play |-> FALSE]
NoTransition == [stage |-> "none", targets |-> {}, previous |-> FALSE]
OpenTask == [kind |-> "open", request |-> 0, play |-> FALSE]
CloseTask == [kind |-> "close", request |-> 0, play |-> FALSE]
StateTask(n, play) == [kind |-> "state", request |-> n, play |-> play]

ViewerInit ==
    /\ generation = 0 /\ live = FALSE
    /\ intent = TRUE /\ request = 0 /\ isPlaying = TRUE
    /\ streamListener = NoHandle /\ controls = {}
    /\ HandlesInit /\ created = {} /\ playing = {}
    /\ open = [g \in Generations |-> NotOpen]
    /\ closeObserved = {}
    /\ creation = [g \in Generations |-> NoCreation]
    /\ tasks = <<>> /\ transition = NoTransition
    /\ failures = 0 /\ disturbed = "no"

IsCurrent(g) == live /\ g = generation
CallbacksCurrent(g) == IsCurrent(g) /\ g \notin closeObserved
Runs(kind) == tasks # <<>> /\ Head(tasks).kind = kind

SetOpen(g, stage) == open' = [open EXCEPT ![g].stage = stage]
SetCreation(g, stage) == creation' = [creation EXCEPT ![g].stage = stage]
Fail == failures < MaxFailures /\ failures' = failures + 1

-----------------------------------------------------------------------------
\* retireAllPlaybackResources up to its await: everything owned, and what is added.
RetireAll(additional) ==
    /\ streamListener' = NoHandle /\ controls' = {}
    /\ Retire(Owned \cup additional)

\* setProgress; the effect of the page also resets the intent for another stream.
MutSetProgress(streamChanged) ==
    /\ generation < MaxGeneration
    /\ generation' = generation + 1 /\ live' = TRUE
    /\ IF streamChanged
       THEN intent' = TRUE /\ isPlaying' = TRUE /\ request < MaxRequests /\ request' = request + 1
       ELSE UNCHANGED <<intent, request, isPlaying>>
    /\ streamListener' = NoHandle /\ controls' = {}
    /\ Retire(controls \cup {streamListener})
    /\ SetOpen(generation', "closing")
    /\ tasks' = <<OpenTask>> /\ transition' = NoTransition
    /\ UNCHANGED <<created, playing, closeObserved, creation, failures, disturbed>>

SetProgress(streamChanged) ==
    /\ generation < MaxGeneration
    /\ generation' = generation + 1 /\ live' = TRUE
    /\ IF streamChanged
       THEN intent' = TRUE /\ isPlaying' = TRUE /\ request < MaxRequests /\ request' = request + 1
       ELSE UNCHANGED <<intent, request, isPlaying>>
    /\ RetireAll({})
    /\ SetOpen(generation', "closing")
    /\ tasks' = <<OpenTask>> /\ transition' = NoTransition
    /\ UNCHANGED <<created, playing, closeObserved, creation, failures, disturbed>>

\* The cleanup of the effect.
Unmount ==
    /\ live /\ generation < MaxGeneration
    /\ generation' = generation + 1 /\ live' = FALSE
    /\ RetireAll({})
    /\ tasks' = <<>> /\ transition' = NoTransition
    /\ UNCHANGED <<intent, request, isPlaying, created, playing, open, closeObserved,
                   creation, failures, disturbed>>

\* fencePlaybackFailure: retire first, then give the generation up.
FenceFailure(g) ==
    /\ generation < MaxGeneration
    /\ RetireAll(IF Iterator(g) \in created' THEN {Iterator(g)} ELSE {})
    /\ generation' = generation + 1 /\ live' = FALSE
    /\ intent' = FALSE /\ isPlaying' = FALSE /\ request' = request + 1
    /\ SetOpen(g, "none") /\ tasks' = <<>>

\* The task of setProgress goes on: its wait for the cleanup is over.
CleanupWaited(g) ==
    /\ open[g].stage = "closing" /\ IsCurrent(g)
    /\ IF Pending = {}
       THEN SetOpen(g, "iterating") /\ UNCHANGED <<isPlaying, tasks>>
       ELSE SetOpen(g, "none") /\ isPlaying' = FALSE /\ tasks' = Tail(tasks)
    /\ UNCHANGED <<generation, live, intent, request, streamListener, controls, handle,
                   created, playing, closeObserved, creation, transition, failures, disturbed>>

\* reconcilePlaybackRequest for the iterator: a round, which is over at once when the
\* iterator is as requested.
Publish(g) ==
    /\ streamListener' = Iterator(g) /\ isPlaying' = (Iterator(g) \in playing')
    /\ SetOpen(g, "none") /\ tasks' = Tail(tasks)

ReconcileIterator(g) ==
    IF (Iterator(g) \in playing) = intent
    THEN Publish(g)
    ELSE /\ open' = [open EXCEPT ![g] =
                [stage |-> "reconciling", request |-> request, play |-> intent]]
         /\ UNCHANGED <<streamListener, isPlaying, tasks>>

\* iterate has made the iterator, which is registered at once.
IteratorArrives(g) ==
    /\ open[g].stage = "iterating" /\ UNCHANGED playing
    /\ created' = created \cup {Iterator(g)}
    /\ IF CallbacksCurrent(g)
       THEN Register(Iterator(g)) /\ ReconcileIterator(g) /\ UNCHANGED controls
       ELSE IF IsCurrent(g)
       THEN /\ RetireAll({Iterator(g)}) /\ SetOpen(g, "retiring")
            /\ UNCHANGED <<isPlaying, tasks>>
       ELSE /\ Retire({Iterator(g)}) /\ SetOpen(g, "none")
            /\ UNCHANGED <<streamListener, controls, isPlaying, tasks>>
    /\ UNCHANGED <<generation, live, intent, request, closeObserved, creation, transition,
                   failures, disturbed>>

\* iterate, play or pause has failed.
OpenFails(g) ==
    /\ open[g].stage \in {"iterating", "reconciling"} /\ Fail
    /\ UNCHANGED created
    /\ IF IsCurrent(g) THEN FenceFailure(g)
       ELSE /\ SetOpen(g, "none") /\ Retire(created \cap {Iterator(g)})
            /\ UNCHANGED <<generation, live, intent, request, isPlaying, streamListener,
                           controls, tasks>>
    /\ UNCHANGED <<playing, closeObserved, creation, transition, disturbed>>

\* play or pause of the iterator has ended.
IteratorApplied(g) ==
    LET asRequested == open[g].request = request /\ open[g].play = intent
    IN
    /\ open[g].stage = "reconciling"
    /\ playing' = IF open[g].play THEN playing \cup {Iterator(g)} ELSE playing \ {Iterator(g)}
    /\ IF CallbacksCurrent(g)
       THEN /\ IF asRequested THEN Publish(g)
               ELSE SetOpen(g, "sleeping") /\ UNCHANGED <<streamListener, isPlaying, tasks>>
            /\ UNCHANGED <<controls, handle>>
       ELSE IF IsCurrent(g)
       THEN RetireAll({Iterator(g)}) /\ SetOpen(g, "retiring") /\ UNCHANGED <<isPlaying, tasks>>
       ELSE /\ Retire({Iterator(g)}) /\ SetOpen(g, "none")
            /\ UNCHANGED <<streamListener, controls, isPlaying, tasks>>
    /\ UNCHANGED <<generation, live, intent, request, created, closeObserved, creation,
                   transition, failures, disturbed>>

IteratorWakes(g) ==
    /\ open[g].stage = "sleeping" /\ UNCHANGED playing
    /\ IF CallbacksCurrent(g)
       THEN ReconcileIterator(g) /\ UNCHANGED <<controls, handle>>
       ELSE IF IsCurrent(g)
       THEN RetireAll({Iterator(g)}) /\ SetOpen(g, "retiring") /\ UNCHANGED <<isPlaying, tasks>>
       ELSE /\ Retire({Iterator(g)}) /\ SetOpen(g, "none")
            /\ UNCHANGED <<streamListener, controls, isPlaying, tasks>>
    /\ UNCHANGED <<generation, live, intent, request, created, closeObserved, creation,
                   transition, failures, disturbed>>

\* The task that found its stream ended has waited for the retirement.
OpenRetired(g) ==
    /\ open[g].stage = "retiring"
    /\ UNCHANGED created
    /\ IF IsCurrent(g) /\ Pending # {} THEN FenceFailure(g)
       ELSE /\ SetOpen(g, "none") /\ tasks' = IF IsCurrent(g) THEN Tail(tasks) ELSE tasks
            /\ UNCHANGED <<generation, live, intent, request, isPlaying, streamListener,
                           controls, handle>>
    /\ UNCHANGED <<playing, closeObserved, creation, transition, failures, disturbed>>

-----------------------------------------------------------------------------
\* onClose of the iterator: scheduleClose.
StreamEnds(g) ==
    /\ Iterator(g) \in created \/ open[g].stage = "iterating"
    /\ g \notin closeObserved /\ closeObserved' = closeObserved \cup {g}
    /\ tasks' = IF IsCurrent(g) THEN Append(tasks, CloseTask) ELSE tasks
    /\ UNCHANGED <<generation, live, intent, request, isPlaying, streamListener, controls,
                   handle, created, playing, open, creation, transition, failures, disturbed>>

\* Its task: what is open is retired, and then the page has stopped.
CloseStarts ==
    /\ Runs("close") /\ transition.stage = "none"
    /\ IF live /\ Iterator(generation) \in created
       THEN /\ RetireAll({Iterator(generation)})
            /\ transition' = [NoTransition EXCEPT !.stage = "close"]
            /\ UNCHANGED tasks
       ELSE tasks' = Tail(tasks) /\ UNCHANGED <<streamListener, controls, handle, transition>>
    /\ UNCHANGED <<generation, live, intent, request, isPlaying, created, playing, open,
                   closeObserved, creation, failures, disturbed>>

CloseEnds ==
    /\ transition.stage = "close"
    /\ transition' = NoTransition /\ tasks' = Tail(tasks)
    /\ IF Pending = {}
       THEN intent' = FALSE /\ request' = request + 1 /\ isPlaying' = FALSE
       ELSE UNCHANGED <<intent, request, isPlaying>>
    /\ UNCHANGED <<generation, live, streamListener, controls, handle, created, playing,
                   open, closeObserved, creation, failures, disturbed>>

-----------------------------------------------------------------------------
\* processChunk: without a control one is created, once the cleanup has settled.
ChunkArrives(g) ==
    /\ CallbacksCurrent(g) /\ Iterator(g) \in created /\ controls = {}
    /\ creation[g].stage = "none"
    /\ SetCreation(g, "settling")
    /\ UNCHANGED <<generation, live, intent, request, isPlaying, streamListener, controls,
                   handle, created, playing, open, closeObserved, tasks, transition, failures, disturbed>>

\* The control refuses a chunk.
PushFails(c) ==
    /\ c \in controls /\ Fail
    /\ controls' = controls \ {c} /\ Retire({c})
    /\ UNCHANGED <<generation, live, intent, request, isPlaying, streamListener, created,
                   playing, open, closeObserved, creation, tasks, transition, disturbed>>

Unborn == {k \in 1..MaxControls : <<"control", k>> \notin created}
NextControl == <<"control", CHOOSE k \in Unborn : \A l \in Unborn : k <= l>>

\* A round of reconcilePlaybackRequest for the control c.
ReconcileControl(g, c) ==
    creation' = [creation EXCEPT ![g] =
        [stage |-> "reconciling", control |-> c, request |-> request, play |-> intent]]

\* ensureViewerCleanupSettled has waited.
CleanupSettled(g) ==
    /\ creation[g].stage = "settling"
    /\ IF Pending # {} \/ ~CallbacksCurrent(g)
       THEN SetCreation(g, "none") /\ UNCHANGED <<handle, created, playing>>
       ELSE /\ Unborn # {}
            /\ created' = created \cup {NextControl} /\ Register(NextControl)
            /\ playing' = IF intent THEN playing \cup {NextControl} ELSE playing
            /\ ReconcileControl(g, NextControl)
    /\ UNCHANGED <<generation, live, intent, request, isPlaying, streamListener, controls,
                   open, closeObserved, tasks, transition, failures, disturbed>>

\* retireCandidate, which the creation waits for.
RetireCandidate(g) ==
    /\ controls' = controls \ {creation[g].control}
    /\ Retire({creation[g].control})
    /\ SetCreation(g, "retiring")

\* play or pause of the new control has ended.
MutControlApplied(g) ==
    LET c == creation[g].control
    IN
    /\ creation[g].stage = "reconciling"
    /\ playing' = IF creation[g].play THEN playing \cup {c} ELSE playing \ {c}
    /\ IF ~CallbacksCurrent(g) THEN RetireCandidate(g)
       ELSE /\ controls' = controls \cup {c}
            /\ creation' = [creation EXCEPT ![g] = NoCreation]
            /\ UNCHANGED handle
    /\ UNCHANGED <<generation, live, intent, request, isPlaying, streamListener, created,
                   open, closeObserved, tasks, transition, failures, disturbed>>

ControlApplied(g) ==
    LET c == creation[g].control
        asRequested == creation[g].request = request /\ creation[g].play = intent
    IN
    /\ creation[g].stage = "reconciling"
    /\ playing' = IF creation[g].play THEN playing \cup {c} ELSE playing \ {c}
    /\ IF ~CallbacksCurrent(g) THEN RetireCandidate(g)
       ELSE IF ~asRequested THEN SetCreation(g, "sleeping") /\ UNCHANGED <<controls, handle>>
       ELSE IF c \notin Owned \/ controls # {} THEN RetireCandidate(g)
       ELSE /\ controls' = controls \cup {c}
            /\ creation' = [creation EXCEPT ![g] = NoCreation]
            /\ UNCHANGED handle
    /\ UNCHANGED <<generation, live, intent, request, isPlaying, streamListener, created,
                   open, closeObserved, tasks, transition, failures, disturbed>>

ControlWakes(g) ==
    /\ creation[g].stage = "sleeping"
    /\ IF CallbacksCurrent(g)
       THEN ReconcileControl(g, creation[g].control) /\ UNCHANGED <<controls, handle>>
       ELSE RetireCandidate(g)
    /\ UNCHANGED <<generation, live, intent, request, isPlaying, streamListener, created,
                   playing, open, closeObserved, tasks, transition, failures, disturbed>>

ControlFails(g) ==
    /\ creation[g].stage = "reconciling" /\ Fail
    /\ RetireCandidate(g)
    /\ UNCHANGED <<generation, live, intent, request, isPlaying, streamListener, created,
                   playing, open, closeObserved, tasks, transition, disturbed>>

CreationEnds(g) ==
    /\ creation[g].stage = "retiring"
    /\ creation' = [creation EXCEPT ![g] = NoCreation]
    /\ UNCHANGED <<generation, live, intent, request, isPlaying, streamListener, controls,
                   handle, created, playing, open, closeObserved, tasks, transition,
                   failures, disturbed>>

-----------------------------------------------------------------------------
\* setPlaybackState queues a task.
SetPlaybackState(play) ==
    /\ request < MaxRequests /\ request' = request + 1
    /\ intent' = play
    /\ tasks' = Append(tasks, StateTask(request', play))
    /\ UNCHANGED <<generation, live, isPlaying, streamListener, controls, handle, created,
                   playing, open, closeObserved, creation, transition, failures, disturbed>>

\* Everything that is published is told to play or to pause.
TransitionStarts ==
    /\ Runs("state") /\ transition.stage = "none"
    /\ IF Head(tasks).request = request /\ streamListener # NoHandle
       THEN /\ transition' = [stage |-> "applying", targets |-> {streamListener} \cup controls,
                              previous |-> streamListener \in playing]
            /\ UNCHANGED <<intent, isPlaying, tasks>>
       ELSE /\ tasks' = Tail(tasks) /\ UNCHANGED transition
            /\ IF Head(tasks).request = request
               THEN intent' = FALSE /\ isPlaying' = FALSE
               ELSE UNCHANGED <<intent, isPlaying>>
    /\ UNCHANGED <<generation, live, request, streamListener, controls, handle, created,
                   playing, open, closeObserved, creation, failures, disturbed>>

Applied(handles, play) == IF play THEN playing \cup handles ELSE playing \ handles

\* All of them have answered; those that have failed stay as they are.
TransitionEnds(failed) ==
    LET task == Head(tasks)
    IN
    /\ transition.stage = "applying" /\ failed \subseteq transition.targets
    /\ playing' = Applied(transition.targets \ failed, task.play)
    /\ IF failed = {}
       THEN /\ isPlaying' = IF task.request = request THEN task.play ELSE isPlaying
            /\ transition' = NoTransition /\ tasks' = Tail(tasks)
            /\ UNCHANGED <<failures, disturbed>>
       ELSE /\ Fail /\ disturbed' = IF disturbed = "no" THEN "transition" ELSE disturbed
            /\ transition' = [transition EXCEPT !.stage = "rollback", !.targets = @ \cup controls]
            /\ UNCHANGED <<isPlaying, tasks>>
    /\ UNCHANGED <<generation, live, intent, request, streamListener, controls, handle,
                   created, open, closeObserved, creation>>

\* They are told to do what they did before, with those that came in between.
RollbackEnds(failed) ==
    LET task == Head(tasks)
        reconciled == streamListener \in playing'
    IN
    /\ transition.stage = "rollback" /\ failed \subseteq transition.targets
    /\ playing' = Applied(transition.targets \ failed, transition.previous)
    /\ IF failed = {} THEN UNCHANGED <<failures, disturbed>>
       ELSE Fail /\ disturbed' = "rollback"
    /\ IF task.request = request
       THEN intent' = reconciled /\ isPlaying' = reconciled
       ELSE UNCHANGED <<intent, isPlaying>>
    /\ transition' = NoTransition /\ tasks' = Tail(tasks)
    /\ UNCHANGED <<generation, live, request, streamListener, controls, handle, created,
                   open, closeObserved, creation>>

-----------------------------------------------------------------------------
\* The coordinator has closed a handle.
HandleCloses(h) ==
    /\ CloseHandle(h)
    /\ UNCHANGED <<generation, live, intent, request, isPlaying, streamListener, controls,
                   created, playing, open, closeObserved, creation, tasks, transition,
                   failures, disturbed>>

OpenStep(g) ==
    \/ CleanupWaited(g) \/ IteratorArrives(g) \/ OpenFails(g) \/ IteratorApplied(g)
    \/ IteratorWakes(g) \/ OpenRetired(g)
CreationStep(g) ==
    \/ ChunkArrives(g) \/ CleanupSettled(g) \/ ControlApplied(g) \/ ControlWakes(g)
    \/ ControlFails(g) \/ CreationEnds(g)

ViewerNext ==
    \/ \E streamChanged \in BOOLEAN : SetProgress(streamChanged)
    \/ Unmount
    \/ \E g \in Generations : OpenStep(g) \/ CreationStep(g) \/ StreamEnds(g)
    \/ CloseStarts \/ CloseEnds
    \/ \E c \in Controls : PushFails(c)
    \/ \E play \in BOOLEAN : SetPlaybackState(play)
    \/ TransitionStarts
    \/ \E failed \in SUBSET transition.targets : TransitionEnds(failed) \/ RollbackEnds(failed)
    \/ \E h \in ViewerHandles : HandleCloses(h)

ViewerSpec == ViewerInit /\ [][ViewerNext]_viewerVars

-----------------------------------------------------------------------------
\* Every handle that was made is in somebody's hands: it is owned by the viewer only
\* while its generation plays, and from then on it is the cleanup's, whatever seek,
\* failure, end of stream or unmounting has overtaken the call that made it.  There
\* is one decoder for the track: a control that is not closed yet is not replaced,
\* neither by a later seek nor after a failed chunk.
NothingStrays ==
    /\ \A h \in created : handle[h] # "unborn"
    /\ Owned # {} => live
    /\ \A g \in Generations : Iterator(g) \in Owned => g = generation
    /\ controls \cup ({streamListener} \ {NoHandle}) \subseteq Owned
    /\ \A c, d \in Controls \cap In({"owned", "retired"}) : c = d

Settled ==
    /\ live /\ streamListener # NoHandle /\ tasks = <<>>
    /\ creation[generation].stage = "none"
Coherent ==
    /\ isPlaying = intent
    /\ \A h \in {streamListener} \cup controls : (h \in playing) = intent

\* When everything has settled, the iterator and the controls play or are paused as
\* was requested last and as the page shows, in whatever order requests, the opening
\* of the stream and the creation of controls have ended.
PlaybackIsCoherent == Settled /\ disturbed = "no" => Coherent

\* View.tsx says that a transition that fails puts every resource, including a
\* control that was created meanwhile, back into the prior coherent state.
RollbackIsCoherent == Settled /\ disturbed # "rollback" => Coherent
=============================================================================
