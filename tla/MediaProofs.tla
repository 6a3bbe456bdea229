----------------------------- MODULE MediaProofs -----------------------------
(***************************************************************************)
(* Proofs about the parts of the video pages and of the library that they  *)
(* stream with: the playback of a viewer, for any number of seeks and      *)
(* controls; the cleanup of its resources, for any number of owners and    *)
(* resources; and the leases of the tracks of a stream, for any number of  *)
(* tracks, viewers and monitors.                                           *)
(***************************************************************************)
EXTENDS ViewerPlayback, DurableCleanup, MediaTrackLeases, SequenceFacts,
        FiniteSetTheorems, TLAPS

-----------------------------------------------------------------------------
(* The playback of a viewer.                                               *)

\* The variables of the viewer.
OpenStages == {"none", "closing", "iterating", "reconciling", "sleeping", "retiring"}
CreationStages == {"none", "settling", "reconciling", "sleeping", "retiring"}
Opens == [stage : OpenStages, request : Nat, play : BOOLEAN]
Creations == [stage : CreationStages, control : Controls \cup {NoHandle}, request : Nat,
              play : BOOLEAN]
Tasks == [kind : {"open", "close", "state"}, request : Nat, play : BOOLEAN]
Transitions == [stage : {"none", "close", "applying", "rollback"},
                targets : SUBSET ViewerHandles, previous : BOOLEAN]
ViewerShape ==
    /\ generation \in Generations /\ live \in BOOLEAN /\ intent \in BOOLEAN
    /\ request \in Nat /\ isPlaying \in BOOLEAN /\ controls \in SUBSET Controls
    /\ streamListener \in {Iterator(g) : g \in Generations} \cup {NoHandle}
    /\ handle \in [ViewerHandles -> HandleStages]
    /\ created \in SUBSET ViewerHandles /\ playing \in SUBSET ViewerHandles
    /\ open \in [Generations -> Opens] /\ closeObserved \in SUBSET Generations
    /\ creation \in [Generations -> Creations] /\ tasks \in Seq(Tasks)
    /\ transition \in Transitions /\ failures \in Nat
    /\ disturbed \in {"no", "transition", "rollback"}

\* The generation of a viewer that is live owns what it has created and published.
OwnedByPlayback ==
    /\ \A h \in created : handle[h] # "unborn"
    /\ Owned \subseteq created
    /\ Owned # {} => live
    /\ \A g \in Generations : Iterator(g) \in Owned => g = generation
    /\ controls \subseteq Owned /\ (streamListener # NoHandle => streamListener \in Owned)
    /\ \A c, d \in Controls \cap In({"owned", "retired"}) : c = d

\* The task that opens the stream is the first one, and nothing is published before it
\* is done; what it has made is owned until the stream ends.
OpensFirst ==
    /\ live /\ open[generation].stage # "none" =>
           tasks # <<>> /\ Head(tasks).kind = "open" /\ streamListener = NoHandle
    /\ \A g \in Generations :
           CallbacksCurrent(g) /\ open[g].stage \in {"reconciling", "sleeping"} =>
               Iterator(g) \in Owned
    /\ \A i \in 1 .. Len(tasks) : tasks[i].kind = "close" => live /\ generation \in closeObserved

\* A control that is owned is published, or the generation of now is creating it.
Making == {"reconciling", "sleeping"}
CreatesOne ==
    /\ \A g \in Generations : creation[g].stage \in Making =>
           /\ creation[g].control \in created \cap Controls
           /\ ~IsCurrent(g) => creation[g].control \notin Owned
    /\ live /\ creation[generation].stage # "none" => controls = {}
    /\ \A c \in Controls \cap Owned : c \notin controls =>
           creation[generation].stage \in Making /\ creation[generation].control = c

\* The requests are queued in order, and the last one is what is wanted.
RequestsInOrder ==
    /\ \A i \in 1 .. Len(tasks) : tasks[i].kind = "state" =>
           /\ tasks[i].request <= request
           /\ tasks[i].request = request => tasks[i].play = intent
    /\ \A i, j \in 1 .. Len(tasks) :
           i < j /\ tasks[i].kind = "state" /\ tasks[j].kind = "state" =>
               tasks[i].request < tasks[j].request
Due == \E i \in 1 .. Len(tasks) : tasks[i].kind = "state" /\ tasks[i].request = request

\* What the transition that runs is about, which is the first task.
TransitionRuns ==
    /\ transition.stage = "close" =>
           /\ live /\ tasks # <<>> /\ Head(tasks).kind = "close"
           /\ streamListener = NoHandle /\ controls = {}
    /\ transition.stage \in {"applying", "rollback"} =>
           live /\ tasks # <<>> /\ Head(tasks).kind = "state"
    /\ transition.stage = "rollback" => disturbed # "no"
    /\ transition.stage = "applying" =>
           /\ Due /\ (streamListener # NoHandle => streamListener \in transition.targets)
           /\ Head(tasks).request = request =>
                  \A c \in controls \ transition.targets : (c \in playing) = intent

\* What is published does what was requested last, unless a request is still to be done.
ControlsDo == \A c \in controls : (c \in playing) = intent
ListenerDoes == streamListener # NoHandle =>
                    isPlaying = intent /\ (streamListener \in playing) = intent
DoesAsRequested ==
    live /\ disturbed = "no" /\ ~Due =>
        \/ open[generation].stage = "none" /\ streamListener = NoHandle
        \/ ControlsDo /\ ListenerDoes

\* The inductive invariant.
ViewerInv ==
    /\ ViewerShape /\ OwnedByPlayback /\ OpensFirst /\ CreatesOne /\ RequestsInOrder
    /\ TransitionRuns /\ DoesAsRequested

\* What the variables of the viewer range over.
Held == Controls \cap In({"owned", "retired"})

\* Iterators and controls are not to be confused.
LEMMA HandleNames ==
    /\ \A g \in Generations : Iterator(g) \in ViewerHandles \ Controls /\ Iterator(g) # NoHandle
    /\ \A f, g \in Generations : Iterator(f) = Iterator(g) => f = g
    /\ Controls \subseteq ViewerHandles /\ NoHandle \notin ViewerHandles
    /\ \A k \in 1 .. MaxControls : <<"control", k>> \in Controls
BY DEF ViewerHandles, Controls, Iterator, NoHandle

\* What retiring does.
LEMMA RetireDoes ==
    ASSUME ViewerShape, NEW S, Retire(S)
    PROVE  /\ handle' \in [ViewerHandles -> HandleStages]
           /\ Owned' = Owned \ S
           /\ \A h \in ViewerHandles : handle[h] # "unborn" \/ h \in S => handle'[h] # "unborn"
           /\ (\A h \in S \cap Controls : handle[h] # "unborn") => Held' \subseteq Held
<1>1. handle' = RetiredWith(S) /\ handle \in [ViewerHandles -> HandleStages]
  BY DEF Retire, ViewerShape
<1>2. /\ handle' \in [ViewerHandles -> HandleStages]
      /\ \A h \in ViewerHandles :
             handle'[h] = IF h \in S /\ handle[h] \in {"unborn", "owned"}
                          THEN "retired" ELSE handle[h]
  BY <1>1 DEF RetiredWith, HandleStages
<1>3. Owned' = Owned \ S
  BY <1>1, <1>2 DEF Owned, In, HandleStages
<1>4. \A h \in ViewerHandles : handle[h] # "unborn" \/ h \in S => handle'[h] # "unborn"
  BY <1>1, <1>2 DEF HandleStages
<1>5. (\A h \in S \cap Controls : handle[h] # "unborn") => Held' \subseteq Held
  BY <1>1, <1>2, HandleNames DEF Held, In, HandleStages
<1>. QED
  BY <1>2, <1>3, <1>4, <1>5

\* What registering does.
LEMMA RegisterDoes ==
    ASSUME ViewerShape, NEW k \in ViewerHandles, Register(k)
    PROVE  /\ handle' \in [ViewerHandles -> HandleStages]
           /\ Owned' = Owned \cup {k}
           /\ \A h \in ViewerHandles : handle[h] # "unborn" \/ h = k => handle'[h] # "unborn"
           /\ Held' = Held \cup (Controls \cap {k})
<1>1. /\ handle' = [handle EXCEPT ![k] = "owned"] /\ handle[k] \in {"unborn", "owned"}
      /\ handle \in [ViewerHandles -> HandleStages]
  BY DEF Register, ViewerShape
<1>2. /\ handle' \in [ViewerHandles -> HandleStages]
      /\ \A h \in ViewerHandles : handle'[h] = IF h = k THEN "owned" ELSE handle[h]
  BY <1>1 DEF HandleStages
<1>3. Owned' = Owned \cup {k}
  BY <1>1, <1>2 DEF Owned, In
<1>4. Held' = Held \cup (Controls \cap {k})
  BY <1>1, <1>2, HandleNames DEF Held, In
<1>. QED
  BY <1>2, <1>3, <1>4

\* What the coordinator keeps is all that these parts of the invariant say of handles.
LEMMA FrameOwned ==
    ASSUME OwnedByPlayback,
           UNCHANGED <<created, handle, live, generation, controls, streamListener>>
    PROVE  OwnedByPlayback'
<1>1. /\ created' = created /\ handle' = handle /\ live' = live /\ generation' = generation
      /\ controls' = controls /\ streamListener' = streamListener
  OBVIOUS
<1>. QED
  BY <1>1 DEF OwnedByPlayback, Owned, In

LEMMA FrameOpens ==
    ASSUME OpensFirst,
           UNCHANGED <<live, generation, open, tasks, streamListener, closeObserved, handle>>
    PROVE  OpensFirst'
<1>1. /\ open' = open /\ handle' = handle /\ live' = live /\ generation' = generation
      /\ tasks' = tasks /\ streamListener' = streamListener /\ closeObserved' = closeObserved
  OBVIOUS
<1>. QED
  BY <1>1 DEF OpensFirst, Owned, In, CallbacksCurrent, IsCurrent

LEMMA FrameCreates ==
    ASSUME CreatesOne, UNCHANGED <<live, generation, creation, created, handle, controls>>
    PROVE  CreatesOne'
<1>1. /\ creation' = creation /\ handle' = handle /\ live' = live /\ generation' = generation
      /\ created' = created /\ controls' = controls
  OBVIOUS
<1>. QED
  BY <1>1 DEF CreatesOne, Owned, In, IsCurrent, Making

LEMMA FrameRequests ==
    ASSUME RequestsInOrder, UNCHANGED <<tasks, request, intent>>
    PROVE  RequestsInOrder'
BY DEF RequestsInOrder

LEMMA FrameTransition ==
    ASSUME TransitionRuns, UNCHANGED <<transition, live, tasks, streamListener, controls, disturbed,
                                       request, intent, playing>>
    PROVE  TransitionRuns'
<1>1. /\ transition' = transition /\ live' = live /\ tasks' = tasks /\ playing' = playing
      /\ streamListener' = streamListener /\ controls' = controls /\ disturbed' = disturbed
      /\ request' = request /\ intent' = intent
  OBVIOUS
<1>. QED
  BY <1>1 DEF TransitionRuns, Due

LEMMA FrameDoes ==
    ASSUME DoesAsRequested, UNCHANGED <<live, disturbed, tasks, request, generation, open,
                                        streamListener, controls, playing, intent, isPlaying>>
    PROVE  DoesAsRequested'
<1>1. /\ open' = open /\ live' = live /\ tasks' = tasks /\ playing' = playing
      /\ streamListener' = streamListener /\ controls' = controls /\ disturbed' = disturbed
      /\ request' = request /\ intent' = intent /\ isPlaying' = isPlaying
      /\ generation' = generation
  OBVIOUS
<1>. QED
  BY <1>1 DEF DoesAsRequested, Due, ControlsDo, ListenerDoes

\* Once everything is retired there is nothing that could be wrong with it.
LEMMA AllRetired ==
    ASSUME ViewerInv, NEW S \in SUBSET (ViewerHandles \ Controls), RetireAll(S),
           created' \in SUBSET ViewerHandles,
           created \subseteq created', created' \subseteq created \cup S
    PROVE  /\ handle' \in [ViewerHandles -> HandleStages]
           /\ streamListener' = NoHandle /\ controls' = {} /\ Owned' = {}
           /\ OwnedByPlayback'
           /\ creation' = creation => CreatesOne'
           /\ DoesAsRequested'
<1>1. /\ streamListener' = NoHandle /\ controls' = {} /\ Retire(Owned \cup S)
  BY DEF RetireAll
<1>2. /\ handle' \in [ViewerHandles -> HandleStages] /\ Owned' = Owned \ (Owned \cup S)
      /\ \A h \in ViewerHandles : handle[h] # "unborn" \/ h \in Owned \cup S => handle'[h] # "unborn"
      /\ (\A h \in (Owned \cup S) \cap Controls : handle[h] # "unborn") => Held' \subseteq Held
  BY <1>1, RetireDoes DEF ViewerInv
<1>3. Owned' = {}
  BY <1>2
<1>4. Owned \subseteq created /\ \A h \in created : handle[h] # "unborn"
  BY DEF ViewerInv, OwnedByPlayback
<1>5. Held' \subseteq Held /\ \A c, d \in Held : c = d
  BY <1>2, <1>4 DEF ViewerInv, OwnedByPlayback, Held
<1>6. OwnedByPlayback'
  <2>1. \A h \in created' : handle'[h] # "unborn"
    BY <1>2, <1>4
  <2>2. \A c, d \in Controls \cap In({"owned", "retired"})' : c = d
    BY <1>5 DEF Held
  <2>. QED
    BY <2>1, <2>2, <1>1, <1>3 DEF OwnedByPlayback
<1>7. ASSUME creation' = creation PROVE CreatesOne'
  BY <1>1, <1>3, <1>7 DEF CreatesOne, ViewerInv
<1>8. DoesAsRequested'
  BY <1>1 DEF DoesAsRequested, ControlsDo, ListenerDoes
<1>. QED
  BY <1>1, <1>2, <1>3, <1>6, <1>7, <1>8

\* What a step of the task that opens the stream, or of the creation of a control, changes.
LEMMA SetOpenDoes ==
    ASSUME ViewerShape, NEW g \in Generations, NEW s \in OpenStages, SetOpen(g, s)
    PROVE  /\ open' \in [Generations -> Opens]
           /\ open'[g].stage = s
           /\ \A f \in Generations : f # g => open'[f] = open[f]
BY DEF ViewerShape, SetOpen, Opens

LEMMA SetCreationDoes ==
    ASSUME ViewerShape, NEW g \in Generations, NEW s \in CreationStages, SetCreation(g, s)
    PROVE  /\ creation' \in [Generations -> Creations]
           /\ creation'[g].stage = s /\ creation'[g].control = creation[g].control
           /\ \A f \in Generations : f # g => creation'[f] = creation[f]
BY DEF ViewerShape, SetCreation, Creations

LEMMA OpenReconciles ==
    ASSUME ViewerShape, NEW g \in Generations,
           open' = [open EXCEPT ![g] = [stage |-> "reconciling", request |-> request, play |-> intent]]
    PROVE  /\ open' \in [Generations -> Opens]
           /\ open'[g].stage = "reconciling"
           /\ \A f \in Generations : f # g => open'[f] = open[f]
BY DEF ViewerShape, Opens, OpenStages

\* The first task is done, or one is added.
LEMMA TaskDone ==
    ASSUME ViewerShape, RequestsInOrder, tasks # <<>>, tasks' = Tail(tasks)
    PROVE  /\ tasks' \in Seq(Tasks)
           /\ request' = request /\ intent' = intent => RequestsInOrder'
           /\ \A i \in 1 .. Len(tasks') : i + 1 \in 1 .. Len(tasks) /\ tasks'[i] = tasks[i + 1]
           /\ Head(tasks).kind # "state" \/ Head(tasks).request # request =>
                  (request' = request /\ Due => Due')
<1>1. tasks \in Seq(Tasks)
  BY DEF ViewerShape
<1>2. /\ tasks' \in Seq(Tasks) /\ Len(tasks') = Len(tasks) - 1 /\ Len(tasks) \in Nat
      /\ Head(tasks) = tasks[1]
      /\ \A i \in 1 .. Len(tasks') : i + 1 \in 1 .. Len(tasks) /\ tasks'[i] = tasks[i + 1]
  BY <1>1
<1>3. \A i, j \in 1 .. Len(tasks') : i < j => i + 1 < j + 1
  BY <1>2
<1>4. ASSUME request' = request, intent' = intent PROVE RequestsInOrder'
  <2>1. \A i \in 1 .. Len(tasks') : tasks'[i].kind = "state" =>
           /\ tasks'[i].request <= request'
           /\ tasks'[i].request = request' => tasks'[i].play = intent'
    BY <1>2, <1>4 DEF RequestsInOrder
  <2>2. \A i, j \in 1 .. Len(tasks') :
           i < j /\ tasks'[i].kind = "state" /\ tasks'[j].kind = "state" =>
               tasks'[i].request < tasks'[j].request
    BY <1>2, <1>3 DEF RequestsInOrder
  <2>. QED
    BY <2>1, <2>2 DEF RequestsInOrder
<1>5. ASSUME Head(tasks).kind # "state" \/ Head(tasks).request # request, request' = request, Due
      PROVE  Due'
  <2>1. PICK i \in 1 .. Len(tasks) : tasks[i].kind = "state" /\ tasks[i].request = request
    BY <1>5 DEF Due
  <2>2. i # 1
    BY <2>1, <1>2, <1>5
  <2>3. i - 1 \in 1 .. Len(tasks') /\ tasks'[i - 1] = tasks[i]
    BY <2>1, <2>2, <1>2
  <2>. QED
    BY <2>1, <2>3, <1>5 DEF Due
<1>. QED
  BY <1>2, <1>4, <1>5

LEMMA TaskAdded ==
    ASSUME ViewerShape, NEW t \in Tasks, tasks' = Append(tasks, t)
    PROVE  /\ tasks' \in Seq(Tasks) /\ tasks' # <<>> /\ Len(tasks) \in Nat
           /\ tasks # <<>> => Head(tasks') = Head(tasks)
           /\ tasks = <<>> => Head(tasks') = t
           /\ Len(tasks') = Len(tasks) + 1 /\ tasks'[Len(tasks')] = t
           /\ \A i \in 1 .. Len(tasks) : tasks'[i] = tasks[i]
           /\ \A i \in 1 .. Len(tasks') : i \in 1 .. Len(tasks) \/ i = Len(tasks')
BY DEF ViewerShape

\* Nothing is there at first.
LEMMA ViewerStarts == ViewerInit => ViewerInv
<1>. SUFFICES ASSUME ViewerInit PROVE ViewerInv
  OBVIOUS
<1>1. ViewerShape
  <2>1. live \in BOOLEAN /\ intent \in BOOLEAN /\ isPlaying \in BOOLEAN
    BY Zenon DEF ViewerInit
  <2>2. NotOpen \in Opens /\ NoCreation \in Creations /\ NoTransition \in Transitions
    BY DEF NotOpen, NoCreation, NoTransition, Opens, OpenStages, Creations, CreationStages,
           Transitions
  <2>3. generation \in Generations
    BY ViewerAssumption DEF ViewerInit, Generations
  <2>. QED
    BY <2>1, <2>2, <2>3 DEF ViewerInit, ViewerShape, HandlesInit, HandleStages
<1>2. Owned = {} /\ In({"owned", "retired"}) = {}
  BY DEF ViewerInit, HandlesInit, Owned, In
<1>3. OwnedByPlayback /\ CreatesOne
  BY <1>1, <1>2 DEF ViewerInit, OwnedByPlayback, CreatesOne, NoCreation, Making
<1>4. OpensFirst /\ RequestsInOrder /\ TransitionRuns /\ DoesAsRequested
  BY DEF ViewerInit, OpensFirst, RequestsInOrder, TransitionRuns, DoesAsRequested, NotOpen,
         NoTransition, ControlsDo, ListenerDoes, CallbacksCurrent, IsCurrent
<1>. QED
  BY <1>1, <1>3, <1>4 DEF ViewerInv

\* A seek retires what there is, and its task is the only one.
LEMMA SetProgressKeeps ==
    ASSUME ViewerInv, NEW streamChanged \in BOOLEAN, SetProgress(streamChanged)
    PROVE  ViewerInv'
<1>1. /\ generation' = generation + 1 /\ live' = TRUE /\ RetireAll({})
      /\ SetOpen(generation', "closing") /\ tasks' = <<OpenTask>> /\ transition' = NoTransition
      /\ created' = created /\ playing' = playing /\ closeObserved' = closeObserved
      /\ creation' = creation /\ failures' = failures /\ disturbed' = disturbed
  BY DEF SetProgress
<1>2. live' \in BOOLEAN /\ intent' \in BOOLEAN /\ isPlaying' \in BOOLEAN /\ request' \in Nat
  <2>1. CASE streamChanged
    <3>1. live' = TRUE /\ intent' = TRUE /\ isPlaying' = TRUE
      BY <2>1, Zenon DEF SetProgress
    <3>2. request' = request + 1
      BY <2>1 DEF SetProgress
    <3>3. request' \in Nat
      BY <3>2 DEF ViewerInv, ViewerShape
    <3>. QED
      BY <3>1, <3>3, Zenon
  <2>2. CASE ~streamChanged
    BY <2>2, Zenon DEF SetProgress, ViewerInv, ViewerShape
  <2>. QED
    BY <2>1, <2>2
<1>3. generation' \in Generations
  BY <1>1, ViewerAssumption DEF SetProgress, ViewerInv, ViewerShape, Generations
<1>4. /\ handle' \in [ViewerHandles -> HandleStages]
      /\ streamListener' = NoHandle /\ controls' = {} /\ Owned' = {}
      /\ OwnedByPlayback' /\ CreatesOne' /\ DoesAsRequested'
  BY <1>1, AllRetired DEF ViewerInv, ViewerShape
<1>5. open' \in [Generations -> Opens] /\ open'[generation'].stage = "closing"
  BY <1>1, <1>3, SetOpenDoes DEF OpenStages, ViewerInv
<1>6. /\ tasks' \in Seq(Tasks) /\ Len(tasks') = 1 /\ tasks' # <<>>
      /\ tasks'[1].kind = "open" /\ Head(tasks').kind = "open"
  BY <1>1 DEF OpenTask, Tasks
<1>7. ViewerShape'
  BY <1>1, <1>2, <1>3, <1>4, <1>5, <1>6 DEF ViewerInv, ViewerShape, NoTransition, Transitions
<1>8. OpensFirst'
  BY <1>1, <1>4, <1>5, <1>6 DEF OpensFirst, CallbacksCurrent, IsCurrent
<1>9. RequestsInOrder'
  BY <1>6 DEF RequestsInOrder
<1>10. TransitionRuns'
  BY <1>1 DEF TransitionRuns, NoTransition
<1>. QED
  BY <1>4, <1>7, <1>8, <1>9, <1>10 DEF ViewerInv

LEMMA UnmountKeeps ==
    ASSUME ViewerInv, Unmount
    PROVE  ViewerInv'
<1>1. /\ generation' = generation + 1 /\ live' = FALSE /\ RetireAll({})
      /\ tasks' = <<>> /\ transition' = NoTransition /\ intent' = intent /\ request' = request
      /\ isPlaying' = isPlaying /\ open' = open
      /\ created' = created /\ playing' = playing /\ closeObserved' = closeObserved
      /\ creation' = creation /\ failures' = failures /\ disturbed' = disturbed
  BY DEF Unmount
<1>2. generation' \in Generations
  BY <1>1, ViewerAssumption DEF Unmount, ViewerInv, ViewerShape, Generations
<1>3. /\ handle' \in [ViewerHandles -> HandleStages]
      /\ streamListener' = NoHandle /\ controls' = {} /\ Owned' = {}
      /\ OwnedByPlayback' /\ CreatesOne' /\ DoesAsRequested'
  BY <1>1, AllRetired DEF ViewerInv, ViewerShape
<1>4. ViewerShape'
  <2>1. live' \in BOOLEAN
    BY <1>1, Zenon
  <2>. QED
    BY <1>1, <1>2, <1>3, <2>1 DEF ViewerInv, ViewerShape, NoTransition, Transitions
<1>5. OpensFirst'
  BY <1>1 DEF OpensFirst, CallbacksCurrent, IsCurrent
<1>6. RequestsInOrder'
  BY <1>1 DEF RequestsInOrder
<1>7. TransitionRuns'
  BY <1>1 DEF TransitionRuns, NoTransition
<1>. QED
  BY <1>3, <1>4, <1>5, <1>6, <1>7 DEF ViewerInv

\* The failure of the generation of now retires what there is and gives it up.
LEMMA FenceKeeps ==
    ASSUME ViewerInv, NEW g \in Generations, IsCurrent(g), open[g].stage # "none", FenceFailure(g),
           UNCHANGED <<created, playing, closeObserved, creation, transition, disturbed>>,
           failures' \in Nat
    PROVE  ViewerInv'
<1>. DEFINE S == IF Iterator(g) \in created' THEN {Iterator(g)} ELSE {}
<1>1. /\ generation' = generation + 1 /\ live' = FALSE /\ RetireAll(S)
      /\ tasks' = <<>> /\ intent' = FALSE /\ isPlaying' = FALSE /\ request' = request + 1
      /\ SetOpen(g, "none") /\ transition' = transition
      /\ created' = created /\ playing' = playing /\ closeObserved' = closeObserved
      /\ creation' = creation /\ disturbed' = disturbed
  BY DEF FenceFailure
<1>2. S \in SUBSET (ViewerHandles \ Controls)
  BY HandleNames
<1>. HIDE DEF S
<1>3. generation' \in Generations
  BY <1>1, ViewerAssumption DEF FenceFailure, ViewerInv, ViewerShape, Generations
<1>4. /\ handle' \in [ViewerHandles -> HandleStages]
      /\ streamListener' = NoHandle /\ controls' = {} /\ Owned' = {}
      /\ OwnedByPlayback' /\ CreatesOne' /\ DoesAsRequested'
  BY <1>1, <1>2, AllRetired DEF ViewerInv, ViewerShape
<1>5. open' \in [Generations -> Opens]
  BY <1>1, SetOpenDoes DEF OpenStages, ViewerInv
<1>6. transition.stage = "none"
  BY DEF ViewerInv, ViewerShape, OpensFirst, TransitionRuns, Transitions, IsCurrent
<1>7. ViewerShape'
  <2>1. live' \in BOOLEAN /\ intent' \in BOOLEAN /\ isPlaying' \in BOOLEAN
    BY <1>1, Zenon
  <2>. QED
    BY <1>1, <1>3, <1>4, <1>5, <2>1 DEF ViewerInv, ViewerShape
<1>8. OpensFirst'
  BY <1>1 DEF OpensFirst, CallbacksCurrent, IsCurrent
<1>9. RequestsInOrder'
  BY <1>1 DEF RequestsInOrder
<1>10. TransitionRuns'
  BY <1>1, <1>6 DEF TransitionRuns
<1>. QED
  BY <1>4, <1>7, <1>8, <1>9, <1>10 DEF ViewerInv

\* The handles of a step that retires nothing that is owned.
SameOwned ==
    /\ handle' \in [ViewerHandles -> HandleStages] /\ created' \in SUBSET ViewerHandles
    /\ created \subseteq created' /\ \A h \in created' : handle'[h] # "unborn"
    /\ Owned' = Owned /\ Held' \subseteq Held

LEMMA HandlesSame ==
    ASSUME ViewerInv, handle' = handle, created' = created
    PROVE  SameOwned
BY DEF SameOwned, ViewerInv, ViewerShape, OwnedByPlayback, Owned, Held, In

LEMMA SameOwnedKeeps ==
    ASSUME ViewerInv, SameOwned, live' = live, generation' = generation
    PROVE  /\ controls' = controls /\ streamListener' = streamListener => OwnedByPlayback'
           /\ controls' = controls /\ creation' = creation => CreatesOne'
<1>1. ASSUME controls' = controls, streamListener' = streamListener PROVE OwnedByPlayback'
  <2>1. \A c, d \in Controls \cap In({"owned", "retired"})' : c = d
    BY DEF SameOwned, Held, ViewerInv, OwnedByPlayback
  <2>. QED
    BY <1>1, <2>1 DEF SameOwned, ViewerInv, OwnedByPlayback
<1>2. ASSUME controls' = controls, creation' = creation PROVE CreatesOne'
  BY <1>2 DEF SameOwned, ViewerInv, CreatesOne, IsCurrent
<1>. QED
  BY <1>1, <1>2

\* A task of a generation that is over, which leaves its iterator to the cleanup.
LEMMA StaleOpenKeeps ==
    ASSUME ViewerInv, NEW g \in Generations, ~IsCurrent(g), SetOpen(g, "none"), SameOwned,
           playing' \in SUBSET ViewerHandles, failures' \in Nat,
           \A h \in ViewerHandles : h # Iterator(g) => (h \in playing' <=> h \in playing),
           UNCHANGED <<generation, live, intent, request, isPlaying, streamListener, controls,
                       tasks, closeObserved, creation, transition, disturbed>>
    PROVE  ViewerInv'
<1>1. /\ generation' = generation /\ live' = live /\ intent' = intent /\ request' = request
      /\ isPlaying' = isPlaying /\ streamListener' = streamListener /\ controls' = controls
      /\ tasks' = tasks /\ closeObserved' = closeObserved /\ creation' = creation
      /\ transition' = transition /\ disturbed' = disturbed
  OBVIOUS
<1>2. ViewerShape
  BY DEF ViewerInv
<1>3. /\ open' \in [Generations -> Opens] /\ open'[g].stage = "none"
      /\ \A f \in Generations : f # g => open'[f] = open[f]
  BY <1>2, SetOpenDoes DEF OpenStages
<1>4. ViewerShape'
  BY <1>1, <1>2, <1>3 DEF ViewerShape, SameOwned
<1>5. OwnedByPlayback' /\ CreatesOne'
  BY <1>1, SameOwnedKeeps
<1>6. OpensFirst'
  BY <1>1, <1>2, <1>3 DEF ViewerInv, ViewerShape, OpensFirst, CallbacksCurrent, IsCurrent, SameOwned
<1>7. RequestsInOrder'
  BY <1>1, FrameRequests DEF ViewerInv
<1>8. controls \subseteq Controls /\ Iterator(g) \notin Controls /\ controls \subseteq ViewerHandles
  BY <1>2, HandleNames DEF ViewerShape
<1>9. live /\ streamListener # NoHandle =>
          streamListener # Iterator(g) /\ streamListener \in ViewerHandles
  BY <1>2, HandleNames DEF ViewerInv, OwnedByPlayback, IsCurrent, ViewerShape
<1>10. TransitionRuns'
  BY <1>1, <1>8 DEF ViewerInv, TransitionRuns, Due
<1>11. DoesAsRequested'
  <2>1. SUFFICES ASSUME live', disturbed' = "no", ~Due'
                 PROVE  \/ open'[generation'].stage = "none" /\ streamListener' = NoHandle
                        \/ ControlsDo' /\ ListenerDoes'
    BY DEF DoesAsRequested
  <2>2. live /\ disturbed = "no" /\ ~Due
    BY <2>1, <1>1 DEF Due
  <2>3. CASE open[generation].stage = "none" /\ streamListener = NoHandle
    BY <2>2, <2>3, <1>1, <1>2, <1>3 DEF IsCurrent, ViewerShape
  <2>4. CASE ControlsDo /\ ListenerDoes
    BY <2>2, <2>4, <1>1, <1>8, <1>9 DEF ControlsDo, ListenerDoes
  <2>. QED
    BY <2>2, <2>3, <2>4 DEF ViewerInv, DoesAsRequested
<1>. QED
  BY <1>4, <1>5, <1>6, <1>7, <1>10, <1>11 DEF ViewerInv

\* The task of a stream that has ended meanwhile retires what there is.
LEMMA EndedOpenKeeps ==
    ASSUME ViewerInv, NEW g \in Generations, IsCurrent(g), ~CallbacksCurrent(g),
           open[g].stage # "none", SetOpen(g, "retiring"), RetireAll({Iterator(g)}),
           playing' \in SUBSET ViewerHandles, created' \in SUBSET ViewerHandles,
           created \subseteq created', created' \subseteq created \cup {Iterator(g)},
           UNCHANGED <<generation, live, intent, request, isPlaying, tasks, closeObserved,
                       creation, transition, failures, disturbed>>
    PROVE  ViewerInv'
<1>1. /\ generation' = generation /\ live' = live /\ intent' = intent /\ request' = request
      /\ isPlaying' = isPlaying /\ tasks' = tasks /\ closeObserved' = closeObserved
      /\ creation' = creation /\ transition' = transition /\ failures' = failures
      /\ disturbed' = disturbed
  OBVIOUS
<1>2. ViewerShape
  BY DEF ViewerInv
<1>3. /\ open' \in [Generations -> Opens] /\ open'[g].stage = "retiring"
      /\ \A f \in Generations : f # g => open'[f] = open[f]
  BY <1>2, SetOpenDoes DEF OpenStages
<1>4. /\ handle' \in [ViewerHandles -> HandleStages]
      /\ streamListener' = NoHandle /\ controls' = {} /\ Owned' = {}
      /\ OwnedByPlayback' /\ CreatesOne' /\ DoesAsRequested'
  BY <1>1, HandleNames, AllRetired
<1>5. ViewerShape'
  BY <1>1, <1>2, <1>3, <1>4 DEF ViewerShape
<1>6. g = generation /\ live /\ g \in closeObserved /\ transition.stage = "none"
  BY <1>2 DEF ViewerInv, ViewerShape, OpensFirst, TransitionRuns, Transitions, IsCurrent,
              CallbacksCurrent
<1>7. OpensFirst'
  BY <1>1, <1>3, <1>4, <1>6 DEF ViewerInv, OpensFirst, CallbacksCurrent, IsCurrent
<1>8. RequestsInOrder'
  BY <1>1, FrameRequests DEF ViewerInv
<1>9. TransitionRuns'
  BY <1>1, <1>6 DEF TransitionRuns
<1>. QED
  BY <1>4, <1>5, <1>7, <1>8, <1>9 DEF ViewerInv

\* The handles of a step of the task that has made its iterator.
IteratorOwned(g) ==
    /\ handle' \in [ViewerHandles -> HandleStages] /\ created' = created \cup {Iterator(g)}
    /\ \A h \in created' : handle'[h] # "unborn"
    /\ Owned' = Owned \cup {Iterator(g)} /\ Held' \subseteq Held

LEMMA IteratorStillOwned ==
    ASSUME ViewerInv, NEW g \in Generations, CallbacksCurrent(g),
           open[g].stage \in {"reconciling", "sleeping"}, UNCHANGED <<handle, created>>
    PROVE  IteratorOwned(g)
<1>1. Iterator(g) \in Owned /\ Iterator(g) \in created
  BY DEF ViewerInv, OpensFirst, OwnedByPlayback
<1>2. SameOwned
  BY HandlesSame
<1>. QED
  BY <1>1, <1>2 DEF SameOwned, IteratorOwned

LEMMA IteratorOwnedKeeps ==
    ASSUME ViewerInv, NEW g \in Generations, IsCurrent(g), IteratorOwned(g),
           live' = live, generation' = generation, controls' = controls, creation' = creation,
           streamListener' \in {streamListener, Iterator(g)}
    PROVE  OwnedByPlayback' /\ CreatesOne'
<1>1. OwnedByPlayback'
  <2>1. \A c, d \in Controls \cap In({"owned", "retired"})' : c = d
    BY DEF IteratorOwned, Held, ViewerInv, OwnedByPlayback
  <2>2. \A f \in Generations : Iterator(f) \in Owned' => f = generation'
    BY HandleNames DEF IteratorOwned, ViewerInv, OwnedByPlayback, IsCurrent
  <2>. QED
    BY <2>1, <2>2 DEF IteratorOwned, ViewerInv, OwnedByPlayback, IsCurrent
<1>2. CreatesOne'
  <2>1. Controls \cap Owned' = Controls \cap Owned
    BY HandleNames DEF IteratorOwned
  <2>2. \A f \in Generations : creation'[f].stage \in Making =>
           /\ creation'[f].control \in created' \cap Controls
           /\ ~IsCurrent(f)' => creation'[f].control \notin Owned'
    BY <2>1 DEF IteratorOwned, ViewerInv, CreatesOne, IsCurrent
  <2>. QED
    BY <2>1, <2>2 DEF ViewerInv, CreatesOne
<1>. QED
  BY <1>1, <1>2

\* It publishes the iterator as requested, and is done,
LEMMA PublishKeeps ==
    ASSUME ViewerInv, NEW g \in Generations, CallbacksCurrent(g), open[g].stage # "none",
           IteratorOwned(g), Publish(g), (Iterator(g) \in playing') = intent,
           playing' \in SUBSET ViewerHandles,
           \A h \in ViewerHandles : h # Iterator(g) => (h \in playing' <=> h \in playing),
           UNCHANGED <<generation, live, intent, request, controls, closeObserved, creation,
                       transition, failures, disturbed>>
    PROVE  ViewerInv'
<1>1. /\ generation' = generation /\ live' = live /\ intent' = intent /\ request' = request
      /\ controls' = controls /\ closeObserved' = closeObserved /\ creation' = creation
      /\ transition' = transition /\ failures' = failures /\ disturbed' = disturbed
      /\ streamListener' = Iterator(g) /\ isPlaying' = (Iterator(g) \in playing')
      /\ SetOpen(g, "none") /\ tasks' = Tail(tasks)
  BY DEF Publish
<1>2. ViewerShape /\ IsCurrent(g) /\ g = generation /\ live
  BY DEF ViewerInv, CallbacksCurrent, IsCurrent
<1>3. /\ open' \in [Generations -> Opens] /\ open'[g].stage = "none"
      /\ \A f \in Generations : f # g => open'[f] = open[f]
  BY <1>1, <1>2, SetOpenDoes DEF OpenStages
<1>4. tasks # <<>> /\ Head(tasks).kind = "open" /\ transition.stage = "none"
  BY <1>2 DEF ViewerInv, ViewerShape, OpensFirst, TransitionRuns, Transitions
<1>5. /\ tasks' \in Seq(Tasks) /\ RequestsInOrder' /\ (Due => Due')
      /\ \A i \in 1 .. Len(tasks') : i + 1 \in 1 .. Len(tasks) /\ tasks'[i] = tasks[i + 1]
  BY <1>1, <1>2, <1>4, TaskDone DEF ViewerInv
<1>6. OwnedByPlayback' /\ CreatesOne'
  BY <1>1, <1>2, IteratorOwnedKeeps
<1>7. isPlaying' = intent /\ isPlaying' \in BOOLEAN
  BY <1>1, <1>2, Zenon DEF ViewerShape
<1>8. created' \in SUBSET ViewerHandles
  BY <1>2, HandleNames DEF IteratorOwned, ViewerShape
<1>9. ViewerShape'
  BY <1>1, <1>2, <1>3, <1>5, <1>7, <1>8 DEF ViewerShape, IteratorOwned
<1>10. OpensFirst'
  BY <1>1, <1>2, <1>3, <1>5 DEF ViewerInv, OpensFirst, CallbacksCurrent, IsCurrent
<1>11. TransitionRuns'
  BY <1>1, <1>4 DEF TransitionRuns
<1>12. DoesAsRequested'
  <2>1. SUFFICES ASSUME disturbed' = "no", ~Due' PROVE ControlsDo' /\ ListenerDoes'
    BY DEF DoesAsRequested
  <2>2. ControlsDo
    BY <2>1, <1>1, <1>2, <1>5 DEF ViewerInv, DoesAsRequested
  <2>3. controls \subseteq ViewerHandles /\ Iterator(g) \notin controls
    BY <1>2, HandleNames DEF ViewerShape
  <2>4. ControlsDo'
    BY <2>2, <2>3, <1>1 DEF ControlsDo
  <2>5. ListenerDoes'
    BY <1>1, <1>7, Zenon DEF ListenerDoes
  <2>. QED
    BY <2>4, <2>5
<1>. QED
  BY <1>5, <1>6, <1>9, <1>10, <1>11, <1>12 DEF ViewerInv

\* or it goes on with the next round.
LEMMA NextRoundKeeps ==
    ASSUME ViewerInv, NEW g \in Generations, CallbacksCurrent(g), open[g].stage # "none",
           IteratorOwned(g), open' \in [Generations -> Opens],
           open'[g].stage \in {"reconciling", "sleeping"},
           \A f \in Generations : f # g => open'[f] = open[f],
           playing' \in SUBSET ViewerHandles,
           \A h \in ViewerHandles : h # Iterator(g) => (h \in playing' <=> h \in playing),
           UNCHANGED <<generation, live, intent, request, isPlaying, streamListener, tasks,
                       controls, closeObserved, creation, transition, failures, disturbed>>
    PROVE  ViewerInv'
<1>1. /\ generation' = generation /\ live' = live /\ intent' = intent /\ request' = request
      /\ controls' = controls /\ closeObserved' = closeObserved /\ creation' = creation
      /\ transition' = transition /\ failures' = failures /\ disturbed' = disturbed
      /\ streamListener' = streamListener /\ isPlaying' = isPlaying /\ tasks' = tasks
  OBVIOUS
<1>2. ViewerShape /\ IsCurrent(g) /\ g = generation /\ live
  BY DEF ViewerInv, CallbacksCurrent, IsCurrent
<1>3. /\ tasks # <<>> /\ Head(tasks).kind = "open" /\ transition.stage = "none"
      /\ streamListener = NoHandle
  BY <1>2 DEF ViewerInv, ViewerShape, OpensFirst, TransitionRuns, Transitions
<1>4. OwnedByPlayback' /\ CreatesOne'
  BY <1>1, <1>2, IteratorOwnedKeeps
<1>5. created' \in SUBSET ViewerHandles
  BY <1>2, HandleNames DEF IteratorOwned, ViewerShape
<1>6. ViewerShape'
  BY <1>1, <1>2, <1>5 DEF ViewerShape, IteratorOwned
<1>7. OpensFirst'
  BY <1>1, <1>2, <1>3 DEF ViewerInv, OpensFirst, CallbacksCurrent, IsCurrent, IteratorOwned
<1>8. RequestsInOrder'
  BY <1>1, FrameRequests DEF ViewerInv
<1>9. TransitionRuns'
  BY <1>1, <1>3 DEF TransitionRuns
<1>10. DoesAsRequested'
  <2>1. SUFFICES ASSUME disturbed' = "no", ~Due' PROVE ControlsDo' /\ ListenerDoes'
    BY DEF DoesAsRequested
  <2>2. ~Due
    BY <2>1, <1>1 DEF Due
  <2>3. ControlsDo
    BY <2>1, <2>2, <1>1, <1>2 DEF ViewerInv, DoesAsRequested
  <2>4. controls \subseteq ViewerHandles /\ Iterator(g) \notin controls
    BY <1>2, HandleNames DEF ViewerShape
  <2>5. ControlsDo'
    BY <2>3, <2>4, <1>1 DEF ControlsDo
  <2>. QED
    BY <2>5, <1>1, <1>3 DEF ListenerDoes
<1>. QED
  BY <1>4, <1>6, <1>7, <1>8, <1>9, <1>10 DEF ViewerInv

\* The task is over without anything to publish,
LEMMA GivesUpKeeps ==
    ASSUME ViewerInv, NEW g \in Generations, IsCurrent(g), open[g].stage # "none",
           SetOpen(g, "none"), tasks' = Tail(tasks), isPlaying' \in BOOLEAN,
           UNCHANGED <<generation, live, intent, request, streamListener, controls, handle,
                       created, playing, closeObserved, creation, transition, failures, disturbed>>
    PROVE  ViewerInv'
<1>1. /\ generation' = generation /\ live' = live /\ intent' = intent /\ request' = request
      /\ controls' = controls /\ closeObserved' = closeObserved /\ creation' = creation
      /\ transition' = transition /\ failures' = failures /\ disturbed' = disturbed
      /\ streamListener' = streamListener /\ handle' = handle /\ created' = created
      /\ playing' = playing
  OBVIOUS
<1>2. ViewerShape /\ g = generation /\ live
  BY DEF ViewerInv, IsCurrent
<1>3. /\ open' \in [Generations -> Opens] /\ open'[g].stage = "none"
      /\ \A f \in Generations : f # g => open'[f] = open[f]
  BY <1>2, SetOpenDoes DEF OpenStages
<1>4. /\ tasks # <<>> /\ Head(tasks).kind = "open" /\ transition.stage = "none"
      /\ streamListener = NoHandle
  BY <1>2 DEF ViewerInv, ViewerShape, OpensFirst, TransitionRuns, Transitions
<1>5. /\ tasks' \in Seq(Tasks) /\ RequestsInOrder'
      /\ \A i \in 1 .. Len(tasks') : i + 1 \in 1 .. Len(tasks) /\ tasks'[i] = tasks[i + 1]
  BY <1>1, <1>2, <1>4, TaskDone DEF ViewerInv
<1>6. OwnedByPlayback' /\ CreatesOne' /\ Owned' = Owned
  BY <1>1, HandlesSame, SameOwnedKeeps DEF SameOwned
<1>7. ViewerShape'
  BY <1>1, <1>2, <1>3, <1>5 DEF ViewerShape
<1>8. OpensFirst'
  BY <1>1, <1>2, <1>3, <1>5, <1>6 DEF ViewerInv, OpensFirst, CallbacksCurrent, IsCurrent
<1>9. TransitionRuns'
  BY <1>1, <1>4 DEF TransitionRuns
<1>10. DoesAsRequested'
  BY <1>1, <1>2, <1>3, <1>4 DEF DoesAsRequested
<1>. QED
  BY <1>5, <1>6, <1>7, <1>8, <1>9, <1>10 DEF ViewerInv

LEMMA CleanupWaitedKeeps ==
    ASSUME ViewerInv, NEW g \in Generations, CleanupWaited(g)
    PROVE  ViewerInv'
<1>1. /\ generation' = generation /\ live' = live /\ intent' = intent /\ request' = request
      /\ controls' = controls /\ closeObserved' = closeObserved /\ creation' = creation
      /\ transition' = transition /\ failures' = failures /\ disturbed' = disturbed
      /\ streamListener' = streamListener /\ handle' = handle /\ created' = created
      /\ playing' = playing /\ open[g].stage = "closing" /\ IsCurrent(g)
  BY DEF CleanupWaited
<1>2. ViewerShape /\ g = generation /\ live
  BY <1>1 DEF ViewerInv, IsCurrent
<1>3. CASE Pending = {}
  <2>1. SetOpen(g, "iterating") /\ isPlaying' = isPlaying /\ tasks' = tasks
    BY <1>3 DEF CleanupWaited
  <2>2. /\ open' \in [Generations -> Opens] /\ open'[g].stage = "iterating"
        /\ \A f \in Generations : f # g => open'[f] = open[f]
    BY <2>1, <1>2, SetOpenDoes DEF OpenStages
  <2>3. OwnedByPlayback' /\ CreatesOne' /\ Owned' = Owned
    BY <1>1, HandlesSame, SameOwnedKeeps DEF SameOwned
  <2>4. ViewerShape'
    BY <1>1, <1>2, <2>1, <2>2 DEF ViewerShape
  <2>5. OpensFirst'
    BY <1>1, <1>2, <2>1, <2>2, <2>3 DEF ViewerInv, OpensFirst, CallbacksCurrent, IsCurrent
  <2>6. RequestsInOrder' /\ TransitionRuns'
    BY <1>1, <2>1, FrameRequests, FrameTransition DEF ViewerInv
  <2>7. DoesAsRequested'
    BY <1>1, <1>2, <2>1, <2>2
    DEF ViewerInv, DoesAsRequested, Due, ControlsDo, ListenerDoes
  <2>. QED
    BY <2>3, <2>4, <2>5, <2>6, <2>7 DEF ViewerInv
<1>4. CASE Pending # {}
  <2>1. SetOpen(g, "none") /\ isPlaying' = FALSE /\ tasks' = Tail(tasks)
    BY <1>4 DEF CleanupWaited
  <2>2. isPlaying' \in BOOLEAN
    BY <2>1, Zenon
  <2>. QED
    BY <1>1, <2>1, <2>2, GivesUpKeeps
<1>. QED
  BY <1>3, <1>4

\* A round for the iterator, at the current generation.
LEMMA RoundKeeps ==
    ASSUME ViewerInv, NEW g \in Generations, CallbacksCurrent(g), open[g].stage # "none",
           IteratorOwned(g), ReconcileIterator(g),
           UNCHANGED <<generation, live, intent, request, playing, controls, closeObserved,
                       creation, transition, failures, disturbed>>
    PROVE  ViewerInv'
<1>1. playing' = playing /\ playing \in SUBSET ViewerHandles
  BY DEF ViewerInv, ViewerShape
<1>2. CASE (Iterator(g) \in playing) = intent
  <2>1. Publish(g)
    BY <1>2 DEF ReconcileIterator
  <2>2. (Iterator(g) \in playing') = intent
    BY <1>1, <1>2, Zenon
  <2>. QED
    BY <1>1, <2>1, <2>2, PublishKeeps
<1>3. CASE (Iterator(g) \in playing) # intent
  <2>1. /\ open' = [open EXCEPT ![g] =
                [stage |-> "reconciling", request |-> request, play |-> intent]]
        /\ UNCHANGED <<streamListener, isPlaying, tasks>>
    BY <1>3 DEF ReconcileIterator
  <2>2. /\ open' \in [Generations -> Opens] /\ open'[g].stage \in {"reconciling", "sleeping"}
        /\ \A f \in Generations : f # g => open'[f] = open[f]
    BY <2>1, OpenReconciles DEF ViewerInv
  <2>. QED
    BY <1>1, <2>1, <2>2, NextRoundKeeps
<1>. QED
  BY <1>2, <1>3

\* An iterator that nobody owns any more is retired: the iterator of another generation.
LEMMA StaleIterator ==
    ASSUME ViewerInv, NEW g \in Generations, ~IsCurrent(g), NEW S \in SUBSET {Iterator(g)},
           Retire(S), created \subseteq created', created' \subseteq created \cup S
    PROVE  SameOwned
<1>1. ViewerShape
  BY DEF ViewerInv
<1>2. Iterator(g) \notin Owned /\ Iterator(g) \in ViewerHandles \ Controls
  BY HandleNames DEF ViewerInv, OwnedByPlayback, IsCurrent
<1>3. /\ handle' \in [ViewerHandles -> HandleStages] /\ Owned' = Owned \ S
      /\ \A h \in ViewerHandles : handle[h] # "unborn" \/ h \in S => handle'[h] # "unborn"
      /\ (\A h \in S \cap Controls : handle[h] # "unborn") => Held' \subseteq Held
  BY <1>1, RetireDoes
<1>4. S \cap Controls = {} /\ Owned \ S = Owned /\ S \subseteq ViewerHandles
  BY <1>2
<1>5. created \in SUBSET ViewerHandles /\ \A h \in created : handle[h] # "unborn"
  BY DEF ViewerInv, ViewerShape, OwnedByPlayback
<1>. QED
  BY <1>3, <1>4, <1>5 DEF SameOwned

LEMMA IteratorArrivesKeeps ==
    ASSUME ViewerInv, NEW g \in Generations, IteratorArrives(g)
    PROVE  ViewerInv'
<1>1. /\ generation' = generation /\ live' = live /\ intent' = intent /\ request' = request
      /\ closeObserved' = closeObserved /\ creation' = creation
      /\ transition' = transition /\ failures' = failures /\ disturbed' = disturbed
      /\ playing' = playing /\ created' = created \cup {Iterator(g)}
      /\ open[g].stage = "iterating"
  BY DEF IteratorArrives
<1>2. ViewerShape /\ Iterator(g) \in ViewerHandles \ Controls
  BY HandleNames DEF ViewerInv
<1>3. playing' \in SUBSET ViewerHandles /\ created' \in SUBSET ViewerHandles /\ failures' \in Nat
  BY <1>1, <1>2 DEF ViewerShape
<1>4. CASE CallbacksCurrent(g)
  <2>1. Register(Iterator(g)) /\ ReconcileIterator(g) /\ controls' = controls
    BY <1>4 DEF IteratorArrives
  <2>2. /\ handle' \in [ViewerHandles -> HandleStages]
        /\ Owned' = Owned \cup {Iterator(g)}
        /\ \A h \in ViewerHandles : handle[h] # "unborn" \/ h = Iterator(g) => handle'[h] # "unborn"
        /\ Held' = Held \cup (Controls \cap {Iterator(g)})
    BY <1>2, <2>1, RegisterDoes
  <2>3. IteratorOwned(g)
    BY <1>1, <1>2, <2>2 DEF IteratorOwned, ViewerInv, OwnedByPlayback, ViewerShape
  <2>. QED
    BY <1>1, <1>4, <2>1, <2>3, RoundKeeps
<1>5. CASE ~CallbacksCurrent(g) /\ IsCurrent(g)
  <2>1. RetireAll({Iterator(g)}) /\ SetOpen(g, "retiring") /\ UNCHANGED <<isPlaying, tasks>>
    BY <1>5 DEF IteratorArrives
  <2>. QED
    BY <1>1, <1>3, <1>5, <2>1, EndedOpenKeeps
<1>6. CASE ~IsCurrent(g)
  <2>1. /\ Retire({Iterator(g)}) /\ SetOpen(g, "none")
        /\ UNCHANGED <<streamListener, controls, isPlaying, tasks>>
    BY <1>6 DEF IteratorArrives, CallbacksCurrent
  <2>2. SameOwned
    BY <1>1, <1>6, <2>1, StaleIterator
  <2>. QED
    BY <1>1, <1>3, <1>6, <2>1, <2>2, StaleOpenKeeps
<1>. QED
  BY <1>4, <1>5, <1>6

LEMMA OpenFailsKeeps ==
    ASSUME ViewerInv, NEW g \in Generations, OpenFails(g)
    PROVE  ViewerInv'
<1>1. /\ created' = created /\ playing' = playing /\ closeObserved' = closeObserved
      /\ creation' = creation /\ transition' = transition /\ disturbed' = disturbed
      /\ open[g].stage \in {"iterating", "reconciling"} /\ failures' = failures + 1
  BY DEF OpenFails, Fail
<1>2. failures' \in Nat /\ playing' \in SUBSET ViewerHandles
  BY <1>1 DEF ViewerInv, ViewerShape
<1>3. CASE IsCurrent(g)
  <2>1. FenceFailure(g)
    BY <1>3 DEF OpenFails
  <2>. QED
    BY <1>1, <1>2, <1>3, <2>1, FenceKeeps
<1>4. CASE ~IsCurrent(g)
  <2>1. /\ SetOpen(g, "none") /\ Retire(created \cap {Iterator(g)})
        /\ UNCHANGED <<generation, live, intent, request, isPlaying, streamListener,
                       controls, tasks>>
    BY <1>4 DEF OpenFails
  <2>2. SameOwned
    BY <1>1, <1>4, <2>1, StaleIterator
  <2>. QED
    BY <1>1, <1>2, <1>4, <2>1, <2>2, StaleOpenKeeps
<1>. QED
  BY <1>3, <1>4

LEMMA IteratorAppliedKeeps ==
    ASSUME ViewerInv, NEW g \in Generations, IteratorApplied(g)
    PROVE  ViewerInv'
<1>1. /\ generation' = generation /\ live' = live /\ intent' = intent /\ request' = request
      /\ closeObserved' = closeObserved /\ creation' = creation
      /\ transition' = transition /\ failures' = failures /\ disturbed' = disturbed
      /\ created' = created /\ open[g].stage = "reconciling"
      /\ playing' = IF open[g].play THEN playing \cup {Iterator(g)} ELSE playing \ {Iterator(g)}
  BY DEF IteratorApplied
<1>2. ViewerShape /\ Iterator(g) \in ViewerHandles \ Controls /\ open[g].play \in BOOLEAN
  BY HandleNames DEF ViewerInv, ViewerShape, Opens
<1>3. /\ playing' \in SUBSET ViewerHandles /\ created' \in SUBSET ViewerHandles /\ failures' \in Nat
      /\ \A h \in ViewerHandles : h # Iterator(g) => (h \in playing' <=> h \in playing)
  BY <1>1, <1>2 DEF ViewerShape
<1>4. CASE CallbacksCurrent(g)
  <2>1. controls' = controls /\ handle' = handle
    BY <1>4 DEF IteratorApplied
  <2>2. IteratorOwned(g)
    BY <1>1, <1>4, <2>1, IteratorStillOwned
  <2>3. CASE open[g].request = request /\ open[g].play = intent
    <3>1. Publish(g)
      BY <1>4, <2>3 DEF IteratorApplied
    <3>2. (Iterator(g) \in playing') = open[g].play
      <4>1. CASE open[g].play
        BY <4>1, <1>1
      <4>2. CASE ~open[g].play
        <5>1. Iterator(g) \notin playing'
          BY <4>2, <1>1
        <5>2. open[g].play = FALSE
          BY <4>2, <1>2, Zenon
        <5>3. (Iterator(g) \in playing') = FALSE
          BY <5>1
        <5>. QED
          BY <5>2, <5>3, Zenon
      <4>. QED
        BY <4>1, <4>2
    <3>3. (Iterator(g) \in playing') = intent
      BY <3>2, <2>3, Zenon
    <3>. QED
      BY <1>1, <1>3, <1>4, <2>1, <2>2, <3>1, <3>3, PublishKeeps
  <2>4. CASE ~(open[g].request = request /\ open[g].play = intent)
    <3>1. SetOpen(g, "sleeping") /\ UNCHANGED <<streamListener, isPlaying, tasks>>
      BY <1>4, <2>4, Zenon DEF IteratorApplied
    <3>2. /\ open' \in [Generations -> Opens] /\ open'[g].stage \in {"reconciling", "sleeping"}
          /\ \A f \in Generations : f # g => open'[f] = open[f]
      BY <1>2, <3>1, SetOpenDoes DEF OpenStages
    <3>. QED
      BY <1>1, <1>3, <1>4, <2>1, <2>2, <3>1, <3>2, NextRoundKeeps
  <2>. QED
    BY <2>3, <2>4
<1>5. CASE ~CallbacksCurrent(g) /\ IsCurrent(g)
  <2>1. RetireAll({Iterator(g)}) /\ SetOpen(g, "retiring") /\ UNCHANGED <<isPlaying, tasks>>
    BY <1>5, Zenon DEF IteratorApplied
  <2>. QED
    BY <1>1, <1>3, <1>5, <2>1, EndedOpenKeeps
<1>6. CASE ~IsCurrent(g)
  <2>1. /\ Retire({Iterator(g)}) /\ SetOpen(g, "none")
        /\ UNCHANGED <<streamListener, controls, isPlaying, tasks>>
    BY <1>6, Zenon DEF IteratorApplied, CallbacksCurrent
  <2>2. SameOwned
    BY <1>1, <1>6, <2>1, StaleIterator
  <2>. QED
    BY <1>1, <1>3, <1>6, <2>1, <2>2, StaleOpenKeeps
<1>. QED
  BY <1>4, <1>5, <1>6

LEMMA IteratorWakesKeeps ==
    ASSUME ViewerInv, NEW g \in Generations, IteratorWakes(g)
    PROVE  ViewerInv'
<1>1. /\ generation' = generation /\ live' = live /\ intent' = intent /\ request' = request
      /\ closeObserved' = closeObserved /\ creation' = creation
      /\ transition' = transition /\ failures' = failures /\ disturbed' = disturbed
      /\ created' = created /\ playing' = playing /\ open[g].stage = "sleeping"
  BY DEF IteratorWakes
<1>2. playing' \in SUBSET ViewerHandles /\ created' \in SUBSET ViewerHandles /\ failures' \in Nat
  BY <1>1 DEF ViewerInv, ViewerShape
<1>3. CASE CallbacksCurrent(g)
  <2>1. ReconcileIterator(g) /\ controls' = controls /\ handle' = handle
    BY <1>3 DEF IteratorWakes
  <2>2. IteratorOwned(g)
    BY <1>1, <1>3, <2>1, IteratorStillOwned
  <2>. QED
    BY <1>1, <1>3, <2>1, <2>2, RoundKeeps
<1>4. CASE ~CallbacksCurrent(g) /\ IsCurrent(g)
  <2>1. RetireAll({Iterator(g)}) /\ SetOpen(g, "retiring") /\ UNCHANGED <<isPlaying, tasks>>
    BY <1>4 DEF IteratorWakes
  <2>. QED
    BY <1>1, <1>2, <1>4, <2>1, EndedOpenKeeps
<1>5. CASE ~IsCurrent(g)
  <2>1. /\ Retire({Iterator(g)}) /\ SetOpen(g, "none")
        /\ UNCHANGED <<streamListener, controls, isPlaying, tasks>>
    BY <1>5 DEF IteratorWakes, CallbacksCurrent
  <2>2. SameOwned
    <3>1. Iterator(g) \in created \/ Iterator(g) \notin created
      OBVIOUS
    <3>. QED
      BY <1>1, <1>5, <2>1, StaleIterator
  <2>. QED
    BY <1>1, <1>2, <1>5, <2>1, <2>2, StaleOpenKeeps
<1>. QED
  BY <1>3, <1>4, <1>5

LEMMA OpenRetiredKeeps ==
    ASSUME ViewerInv, NEW g \in Generations, OpenRetired(g)
    PROVE  ViewerInv'
<1>1. /\ created' = created /\ playing' = playing /\ closeObserved' = closeObserved
      /\ creation' = creation /\ transition' = transition /\ failures' = failures
      /\ disturbed' = disturbed /\ open[g].stage = "retiring"
  BY DEF OpenRetired
<1>2. /\ playing' \in SUBSET ViewerHandles /\ failures' \in Nat /\ isPlaying \in BOOLEAN
  BY <1>1 DEF ViewerInv, ViewerShape
<1>3. CASE IsCurrent(g) /\ Pending # {}
  <2>1. FenceFailure(g)
    BY <1>3 DEF OpenRetired
  <2>. QED
    BY <1>1, <1>2, <1>3, <2>1, FenceKeeps
<1>4. CASE ~(IsCurrent(g) /\ Pending # {})
  <2>1. /\ SetOpen(g, "none") /\ tasks' = IF IsCurrent(g) THEN Tail(tasks) ELSE tasks
        /\ UNCHANGED <<generation, live, intent, request, isPlaying, streamListener,
                       controls, handle>>
    BY <1>4 DEF OpenRetired
  <2>2. CASE IsCurrent(g)
    BY <1>1, <1>2, <2>1, <2>2, GivesUpKeeps
  <2>3. CASE ~IsCurrent(g)
    <3>1. SameOwned
      BY <1>1, <2>1, HandlesSame
    <3>. QED
      BY <1>1, <1>2, <2>1, <2>3, <3>1, StaleOpenKeeps
  <2>. QED
    BY <2>2, <2>3
<1>. QED
  BY <1>3, <1>4

\* The end of the stream is noted, and its task is queued.
LEMMA StreamEndsKeeps ==
    ASSUME ViewerInv, NEW g \in Generations, StreamEnds(g)
    PROVE  ViewerInv'
<1>1. /\ generation' = generation /\ live' = live /\ intent' = intent /\ request' = request
      /\ controls' = controls /\ creation' = creation /\ isPlaying' = isPlaying
      /\ transition' = transition /\ failures' = failures /\ disturbed' = disturbed
      /\ streamListener' = streamListener /\ handle' = handle /\ created' = created
      /\ playing' = playing /\ open' = open /\ closeObserved' = closeObserved \cup {g}
      /\ tasks' = IF IsCurrent(g) THEN Append(tasks, CloseTask) ELSE tasks
  BY DEF StreamEnds
<1>2. ViewerShape
  BY DEF ViewerInv
<1>3. OwnedByPlayback' /\ CreatesOne' /\ Owned' = Owned
  BY <1>1, HandlesSame, SameOwnedKeeps DEF SameOwned
<1>4. CASE IsCurrent(g)
  <2>1. CloseTask \in Tasks /\ CloseTask.kind = "close"
    BY DEF CloseTask, Tasks
  <2>2. /\ tasks' \in Seq(Tasks) /\ tasks' # <<>> /\ Len(tasks) \in Nat
        /\ tasks # <<>> => Head(tasks') = Head(tasks)
        /\ Len(tasks') = Len(tasks) + 1 /\ tasks'[Len(tasks')] = CloseTask
        /\ \A i \in 1 .. Len(tasks) : tasks'[i] = tasks[i]
        /\ \A i \in 1 .. Len(tasks') : i \in 1 .. Len(tasks) \/ i = Len(tasks')
    BY <1>1, <1>2, <1>4, <2>1, TaskAdded
  <2>3. ViewerShape'
    BY <1>1, <1>2, <2>2 DEF ViewerShape
  <2>4. OpensFirst'
    BY <1>1, <1>2, <1>3, <1>4, <2>1, <2>2
    DEF ViewerInv, OpensFirst, CallbacksCurrent, IsCurrent, ViewerShape
  <2>5. RequestsInOrder'
    <3>1. \A i \in 1 .. Len(tasks') : tasks'[i].kind = "state" =>
              i \in 1 .. Len(tasks) /\ tasks'[i] = tasks[i]
      BY <2>1, <2>2
    <3>. QED
      BY <3>1, <1>1 DEF ViewerInv, RequestsInOrder
  <2>6. Due' <=> Due
    <3>1. ASSUME Due PROVE Due'
      <4>1. PICK i \in 1 .. Len(tasks) : tasks[i].kind = "state" /\ tasks[i].request = request
        BY <3>1 DEF Due
      <4>2. i \in 1 .. Len(tasks') /\ tasks'[i] = tasks[i]
        BY <2>2
      <4>. QED
        BY <4>1, <4>2, <1>1 DEF Due
    <3>2. ASSUME Due' PROVE Due
      <4>1. PICK i \in 1 .. Len(tasks') : tasks'[i].kind = "state" /\ tasks'[i].request = request'
        BY <3>2 DEF Due
      <4>2. i \in 1 .. Len(tasks) /\ tasks'[i] = tasks[i]
        BY <4>1, <2>1, <2>2
      <4>. QED
        BY <4>1, <4>2, <1>1 DEF Due
    <3>. QED
      BY <3>1, <3>2
  <2>7. TransitionRuns'
    BY <1>1, <2>2, <2>6 DEF ViewerInv, TransitionRuns
  <2>8. DoesAsRequested'
    BY <1>1, <2>6 DEF ViewerInv, DoesAsRequested, ControlsDo, ListenerDoes
  <2>. QED
    BY <1>3, <2>3, <2>4, <2>5, <2>7, <2>8 DEF ViewerInv
<1>5. CASE ~IsCurrent(g)
  <2>1. tasks' = tasks
    BY <1>1, <1>5
  <2>2. ViewerShape'
    BY <1>1, <1>2, <2>1 DEF ViewerShape
  <2>3. OpensFirst'
    BY <1>1, <1>3, <1>5, <2>1 DEF ViewerInv, OpensFirst, CallbacksCurrent, IsCurrent
  <2>4. RequestsInOrder' /\ TransitionRuns' /\ DoesAsRequested'
    BY <1>1, <2>1, FrameRequests, FrameTransition, FrameDoes DEF ViewerInv
  <2>. QED
    BY <1>3, <2>2, <2>3, <2>4 DEF ViewerInv
<1>. QED
  BY <1>4, <1>5

\* The task of a stream that has ended retires what there is, and then the page stops.
LEMMA CloseStartsKeeps ==
    ASSUME ViewerInv, CloseStarts
    PROVE  ViewerInv'
<1>1. /\ generation' = generation /\ live' = live /\ intent' = intent /\ request' = request
      /\ isPlaying' = isPlaying /\ created' = created /\ playing' = playing /\ open' = open
      /\ closeObserved' = closeObserved /\ creation' = creation /\ failures' = failures
      /\ disturbed' = disturbed
      /\ tasks # <<>> /\ Head(tasks).kind = "close" /\ transition.stage = "none"
  BY DEF CloseStarts, Runs
<1>2. ViewerShape
  BY DEF ViewerInv
<1>3. /\ Len(tasks) \in Nat /\ 1 \in 1 .. Len(tasks) /\ Head(tasks) = tasks[1]
  BY <1>1, <1>2 DEF ViewerShape
<1>4. live /\ generation \in closeObserved /\ open[generation].stage = "none"
  BY <1>1, <1>3 DEF ViewerInv, OpensFirst
<1>5. CASE Iterator(generation) \in created
  <2>1. /\ RetireAll({Iterator(generation)}) /\ tasks' = tasks
        /\ transition' = [NoTransition EXCEPT !.stage = "close"]
    BY <1>4, <1>5 DEF CloseStarts
  <2>2. /\ handle' \in [ViewerHandles -> HandleStages]
        /\ streamListener' = NoHandle /\ controls' = {} /\ Owned' = {}
        /\ OwnedByPlayback' /\ CreatesOne' /\ DoesAsRequested'
    BY <1>1, <1>2, <2>1, HandleNames, AllRetired DEF ViewerShape
  <2>3. transition' \in Transitions /\ transition'.stage = "close"
    BY <2>1 DEF NoTransition, Transitions
  <2>4. ViewerShape'
    BY <1>1, <1>2, <2>1, <2>2, <2>3 DEF ViewerShape
  <2>5. OpensFirst'
    BY <1>1, <1>4, <2>1 DEF ViewerInv, OpensFirst, CallbacksCurrent, IsCurrent
  <2>6. RequestsInOrder'
    BY <1>1, <2>1, FrameRequests DEF ViewerInv
  <2>7. TransitionRuns'
    BY <1>1, <1>4, <2>1, <2>2, <2>3 DEF TransitionRuns
  <2>. QED
    BY <2>2, <2>4, <2>5, <2>6, <2>7 DEF ViewerInv
<1>6. CASE Iterator(generation) \notin created
  <2>1. /\ tasks' = Tail(tasks) /\ streamListener' = streamListener /\ controls' = controls
        /\ handle' = handle /\ transition' = transition
    BY <1>4, <1>6 DEF CloseStarts
  <2>2. /\ tasks' \in Seq(Tasks) /\ RequestsInOrder' /\ (Due => Due')
        /\ \A i \in 1 .. Len(tasks') : i + 1 \in 1 .. Len(tasks) /\ tasks'[i] = tasks[i + 1]
    BY <1>1, <1>2, <2>1, TaskDone DEF ViewerInv
  <2>3. OwnedByPlayback' /\ CreatesOne' /\ Owned' = Owned
    BY <1>1, <2>1, HandlesSame, SameOwnedKeeps DEF SameOwned
  <2>4. ViewerShape'
    BY <1>1, <1>2, <2>1, <2>2 DEF ViewerShape
  <2>5. OpensFirst'
    BY <1>1, <1>4, <2>1, <2>2, <2>3 DEF ViewerInv, OpensFirst, CallbacksCurrent, IsCurrent
  <2>6. TransitionRuns'
    BY <1>1, <2>1 DEF TransitionRuns
  <2>7. DoesAsRequested'
    BY <1>1, <2>1, <2>2 DEF ViewerInv, DoesAsRequested, ControlsDo, ListenerDoes
  <2>. QED
    BY <2>2, <2>3, <2>4, <2>5, <2>6, <2>7 DEF ViewerInv
<1>. QED
  BY <1>5, <1>6

LEMMA CloseEndsKeeps ==
    ASSUME ViewerInv, CloseEnds
    PROVE  ViewerInv'
<1>1. /\ generation' = generation /\ live' = live /\ streamListener' = streamListener
      /\ controls' = controls /\ handle' = handle
      /\ created' = created /\ playing' = playing /\ open' = open
      /\ closeObserved' = closeObserved /\ creation' = creation /\ failures' = failures
      /\ disturbed' = disturbed /\ transition' = NoTransition /\ tasks' = Tail(tasks)
      /\ transition.stage = "close"
  BY DEF CloseEnds
<1>2. ViewerShape
  BY DEF ViewerInv
<1>3. /\ live /\ tasks # <<>> /\ Head(tasks).kind = "close"
      /\ streamListener = NoHandle /\ controls = {}
  BY <1>1 DEF ViewerInv, TransitionRuns
<1>4. /\ tasks' \in Seq(Tasks)
      /\ request' = request /\ intent' = intent => RequestsInOrder'
      /\ \A i \in 1 .. Len(tasks') : i + 1 \in 1 .. Len(tasks) /\ tasks'[i] = tasks[i + 1]
  BY <1>1, <1>2, <1>3, TaskDone DEF ViewerInv
<1>5. OwnedByPlayback' /\ CreatesOne' /\ Owned' = Owned
  BY <1>1, HandlesSame, SameOwnedKeeps DEF SameOwned
<1>6. transition' \in Transitions /\ transition'.stage = "none"
  BY <1>1 DEF NoTransition, Transitions
<1>7. open[generation].stage = "none"
  BY <1>3 DEF ViewerInv, OpensFirst
<1>8. OpensFirst'
  BY <1>1, <1>3, <1>4, <1>5, <1>7 DEF ViewerInv, OpensFirst, CallbacksCurrent, IsCurrent
<1>9. TransitionRuns'
  BY <1>6 DEF TransitionRuns
<1>10. DoesAsRequested'
  BY <1>1, <1>3 DEF DoesAsRequested, ControlsDo, ListenerDoes
<1>11. /\ intent' \in BOOLEAN /\ isPlaying' \in BOOLEAN /\ request' \in Nat /\ RequestsInOrder'
  <2>1. CASE Pending = {}
    <3>1. intent' = FALSE /\ isPlaying' = FALSE
      BY <2>1, Zenon DEF CloseEnds
    <3>2. request' = request + 1 /\ request \in Nat
      BY <2>1, <1>2 DEF CloseEnds, ViewerShape
    <3>3. tasks \in Seq(Tasks) /\ Len(tasks) \in Nat
      BY <1>2 DEF ViewerShape
    <3>4. \A i \in 1 .. Len(tasks) : tasks[i].request \in Nat
      <4>1. \A i \in 1 .. Len(tasks) : tasks[i] \in Tasks
        BY <3>3
      <4>2. \A t \in Tasks : t.request \in Nat
        BY DEF Tasks
      <4>. QED
        BY <4>1, <4>2
    <3>5. \A i \in 1 .. Len(tasks') : tasks'[i].kind = "state" =>
             /\ tasks'[i].request <= request'
             /\ tasks'[i].request # request'
      BY <1>4, <3>2, <3>4 DEF ViewerInv, RequestsInOrder
    <3>6. \A i, j \in 1 .. Len(tasks') :
             i < j /\ tasks'[i].kind = "state" /\ tasks'[j].kind = "state" =>
                 tasks'[i].request < tasks'[j].request
      BY <1>4 DEF ViewerInv, RequestsInOrder
    <3>7. RequestsInOrder'
      BY <3>5, <3>6 DEF RequestsInOrder
    <3>8. intent' \in BOOLEAN /\ isPlaying' \in BOOLEAN
      BY <3>1, Zenon
    <3>. QED
      BY <3>2, <3>7, <3>8
  <2>2. CASE Pending # {}
    <3>1. intent' = intent /\ request' = request /\ isPlaying' = isPlaying
      BY <2>2 DEF CloseEnds
    <3>. QED
      BY <3>1, <1>2, <1>4 DEF ViewerShape
  <2>. QED
    BY <2>1, <2>2
<1>12. ViewerShape'
  BY <1>1, <1>2, <1>4, <1>6, <1>11 DEF ViewerShape
<1>. QED
  BY <1>5, <1>8, <1>9, <1>10, <1>11, <1>12 DEF ViewerInv

\* Creating a control begins: nothing is published, and nothing is owned yet.
LEMMA ChunkArrivesKeeps ==
    ASSUME ViewerInv, NEW g \in Generations, ChunkArrives(g)
    PROVE  ViewerInv'
<1>1. /\ generation' = generation /\ live' = live /\ intent' = intent /\ request' = request
      /\ isPlaying' = isPlaying /\ streamListener' = streamListener /\ controls' = controls
      /\ handle' = handle /\ created' = created /\ playing' = playing /\ open' = open
      /\ closeObserved' = closeObserved /\ tasks' = tasks /\ transition' = transition
      /\ failures' = failures /\ disturbed' = disturbed
      /\ SetCreation(g, "settling") /\ creation[g].stage = "none" /\ controls = {}
      /\ live /\ g = generation
  BY DEF ChunkArrives, CallbacksCurrent, IsCurrent
<1>2. ViewerShape
  BY DEF ViewerInv
<1>3. /\ creation' \in [Generations -> Creations]
      /\ creation'[g].stage = "settling"
      /\ \A f \in Generations : f # g => creation'[f] = creation[f]
  BY <1>1, <1>2, SetCreationDoes DEF CreationStages
<1>4. OwnedByPlayback' /\ Owned' = Owned
  BY <1>1, HandlesSame, SameOwnedKeeps DEF SameOwned
<1>5. ViewerShape'
  BY <1>1, <1>2, <1>3 DEF ViewerShape
<1>6. CreatesOne'
  BY <1>1, <1>2, <1>3, <1>4 DEF ViewerInv, CreatesOne, IsCurrent, Making, ViewerShape
<1>7. OpensFirst' /\ RequestsInOrder' /\ TransitionRuns' /\ DoesAsRequested'
  BY <1>1, FrameOpens, FrameRequests, FrameTransition, FrameDoes DEF ViewerInv
<1>. QED
  BY <1>4, <1>5, <1>6, <1>7 DEF ViewerInv

\* A control that fails is retired.
LEMMA RetiredControl ==
    ASSUME ViewerInv, NEW c \in Controls, c \in created, Retire({c}), created' = created,
           live' = live, generation' = generation, streamListener' = streamListener,
           controls' = controls \ {c}
    PROVE  /\ handle' \in [ViewerHandles -> HandleStages] /\ OwnedByPlayback'
           /\ Owned' = Owned \ {c}
           /\ open' = open /\ tasks' = tasks /\ closeObserved' = closeObserved => OpensFirst'
<1>1. ViewerShape
  BY DEF ViewerInv
<1>2. /\ handle' \in [ViewerHandles -> HandleStages] /\ Owned' = Owned \ {c}
      /\ \A h \in ViewerHandles : handle[h] # "unborn" \/ h \in {c} => handle'[h] # "unborn"
      /\ (\A h \in {c} \cap Controls : handle[h] # "unborn") => Held' \subseteq Held
  BY <1>1, RetireDoes
<1>3. /\ \A h \in created : handle[h] # "unborn" /\ Owned \subseteq created
      /\ created \subseteq ViewerHandles
  BY <1>1 DEF ViewerInv, OwnedByPlayback, ViewerShape
<1>4. Held' \subseteq Held
  BY <1>2, <1>3
<1>5. streamListener # c /\ \A g \in Generations : Iterator(g) # c
  BY <1>1, HandleNames DEF ViewerShape
<1>6. OwnedByPlayback'
  <2>1. \A d, e \in Controls \cap In({"owned", "retired"})' : d = e
    BY <1>4 DEF Held, ViewerInv, OwnedByPlayback
  <2>2. \A h \in created' : handle'[h] # "unborn"
    BY <1>2, <1>3
  <2>. QED
    BY <1>2, <1>3, <1>5, <2>1, <2>2 DEF ViewerInv, OwnedByPlayback
<1>7. ASSUME open' = open, tasks' = tasks, closeObserved' = closeObserved PROVE OpensFirst'
  BY <1>2, <1>5, <1>7 DEF ViewerInv, OpensFirst, CallbacksCurrent, IsCurrent
<1>. QED
  BY <1>2, <1>6, <1>7

\* With fewer controls there is less that could be wrong.
LEMMA FewerControls ==
    ASSUME ViewerInv, controls' \subseteq controls,
           UNCHANGED <<generation, live, intent, request, isPlaying, streamListener, open,
                       tasks, transition, disturbed>>,
           \A c \in controls' : c \in playing' <=> c \in playing,
           streamListener # NoHandle => (streamListener \in playing' <=> streamListener \in playing)
    PROVE  RequestsInOrder' /\ TransitionRuns' /\ DoesAsRequested'
<1>1. /\ generation' = generation /\ live' = live /\ intent' = intent /\ request' = request
      /\ isPlaying' = isPlaying /\ streamListener' = streamListener /\ open' = open
      /\ tasks' = tasks /\ transition' = transition /\ disturbed' = disturbed
  OBVIOUS
<1>2. RequestsInOrder'
  BY <1>1, FrameRequests DEF ViewerInv
<1>3. TransitionRuns'
  BY <1>1 DEF ViewerInv, TransitionRuns, Due
<1>4. DoesAsRequested'
  BY <1>1 DEF ViewerInv, DoesAsRequested, Due, ControlsDo, ListenerDoes
<1>. QED
  BY <1>2, <1>3, <1>4

LEMMA PushFailsKeeps ==
    ASSUME ViewerInv, NEW c \in Controls, PushFails(c)
    PROVE  ViewerInv'
<1>1. /\ generation' = generation /\ live' = live /\ intent' = intent /\ request' = request
      /\ isPlaying' = isPlaying /\ streamListener' = streamListener /\ created' = created
      /\ playing' = playing /\ open' = open /\ closeObserved' = closeObserved
      /\ creation' = creation /\ tasks' = tasks /\ transition' = transition
      /\ failures' = failures + 1 /\ disturbed' = disturbed
      /\ controls' = controls \ {c} /\ Retire({c}) /\ c \in controls
  BY DEF PushFails, Fail
<1>2. ViewerShape /\ c \in created
  BY <1>1 DEF ViewerInv, OwnedByPlayback
<1>3. /\ handle' \in [ViewerHandles -> HandleStages] /\ OwnedByPlayback'
      /\ Owned' = Owned \ {c} /\ OpensFirst'
  BY <1>1, <1>2, RetiredControl
<1>4. ViewerShape'
  BY <1>1, <1>2, <1>3 DEF ViewerShape
<1>5. CreatesOne'
  BY <1>1, <1>3 DEF ViewerInv, CreatesOne, IsCurrent
<1>6. RequestsInOrder' /\ TransitionRuns' /\ DoesAsRequested'
  BY <1>1, FewerControls
<1>. QED
  BY <1>3, <1>4, <1>5, <1>6 DEF ViewerInv

\* The next control is one that was not there.
LEMMA NextControlIsNew ==
    ASSUME Unborn # {}, ViewerShape
    PROVE  NextControl \in Controls /\ NextControl \notin created
<1>1. Unborn \subseteq Nat
  BY DEF Unborn
<1>2. \E k \in Unborn : \A l \in Unborn : k <= l
  BY <1>1, SmallestNumber
<1>. DEFINE k == CHOOSE k \in Unborn : \A l \in Unborn : k <= l
<1>3. k \in Unborn
  BY <1>2
<1>4. NextControl = <<"control", k>>
  BY DEF NextControl
<1>. HIDE DEF k
<1>. QED
  BY <1>3, <1>4, HandleNames DEF Unborn

\* The control is created, registered and told what is wanted.
LEMMA CleanupSettledKeeps ==
    ASSUME ViewerInv, NEW g \in Generations, CleanupSettled(g)
    PROVE  ViewerInv'
<1>1. /\ generation' = generation /\ live' = live /\ intent' = intent /\ request' = request
      /\ isPlaying' = isPlaying /\ streamListener' = streamListener /\ controls' = controls
      /\ open' = open /\ closeObserved' = closeObserved /\ tasks' = tasks
      /\ transition' = transition /\ failures' = failures /\ disturbed' = disturbed
      /\ creation[g].stage = "settling"
  BY DEF CleanupSettled
<1>2. ViewerShape
  BY DEF ViewerInv
<1>3. CASE Pending # {} \/ ~CallbacksCurrent(g)
  <2>1. SetCreation(g, "none") /\ handle' = handle /\ created' = created /\ playing' = playing
    BY <1>3 DEF CleanupSettled
  <2>2. /\ creation' \in [Generations -> Creations]
        /\ creation'[g].stage = "none"
        /\ \A f \in Generations : f # g => creation'[f] = creation[f]
    BY <1>2, <2>1, SetCreationDoes DEF CreationStages
  <2>3. OwnedByPlayback' /\ Owned' = Owned
    BY <1>1, <2>1, HandlesSame, SameOwnedKeeps DEF SameOwned
  <2>4. ViewerShape'
    BY <1>1, <1>2, <2>1, <2>2 DEF ViewerShape
  <2>5. CreatesOne'
    BY <1>1, <1>2, <2>1, <2>2, <2>3 DEF ViewerInv, CreatesOne, IsCurrent, Making, ViewerShape
  <2>6. OpensFirst' /\ RequestsInOrder' /\ TransitionRuns' /\ DoesAsRequested'
    BY <1>1, <2>1, FrameOpens, FrameRequests, FrameTransition, FrameDoes DEF ViewerInv
  <2>. QED
    BY <2>3, <2>4, <2>5, <2>6 DEF ViewerInv
<1>4. CASE Pending = {} /\ CallbacksCurrent(g)
  <2>. DEFINE c == NextControl
  <2>1. /\ Unborn # {} /\ created' = created \cup {c} /\ Register(c)
        /\ playing' = IF intent THEN playing \cup {c} ELSE playing
        /\ creation' = [creation EXCEPT ![g] =
               [stage |-> "reconciling", control |-> c, request |-> request, play |-> intent]]
    BY <1>4 DEF CleanupSettled, ReconcileControl
  <2>2. c \in Controls /\ c \notin created
    BY <1>2, <2>1, NextControlIsNew
  <2>. HIDE DEF c
  <2>3. /\ creation' \in [Generations -> Creations]
        /\ creation'[g].stage = "reconciling" /\ creation'[g].control = c
        /\ \A f \in Generations : f # g => creation'[f] = creation[f]
    BY <1>2, <2>1, <2>2 DEF ViewerShape, Creations, CreationStages
  <2>4. /\ handle' \in [ViewerHandles -> HandleStages]
        /\ Owned' = Owned \cup {c}
        /\ \A h \in ViewerHandles : handle[h] # "unborn" \/ h = c => handle'[h] # "unborn"
        /\ Held' = Held \cup (Controls \cap {c})
    BY <1>2, <2>1, <2>2, HandleNames, RegisterDoes
  <2>5. g = generation /\ live /\ controls = {} /\ Owned \cap Controls = {}
    BY <1>1, <1>4 DEF CallbacksCurrent, IsCurrent, ViewerInv, CreatesOne, Making
  <2>6. Held = {}
    <3>1. \A h \in Held : handle[h] \in {"owned", "retired"} /\ h \in ViewerHandles /\ h \in Controls
      BY DEF Held, In
    <3>2. \A h \in ViewerHandles : handle[h] = "owned" => h \in Owned
      BY DEF Owned, In
    <3>3. \A h \in ViewerHandles : handle[h] = "retired" => h \in Pending
      BY DEF Pending, In
    <3>. QED
      BY <3>1, <3>2, <3>3, <1>4, <2>5
  <2>7. c \in ViewerHandles /\ \A f \in Generations : Iterator(f) # c
    BY <2>2, HandleNames
  <2>8. streamListener # c
    BY <1>2, <2>2, <2>7, HandleNames DEF ViewerShape
  <2>9. /\ created' \in SUBSET ViewerHandles /\ playing' \in SUBSET ViewerHandles
        /\ \A h \in ViewerHandles : h # c => (h \in playing' <=> h \in playing)
    BY <1>2, <2>1, <2>7 DEF ViewerShape
  <2>10. ViewerShape'
    BY <1>1, <1>2, <2>3, <2>4, <2>9 DEF ViewerShape
  <2>11. OwnedByPlayback'
    <3>1. \A d, e \in Controls \cap In({"owned", "retired"})' : d = e
      BY <2>4, <2>6 DEF Held
    <3>2. \A h \in created' : handle'[h] # "unborn"
      BY <1>2, <2>1, <2>4, <2>7 DEF ViewerInv, OwnedByPlayback, ViewerShape
    <3>. QED
      BY <1>1, <2>1, <2>4, <2>5, <2>7, <3>1, <3>2 DEF ViewerInv, OwnedByPlayback
  <2>12. OpensFirst'
    BY <1>1, <2>4, <2>7 DEF ViewerInv, OpensFirst, CallbacksCurrent, IsCurrent
  <2>13. CreatesOne'
    <3>1. \A f \in Generations : creation'[f].stage \in Making =>
              /\ creation'[f].control \in created' \cap Controls
              /\ ~IsCurrent(f)' => creation'[f].control \notin Owned'
      BY <1>1, <2>1, <2>2, <2>3, <2>4, <2>5 DEF ViewerInv, CreatesOne, IsCurrent
    <3>2. \A d \in Controls \cap Owned' : d = c
      BY <2>4, <2>5
    <3>. QED
      BY <1>1, <2>3, <2>5, <3>1, <3>2 DEF CreatesOne, Making
  <2>14. RequestsInOrder' /\ TransitionRuns' /\ DoesAsRequested'
    BY <1>1, <1>2, <2>5, <2>8, <2>9, FewerControls DEF ViewerInv, OwnedByPlayback, ViewerShape
  <2>. QED
    BY <2>10, <2>11, <2>12, <2>13, <2>14 DEF ViewerInv
<1>. QED
  BY <1>3, <1>4

\* A control that is given up is retired, whoever has retired it before.
LEMMA CandidateKeeps ==
    ASSUME ViewerInv, NEW g \in Generations, creation[g].stage \in Making, RetireCandidate(g),
           failures' \in Nat, playing' \in SUBSET ViewerHandles,
           \A h \in ViewerHandles : h # creation[g].control => (h \in playing' <=> h \in playing),
           UNCHANGED <<generation, live, intent, request, isPlaying, streamListener, created,
                       open, closeObserved, tasks, transition, disturbed>>
    PROVE  ViewerInv'
<1>. DEFINE c == creation[g].control
<1>1. /\ generation' = generation /\ live' = live /\ intent' = intent /\ request' = request
      /\ isPlaying' = isPlaying /\ streamListener' = streamListener /\ created' = created
      /\ open' = open /\ closeObserved' = closeObserved
      /\ tasks' = tasks /\ transition' = transition /\ disturbed' = disturbed
      /\ controls' = controls \ {c} /\ Retire({c}) /\ SetCreation(g, "retiring")
  BY DEF RetireCandidate
<1>2. ViewerShape /\ c \in created /\ c \in Controls
  BY DEF ViewerInv, CreatesOne
<1>3. /\ handle' \in [ViewerHandles -> HandleStages] /\ OwnedByPlayback'
      /\ Owned' = Owned \ {c} /\ OpensFirst'
  BY <1>1, <1>2, RetiredControl
<1>4. /\ creation' \in [Generations -> Creations]
      /\ creation'[g].stage = "retiring" /\ creation'[g].control = c
      /\ \A f \in Generations : f # g => creation'[f] = creation[f]
  BY <1>1, <1>2, SetCreationDoes DEF CreationStages
<1>5. \A h \in ViewerHandles : h # c => (h \in playing' <=> h \in playing)
  OBVIOUS
<1>. HIDE DEF c
<1>6. ViewerShape'
  BY <1>1, <1>2, <1>3, <1>4 DEF ViewerShape
<1>7. CreatesOne'
  <2>1. \A f \in Generations : creation'[f].stage \in Making =>
              /\ creation'[f].control \in created' \cap Controls
              /\ ~IsCurrent(f)' => creation'[f].control \notin Owned'
    BY <1>1, <1>3, <1>4 DEF ViewerInv, CreatesOne, IsCurrent, Making
  <2>2. \A d \in Controls \cap Owned' : d \notin controls' =>
           creation'[generation'].stage \in Making /\ creation'[generation'].control = d
    <3>. SUFFICES ASSUME NEW d \in Controls \cap Owned', d \notin controls'
                  PROVE  creation'[generation'].stage \in Making /\ creation'[generation'].control = d
      OBVIOUS
    <3>1. d \in Owned /\ d # c /\ d \notin controls
      BY <1>1, <1>3
    <3>2. creation[generation].stage \in Making /\ creation[generation].control = d
      BY <3>1 DEF ViewerInv, CreatesOne
    <3>3. generation # g
      BY <3>1, <3>2 DEF c
    <3>. QED
      BY <1>1, <1>2, <1>4, <3>2, <3>3 DEF ViewerShape
  <2>3. live' /\ creation'[generation'].stage # "none" => controls' = {}
    BY <1>1, <1>2, <1>4 DEF ViewerInv, CreatesOne, ViewerShape, Making
  <2>. QED
    BY <2>1, <2>2, <2>3 DEF CreatesOne
<1>8. RequestsInOrder' /\ TransitionRuns' /\ DoesAsRequested'
  <2>1. controls' \subseteq controls /\ controls \subseteq ViewerHandles /\ c \notin controls'
    BY <1>1, <1>2, HandleNames DEF ViewerShape
  <2>2. streamListener # NoHandle => streamListener \in ViewerHandles /\ streamListener # c
    BY <1>2, HandleNames DEF ViewerShape
  <2>. QED
    BY <1>1, <1>5, <2>1, <2>2, FewerControls
<1>. QED
  BY <1>3, <1>6, <1>7, <1>8 DEF ViewerInv

LEMMA ControlFailsKeeps ==
    ASSUME ViewerInv, NEW g \in Generations, ControlFails(g)
    PROVE  ViewerInv'
<1>1. /\ failures' = failures + 1 /\ playing' = playing /\ RetireCandidate(g)
      /\ creation[g].stage \in Making
  BY DEF ControlFails, Fail, Making
<1>2. failures' \in Nat /\ playing' \in SUBSET ViewerHandles
  BY <1>1 DEF ViewerInv, ViewerShape
<1>. QED
  BY <1>1, <1>2, CandidateKeeps DEF ControlFails

LEMMA CreationEndsKeeps ==
    ASSUME ViewerInv, NEW g \in Generations, CreationEnds(g)
    PROVE  ViewerInv'
<1>1. /\ generation' = generation /\ live' = live /\ intent' = intent /\ request' = request
      /\ isPlaying' = isPlaying /\ streamListener' = streamListener /\ controls' = controls
      /\ handle' = handle /\ created' = created /\ playing' = playing /\ open' = open
      /\ closeObserved' = closeObserved /\ tasks' = tasks /\ transition' = transition
      /\ failures' = failures /\ disturbed' = disturbed
      /\ creation' = [creation EXCEPT ![g] = NoCreation] /\ creation[g].stage = "retiring"
  BY DEF CreationEnds
<1>2. ViewerShape
  BY DEF ViewerInv
<1>3. /\ creation' \in [Generations -> Creations]
      /\ creation'[g].stage = "none"
      /\ \A f \in Generations : f # g => creation'[f] = creation[f]
  BY <1>1, <1>2 DEF ViewerShape, NoCreation, Creations, CreationStages
<1>4. OwnedByPlayback' /\ Owned' = Owned
  BY <1>1, HandlesSame, SameOwnedKeeps DEF SameOwned
<1>5. ViewerShape'
  BY <1>1, <1>2, <1>3 DEF ViewerShape
<1>6. CreatesOne'
  BY <1>1, <1>2, <1>3, <1>4 DEF ViewerInv, CreatesOne, IsCurrent, Making, ViewerShape
<1>7. OpensFirst' /\ RequestsInOrder' /\ TransitionRuns' /\ DoesAsRequested'
  BY <1>1, FrameOpens, FrameRequests, FrameTransition, FrameDoes DEF ViewerInv
<1>. QED
  BY <1>4, <1>5, <1>6, <1>7 DEF ViewerInv

\* Those that are told to play or to pause do so, and the others do what they did.
LEMMA ToldTo ==
    ASSUME NEW P, NEW Q, NEW T, NEW b \in BOOLEAN, Q = IF b THEN P \cup T ELSE P \ T
    PROVE  /\ \A h \in T : (h \in Q) = b
           /\ \A h : h \notin T => (h \in Q <=> h \in P)
<1>1. CASE b
  <2>1. \A h \in T : h \in Q
    BY <1>1
  <2>2. \A h : h \notin T => (h \in Q <=> h \in P)
    BY <1>1
  <2>3. b = TRUE
    BY <1>1, Zenon
  <2>4. \A h \in T : (h \in Q) = TRUE
    BY <2>1
  <2>. QED
    BY <2>2, <2>3, <2>4, Zenon
<1>2. CASE ~b
  <2>1. \A h \in T : h \notin Q
    BY <1>2
  <2>2. \A h : h \notin T => (h \in Q <=> h \in P)
    BY <1>2
  <2>3. b = FALSE
    BY <1>2, Zenon
  <2>4. \A h \in T : (h \in Q) = FALSE
    BY <2>1
  <2>. QED
    BY <2>2, <2>3, <2>4, Zenon
<1>. QED
  BY <1>1, <1>2

\* Where an active transition is about a stream that has ended.
LEMMA NotClosing ==
    ASSUME ViewerInv, CallbacksCurrent(generation)
    PROVE  transition.stage # "close"
<1>. SUFFICES ASSUME transition.stage = "close" PROVE FALSE
  OBVIOUS
<1>1. live /\ tasks # <<>> /\ Head(tasks).kind = "close" /\ tasks \in Seq(Tasks)
  BY DEF ViewerInv, TransitionRuns, ViewerShape
<1>2. 1 \in 1 .. Len(tasks) /\ Head(tasks) = tasks[1]
  BY <1>1
<1>. QED
  BY <1>1, <1>2 DEF ViewerInv, OpensFirst, CallbacksCurrent

\* The control has been told what was wanted: it is published if that is still so.
LEMMA ControlAppliedKeeps ==
    ASSUME ViewerInv, NEW g \in Generations, ControlApplied(g)
    PROVE  ViewerInv'
<1>. DEFINE c == creation[g].control
            asRequested == creation[g].request = request /\ creation[g].play = intent
<1>1. /\ generation' = generation /\ live' = live /\ intent' = intent /\ request' = request
      /\ isPlaying' = isPlaying /\ streamListener' = streamListener /\ created' = created
      /\ open' = open /\ closeObserved' = closeObserved /\ tasks' = tasks
      /\ transition' = transition /\ failures' = failures /\ disturbed' = disturbed
      /\ creation[g].stage = "reconciling"
      /\ playing' = IF creation[g].play THEN playing \cup {c} ELSE playing \ {c}
  BY DEF ControlApplied
<1>2. /\ ViewerShape /\ c \in Controls /\ c \in created /\ creation[g].stage \in Making
      /\ creation[g].play \in BOOLEAN /\ c \in ViewerHandles
  BY <1>1, HandleNames DEF ViewerInv, ViewerShape, Creations, CreatesOne, Making
<1>3. /\ (c \in playing') = creation[g].play
      /\ \A h : h \notin {c} => (h \in playing' <=> h \in playing)
  BY <1>1, <1>2, ToldTo
<1>4. playing' \in SUBSET ViewerHandles /\ failures' \in Nat
  BY <1>1, <1>2 DEF ViewerShape
<1>5. streamListener # c
  BY <1>2, HandleNames DEF ViewerShape
<1>6. CASE ~CallbacksCurrent(g)
  <2>1. RetireCandidate(g)
    BY <1>6, Zenon DEF ControlApplied
  <2>. QED
    BY <1>1, <1>2, <1>3, <1>4, <2>1, CandidateKeeps
<1>7. CASE CallbacksCurrent(g) /\ ~asRequested
  <2>1. SetCreation(g, "sleeping") /\ controls' = controls /\ handle' = handle
    BY <1>7, Zenon DEF ControlApplied
  <2>2. g = generation /\ live /\ controls = {}
    BY <1>1, <1>7 DEF CallbacksCurrent, IsCurrent, ViewerInv, CreatesOne
  <2>3. /\ creation' \in [Generations -> Creations]
        /\ creation'[g].stage = "sleeping" /\ creation'[g].control = c
        /\ \A f \in Generations : f # g => creation'[f] = creation[f]
    BY <1>2, <2>1, SetCreationDoes DEF CreationStages
  <2>4. OwnedByPlayback' /\ Owned' = Owned
    BY <1>1, <2>1, HandlesSame, SameOwnedKeeps DEF SameOwned
  <2>5. ViewerShape'
    BY <1>1, <1>2, <1>4, <2>1, <2>3 DEF ViewerShape
  <2>6. CreatesOne'
    <3>1. \A f \in Generations : creation'[f].stage \in Making =>
              /\ creation'[f].control \in created' \cap Controls
              /\ ~IsCurrent(f)' => creation'[f].control \notin Owned'
      BY <1>1, <1>2, <2>2, <2>3, <2>4 DEF ViewerInv, CreatesOne, IsCurrent
    <3>2. \A d \in Controls \cap Owned' : d = c
      BY <1>1, <2>2, <2>4 DEF ViewerInv, CreatesOne
    <3>. QED
      BY <1>1, <2>1, <2>2, <2>3, <3>1, <3>2 DEF CreatesOne, Making
  <2>7. OpensFirst'
    BY <1>1, <2>1, FrameOpens DEF ViewerInv
  <2>8. RequestsInOrder' /\ TransitionRuns' /\ DoesAsRequested'
    BY <1>1, <1>3, <1>5, <2>1, <2>2, FewerControls
  <2>. QED
    BY <2>4, <2>5, <2>6, <2>7, <2>8 DEF ViewerInv
<1>8. CASE CallbacksCurrent(g) /\ asRequested /\ (c \notin Owned \/ controls # {})
  <2>1. RetireCandidate(g)
    BY <1>8, Zenon DEF ControlApplied
  <2>. QED
    BY <1>1, <1>2, <1>3, <1>4, <2>1, CandidateKeeps
<1>9. CASE CallbacksCurrent(g) /\ asRequested /\ c \in Owned /\ controls = {}
  <2>1. /\ controls' = controls \cup {c} /\ handle' = handle
        /\ creation' = [creation EXCEPT ![g] = NoCreation]
    BY <1>9, Zenon DEF ControlApplied
  <2>2. g = generation /\ live /\ controls' = {c} /\ transition.stage # "close"
    BY <1>9, <2>1, NotClosing DEF CallbacksCurrent, IsCurrent
  <2>3. (c \in playing') = intent
    BY <1>3, <1>9, Zenon
  <2>4. /\ creation' \in [Generations -> Creations]
        /\ creation'[g].stage = "none"
        /\ \A f \in Generations : f # g => creation'[f] = creation[f]
    BY <1>2, <2>1 DEF ViewerShape, NoCreation, Creations, CreationStages
  <2>5. Owned' = Owned
    BY <1>1, <2>1, HandlesSame DEF SameOwned
  <2>6. ViewerShape'
    BY <1>1, <1>2, <1>4, <2>1, <2>4 DEF ViewerShape
  <2>7. OwnedByPlayback'
    <3>1. Held' = Held
      BY <2>1 DEF Held, In
    <3>2. \A d, e \in Controls \cap In({"owned", "retired"})' : d = e
      BY <3>1 DEF Held, ViewerInv, OwnedByPlayback
    <3>. QED
      BY <1>1, <1>9, <2>1, <2>2, <2>5, <3>2 DEF ViewerInv, OwnedByPlayback
  <2>8. CreatesOne'
    <3>1. \A f \in Generations : creation'[f].stage \in Making =>
              /\ creation'[f].control \in created' \cap Controls
              /\ ~IsCurrent(f)' => creation'[f].control \notin Owned'
      BY <1>1, <2>2, <2>4, <2>5 DEF ViewerInv, CreatesOne, IsCurrent, Making
    <3>2. \A d \in Controls \cap Owned' : d \in controls'
      BY <1>1, <1>9, <2>2, <2>5 DEF ViewerInv, CreatesOne
    <3>. QED
      BY <1>1, <2>2, <2>4, <3>1, <3>2 DEF CreatesOne
  <2>9. OpensFirst'
    BY <1>1, <2>1, FrameOpens DEF ViewerInv
  <2>10. RequestsInOrder'
    BY <1>1, FrameRequests DEF ViewerInv
  <2>11. Due' = Due
    BY <1>1 DEF Due
  <2>12. TransitionRuns'
    <3>1. transition'.stage = "applying" =>
             /\ Due' /\ (streamListener' # NoHandle => streamListener' \in transition'.targets)
             /\ Head(tasks').request = request' =>
                    \A d \in controls' \ transition'.targets : (d \in playing') = intent'
      BY <1>1, <2>2, <2>3, <2>11 DEF ViewerInv, TransitionRuns
    <3>. QED
      BY <1>1, <2>2, <3>1 DEF ViewerInv, TransitionRuns
  <2>13. DoesAsRequested'
    <3>1. ControlsDo'
      BY <1>1, <2>2, <2>3 DEF ControlsDo
    <3>2. ListenerDoes => ListenerDoes'
      BY <1>1, <1>3, <1>5 DEF ListenerDoes
    <3>. QED
      BY <1>1, <2>11, <3>1, <3>2 DEF ViewerInv, DoesAsRequested
  <2>. QED
    BY <2>6, <2>7, <2>8, <2>9, <2>10, <2>12, <2>13 DEF ViewerInv
<1>. QED
  BY <1>6, <1>7, <1>8, <1>9

LEMMA ControlWakesKeeps ==
    ASSUME ViewerInv, NEW g \in Generations, ControlWakes(g)
    PROVE  ViewerInv'
<1>. DEFINE c == creation[g].control
<1>1. /\ generation' = generation /\ live' = live /\ intent' = intent /\ request' = request
      /\ isPlaying' = isPlaying /\ streamListener' = streamListener /\ created' = created
      /\ playing' = playing /\ open' = open /\ closeObserved' = closeObserved /\ tasks' = tasks
      /\ transition' = transition /\ failures' = failures /\ disturbed' = disturbed
      /\ creation[g].stage = "sleeping"
  BY DEF ControlWakes
<1>2. ViewerShape /\ c \in created /\ c \in Controls /\ creation[g].stage \in Making
  BY <1>1 DEF ViewerInv, CreatesOne, Making
<1>3. CASE CallbacksCurrent(g)
  <2>1. /\ controls' = controls /\ handle' = handle
        /\ creation' = [creation EXCEPT ![g] =
               [stage |-> "reconciling", control |-> c, request |-> request, play |-> intent]]
    BY <1>3 DEF ControlWakes, ReconcileControl
  <2>2. g = generation /\ live /\ controls = {}
    BY <1>1, <1>3 DEF CallbacksCurrent, IsCurrent, ViewerInv, CreatesOne
  <2>. HIDE DEF c
  <2>3. /\ creation' \in [Generations -> Creations]
        /\ creation'[g].stage = "reconciling" /\ creation'[g].control = c
        /\ \A f \in Generations : f # g => creation'[f] = creation[f]
    BY <1>2, <2>1 DEF ViewerShape, Creations, CreationStages
  <2>4. OwnedByPlayback' /\ Owned' = Owned
    BY <1>1, <2>1, HandlesSame, SameOwnedKeeps DEF SameOwned
  <2>5. ViewerShape'
    BY <1>1, <1>2, <2>1, <2>3 DEF ViewerShape
  <2>6. CreatesOne'
    <3>1. \A f \in Generations : creation'[f].stage \in Making =>
              /\ creation'[f].control \in created' \cap Controls
              /\ ~IsCurrent(f)' => creation'[f].control \notin Owned'
      BY <1>1, <1>2, <2>2, <2>3, <2>4 DEF ViewerInv, CreatesOne, IsCurrent
    <3>2. \A d \in Controls \cap Owned' : d = c
      BY <1>1, <2>2, <2>4 DEF ViewerInv, CreatesOne, c
    <3>. QED
      BY <1>1, <2>1, <2>2, <2>3, <3>1, <3>2 DEF CreatesOne, Making
  <2>7. OpensFirst' /\ RequestsInOrder' /\ TransitionRuns' /\ DoesAsRequested'
    BY <1>1, <2>1, FrameOpens, FrameRequests, FrameTransition, FrameDoes DEF ViewerInv
  <2>. QED
    BY <2>4, <2>5, <2>6, <2>7 DEF ViewerInv
<1>4. CASE ~CallbacksCurrent(g)
  <2>1. RetireCandidate(g)
    BY <1>4 DEF ControlWakes
  <2>2. failures' \in Nat /\ playing' \in SUBSET ViewerHandles
    BY <1>1, <1>2 DEF ViewerShape
  <2>. QED
    BY <1>1, <1>2, <2>1, <2>2, CandidateKeeps
<1>. QED
  BY <1>3, <1>4

\* A request is the last one, and its task is due.
LEMMA SetPlaybackStateKeeps ==
    ASSUME ViewerInv, NEW play \in BOOLEAN, SetPlaybackState(play)
    PROVE  ViewerInv'
<1>. DEFINE t == StateTask(request', play)
<1>1. /\ generation' = generation /\ live' = live /\ isPlaying' = isPlaying
      /\ streamListener' = streamListener /\ controls' = controls
      /\ handle' = handle /\ created' = created /\ playing' = playing /\ open' = open
      /\ closeObserved' = closeObserved /\ creation' = creation
      /\ transition' = transition /\ failures' = failures /\ disturbed' = disturbed
      /\ request' = request + 1 /\ intent' = play /\ tasks' = Append(tasks, t)
  BY DEF SetPlaybackState
<1>2. ViewerShape /\ request \in Nat
  BY DEF ViewerInv, ViewerShape
<1>3. t \in Tasks /\ t.kind = "state" /\ t.request = request' /\ t.play = intent'
  BY <1>1, <1>2 DEF StateTask, Tasks
<1>. HIDE DEF t
<1>4. /\ tasks' \in Seq(Tasks) /\ tasks' # <<>> /\ Len(tasks) \in Nat
      /\ tasks # <<>> => Head(tasks') = Head(tasks)
      /\ Len(tasks') = Len(tasks) + 1 /\ tasks'[Len(tasks')] = t
      /\ \A i \in 1 .. Len(tasks) : tasks'[i] = tasks[i]
      /\ \A i \in 1 .. Len(tasks') : i \in 1 .. Len(tasks) \/ i = Len(tasks')
  BY <1>1, <1>2, <1>3, TaskAdded
<1>5. /\ \A i \in 1 .. Len(tasks) : tasks[i].request \in Nat
      /\ tasks # <<>> => 1 \in 1 .. Len(tasks) /\ Head(tasks) = tasks[1]
  <2>1. \A i \in 1 .. Len(tasks) : tasks[i] \in Tasks
    BY <1>2 DEF ViewerShape
  <2>2. \A s \in Tasks : s.request \in Nat
    BY DEF Tasks
  <2>3. tasks # <<>> => 1 \in 1 .. Len(tasks) /\ Head(tasks) = tasks[1]
    BY <1>2 DEF ViewerShape
  <2>. QED
    BY <2>1, <2>2, <2>3
<1>6. \A i \in 1 .. Len(tasks) : tasks[i].kind = "state" => tasks[i].request < request'
  BY <1>1, <1>2, <1>5 DEF ViewerInv, RequestsInOrder
<1>7. OwnedByPlayback' /\ CreatesOne' /\ Owned' = Owned
  BY <1>1, HandlesSame, SameOwnedKeeps DEF SameOwned
<1>8. ViewerShape'
  <2>1. intent' \in BOOLEAN
    BY <1>1, Zenon
  <2>. QED
    BY <1>1, <1>2, <1>4, <2>1 DEF ViewerShape
<1>9. OpensFirst'
  BY <1>1, <1>3, <1>4, <1>7 DEF ViewerInv, OpensFirst, CallbacksCurrent, IsCurrent
<1>10. RequestsInOrder'
  <2>1. \A i \in 1 .. Len(tasks') : tasks'[i].kind = "state" =>
           /\ tasks'[i].request <= request'
           /\ tasks'[i].request = request' => tasks'[i].play = intent'
    <3>. SUFFICES ASSUME NEW i \in 1 .. Len(tasks'), tasks'[i].kind = "state"
                  PROVE  /\ tasks'[i].request <= request'
                         /\ tasks'[i].request = request' => tasks'[i].play = intent'
      OBVIOUS
    <3>1. CASE i \in 1 .. Len(tasks)
      BY <3>1, <1>1, <1>2, <1>4, <1>5, <1>6
    <3>2. CASE i = Len(tasks')
      BY <3>2, <1>1, <1>2, <1>3, <1>4
    <3>. QED
      BY <3>1, <3>2, <1>4
  <2>2. \A i, j \in 1 .. Len(tasks') :
           i < j /\ tasks'[i].kind = "state" /\ tasks'[j].kind = "state" =>
               tasks'[i].request < tasks'[j].request
    <3>. SUFFICES ASSUME NEW i \in 1 .. Len(tasks'), NEW j \in 1 .. Len(tasks'), i < j,
                         tasks'[i].kind = "state", tasks'[j].kind = "state"
                  PROVE  tasks'[i].request < tasks'[j].request
      OBVIOUS
    <3>1. i \in 1 .. Len(tasks) /\ tasks'[i] = tasks[i]
      BY <1>4
    <3>2. CASE j \in 1 .. Len(tasks)
      BY <3>1, <3>2, <1>4 DEF ViewerInv, RequestsInOrder
    <3>3. CASE j = Len(tasks')
      BY <3>1, <3>3, <1>3, <1>4, <1>6
    <3>. QED
      BY <3>2, <3>3, <1>4
  <2>. QED
    BY <2>1, <2>2 DEF RequestsInOrder
<1>11. Due'
  <2>1. Len(tasks') \in 1 .. Len(tasks')
    BY <1>4
  <2>. QED
    BY <2>1, <1>3, <1>4 DEF Due
<1>12. TransitionRuns'
  <2>1. transition.stage = "applying" => Head(tasks').request # request'
    BY <1>1, <1>2, <1>4, <1>5, <1>6 DEF ViewerInv, TransitionRuns
  <2>. QED
    BY <1>1, <1>4, <1>11, <2>1 DEF ViewerInv, TransitionRuns
<1>13. DoesAsRequested'
  BY <1>11 DEF DoesAsRequested
<1>. QED
  BY <1>7, <1>8, <1>9, <1>10, <1>12, <1>13 DEF ViewerInv

\* With the task of the last request no request is left.
LEMMA LastRequestDone ==
    ASSUME ViewerInv, tasks # <<>>, Head(tasks).kind = "state", Head(tasks).request = request,
           tasks' = Tail(tasks), request' = request
    PROVE  RequestsInOrder'
<1>1. ViewerShape /\ RequestsInOrder
  BY DEF ViewerInv
<1>2. /\ tasks' \in Seq(Tasks)
      /\ \A i \in 1 .. Len(tasks') : i + 1 \in 1 .. Len(tasks) /\ tasks'[i] = tasks[i + 1]
  BY <1>1, TaskDone
<1>3. /\ 1 \in 1 .. Len(tasks) /\ Head(tasks) = tasks[1] /\ request \in Nat
      /\ Len(tasks') \in Nat
  BY <1>1, <1>2 DEF ViewerShape
<1>4. \A i \in 1 .. Len(tasks') : tasks'[i].kind # "state"
  <2>. SUFFICES ASSUME NEW i \in 1 .. Len(tasks'), tasks'[i].kind = "state"
                PROVE  FALSE
    OBVIOUS
  <2>1. 1 < i + 1
    BY <1>3
  <2>2. tasks[i + 1].kind = "state" /\ i + 1 \in 1 .. Len(tasks)
    BY <1>2
  <2>3. request < tasks[i + 1].request
    BY <2>1, <2>2, <1>1, <1>3 DEF RequestsInOrder
  <2>4. tasks[i + 1].request <= request
    BY <2>2, <1>1 DEF RequestsInOrder
  <2>5. tasks[i + 1].request \in Nat
    <3>1. tasks[i + 1] \in Tasks
      BY <2>2, <1>1 DEF ViewerShape
    <3>. QED
      BY <3>1 DEF Tasks
  <2>. QED
    BY <2>3, <2>4, <2>5, <1>3
<1>. QED
  BY <1>4 DEF RequestsInOrder

\* A step of the queue of tasks that neither opens nor closes anything.
LEMMA TaskTaken ==
    ASSUME ViewerInv, tasks # <<>>, Head(tasks).kind = "state", tasks' = Tail(tasks),
           UNCHANGED <<generation, live, streamListener, controls, handle, created, open,
                       closeObserved, creation>>
    PROVE  /\ tasks' \in Seq(Tasks)
           /\ OwnedByPlayback' /\ CreatesOne' /\ OpensFirst'
<1>1. /\ generation' = generation /\ live' = live /\ streamListener' = streamListener
      /\ controls' = controls /\ handle' = handle /\ created' = created /\ open' = open
      /\ closeObserved' = closeObserved /\ creation' = creation
  OBVIOUS
<1>2. ViewerShape /\ RequestsInOrder
  BY DEF ViewerInv
<1>3. /\ tasks' \in Seq(Tasks)
      /\ \A i \in 1 .. Len(tasks') : i + 1 \in 1 .. Len(tasks) /\ tasks'[i] = tasks[i + 1]
  BY <1>2, TaskDone
<1>4. OwnedByPlayback' /\ CreatesOne' /\ Owned' = Owned
  BY <1>1, HandlesSame, SameOwnedKeeps DEF SameOwned
<1>5. OpensFirst'
  BY <1>1, <1>3, <1>4 DEF ViewerInv, OpensFirst, CallbacksCurrent, IsCurrent
<1>. QED
  BY <1>3, <1>4, <1>5

LEMMA TransitionStartsKeeps ==
    ASSUME ViewerInv, TransitionStarts
    PROVE  ViewerInv'
<1>1. /\ generation' = generation /\ live' = live /\ request' = request
      /\ streamListener' = streamListener /\ controls' = controls
      /\ handle' = handle /\ created' = created /\ playing' = playing /\ open' = open
      /\ closeObserved' = closeObserved /\ creation' = creation
      /\ failures' = failures /\ disturbed' = disturbed
      /\ tasks # <<>> /\ Head(tasks).kind = "state" /\ transition.stage = "none"
  BY DEF TransitionStarts, Runs
<1>2. ViewerShape /\ RequestsInOrder
  BY DEF ViewerInv
<1>3. live => open[generation].stage = "none"
  BY <1>1 DEF ViewerInv, OpensFirst
<1>4. CASE Head(tasks).request = request /\ streamListener # NoHandle
  <2>1. /\ transition' = [stage |-> "applying", targets |-> {streamListener} \cup controls,
                          previous |-> streamListener \in playing]
        /\ intent' = intent /\ isPlaying' = isPlaying /\ tasks' = tasks
    BY <1>4 DEF TransitionStarts
  <2>2. streamListener \in Owned /\ live /\ streamListener \in ViewerHandles
    BY <1>2, <1>4, HandleNames DEF ViewerInv, OwnedByPlayback, ViewerShape
  <2>3. controls \subseteq ViewerHandles
    BY <1>2, HandleNames DEF ViewerShape
  <2>4. (streamListener \in playing) \in BOOLEAN
    OBVIOUS
  <2>5. /\ transition' \in Transitions /\ transition'.stage = "applying"
        /\ transition'.targets = {streamListener} \cup controls
    <3>1. \A b \in BOOLEAN : [stage |-> "applying", targets |-> {streamListener} \cup controls,
                              previous |-> b] \in Transitions
      BY <2>2, <2>3 DEF Transitions
    <3>. QED
      BY <2>1, <2>4, <3>1
  <2>6. Due
    <3>1. 1 \in 1 .. Len(tasks) /\ Head(tasks) = tasks[1]
      BY <1>1, <1>2 DEF ViewerShape
    <3>. QED
      BY <1>1, <1>4, <3>1 DEF Due
  <2>7. OwnedByPlayback' /\ CreatesOne'
    BY <1>1, HandlesSame, SameOwnedKeeps
  <2>8. ViewerShape'
    BY <1>1, <1>2, <2>1, <2>5 DEF ViewerShape
  <2>9. OpensFirst' /\ RequestsInOrder' /\ DoesAsRequested'
    BY <1>1, <2>1, FrameOpens, FrameRequests, FrameDoes DEF ViewerInv
  <2>10. TransitionRuns'
    BY <1>1, <2>1, <2>2, <2>5, <2>6 DEF TransitionRuns, Due
  <2>. QED
    BY <2>7, <2>8, <2>9, <2>10 DEF ViewerInv
<1>5. CASE Head(tasks).request = request /\ streamListener = NoHandle
  <2>1. tasks' = Tail(tasks) /\ transition' = transition
    BY <1>5 DEF TransitionStarts
  <2>2. intent' = FALSE /\ isPlaying' = FALSE
    BY <1>5, Zenon DEF TransitionStarts
  <2>3. intent' \in BOOLEAN /\ isPlaying' \in BOOLEAN
    BY <2>2, Zenon
  <2>4. tasks' \in Seq(Tasks) /\ OwnedByPlayback' /\ CreatesOne' /\ OpensFirst'
    BY <1>1, <2>1, TaskTaken
  <2>5. ViewerShape'
    BY <1>1, <1>2, <2>1, <2>3, <2>4 DEF ViewerShape
  <2>6. RequestsInOrder'
    BY <1>1, <1>5, <2>1, LastRequestDone
  <2>7. TransitionRuns'
    BY <1>1, <2>1 DEF TransitionRuns
  <2>8. DoesAsRequested'
    BY <1>1, <1>3, <1>5 DEF DoesAsRequested
  <2>. QED
    BY <2>4, <2>5, <2>6, <2>7, <2>8 DEF ViewerInv
<1>6. CASE Head(tasks).request # request
  <2>1. /\ tasks' = Tail(tasks) /\ transition' = transition /\ intent' = intent
        /\ isPlaying' = isPlaying
    BY <1>6 DEF TransitionStarts
  <2>2. tasks' \in Seq(Tasks) /\ OwnedByPlayback' /\ CreatesOne' /\ OpensFirst'
    BY <1>1, <2>1, TaskTaken
  <2>3. RequestsInOrder' /\ (Due => Due')
    BY <1>1, <1>2, <1>6, <2>1, TaskDone
  <2>4. ViewerShape'
    BY <1>1, <1>2, <2>1, <2>2 DEF ViewerShape
  <2>5. TransitionRuns'
    BY <1>1, <2>1 DEF TransitionRuns
  <2>6. DoesAsRequested'
    BY <1>1, <2>1, <2>3 DEF ViewerInv, DoesAsRequested, ControlsDo, ListenerDoes
  <2>. QED
    BY <2>2, <2>3, <2>4, <2>5, <2>6 DEF ViewerInv
<1>. QED
  BY <1>4, <1>5, <1>6

\* The transition has ended: all of them do as requested, or it is taken back.
LEMMA TransitionEndsKeeps ==
    ASSUME ViewerInv, NEW wrong \in SUBSET transition.targets, TransitionEnds(wrong)
    PROVE  ViewerInv'
<1>. DEFINE play == Head(tasks).play
            T == transition.targets \ wrong
<1>1. /\ generation' = generation /\ live' = live /\ intent' = intent /\ request' = request
      /\ streamListener' = streamListener /\ controls' = controls
      /\ handle' = handle /\ created' = created /\ open' = open
      /\ closeObserved' = closeObserved /\ creation' = creation
      /\ transition.stage = "applying"
      /\ playing' = IF play THEN playing \cup T ELSE playing \ T
  BY DEF TransitionEnds, Applied
<1>2. ViewerShape /\ RequestsInOrder
  BY DEF ViewerInv
<1>3. /\ live /\ tasks # <<>> /\ Head(tasks).kind = "state" /\ Due
      /\ streamListener # NoHandle => streamListener \in transition.targets
      /\ Head(tasks).request = request =>
             \A c \in controls \ transition.targets : (c \in playing) = intent
  BY <1>1 DEF ViewerInv, TransitionRuns
<1>4. /\ 1 \in 1 .. Len(tasks) /\ Head(tasks) = tasks[1] /\ Head(tasks) \in Tasks
  BY <1>2, <1>3 DEF ViewerShape
<1>5. play \in BOOLEAN /\ (Head(tasks).request = request => play = intent)
  BY <1>2, <1>3, <1>4 DEF Tasks, RequestsInOrder
<1>6. transition.targets \in SUBSET ViewerHandles
  BY <1>2 DEF ViewerShape, Transitions
<1>7. playing' \in SUBSET ViewerHandles
  BY <1>1, <1>2, <1>6 DEF ViewerShape
<1>8. /\ \A h \in T : (h \in playing') = play
      /\ \A h : h \notin T => (h \in playing' <=> h \in playing)
  BY <1>1, <1>5, ToldTo
<1>. HIDE DEF play
<1>9. CASE wrong = {}
  <2>1. /\ transition' = NoTransition /\ tasks' = Tail(tasks)
        /\ failures' = failures /\ disturbed' = disturbed
    BY <1>9 DEF TransitionEnds
  <2>2. isPlaying' = IF Head(tasks).request = request THEN play ELSE isPlaying
    BY <1>9 DEF TransitionEnds, play
  <2>3. isPlaying' \in BOOLEAN
    <3>1. CASE Head(tasks).request = request
      BY <2>2, <3>1, <1>5, Zenon
    <3>2. CASE Head(tasks).request # request
      BY <2>2, <3>2, <1>2, Zenon DEF ViewerShape
    <3>. QED
      BY <3>1, <3>2
  <2>4. transition' \in Transitions /\ transition'.stage = "none"
    BY <2>1 DEF NoTransition, Transitions
  <2>5. tasks' \in Seq(Tasks) /\ OwnedByPlayback' /\ CreatesOne' /\ OpensFirst'
    BY <1>1, <1>3, <2>1, TaskTaken
  <2>6. RequestsInOrder' /\ (Head(tasks).request # request => Due')
    BY <1>1, <1>2, <1>3, <2>1, TaskDone
  <2>7. ViewerShape'
    BY <1>1, <1>2, <1>7, <2>1, <2>3, <2>4, <2>5 DEF ViewerShape
  <2>8. TransitionRuns'
    BY <2>4 DEF TransitionRuns
  <2>9. DoesAsRequested'
    <3>. SUFFICES ASSUME ~Due' PROVE ControlsDo' /\ ListenerDoes'
      BY DEF DoesAsRequested
    <3>1. Head(tasks).request = request /\ play = intent
      BY <1>5, <2>6
    <3>2. \A h \in transition.targets : (h \in playing') = intent
      BY <1>8, <1>9, <3>1
    <3>3. \A c \in controls \ transition.targets : (c \in playing') = intent
      BY <1>3, <1>8, <3>1
    <3>4. ControlsDo'
      BY <1>1, <3>2, <3>3 DEF ControlsDo
    <3>5. isPlaying' = intent
      BY <2>2, <3>1, Zenon
    <3>6. ListenerDoes'
      BY <1>1, <1>3, <3>2, <3>5, Zenon DEF ListenerDoes
    <3>. QED
      BY <3>4, <3>6
  <2>. QED
    BY <2>5, <2>6, <2>7, <2>8, <2>9 DEF ViewerInv
<1>10. CASE wrong # {}
  <2>1. /\ failures' = failures + 1 /\ isPlaying' = isPlaying /\ tasks' = tasks
        /\ disturbed' = IF disturbed = "no" THEN "transition" ELSE disturbed
        /\ transition' = [transition EXCEPT !.stage = "rollback", !.targets = @ \cup controls]
    BY <1>10 DEF TransitionEnds, Fail
  <2>2. controls \subseteq ViewerHandles
    BY <1>2, HandleNames DEF ViewerShape
  <2>3. transition' \in Transitions /\ transition'.stage = "rollback"
    BY <1>2, <2>1, <2>2 DEF Transitions, ViewerShape
  <2>4. disturbed' \in {"no", "transition", "rollback"} /\ disturbed' # "no"
    BY <1>2, <2>1 DEF ViewerShape
  <2>5. OwnedByPlayback' /\ CreatesOne'
    BY <1>1, HandlesSame, SameOwnedKeeps
  <2>6. ViewerShape'
    BY <1>1, <1>2, <1>7, <2>1, <2>3, <2>4 DEF ViewerShape
  <2>7. OpensFirst' /\ RequestsInOrder'
    BY <1>1, <2>1, FrameOpens, FrameRequests DEF ViewerInv
  <2>8. TransitionRuns'
    BY <1>1, <1>3, <2>1, <2>3, <2>4 DEF TransitionRuns
  <2>9. DoesAsRequested'
    BY <2>4 DEF DoesAsRequested
  <2>. QED
    BY <2>5, <2>6, <2>7, <2>8, <2>9 DEF ViewerInv
<1>. QED
  BY <1>9, <1>10

LEMMA RollbackEndsKeeps ==
    ASSUME ViewerInv, NEW wrong \in SUBSET transition.targets, RollbackEnds(wrong)
    PROVE  ViewerInv'
<1>. DEFINE T == transition.targets \ wrong
            reconciled == streamListener \in playing'
<1>1. /\ generation' = generation /\ live' = live /\ request' = request
      /\ streamListener' = streamListener /\ controls' = controls
      /\ handle' = handle /\ created' = created /\ open' = open
      /\ closeObserved' = closeObserved /\ creation' = creation
      /\ transition.stage = "rollback"
      /\ playing' = IF transition.previous THEN playing \cup T ELSE playing \ T
      /\ transition' = NoTransition /\ tasks' = Tail(tasks)
  BY DEF RollbackEnds, Applied
<1>2. ViewerShape /\ RequestsInOrder
  BY DEF ViewerInv
<1>3. /\ live /\ tasks # <<>> /\ Head(tasks).kind = "state" /\ disturbed # "no"
  BY <1>1 DEF ViewerInv, TransitionRuns
<1>4. playing' \in SUBSET ViewerHandles
  BY <1>1, <1>2 DEF ViewerShape, Transitions
<1>5. failures' \in Nat /\ disturbed' \in {"no", "transition", "rollback"} /\ disturbed' # "no"
  <2>1. CASE wrong = {}
    BY <2>1, <1>2, <1>3 DEF RollbackEnds, ViewerShape
  <2>2. CASE wrong # {}
    BY <2>2, <1>2 DEF RollbackEnds, ViewerShape, Fail
  <2>. QED
    BY <2>1, <2>2
<1>6. transition' \in Transitions /\ transition'.stage = "none"
  BY <1>1 DEF NoTransition, Transitions
<1>7. tasks' \in Seq(Tasks) /\ OwnedByPlayback' /\ CreatesOne' /\ OpensFirst'
  BY <1>1, <1>3, TaskTaken
<1>8. intent' \in BOOLEAN /\ isPlaying' \in BOOLEAN /\ RequestsInOrder'
  <2>1. CASE Head(tasks).request = request
    <3>1. intent' = reconciled /\ isPlaying' = reconciled
      BY <2>1, Zenon DEF RollbackEnds
    <3>2. intent' \in BOOLEAN /\ isPlaying' \in BOOLEAN
      BY <3>1
    <3>. QED
      BY <1>1, <1>3, <2>1, <3>2, LastRequestDone
  <2>2. CASE Head(tasks).request # request
    <3>1. intent' = intent /\ isPlaying' = isPlaying
      BY <2>2, Zenon DEF RollbackEnds
    <3>. QED
      BY <1>1, <1>2, <1>3, <3>1, TaskDone DEF ViewerShape
  <2>. QED
    BY <2>1, <2>2
<1>9. ViewerShape'
  BY <1>1, <1>2, <1>4, <1>5, <1>6, <1>7, <1>8 DEF ViewerShape
<1>10. TransitionRuns'
  BY <1>6 DEF TransitionRuns
<1>11. DoesAsRequested'
  BY <1>5 DEF DoesAsRequested
<1>. QED
  BY <1>7, <1>8, <1>9, <1>10, <1>11 DEF ViewerInv

\* What is closed was retired, and is nobody's any more.
LEMMA HandleClosesKeeps ==
    ASSUME ViewerInv, NEW k \in ViewerHandles, HandleCloses(k)
    PROVE  ViewerInv'
<1>1. /\ generation' = generation /\ live' = live /\ intent' = intent /\ request' = request
      /\ isPlaying' = isPlaying /\ streamListener' = streamListener /\ controls' = controls
      /\ created' = created /\ playing' = playing /\ open' = open
      /\ closeObserved' = closeObserved /\ creation' = creation /\ tasks' = tasks
      /\ transition' = transition /\ failures' = failures /\ disturbed' = disturbed
      /\ handle[k] = "retired" /\ handle' = [handle EXCEPT ![k] = "closed"]
  BY DEF HandleCloses, CloseHandle
<1>2. ViewerShape
  BY DEF ViewerInv
<1>3. /\ handle' \in [ViewerHandles -> HandleStages]
      /\ \A h \in ViewerHandles : handle'[h] = IF h = k THEN "closed" ELSE handle[h]
  BY <1>1, <1>2 DEF ViewerShape, HandleStages
<1>4. Owned' = Owned /\ Held' \subseteq Held
  BY <1>1, <1>3 DEF Owned, Held, In
<1>5. SameOwned
  BY <1>1, <1>2, <1>3, <1>4 DEF SameOwned, ViewerInv, OwnedByPlayback, ViewerShape
<1>6. OwnedByPlayback' /\ CreatesOne'
  BY <1>1, <1>5, SameOwnedKeeps
<1>7. ViewerShape'
  BY <1>1, <1>2, <1>3 DEF ViewerShape
<1>8. OpensFirst'
  BY <1>1, <1>4 DEF ViewerInv, OpensFirst, CallbacksCurrent, IsCurrent
<1>9. RequestsInOrder' /\ TransitionRuns' /\ DoesAsRequested'
  BY <1>1, FrameRequests, FrameTransition, FrameDoes DEF ViewerInv
<1>. QED
  BY <1>6, <1>7, <1>8, <1>9 DEF ViewerInv

LEMMA ViewerStep == ViewerInv /\ [ViewerNext]_viewerVars => ViewerInv'
<1>. SUFFICES ASSUME ViewerInv, [ViewerNext]_viewerVars PROVE ViewerInv'
  OBVIOUS
<1>1. CASE \E streamChanged \in BOOLEAN : SetProgress(streamChanged)
  BY <1>1, SetProgressKeeps
<1>2. CASE Unmount
  BY <1>2, UnmountKeeps
<1>3. CASE \E g \in Generations : OpenStep(g)
  BY <1>3, CleanupWaitedKeeps, IteratorArrivesKeeps, OpenFailsKeeps, IteratorAppliedKeeps,
     IteratorWakesKeeps, OpenRetiredKeeps DEF OpenStep
<1>4. CASE \E g \in Generations : CreationStep(g)
  BY <1>4, ChunkArrivesKeeps, CleanupSettledKeeps, ControlAppliedKeeps, ControlWakesKeeps,
     ControlFailsKeeps, CreationEndsKeeps DEF CreationStep
<1>5. CASE \E g \in Generations : StreamEnds(g)
  BY <1>5, StreamEndsKeeps
<1>6. CASE CloseStarts \/ CloseEnds
  BY <1>6, CloseStartsKeeps, CloseEndsKeeps
<1>7. CASE \E c \in Controls : PushFails(c)
  BY <1>7, PushFailsKeeps
<1>8. CASE \E play \in BOOLEAN : SetPlaybackState(play)
  BY <1>8, SetPlaybackStateKeeps
<1>9. CASE TransitionStarts
  BY <1>9, TransitionStartsKeeps
<1>10. CASE \E wrong \in SUBSET transition.targets : TransitionEnds(wrong) \/ RollbackEnds(wrong)
  BY <1>10, TransitionEndsKeeps, RollbackEndsKeeps
<1>11. CASE \E h \in ViewerHandles : HandleCloses(h)
  BY <1>11, HandleClosesKeeps
<1>12. CASE UNCHANGED viewerVars
  <2>1. /\ generation' = generation /\ live' = live /\ intent' = intent /\ request' = request
        /\ isPlaying' = isPlaying /\ streamListener' = streamListener /\ controls' = controls
        /\ created' = created /\ playing' = playing /\ open' = open /\ handle' = handle
        /\ closeObserved' = closeObserved /\ creation' = creation /\ tasks' = tasks
        /\ transition' = transition /\ failures' = failures /\ disturbed' = disturbed
    BY <1>12 DEF viewerVars
  <2>2. ViewerShape'
    BY <2>1 DEF ViewerInv, ViewerShape
  <2>3. OwnedByPlayback' /\ CreatesOne' /\ OpensFirst' /\ RequestsInOrder' /\ TransitionRuns'
        /\ DoesAsRequested'
    BY <2>1, FrameOwned, FrameOpens, FrameCreates, FrameRequests, FrameTransition, FrameDoes
    DEF ViewerInv
  <2>. QED
    BY <2>2, <2>3 DEF ViewerInv
<1>. QED
  BY <1>1, <1>2, <1>3, <1>4, <1>5, <1>6, <1>7, <1>8, <1>9, <1>10, <1>11, <1>12 DEF ViewerNext

\* The inductive invariant of the playback holds, in whatever order the awaits of the
\* page end.
THEOREM PlaybackSafe == ViewerSpec => []ViewerInv
BY ViewerStarts, ViewerStep, PTL DEF ViewerSpec

\* Every iterator and control that was made is the viewer's while its generation plays, and
\* the cleanup's from then on; and no control is made before the one before it is closed.
THEOREM NoHandleStrays == ViewerSpec => []NothingStrays
<1>1. ViewerInv => NothingStrays
  BY DEF ViewerInv, OwnedByPlayback, NothingStrays
<1>. QED
  BY <1>1, PlaybackSafe, PTL

\* When the queue is empty, what is published does what was requested last, and the page
\* shows it, unless a transition has failed before.
THEOREM PlaybackAgrees == ViewerSpec => []PlaybackIsCoherent
<1>1. ViewerInv => PlaybackIsCoherent
  <2>. SUFFICES ASSUME ViewerInv, Settled, disturbed = "no" PROVE Coherent
    BY DEF PlaybackIsCoherent
  <2>1. live /\ streamListener # NoHandle /\ tasks = <<>>
    BY DEF Settled
  <2>2. ~Due
    BY <2>1 DEF Due
  <2>3. ControlsDo /\ ListenerDoes
    BY <2>1, <2>2 DEF ViewerInv, DoesAsRequested
  <2>. QED
    BY <2>1, <2>3, Zenon DEF ControlsDo, ListenerDoes, Coherent
<1>. QED
  BY <1>1, PlaybackSafe, PTL

-----------------------------------------------------------------------------
(* The cleanup of playback resources.                                      *)

\* What the coordinators have retired is in the registry until it is closed, and only
\* what is in the registry is being closed, by one call.
CleanupShape ==
    /\ owned \in SUBSET Resources /\ retired \in SUBSET Resources
    /\ entries \in SUBSET Resources /\ closed \in SUBSET Resources
    /\ closes \in [Resources -> Nat]
    /\ barriers \in [Owners -> Nat] /\ retryTimer \in SUBSET Owners
    /\ automaticRetryAttempts \in [Owners -> 0 .. MaxAutomaticRetries]
    /\ calls \in [Owners -> Nat]
RegistryExact ==
    /\ owned \cap retired = {} /\ entries \cap closed = {}
    /\ retired = entries \cup closed
    /\ \A r \in Resources : closes[r] <= 1 /\ (closes[r] > 0 => r \in entries)

\* The inductive invariant.
CleanupInv == CleanupShape /\ RegistryExact /\ RetryIsScheduled

\* Nothing is there at first.
LEMMA CleanupStarts == CleanupInit => CleanupInv
BY CleanupAssumption
DEF CleanupInit, CleanupInv, CleanupShape, RegistryExact, RetryIsScheduled, PendingOf

\* What an enqueue of the retired does to the registry and to the drain of its owner.
LEMMA EnqueueKeeps ==
    ASSUME CleanupInv, NEW o \in Owners, NEW resources \in SUBSET Of(o), NEW waiting \in {1, 2},
           Enqueue(o, resources, waiting), owned' = owned \ resources,
           retired' = retired \cup resources, resources \cap retired = {}
    PROVE  CleanupInv'
<1>1. /\ calls' = [calls EXCEPT ![o] = @ + 1] /\ barriers' = [barriers EXCEPT ![o] = @ + waiting]
      /\ retryTimer' = retryTimer \ {o}
      /\ automaticRetryAttempts' = [automaticRetryAttempts EXCEPT ![o] = 0]
      /\ entries' = entries \cup resources /\ closed' = closed
      /\ closes' = [r \in Resources |-> IF r \in entries' /\ closes[r] = 0 THEN 1 ELSE closes[r]]
  BY DEF Enqueue, CloseAttempt
<1>2. CleanupShape /\ RegistryExact /\ RetryIsScheduled /\ resources \subseteq Resources
  BY DEF CleanupInv, Of
<1>3. 0 \in 0 .. MaxAutomaticRetries
  BY CleanupAssumption
<1>4. CleanupShape'
  BY <1>1, <1>2, <1>3 DEF CleanupShape
<1>5. RegistryExact'
  BY <1>1, <1>2 DEF RegistryExact, CleanupShape
<1>6. RetryIsScheduled'
  <2>1. ASSUME NEW p \in Owners, PendingOf(p)' # {}, barriers'[p] = 0
        PROVE  p \in retryTimer' \/ automaticRetryAttempts'[p] = MaxAutomaticRetries
    <3>1. p # o
      <4>1. barriers'[o] # 0
        BY <1>1, <1>2 DEF CleanupShape
      <4>. QED
        BY <2>1, <4>1
    <3>2. PendingOf(p)' = PendingOf(p)
      BY <1>1, <3>1 DEF PendingOf, Of
    <3>3. barriers[p] = 0 /\ automaticRetryAttempts'[p] = automaticRetryAttempts[p]
      BY <1>1, <1>2, <2>1, <3>1 DEF CleanupShape
    <3>. QED
      BY <1>1, <1>2, <2>1, <3>1, <3>2, <3>3 DEF RetryIsScheduled
  <2>. QED
    BY <2>1 DEF RetryIsScheduled
<1>. QED
  BY <1>4, <1>5, <1>6 DEF CleanupInv

\* The stage of a resource, as the viewer sees it.
LEMMA StageIs ==
    ASSUME RegistryExact, NEW r \in Resources
    PROVE  /\ r \in entries => StageOf(r) = "retired"
           /\ r \in closed => StageOf(r) = "closed"
           /\ r \in owned => StageOf(r) = "owned"
           /\ r \notin retired /\ r \notin owned => StageOf(r) = "unborn"
<1>1. /\ r \in entries => r \notin closed
      /\ r \in owned => r \notin entries /\ r \notin closed
      /\ r \notin retired => r \notin entries /\ r \notin closed
  BY DEF RegistryExact
<1>2. r \in entries => r \notin closed /\ r \notin owned
  BY <1>1
<1>3. r \in entries => StageOf(r) = "retired"
  BY <1>2, Zenon DEF StageOf
<1>4. r \in closed => r \notin entries /\ r \notin owned
  BY <1>1
<1>5. r \in closed => StageOf(r) = "closed"
  BY <1>4, Zenon DEF StageOf
<1>6. r \in owned => StageOf(r) = "owned"
  BY <1>1, Zenon DEF StageOf
<1>7. r \notin retired /\ r \notin owned => StageOf(r) = "unborn"
  BY <1>1, Zenon DEF StageOf
<1>. QED
  BY <1>1, <1>3, <1>5, <1>6, <1>7

\* The same of the next state.
LEMMA StageIsNext ==
    ASSUME RegistryExact', NEW r \in Resources
    PROVE  /\ r \in entries' => StageOf(r)' = "retired"
           /\ r \in closed' => StageOf(r)' = "closed"
           /\ r \in owned' => StageOf(r)' = "owned"
           /\ r \notin retired' /\ r \notin owned' => StageOf(r)' = "unborn"
<1>1. /\ r \in entries' => r \notin closed'
      /\ r \in owned' => r \notin entries' /\ r \notin closed'
      /\ r \notin retired' => r \notin entries' /\ r \notin closed'
  BY DEF RegistryExact
<1>2. r \in entries' => r \notin closed' /\ r \notin owned'
  BY <1>1
<1>3. r \in entries' => StageOf(r)' = "retired"
  BY <1>2, Zenon DEF StageOf
<1>4. r \in closed' => r \notin entries' /\ r \notin owned'
  BY <1>1
<1>5. r \in closed' => StageOf(r)' = "closed"
  BY <1>4, Zenon DEF StageOf
<1>6. r \in owned' => StageOf(r)' = "owned"
  BY <1>1, Zenon DEF StageOf
<1>7. r \notin retired' /\ r \notin owned' => StageOf(r)' = "unborn"
  BY <1>1, Zenon DEF StageOf
<1>. QED
  BY <1>1, <1>3, <1>5, <1>6, <1>7

\* What the viewer sees of a step.
HandleSteps == Coordinated!HandlesNext \/ UNCHANGED [r \in Resources |-> StageOf(r)]

\* The resources of the next state, as the abstraction has them.
LEMMA StagesNow ==
    /\ \A r \in Resources : [x \in Resources |-> StageOf(x)][r] = StageOf(r)
    /\ [x \in Resources |-> StageOf(x)]' = [x \in Resources |-> StageOf(x)']
OBVIOUS

\* A step after which owned, entries and closed are the same is none to the viewer.
LEMMA SameStages ==
    ASSUME owned' = owned, entries' = entries, closed' = closed
    PROVE  HandleSteps
<1>1. \A r \in Resources : StageOf(r)' = StageOf(r)
  BY Zenon DEF StageOf
<1>2. [x \in Resources |-> StageOf(x)'] = [x \in Resources |-> StageOf(x)]
  BY <1>1
<1>. QED
  BY <1>2, StagesNow, Zenon DEF HandleSteps

\* What is retired with a set of resources.
LEMMA RetiresThese ==
    ASSUME RegistryExact, RegistryExact', CleanupShape, NEW resources \in SUBSET Resources,
           resources \cap retired = {},
           owned' = owned \ resources, retired' = retired \cup resources,
           entries' = entries \cup resources, closed' = closed
    PROVE  HandleSteps
<1>. DEFINE now == [x \in Resources |-> StageOf(x)]
<1>1. ASSUME NEW x \in Resources
      PROVE  StageOf(x)' = IF x \in resources /\ now[x] \in {"unborn", "owned"}
                           THEN "retired" ELSE now[x]
  <2>1. CASE x \in resources
    <3>1. StageOf(x)' = "retired"
      BY <2>1, StageIsNext
    <3>2. now[x] = "owned" \/ now[x] = "unborn"
      BY <2>1, StageIs
    <3>. QED
      BY <2>1, <3>1, <3>2
  <2>2. CASE x \notin resources
    <3>1. StageOf(x)' = StageOf(x)
      BY <2>2, StageIs, StageIsNext DEF RegistryExact
    <3>. QED
      BY <2>2, <3>1
  <2>. QED
    BY <2>1, <2>2
<1>2. [x \in Resources |-> StageOf(x)'] =
          [x \in Resources |-> IF x \in resources /\ now[x] \in {"unborn", "owned"}
                               THEN "retired" ELSE now[x]]
  BY <1>1
<1>3. Coordinated!Retire(resources)
  BY <1>2, StagesNow, Zenon DEF Coordinated!Retire, Coordinated!RetiredWith
<1>. QED
  BY <1>3, Zenon DEF HandleSteps, Coordinated!HandlesNext

\* A resource that is registered, or whose close succeeds.
LEMMA MovesOne ==
    ASSUME NEW r \in Resources, \A x \in Resources \ {r} : StageOf(x)' = StageOf(x),
           \/ StageOf(r) \in {"unborn", "owned"} /\ StageOf(r)' = "owned"
           \/ StageOf(r) = "retired" /\ StageOf(r)' = "closed"
    PROVE  HandleSteps
<1>. DEFINE now == [x \in Resources |-> StageOf(x)]
<1>1. CASE StageOf(r) \in {"unborn", "owned"} /\ StageOf(r)' = "owned"
  <2>1. [x \in Resources |-> StageOf(x)'] = [now EXCEPT ![r] = "owned"]
    BY <1>1
  <2>2. now[r] \in {"unborn", "owned"}
    BY <1>1
  <2>3. Coordinated!Register(r)
    BY <2>1, <2>2, StagesNow, Zenon DEF Coordinated!Register
  <2>. QED
    BY <2>3, Zenon DEF HandleSteps, Coordinated!HandlesNext
<1>2. CASE StageOf(r) = "retired" /\ StageOf(r)' = "closed"
  <2>1. [x \in Resources |-> StageOf(x)'] = [now EXCEPT ![r] = "closed"]
    BY <1>2
  <2>2. now[r] = "retired"
    BY <1>2
  <2>3. Coordinated!CloseHandle(r)
    BY <2>1, <2>2, StagesNow, Zenon DEF Coordinated!CloseHandle
  <2>. QED
    BY <2>3, Zenon DEF HandleSteps, Coordinated!HandlesNext
<1>. QED
  BY <1>1, <1>2

\* Every step keeps the registry exact, and is one that the viewer may see or none to it.
LEMMA CleanupStep ==
    CleanupInv /\ [CleanupNext]_cleanupVars => CleanupInv' /\ HandleSteps
<1>. SUFFICES ASSUME CleanupInv, [CleanupNext]_cleanupVars PROVE CleanupInv' /\ HandleSteps
  OBVIOUS
<1>1. CleanupShape /\ RegistryExact /\ RetryIsScheduled
  BY DEF CleanupInv
<1>2. ASSUME NEW o \in Owners, NEW resources \in SUBSET Of(o), NEW waiting \in {1, 2},
             Detach(resources), Enqueue(o, Detached(resources), waiting)
      PROVE  CleanupInv' /\ HandleSteps
  <2>. DEFINE new == Detached(resources)
  <2>1. new \in SUBSET Of(o) /\ new \cap retired = {} /\ new \in SUBSET Resources
    BY DEF Detached, Of
  <2>2. owned' = owned \ new /\ retired' = retired \cup new
    BY <1>1, <1>2 DEF Detach, Detached, RegistryExact
  <2>. HIDE DEF new
  <2>3. Enqueue(o, new, waiting)
    BY <1>2 DEF new
  <2>4. CleanupInv'
    BY <2>1, <2>2, <2>3, EnqueueKeeps
  <2>5. entries' = entries \cup new /\ closed' = closed
    BY <2>3 DEF Enqueue
  <2>6. HandleSteps
    BY <1>1, <2>1, <2>2, <2>4, <2>5, RetiresThese DEF CleanupInv
  <2>. QED
    BY <2>4, <2>6
<1>3. ASSUME NEW r \in Resources, RegisterResource(r) PROVE CleanupInv' /\ HandleSteps
  <2>1. /\ r \notin retired /\ owned' = owned \cup {r} /\ retired' = retired
        /\ entries' = entries /\ closes' = closes /\ closed' = closed /\ barriers' = barriers
        /\ retryTimer' = retryTimer /\ automaticRetryAttempts' = automaticRetryAttempts
        /\ calls' = calls
    BY <1>3 DEF RegisterResource, registry
  <2>2. CleanupShape' /\ RegistryExact' /\ RetryIsScheduled'
    BY <1>1, <2>1 DEF CleanupShape, RegistryExact, RetryIsScheduled, PendingOf
  <2>3. \A x \in Resources \ {r} : StageOf(x)' = StageOf(x)
    BY <1>1, <2>1, <2>2, StageIs, StageIsNext DEF RegistryExact
  <2>4. (StageOf(r) = "unborn" \/ StageOf(r) = "owned") /\ StageOf(r)' = "owned"
    BY <1>1, <2>1, <2>2, StageIs, StageIsNext
  <2>5. HandleSteps
    BY <2>3, <2>4, MovesOne
  <2>. QED
    BY <2>2, <2>5 DEF CleanupInv
<1>4. ASSUME NEW o \in Owners, NEW resources \in SUBSET Of(o), RetireResources(o, resources)
      PROVE  CleanupInv' /\ HandleSteps
  <2>1. CASE Detached(resources) = {}
    <3>1. /\ owned' = owned /\ retired' = retired
          /\ entries' = entries /\ closes' = closes /\ closed' = closed /\ barriers' = barriers
          /\ retryTimer' = retryTimer /\ automaticRetryAttempts' = automaticRetryAttempts
          /\ calls' = calls
      BY <1>1, <1>4, <2>1 DEF RetireResources, Detach, Detached, registry, RegistryExact
    <3>2. CleanupShape' /\ RegistryExact' /\ RetryIsScheduled'
      BY <1>1, <3>1 DEF CleanupShape, RegistryExact, RetryIsScheduled, PendingOf
    <3>. QED
      BY <3>1, <3>2, SameStages DEF CleanupInv
  <2>2. CASE Detached(resources) # {}
    BY <1>2, <1>4, <2>2 DEF RetireResources
  <2>. QED
    BY <2>1, <2>2
<1>5. ASSUME NEW o \in Owners, RetireOwner(o) PROVE CleanupInv' /\ HandleSteps
  <2>. DEFINE all == Detached(Of(o) \cap owned)
  <2>1. all \in SUBSET Of(o) /\ Detached(all) = all
    BY DEF Detached
  <2>. HIDE DEF all
  <2>2. PICK waiting \in {1, 2} : Detach(all) /\ Enqueue(o, all, waiting)
    <3>1. CASE all = {}
      BY <1>5, <3>1, Zenon DEF RetireOwner, all
    <3>2. CASE all # {}
      BY <1>5, <3>2, Zenon DEF RetireOwner, all
    <3>. QED
      BY <3>1, <3>2
  <2>3. Enqueue(o, Detached(all), waiting)
    BY <2>1, <2>2
  <2>. QED
    BY <1>2, <2>1, <2>2, <2>3
<1>6. ASSUME NEW o \in Owners, Retry(o) PROVE CleanupInv' /\ HandleSteps
  <2>1. Enqueue(o, {}, 1) /\ owned' = owned \ {} /\ retired' = retired \cup {}
    BY <1>1, <1>6 DEF Retry, coordinator, CleanupShape
  <2>2. {} \in SUBSET Of(o) /\ {} \cap retired = {} /\ 1 \in {1, 2}
    OBVIOUS
  <2>3. CleanupInv'
    BY <2>1, <2>2, EnqueueKeeps
  <2>4. entries' = entries /\ closed' = closed /\ owned' = owned
    BY <1>1, <2>1 DEF Enqueue, CleanupShape
  <2>. QED
    BY <2>3, <2>4, SameStages
<1>7. ASSUME NEW o \in Owners, AutomaticRetry(o) PROVE CleanupInv' /\ HandleSteps
  <2>1. /\ retryTimer' = retryTimer \ {o} /\ barriers' = [barriers EXCEPT ![o] = @ + 1]
        /\ closes' = [r \in Resources |-> IF r \in PendingOf(o) /\ closes[r] = 0 THEN 1 ELSE closes[r]]
        /\ owned' = owned /\ retired' = retired /\ entries' = entries /\ closed' = closed
        /\ automaticRetryAttempts' = automaticRetryAttempts /\ calls' = calls
    BY <1>7 DEF AutomaticRetry, CloseAttempt, coordinator
  <2>2. CleanupShape' /\ RegistryExact'
    BY <1>1, <2>1 DEF CleanupShape, RegistryExact, PendingOf
  <2>3. RetryIsScheduled'
    <3>1. ASSUME NEW p \in Owners, PendingOf(p)' # {}, barriers'[p] = 0
          PROVE  p \in retryTimer' \/ automaticRetryAttempts'[p] = MaxAutomaticRetries
      <4>1. p # o
        <5>1. barriers'[o] # 0
          BY <1>1, <2>1 DEF CleanupShape
        <5>. QED
          BY <3>1, <5>1
      <4>2. PendingOf(p) # {} /\ barriers[p] = 0
        BY <1>1, <2>1, <3>1, <4>1 DEF PendingOf, CleanupShape
      <4>. QED
        BY <1>1, <2>1, <4>1, <4>2 DEF RetryIsScheduled
    <3>. QED
      BY <3>1 DEF RetryIsScheduled
  <2>. QED
    BY <2>1, <2>2, <2>3, SameStages DEF CleanupInv
<1>8. CASE RetryWhenUseful
  <2>1. /\ closes' = [r \in Resources |-> IF r \in entries /\ closes[r] = 0 THEN 1 ELSE closes[r]]
        /\ owned' = owned /\ retired' = retired /\ entries' = entries /\ closed' = closed
        /\ barriers' = barriers /\ retryTimer' = retryTimer
        /\ automaticRetryAttempts' = automaticRetryAttempts /\ calls' = calls
    BY <1>8 DEF RetryWhenUseful, CloseAttempt, coordinator
  <2>2. CleanupShape' /\ RegistryExact' /\ RetryIsScheduled'
    BY <1>1, <2>1 DEF CleanupShape, RegistryExact, RetryIsScheduled, PendingOf
  <2>. QED
    BY <2>1, <2>2, SameStages DEF CleanupInv
<1>9. ASSUME NEW r \in Resources, NEW succeeds \in BOOLEAN, CloseSettles(r, succeeds)
      PROVE  CleanupInv' /\ HandleSteps
  <2>1. /\ closes[r] > 0 /\ closes' = [closes EXCEPT ![r] = @ - 1]
        /\ owned' = owned /\ retired' = retired /\ barriers' = barriers
        /\ retryTimer' = retryTimer /\ automaticRetryAttempts' = automaticRetryAttempts
        /\ calls' = calls
    BY <1>9 DEF CloseSettles, coordinator
  <2>2. r \in entries /\ r \notin closed /\ closes[r] = 1
    BY <1>1, <2>1 DEF RegistryExact, CleanupShape
  <2>3. closes' \in [Resources -> Nat] /\ closes'[r] = 0
        /\ \A x \in Resources \ {r} : closes'[x] = closes[x]
    BY <1>1, <2>1, <2>2 DEF CleanupShape
  <2>4. CASE succeeds
    <3>1. entries' = entries \ {r} /\ closed' = closed \cup {r}
      BY <1>9, <2>4 DEF CloseSettles
    <3>2. CleanupShape'
      BY <1>1, <2>1, <2>3, <3>1 DEF CleanupShape
    <3>3. RegistryExact'
      BY <1>1, <2>1, <2>2, <2>3, <3>1 DEF RegistryExact
    <3>4. RetryIsScheduled'
      BY <1>1, <2>1, <3>1 DEF RetryIsScheduled, PendingOf
    <3>5. \A x \in Resources \ {r} : StageOf(x)' = StageOf(x)
      BY <1>1, <2>1, <3>1, <3>3, StageIs, StageIsNext DEF RegistryExact
    <3>6. StageOf(r) = "retired" /\ StageOf(r)' = "closed"
      BY <1>1, <2>2, <3>1, <3>3, StageIs, StageIsNext
    <3>. QED
      BY <3>2, <3>3, <3>4, <3>5, <3>6, MovesOne DEF CleanupInv
  <2>5. CASE ~succeeds
    <3>1. entries' = entries /\ closed' = closed
      BY <1>9, <2>5 DEF CloseSettles
    <3>2. CleanupShape'
      BY <1>1, <2>1, <2>3, <3>1 DEF CleanupShape
    <3>3. RegistryExact'
      BY <1>1, <2>1, <2>2, <2>3, <3>1 DEF RegistryExact
    <3>4. RetryIsScheduled'
      BY <1>1, <2>1, <3>1 DEF RetryIsScheduled, PendingOf
    <3>. QED
      BY <2>1, <3>1, <3>2, <3>3, <3>4, SameStages DEF CleanupInv
  <2>. QED
    BY <2>4, <2>5
<1>10. ASSUME NEW o \in Owners, BarrierEnds(o) PROVE CleanupInv' /\ HandleSteps
  <2>1. /\ barriers[o] > 0 /\ barriers' = [barriers EXCEPT ![o] = @ - 1]
        /\ owned' = owned /\ retired' = retired /\ entries' = entries /\ closes' = closes
        /\ closed' = closed /\ calls' = calls
    BY <1>10 DEF BarrierEnds, coordinator, registry
  <2>2. automaticRetryAttempts[o] \in Nat /\ MaxAutomaticRetries \in Nat
        /\ automaticRetryAttempts[o] <= MaxAutomaticRetries
    BY <1>1, CleanupAssumption DEF CleanupShape
  <2>3. \/ /\ PendingOf(o) = {} /\ retryTimer' = retryTimer \ {o}
           /\ automaticRetryAttempts' = [automaticRetryAttempts EXCEPT ![o] = 0]
        \/ /\ automaticRetryAttempts[o] < MaxAutomaticRetries
           /\ retryTimer' = retryTimer \cup {o}
           /\ automaticRetryAttempts' = [automaticRetryAttempts EXCEPT ![o] = @ + 1]
        \/ /\ o \in retryTimer \/ ~(automaticRetryAttempts[o] < MaxAutomaticRetries)
           /\ retryTimer' = retryTimer /\ automaticRetryAttempts' = automaticRetryAttempts
    <3>1. CASE PendingOf(o) = {}
      BY <1>10, <3>1, Zenon DEF BarrierEnds
    <3>2. CASE PendingOf(o) # {} /\ o \notin retryTimer
               /\ automaticRetryAttempts[o] < MaxAutomaticRetries
      BY <1>10, <3>2, Zenon DEF BarrierEnds
    <3>3. CASE PendingOf(o) # {} /\ ~(o \notin retryTimer
               /\ automaticRetryAttempts[o] < MaxAutomaticRetries)
      BY <1>10, <3>3, Zenon DEF BarrierEnds
    <3>. QED
      BY <3>1, <3>2, <3>3
  <2>4. /\ automaticRetryAttempts' \in [Owners -> 0 .. MaxAutomaticRetries]
        /\ retryTimer' \in SUBSET Owners
        /\ \A p \in Owners \ {o} :
               /\ automaticRetryAttempts'[p] = automaticRetryAttempts[p]
               /\ p \in retryTimer' <=> p \in retryTimer
    BY <1>1, <2>2, <2>3 DEF CleanupShape
  <2>5. CleanupShape' /\ RegistryExact'
    <3>1. barriers' \in [Owners -> Nat]
      BY <1>1, <2>1 DEF CleanupShape
    <3>. QED
      BY <1>1, <2>1, <2>4, <3>1 DEF CleanupShape, RegistryExact
  <2>6. RetryIsScheduled'
    <3>1. PendingOf(o) # {} => o \in retryTimer' \/ automaticRetryAttempts'[o] = MaxAutomaticRetries
      BY <1>1, <2>2, <2>3 DEF CleanupShape
    <3>2. ASSUME NEW p \in Owners, PendingOf(p)' # {}, barriers'[p] = 0
          PROVE  p \in retryTimer' \/ automaticRetryAttempts'[p] = MaxAutomaticRetries
      <4>1. PendingOf(p)' = PendingOf(p)
        BY <2>1 DEF PendingOf
      <4>2. p # o => barriers[p] = 0
        BY <1>1, <2>1, <3>2 DEF CleanupShape
      <4>. QED
        BY <1>1, <2>4, <3>1, <3>2, <4>1, <4>2 DEF RetryIsScheduled
    <3>. QED
      BY <3>2 DEF RetryIsScheduled
  <2>. QED
    BY <2>1, <2>5, <2>6, SameStages DEF CleanupInv
<1>11. CASE UNCHANGED cleanupVars
  <2>1. /\ owned' = owned /\ retired' = retired
        /\ entries' = entries /\ closes' = closes /\ closed' = closed /\ barriers' = barriers
        /\ retryTimer' = retryTimer /\ automaticRetryAttempts' = automaticRetryAttempts
        /\ calls' = calls
    BY <1>11 DEF cleanupVars
  <2>2. CleanupShape' /\ RegistryExact' /\ RetryIsScheduled'
    BY <1>1, <2>1 DEF CleanupShape, RegistryExact, RetryIsScheduled, PendingOf
  <2>. QED
    BY <2>1, <2>2, SameStages DEF CleanupInv
<1>. QED
  BY <1>3, <1>4, <1>5, <1>6, <1>7, <1>8, <1>9, <1>10, <1>11 DEF CleanupNext

\* However lifecycle actions, automatic retries and wake-ups of all owners overlap, the
\* registry calls close for a resource once at a time, and not after it has succeeded.
THEOREM ResourcesCloseOnce == CleanupSpec => []ClosesOnce
<1>1. CleanupInv => ClosesOnce
  <2>. SUFFICES ASSUME CleanupInv, NEW r \in Resources
                PROVE  closes[r] <= IF r \in closed THEN 0 ELSE 1
    BY DEF ClosesOnce
  <2>1. closes[r] \in Nat /\ closes[r] <= 1 /\ (r \in closed => ~(closes[r] > 0))
    BY DEF CleanupInv, CleanupShape, RegistryExact
  <2>. QED
    BY <2>1
<1>2. CleanupInv /\ [CleanupNext]_cleanupVars => CleanupInv'
  BY CleanupStep
<1>. QED
  BY <1>1, <1>2, CleanupStarts, PTL DEF CleanupSpec

\* Whatever the drains of the owners leave is tried again by a timer, until the budget
\* of automatic retries is spent.
THEOREM RetriesAreScheduled == CleanupSpec => []RetryIsScheduled
<1>1. CleanupInv => RetryIsScheduled
  BY DEF CleanupInv
<1>2. CleanupInv /\ [CleanupNext]_cleanupVars => CleanupInv'
  BY CleanupStep
<1>. QED
  BY <1>1, <1>2, CleanupStarts, PTL DEF CleanupSpec

\* The coordinators, with the registry that all of them share and its drains, implement the
\* life of a handle that the viewer relies on: PlaybackHandles.
THEOREM CleanupImplementsHandles == CleanupSpec => CleanupKeepsHandles
<1>1. CleanupInit => Coordinated!HandlesInit
  <2>. SUFFICES ASSUME CleanupInit PROVE Coordinated!HandlesInit
    OBVIOUS
  <2>1. \A r \in Resources : StageOf(r) = "unborn"
    BY CleanupStarts, StageIs DEF CleanupInit, CleanupInv
  <2>2. [r \in Resources |-> StageOf(r)] = [r \in Resources |-> "unborn"]
    BY <2>1
  <2>. QED
    BY <2>2, Zenon DEF Coordinated!HandlesInit
<1>2. CleanupInv /\ [CleanupNext]_cleanupVars
          => CleanupInv' /\ [Coordinated!HandlesNext]_[r \in Resources |-> StageOf(r)]
  BY CleanupStep, Zenon DEF HandleSteps
<1>. QED
  BY <1>1, <1>2, CleanupStarts, PTL DEF CleanupSpec, CleanupKeepsHandles, Coordinated!HandlesSpec

-----------------------------------------------------------------------------
(* The leases of the tracks of a stream.                                   *)

\* The variables of the stream.
HoldStages == {"queued", "opening"} \cup Holding
Handles == [track : Tracks, stage : HoldStages, n : Nat, kept : BOOLEAN,
            released : BOOLEAN, live : {"no", "yes", "released"}]
Leases == [n : Nat, references : Int, live : Int, started : BOOLEAN, keepOpen : BOOLEAN]
LeaseTypeOK ==
    /\ lease \in [Tracks -> Leases] /\ opens \in [Tracks -> Nat]
    /\ parent \in [Tracks -> BOOLEAN]
    /\ segment \in [Tracks -> {"none", "live", "ended"}] /\ whole \in [Tracks -> BOOLEAN]
    /\ hold \in [Consumers -> Handles \cup {NoHold}]
    /\ life \in [Consumers -> {"off", "on", "paused", "closing", "gone"}]
    /\ phase \in {"open", "consumers", "defaults", "tracks", "failed", "closed"}
    /\ pending \in SUBSET Consumers /\ todo \in SUBSET Tracks /\ failed \in BOOLEAN
    /\ faults \in Nat /\ outside \in SUBSET (Tracks \X Nat) /\ forgotten \in SUBSET Tracks

\* What a consumer has, by how far it is.
Starting == {"starting", "started", "startFailed"}
HandleInOrder(c) ==
    /\ Stage(c) \in Holding => hold[c].n \in 1 .. opens[Track(c)]
    /\ Stage(c) \in {"queued", "opening"} => hold[c].n = 0
    /\ Stage(c) \in {"ending", "ended", "leaving", "closing", "owed"} => hold[c].released
    /\ Stage(c) \in {"acquired", "joining", "replicating"} =>
           hold[c].live = "no" /\ ~hold[c].released
    /\ Stage(c) \in Starting => hold[c].live = "yes"
    /\ Stage(c) = "joining" => hold[c].kept
    /\ Stage(c) \in Holding /\ hold[c].live # "no" => hold[c].kept
    /\ Stage(c) \in Holding /\ hold[c].released => hold[c].live # "yes"
    /\ Stage(c) = "held" /\ c \in Viewers => hold[c].live = "yes"
    /\ Stage(c) = "replicating" => c \notin Viewers
HandlesInOrder == \A c \in Consumers : HandleInOrder(c)

\* The queue of a track and that of a lease's live replication have one consumer at a
\* time.
Exclusive(c, d) ==
    Stage(c) # "none" /\ Stage(d) # "none" /\ Track(c) = Track(d) =>
        /\ ~(Stage(c) \in {"opening", "closing"} /\ Stage(d) \in {"opening", "closing"})
        /\ hold[c].n = hold[d].n => ~(Stage(c) \in InLiveQueue /\ Stage(d) \in InLiveQueue)
QueuesExclusive == \A c \in Consumers, d \in Consumers : c # d => Exclusive(c, d)

\* What a consumer knows of its lease while that is the lease of its track.
Steady(c) ==
    Stage(c) \in Holding /\ Current(c) =>
        /\ Stage(c) \in Starting => ~lease[Track(c)].started
        /\ hold[c].live = "yes" /\ Stage(c) \notin Starting => lease[Track(c)].started
        /\ Stage(c) \in {"ending", "ended"} => lease[Track(c)].live = 0
        /\ Stage(c) \in {"leaving", "closing"} =>
               lease[Track(c)].live # 0 \/ ~lease[Track(c)].started
        /\ Stage(c) = "closing" => lease[Track(c)].references = 0
LeaseSteady == \A c \in Consumers : Steady(c)

\* Leases have the numbers of openings, and an open track has one.
LeasesNumbered ==
    \A t \in Tracks : /\ lease[t].n <= opens[t]
                      /\ lease[t].n = 0 => lease[t] = NoLease
                      /\ parent[t] => lease[t].n # 0
OpeningAlone ==
    \A c \in Consumers : Stage(c) = "opening" =>
        lease[Track(c)].n = 0 /\ ~parent[Track(c)]

\* The references and the live references are counted.
Refs(t) == {c \in Users(t) : ~hold[c].released}
Watch(t) == {c \in Users(t) : hold[c].live = "yes"}
Counted(t) == /\ lease[t].references = Cardinality(Refs(t))
              /\ lease[t].live = Cardinality(Watch(t))
AllCounted == \A t \in Tracks : Counted(t)

\* Live replication that has started is there, unless it is being ended, and somebody
\* who had it has yet to end it.
LiveHasStarted ==
    \A c \in Consumers : Stage(c) = "started" /\ Current(c) /\ parent[Track(c)] =>
        segment[Track(c)] # "none" \/ whole[Track(c)]
LiveIsThere ==
    \A t \in Tracks : lease[t].started =>
        \/ ~parent[t] \/ segment[t] # "none" \/ whole[t]
        \/ \E c \in Users(t) : Stage(c) = "ended"
LiveIsOwed ==
    \A t \in Tracks : lease[t].started => \E c \in Users(t) : hold[c].live # "no"

\* Who has not given its references back has its track, while the stream is open.
StaysOpen(c) ==
    /\ Stage(c) = "closing" => Current(c)
    /\ Stage(c) \in Holding /\ ~hold[c].released =>
           \/ <<Track(c), hold[c].n>> \in outside
           \/ Current(c) /\ parent[Track(c)]
HeldStayOpen == phase = "open" => \A c \in Consumers : StaysOpen(c)

\* An open track has a user, or is kept.
OpenIsUsed ==
    \A t \in Tracks : parent[t] /\ t \notin forgotten => lease[t].keepOpen \/ Users(t) # {}

\* A close that nothing has failed in has left no consumer behind, and then no lease.
Over(c) == life[c] \in {"off", "gone"}
CloseInOrder ==
    /\ \A c \in Consumers : Over(c) => Stage(c) = "none"
    /\ phase \in {"consumers", "defaults", "tracks"} /\ ~failed =>
           \A c \in Viewers \cup Monitors : Over(c) \/ (phase = "consumers" /\ c \in pending)
    /\ phase \in {"defaults", "tracks"} /\ ~failed =>
           \A c \in Defaults : Over(c) \/ (phase = "defaults" /\ c \in pending)
    /\ phase = "tracks" /\ ~failed => \A t \in Tracks \ todo : lease[t].n = 0
    /\ phase = "closed" => (\A c \in Consumers : Over(c)) /\ \A t \in Tracks : lease[t].n = 0

\* The inductive invariant.
LeaseInv ==
    /\ LeaseTypeOK /\ HandlesInOrder /\ QueuesExclusive /\ LeaseSteady
    /\ LeasesNumbered /\ OpeningAlone /\ AllCounted
    /\ LiveHasStarted /\ LiveIsThere /\ LiveIsOwed
    /\ HeldStayOpen /\ OpenIsUsed /\ CloseInOrder

\* The step of one consumer, c, and of one track, t.
Moves(c, h) == hold'[c] = h /\ \A d \in Consumers : d # c => hold'[d] = hold[d]
Changes(t, l) == lease'[t] = l /\ \A s \in Tracks : s # t => lease'[s] = lease[s]

\* What a consumer has when it has something.
LEMMA HandleTyped ==
    ASSUME LeaseTypeOK, NEW c \in Consumers, Stage(c) # "none"
    PROVE  hold[c] \in Handles /\ Track(c) \in Tracks /\ lease[Track(c)] \in Leases
<1>1. hold[c] \in Handles
  BY DEF LeaseTypeOK, Stage, NoHold
<1>. QED
  BY <1>1 DEF LeaseTypeOK, Track, Handles

\* A step of one consumer.
LEMMA OneMoves ==
    ASSUME LeaseTypeOK, NEW c \in Consumers, NEW h \in Handles \cup {NoHold},
           hold' = [hold EXCEPT ![c] = h]
    PROVE  Moves(c, h) /\ hold' \in [Consumers -> Handles \cup {NoHold}]
BY DEF LeaseTypeOK, Moves

\* The counts when a set of consumers changes by one.
LEMMA SetMoves ==
    ASSUME IsFiniteSet(Consumers), NEW A \in SUBSET Consumers, NEW B \in SUBSET Consumers,
           NEW c \in Consumers, \A d \in Consumers : d # c => (d \in A <=> d \in B)
    PROVE  /\ Cardinality(A) \in Nat /\ Cardinality(B) \in Nat
           /\ (c \in A <=> c \in B) => Cardinality(B) = Cardinality(A)
           /\ c \notin A /\ c \in B => Cardinality(B) = Cardinality(A) + 1
           /\ c \in A /\ c \notin B => Cardinality(B) = Cardinality(A) - 1
<1>1. IsFiniteSet(A) /\ IsFiniteSet(B)
  BY FS_Subset
<1>2. Cardinality(A) \in Nat /\ Cardinality(B) \in Nat
  BY <1>1, FS_CardinalityType
<1>3. (c \in A <=> c \in B) => Cardinality(B) = Cardinality(A)
  <2>1. ASSUME c \in A <=> c \in B PROVE A = B
    BY <2>1
  <2>. QED
    BY <2>1
<1>4. c \notin A /\ c \in B => Cardinality(B) = Cardinality(A) + 1
  <2>1. ASSUME c \notin A, c \in B PROVE B = A \cup {c}
    BY <2>1
  <2>. QED
    BY <1>1, <2>1, FS_AddElement
<1>5. c \in A /\ c \notin B => Cardinality(B) = Cardinality(A) - 1
  <2>1. ASSUME c \in A, c \notin B PROVE A = B \cup {c}
    BY <2>1
  <2>. QED
    BY <1>1, <1>2, <2>1, FS_AddElement
<1>. QED
  BY <1>2, <1>3, <1>4, <1>5

\* Somebody is counted exactly when the count is not zero.
LEMMA SomeoneCounted ==
    ASSUME IsFiniteSet(Consumers), NEW A \in SUBSET Consumers
    PROVE  Cardinality(A) \in Nat /\ (Cardinality(A) = 0 <=> A = {})
<1>1. IsFiniteSet(A)
  BY FS_Subset
<1>. QED
  BY <1>1, FS_CardinalityType, FS_EmptySet

\* The counts of a track when one consumer moves and its lease keeps its number.
CountMoves(c, t) ==
    /\ (c \in Refs(t) <=> c \in Refs(t)') => Cardinality(Refs(t)') = Cardinality(Refs(t))
    /\ c \notin Refs(t) /\ c \in Refs(t)' => Cardinality(Refs(t)') = Cardinality(Refs(t)) + 1
    /\ c \in Refs(t) /\ c \notin Refs(t)' => Cardinality(Refs(t)') = Cardinality(Refs(t)) - 1
    /\ (c \in Watch(t) <=> c \in Watch(t)') => Cardinality(Watch(t)') = Cardinality(Watch(t))
    /\ c \notin Watch(t) /\ c \in Watch(t)' => Cardinality(Watch(t)') = Cardinality(Watch(t)) + 1
    /\ c \in Watch(t) /\ c \notin Watch(t)' => Cardinality(Watch(t)') = Cardinality(Watch(t)) - 1

LEMMA CountsMove ==
    ASSUME NEW c \in Consumers, NEW h, Moves(c, h), NEW t \in Tracks, lease'[t].n = lease[t].n
    PROVE  CountMoves(c, t)
<1>1. IsFiniteSet(Consumers)
  BY LeaseAssumption
<1>2. \A d \in Consumers : d # c => (d \in Refs(t) <=> d \in Refs(t)')
  BY DEF Moves, Refs, Users, On, Stage, Current, Track
<1>3. \A d \in Consumers : d # c => (d \in Watch(t) <=> d \in Watch(t)')
  BY DEF Moves, Watch, Users, On, Stage, Current, Track
<1>4. /\ Refs(t) \in SUBSET Consumers /\ Refs(t)' \in SUBSET Consumers
      /\ Watch(t) \in SUBSET Consumers /\ Watch(t)' \in SUBSET Consumers
  BY DEF Refs, Watch, Users
<1>. QED
  BY <1>1, <1>2, <1>3, <1>4, SetMoves DEF CountMoves

\* What the counts say of who is there.
LEMMA CountsSay ==
    ASSUME AllCounted, NEW t \in Tracks
    PROVE  /\ lease[t].references # 0 <=> Refs(t) # {}
           /\ lease[t].live # 0 <=> Watch(t) # {}
<1>1. IsFiniteSet(Consumers)
  BY LeaseAssumption
<1>2. Refs(t) \in SUBSET Consumers /\ Watch(t) \in SUBSET Consumers
  BY DEF Refs, Watch, Users
<1>. QED
  BY <1>1, <1>2, SomeoneCounted DEF AllCounted, Counted

\* A consumer lets its track go.
LEMMA LeaveStep ==
    ASSUME LeaseInv, NEW c \in Consumers, Leave(c)
    PROVE  LeaseInv'
<1>. USE DEF LeaseInv
<1>. DEFINE t == Track(c)
            h == [hold[c] EXCEPT !.stage = "releasing"]
<1>1. hold[c] \in Handles /\ t \in Tracks /\ lease[t] \in Leases
  BY HandleTyped DEF Leave
<1>2. h \in Handles \cup {NoHold} /\ hold' = [hold EXCEPT ![c] = h]
  BY <1>1 DEF Leave, To, Drop, Handles, HoldStages, Holding
<1>3. Moves(c, h) /\ hold' \in [Consumers -> Handles \cup {NoHold}]
  BY <1>2, OneMoves
<1>4. /\ lease' = lease /\ opens' = opens /\ parent' = parent /\ segment' = segment
      /\ whole' = whole /\ life' = life /\ phase' = phase /\ pending' = pending
      /\ todo' = todo /\ failed' = failed /\ faults' = faults /\ outside' = outside
      /\ forgotten' = forgotten
  BY DEF Leave, trackVars, closeVars, faultVars
<1>5. Stage(c) \in {"held", "owed"}
  BY <1>1 DEF Leave, Handles
<1>6. LeaseTypeOK'
  BY <1>1, <1>3, <1>4, <1>5 DEF LeaseTypeOK
<1>7. HandlesInOrder'
  BY <1>1, <1>3, <1>4, <1>5
  DEF HandlesInOrder, HandleInOrder, Moves, Stage, Track, Handles, Holding, Starting
<1>8. QueuesExclusive'
  BY <1>1, <1>3, <1>4, <1>5
  DEF QueuesExclusive, Exclusive, Moves, Stage, Track, Handles, InLiveQueue
<1>9. LeaseSteady'
  BY <1>1, <1>3, <1>4, <1>5
  DEF LeaseSteady, Steady, Moves, Stage, Track, Handles, Current, Holding, Starting
<1>10. LeasesNumbered'
  BY <1>4 DEF LeasesNumbered
<1>11. OpeningAlone'
  BY <1>1, <1>3, <1>4, <1>5 DEF OpeningAlone, Moves, Stage, Track, Handles
<1>12. AllCounted'
  <2>. SUFFICES ASSUME NEW s \in Tracks PROVE Counted(s)'
    BY DEF AllCounted
  <2>1. CountMoves(c, s)
    BY <1>3, <1>4, CountsMove
  <2>2. (c \in Refs(s) <=> c \in Refs(s)') /\ (c \in Watch(s) <=> c \in Watch(s)')
    BY <1>1, <1>3, <1>4, <1>5
    DEF Refs, Watch, Users, On, Moves, Stage, Track, Handles, Current, Holding
  <2>. QED
    BY <1>4, <2>1, <2>2 DEF AllCounted, Counted, CountMoves
<1>13. \A s \in Tracks : Users(s)' = Users(s)
  BY <1>1, <1>3, <1>4, <1>5 DEF Users, On, Moves, Stage, Track, Handles, Current, Holding
<1>14. LiveHasStarted'
  BY <1>1, <1>3, <1>4, <1>5 DEF LiveHasStarted, Moves, Stage, Track, Handles, Current
<1>15. LiveIsThere'
  <2>. SUFFICES ASSUME NEW s \in Tracks, lease[s].started, parent[s],
                       ~(segment[s] # "none" \/ whole[s])
                PROVE  \E d \in Users(s)' : Stage(d)' = "ended"
    BY <1>4 DEF LiveIsThere
  <2>1. PICK d \in Users(s) : Stage(d) = "ended"
    BY DEF LiveIsThere
  <2>. QED
    BY <1>2, <1>3, <1>5, <1>13, <2>1 DEF Moves, Stage, Users, NoHold
<1>16. LiveIsOwed'
  <2>. SUFFICES ASSUME NEW s \in Tracks, lease[s].started
                PROVE  \E d \in Users(s)' : hold'[d].live # "no"
    BY <1>4 DEF LiveIsOwed
  <2>1. PICK d \in Users(s) : hold[d].live # "no"
    BY DEF LiveIsOwed
  <2>2. hold'[d].live # "no"
    BY <1>1, <1>3, <1>4, <1>5, <2>1 DEF Users, Moves, Stage, Track, Handles, Holding
  <2>. QED
    BY <1>13, <2>1, <2>2
<1>17. HeldStayOpen'
  BY <1>1, <1>3, <1>4, <1>5
  DEF HeldStayOpen, StaysOpen, Moves, Stage, Track, Handles, Current, Holding
<1>18. OpenIsUsed'
  BY <1>4, <1>13 DEF OpenIsUsed
<1>19. CloseInOrder'
  BY <1>1, <1>3, <1>4, <1>5 DEF CloseInOrder, Over, Moves, Stage, NoHold
<1>. QED
  BY <1>6, <1>7, <1>8, <1>9, <1>10, <1>11, <1>12, <1>14, <1>15, <1>16, <1>17, <1>18, <1>19

\* A consumer looks what to do with its lease.
LEMMA AcquiredStep ==
    ASSUME LeaseInv, NEW c \in Consumers, Acquired(c)
    PROVE  LeaseInv'
<1>. USE DEF LeaseInv
<1>. DEFINE t == Track(c)
<1>1. hold[c] \in Handles /\ t \in Tracks /\ lease[t] \in Leases
  BY HandleTyped DEF Acquired
<1>2. PICK h \in Handles :
        /\ hold' = [hold EXCEPT ![c] = h] /\ h.track = t /\ h.n = hold[c].n
        /\ h.released = hold[c].released /\ h.live = hold[c].live
        /\ h.stage \in {"releasing", "joining", "replicating", "held"}
        /\ h.stage = "joining" => h.kept
        /\ h.stage = "replicating" => c \notin Viewers
        /\ h.stage = "held" => c \notin Viewers
  <2>1. Next1(c) \in {"releasing", "joining", "replicating", "held"}
    BY DEF Next1
  <2>. DEFINE n1 == Next1(c)
  <2>2. n1 \in HoldStages
    BY <2>1 DEF HoldStages, Holding
  <2>. HIDE DEF n1
  <2>3. CASE Inactive(c)
    <3>. DEFINE g == [hold[c] EXCEPT !.stage = n1, !.kept = FALSE]
    <3>1. (~Inactive(c)) = FALSE /\ n1 = "releasing"
      BY <2>3, Zenon DEF n1, Next1
    <3>2. hold' = [hold EXCEPT ![c].stage = n1, ![c].kept = FALSE]
      BY <3>1, Zenon DEF Acquired, n1
    <3>3. hold' = [hold EXCEPT ![c] = g]
      BY <1>1, <3>2 DEF Handles
    <3>4. g \in Handles
      BY <1>1, <2>2 DEF Handles
    <3>5. /\ g.track = t /\ g.n = hold[c].n /\ g.stage = "releasing"
          /\ g.released = hold[c].released /\ g.live = hold[c].live
      BY <1>1, <3>1 DEF Handles, Track
    <3>. QED
      BY <3>3, <3>5, <3>4
  <2>4. CASE ~Inactive(c)
    <3>. DEFINE g == [hold[c] EXCEPT !.stage = n1, !.kept = TRUE]
    <3>1. (~Inactive(c)) = TRUE
      BY <2>4, Zenon
    <3>2. hold' = [hold EXCEPT ![c].stage = n1, ![c].kept = TRUE]
      BY <3>1, Zenon DEF Acquired, n1
    <3>3. hold' = [hold EXCEPT ![c] = g]
      BY <1>1, <3>2 DEF Handles
    <3>4. g \in Handles
      BY <1>1, <2>2 DEF Handles
    <3>5. /\ g.track = t /\ g.n = hold[c].n /\ g.stage = n1 /\ g.kept
          /\ g.released = hold[c].released /\ g.live = hold[c].live
      BY <1>1 DEF Handles, Track
    <3>6. (n1 = "replicating" => c \notin Viewers) /\ (n1 = "held" => c \notin Viewers)
      BY <2>4, LeaseAssumption DEF n1, Next1, Consumers
    <3>7. n1 \in {"releasing", "joining", "replicating", "held"}
      BY <2>1 DEF n1
    <3>. QED
      BY <3>3, <3>5, <3>6, <3>7, <3>4
  <2>. QED
    BY <2>3, <2>4
<1>3. Moves(c, h) /\ hold' \in [Consumers -> Handles \cup {NoHold}]
  BY <1>2, OneMoves
<1>4. /\ lease' = lease /\ opens' = opens /\ parent' = parent /\ segment' = segment
      /\ whole' = whole /\ life' = life /\ phase' = phase /\ pending' = pending
      /\ todo' = todo /\ failed' = failed /\ faults' = faults /\ outside' = outside
      /\ forgotten' = forgotten
  BY DEF Acquired, trackVars, closeVars, faultVars
<1>5. Stage(c) = "acquired"
  BY <1>1 DEF Acquired, Handles
<1>6. LeaseTypeOK'
  BY <1>1, <1>3, <1>4, <1>5 DEF LeaseTypeOK
<1>7. HandlesInOrder'
  BY <1>1, <1>2, <1>3, <1>4, <1>5
  DEF HandlesInOrder, HandleInOrder, Moves, Stage, Track, Handles, Holding, Starting
<1>8. QueuesExclusive'
  BY <1>1, <1>2, <1>3, <1>4, <1>5
  DEF QueuesExclusive, Exclusive, Moves, Stage, Track, Handles, InLiveQueue
<1>9. LeaseSteady'
  BY <1>1, <1>2, <1>3, <1>4, <1>5
  DEF LeaseSteady, Steady, Moves, Stage, Track, Handles, Current, Holding, Starting
<1>10. LeasesNumbered'
  BY <1>4 DEF LeasesNumbered
<1>11. OpeningAlone'
  BY <1>1, <1>2, <1>3, <1>4, <1>5 DEF OpeningAlone, Moves, Stage, Track, Handles
<1>12. AllCounted'
  <2>. SUFFICES ASSUME NEW s \in Tracks PROVE Counted(s)'
    BY DEF AllCounted
  <2>1. CountMoves(c, s)
    BY <1>3, <1>4, CountsMove
  <2>2. (c \in Refs(s) <=> c \in Refs(s)') /\ (c \in Watch(s) <=> c \in Watch(s)')
    BY <1>1, <1>2, <1>3, <1>4, <1>5
    DEF Refs, Watch, Users, On, Moves, Stage, Track, Handles, Current, Holding
  <2>. QED
    BY <1>4, <2>1, <2>2 DEF AllCounted, Counted, CountMoves
<1>13. \A s \in Tracks : Users(s)' = Users(s)
  BY <1>1, <1>2, <1>3, <1>4, <1>5 DEF Users, On, Moves, Stage, Track, Handles, Current, Holding
<1>14. LiveHasStarted'
  BY <1>1, <1>2, <1>3, <1>4, <1>5 DEF LiveHasStarted, Moves, Stage, Track, Handles, Current
<1>15. LiveIsThere'
  <2>. SUFFICES ASSUME NEW s \in Tracks, lease[s].started, parent[s],
                       ~(segment[s] # "none" \/ whole[s])
                PROVE  \E d \in Users(s)' : Stage(d)' = "ended"
    BY <1>4 DEF LiveIsThere
  <2>1. PICK d \in Users(s) : Stage(d) = "ended"
    BY DEF LiveIsThere
  <2>. QED
    BY <1>2, <1>3, <1>5, <1>13, <2>1 DEF Moves, Stage, Users, NoHold
<1>16. LiveIsOwed'
  <2>. SUFFICES ASSUME NEW s \in Tracks, lease[s].started
                PROVE  \E d \in Users(s)' : hold'[d].live # "no"
    BY <1>4 DEF LiveIsOwed
  <2>1. PICK d \in Users(s) : hold[d].live # "no"
    BY DEF LiveIsOwed
  <2>2. hold'[d].live # "no"
    BY <1>1, <1>2, <1>3, <1>4, <1>5, <2>1 DEF Users, Moves, Stage, Track, Handles, Holding
  <2>. QED
    BY <1>13, <2>1, <2>2
<1>17. HeldStayOpen'
  BY <1>1, <1>2, <1>3, <1>4, <1>5
  DEF HeldStayOpen, StaysOpen, Moves, Stage, Track, Handles, Current, Holding
<1>18. OpenIsUsed'
  BY <1>4, <1>13 DEF OpenIsUsed
<1>19. CloseInOrder'
  BY <1>1, <1>2, <1>3, <1>4, <1>5 DEF CloseInOrder, Over, Moves, Stage, NoHold
<1>. QED
  BY <1>6, <1>7, <1>8, <1>9, <1>10, <1>11, <1>12, <1>14, <1>15, <1>16, <1>17, <1>18, <1>19

\* Live replication does not start.
LEMMA StartFailsStep ==
    ASSUME LeaseInv, NEW c \in Consumers, StartFails(c)
    PROVE  LeaseInv'
<1>. USE DEF LeaseInv
<1>. DEFINE t == Track(c)
            h == [hold[c] EXCEPT !.stage = "startFailed"]
<1>1. hold[c] \in Handles /\ t \in Tracks /\ lease[t] \in Leases
  BY HandleTyped DEF StartFails
<1>2. h \in Handles \cup {NoHold} /\ hold' = [hold EXCEPT ![c] = h]
  BY <1>1 DEF StartFails, To, Drop, Handles, HoldStages, Holding
<1>3. Moves(c, h) /\ hold' \in [Consumers -> Handles \cup {NoHold}]
  BY <1>2, OneMoves
<1>4. /\ lease' = lease /\ opens' = opens /\ parent' = parent /\ segment' = segment
      /\ whole' = whole /\ life' = life /\ phase' = phase /\ pending' = pending
      /\ todo' = todo /\ failed' = failed
      /\ faults' \in Nat /\ outside' = outside /\ forgotten' = forgotten
  BY DEF StartFails, trackVars, closeVars, faultVars, FaultUnless, Fault, LeaseTypeOK
<1>5. Stage(c) = "starting"
  BY <1>1 DEF StartFails, Handles, FaultUnless, Fault, LeaseTypeOK
<1>6. LeaseTypeOK'
  BY <1>1, <1>3, <1>4, <1>5 DEF LeaseTypeOK
<1>7. HandlesInOrder'
  BY <1>1, <1>3, <1>4, <1>5
  DEF HandlesInOrder, HandleInOrder, Moves, Stage, Track, Handles, Holding, Starting
<1>8. QueuesExclusive'
  BY <1>1, <1>3, <1>4, <1>5
  DEF QueuesExclusive, Exclusive, Moves, Stage, Track, Handles, InLiveQueue
<1>9. LeaseSteady'
  BY <1>1, <1>3, <1>4, <1>5
  DEF LeaseSteady, Steady, Moves, Stage, Track, Handles, Current, Holding, Starting
<1>10. LeasesNumbered'
  BY <1>4 DEF LeasesNumbered
<1>11. OpeningAlone'
  BY <1>1, <1>3, <1>4, <1>5 DEF OpeningAlone, Moves, Stage, Track, Handles
<1>12. AllCounted'
  <2>. SUFFICES ASSUME NEW s \in Tracks PROVE Counted(s)'
    BY DEF AllCounted
  <2>1. CountMoves(c, s)
    BY <1>3, <1>4, CountsMove
  <2>2. (c \in Refs(s) <=> c \in Refs(s)') /\ (c \in Watch(s) <=> c \in Watch(s)')
    BY <1>1, <1>3, <1>4, <1>5
    DEF Refs, Watch, Users, On, Moves, Stage, Track, Handles, Current, Holding
  <2>. QED
    BY <1>4, <2>1, <2>2 DEF AllCounted, Counted, CountMoves
<1>13. \A s \in Tracks : Users(s)' = Users(s)
  BY <1>1, <1>3, <1>4, <1>5 DEF Users, On, Moves, Stage, Track, Handles, Current, Holding
<1>14. LiveHasStarted'
  BY <1>1, <1>3, <1>4, <1>5 DEF LiveHasStarted, Moves, Stage, Track, Handles, Current
<1>15. LiveIsThere'
  <2>. SUFFICES ASSUME NEW s \in Tracks, lease[s].started, parent[s],
                       ~(segment[s] # "none" \/ whole[s])
                PROVE  \E d \in Users(s)' : Stage(d)' = "ended"
    BY <1>4 DEF LiveIsThere
  <2>1. PICK d \in Users(s) : Stage(d) = "ended"
    BY DEF LiveIsThere
  <2>. QED
    BY <1>2, <1>3, <1>5, <1>13, <2>1 DEF Moves, Stage, Users, NoHold
<1>16. LiveIsOwed'
  <2>. SUFFICES ASSUME NEW s \in Tracks, lease[s].started
                PROVE  \E d \in Users(s)' : hold'[d].live # "no"
    BY <1>4 DEF LiveIsOwed
  <2>1. PICK d \in Users(s) : hold[d].live # "no"
    BY DEF LiveIsOwed
  <2>2. hold'[d].live # "no"
    BY <1>1, <1>3, <1>4, <1>5, <2>1 DEF Users, Moves, Stage, Track, Handles, Holding
  <2>. QED
    BY <1>13, <2>1, <2>2
<1>17. HeldStayOpen'
  BY <1>1, <1>3, <1>4, <1>5
  DEF HeldStayOpen, StaysOpen, Moves, Stage, Track, Handles, Current, Holding
<1>18. OpenIsUsed'
  BY <1>4, <1>13 DEF OpenIsUsed
<1>19. CloseInOrder'
  BY <1>1, <1>3, <1>4, <1>5 DEF CloseInOrder, Over, Moves, Stage, NoHold
<1>. QED
  BY <1>6, <1>7, <1>8, <1>9, <1>10, <1>11, <1>12, <1>14, <1>15, <1>16, <1>17, <1>18, <1>19

\* A consumer asks for a track.
LEMMA AddTrackStep ==
    ASSUME LeaseInv, NEW c \in Consumers, NEW r \in Tracks, AddTrack(c, r)
    PROVE  LeaseInv'
<1>. USE DEF LeaseInv
<1>. DEFINE t == r
            h == Handle(r, "queued", 0)
<1>1. hold[c] = NoHold
  BY DEF AddTrack, Stage, LeaseTypeOK, Handles, HoldStages, Holding
<1>2. h \in Handles \cup {NoHold} /\ hold' = [hold EXCEPT ![c] = h]
  BY DEF AddTrack, Handle, Handles, HoldStages
<1>3. Moves(c, h) /\ hold' \in [Consumers -> Handles \cup {NoHold}]
  BY <1>2, OneMoves
<1>4. /\ lease' = lease /\ opens' = opens /\ parent' = parent /\ segment' = segment
      /\ whole' = whole /\ life' = life /\ phase' = phase /\ pending' = pending
      /\ todo' = todo /\ failed' = failed /\ faults' = faults /\ outside' = outside
      /\ forgotten' = forgotten
  BY DEF AddTrack, trackVars, closeVars, faultVars
<1>5. Stage(c) = "none" /\ life[c] = "on"
  BY <1>1 DEF AddTrack, Handles
<1>6. LeaseTypeOK'
  BY <1>1, <1>3, <1>4, <1>5 DEF LeaseTypeOK
<1>7. HandlesInOrder'
  BY <1>1, <1>3, <1>4, <1>5
  DEF HandlesInOrder, HandleInOrder, Moves, Stage, Track, Handles, Handle, NoHold, Holding,
      Starting
<1>8. QueuesExclusive'
  BY <1>1, <1>3, <1>4, <1>5
  DEF QueuesExclusive, Exclusive, Moves, Stage, Track, Handles, Handle, NoHold, InLiveQueue
<1>9. LeaseSteady'
  BY <1>1, <1>3, <1>4, <1>5
  DEF LeaseSteady, Steady, Moves, Stage, Track, Handles, Handle, NoHold, Current, Holding,
      Starting
<1>10. LeasesNumbered'
  BY <1>4 DEF LeasesNumbered
<1>11. OpeningAlone'
  BY <1>1, <1>3, <1>4, <1>5 DEF OpeningAlone, Moves, Stage, Track, Handles, Handle, NoHold
<1>12. AllCounted'
  <2>. SUFFICES ASSUME NEW s \in Tracks PROVE Counted(s)'
    BY DEF AllCounted
  <2>1. CountMoves(c, s)
    BY <1>3, <1>4, CountsMove
  <2>2. (c \in Refs(s) <=> c \in Refs(s)') /\ (c \in Watch(s) <=> c \in Watch(s)')
    BY <1>1, <1>3, <1>4, <1>5
    DEF Refs, Watch, Users, On, Moves, Stage, Track, Handles, Handle, NoHold, Current, Holding
  <2>. QED
    BY <1>4, <2>1, <2>2 DEF AllCounted, Counted, CountMoves
<1>13. \A s \in Tracks : Users(s)' = Users(s)
  BY <1>1, <1>3, <1>4, <1>5
  DEF Users, On, Moves, Stage, Track, Handles, Handle, NoHold, Current, Holding
<1>14. LiveHasStarted'
  BY <1>1, <1>3, <1>4, <1>5
  DEF LiveHasStarted, Moves, Stage, Track, Handles, Handle, NoHold, Current
<1>15. LiveIsThere'
  <2>. SUFFICES ASSUME NEW s \in Tracks, lease[s].started, parent[s],
                       ~(segment[s] # "none" \/ whole[s])
                PROVE  \E d \in Users(s)' : Stage(d)' = "ended"
    BY <1>4 DEF LiveIsThere
  <2>1. PICK d \in Users(s) : Stage(d) = "ended"
    BY DEF LiveIsThere
  <2>. QED
    BY <1>2, <1>3, <1>5, <1>13, <2>1 DEF Moves, Stage, Users, NoHold
<1>16. LiveIsOwed'
  <2>. SUFFICES ASSUME NEW s \in Tracks, lease[s].started
                PROVE  \E d \in Users(s)' : hold'[d].live # "no"
    BY <1>4 DEF LiveIsOwed
  <2>1. PICK d \in Users(s) : hold[d].live # "no"
    BY DEF LiveIsOwed
  <2>2. hold'[d].live # "no"
    BY <1>1, <1>3, <1>4, <1>5, <2>1
    DEF Users, Moves, Stage, Track, Handles, Handle, NoHold, Holding
  <2>. QED
    BY <1>13, <2>1, <2>2
<1>17. HeldStayOpen'
  BY <1>1, <1>3, <1>4, <1>5
  DEF HeldStayOpen, StaysOpen, Moves, Stage, Track, Handles, Handle, NoHold, Current, Holding
<1>18. OpenIsUsed'
  BY <1>4, <1>13 DEF OpenIsUsed
<1>19. CloseInOrder'
  BY <1>1, <1>3, <1>4, <1>5 DEF CloseInOrder, Over, Moves, Stage, NoHold
<1>. QED
  BY <1>6, <1>7, <1>8, <1>9, <1>10, <1>11, <1>12, <1>14, <1>15, <1>16, <1>17, <1>18, <1>19

\* An opening is refused: the stream closes.
LEMMA RefusedStep ==
    ASSUME LeaseInv, NEW c \in Consumers, Refused(c)
    PROVE  LeaseInv'
<1>. USE DEF LeaseInv
<1>. DEFINE t == Track(c)
            h == NoHold
<1>1. hold[c] \in Handles /\ t \in Tracks /\ lease[t] \in Leases
  BY HandleTyped DEF Refused
<1>2. h \in Handles \cup {NoHold} /\ hold' = [hold EXCEPT ![c] = h]
  BY <1>1 DEF Refused, To, Drop, Handles, HoldStages, Holding
<1>3. Moves(c, h) /\ hold' \in [Consumers -> Handles \cup {NoHold}]
  BY <1>2, OneMoves
<1>4. /\ lease' = lease /\ opens' = opens /\ parent' = parent /\ segment' = segment
      /\ whole' = whole /\ life' = life /\ phase' = phase /\ pending' = pending
      /\ todo' = todo /\ failed' = failed /\ faults' = faults /\ outside' = outside
      /\ forgotten' = forgotten
  BY DEF Refused, trackVars, closeVars, faultVars
<1>5. Stage(c) = "queued"
  BY <1>1 DEF Refused, Handles
<1>6. LeaseTypeOK'
  BY <1>1, <1>3, <1>4, <1>5 DEF LeaseTypeOK
<1>7. HandlesInOrder'
  BY <1>1, <1>3, <1>4, <1>5
  DEF HandlesInOrder, HandleInOrder, Moves, Stage, Track, Handles, NoHold, Holding, Starting
<1>8. QueuesExclusive'
  BY <1>1, <1>3, <1>4, <1>5
  DEF QueuesExclusive, Exclusive, Moves, Stage, Track, Handles, NoHold, InLiveQueue
<1>9. LeaseSteady'
  BY <1>1, <1>3, <1>4, <1>5
  DEF LeaseSteady, Steady, Moves, Stage, Track, Handles, NoHold, Current, Holding, Starting
<1>10. LeasesNumbered'
  BY <1>4 DEF LeasesNumbered
<1>11. OpeningAlone'
  BY <1>1, <1>3, <1>4, <1>5 DEF OpeningAlone, Moves, Stage, Track, Handles, NoHold
<1>12. AllCounted'
  <2>. SUFFICES ASSUME NEW s \in Tracks PROVE Counted(s)'
    BY DEF AllCounted
  <2>1. CountMoves(c, s)
    BY <1>3, <1>4, CountsMove
  <2>2. (c \in Refs(s) <=> c \in Refs(s)') /\ (c \in Watch(s) <=> c \in Watch(s)')
    BY <1>1, <1>3, <1>4, <1>5
    DEF Refs, Watch, Users, On, Moves, Stage, Track, Handles, NoHold, Current, Holding
  <2>. QED
    BY <1>4, <2>1, <2>2 DEF AllCounted, Counted, CountMoves
<1>13. \A s \in Tracks : Users(s)' = Users(s)
  BY <1>1, <1>3, <1>4, <1>5
  DEF Users, On, Moves, Stage, Track, Handles, NoHold, Current, Holding
<1>14. LiveHasStarted'
  BY <1>1, <1>3, <1>4, <1>5 DEF LiveHasStarted, Moves, Stage, Track, Handles, NoHold, Current
<1>15. LiveIsThere'
  <2>. SUFFICES ASSUME NEW s \in Tracks, lease[s].started, parent[s],
                       ~(segment[s] # "none" \/ whole[s])
                PROVE  \E d \in Users(s)' : Stage(d)' = "ended"
    BY <1>4 DEF LiveIsThere
  <2>1. PICK d \in Users(s) : Stage(d) = "ended"
    BY DEF LiveIsThere
  <2>. QED
    BY <1>2, <1>3, <1>5, <1>13, <2>1 DEF Moves, Stage, Users, NoHold
<1>16. LiveIsOwed'
  <2>. SUFFICES ASSUME NEW s \in Tracks, lease[s].started
                PROVE  \E d \in Users(s)' : hold'[d].live # "no"
    BY <1>4 DEF LiveIsOwed
  <2>1. PICK d \in Users(s) : hold[d].live # "no"
    BY DEF LiveIsOwed
  <2>2. hold'[d].live # "no"
    BY <1>1, <1>3, <1>4, <1>5, <2>1 DEF Users, Moves, Stage, Track, Handles, NoHold, Holding
  <2>. QED
    BY <1>13, <2>1, <2>2
<1>17. HeldStayOpen'
  BY <1>1, <1>3, <1>4, <1>5
  DEF HeldStayOpen, StaysOpen, Moves, Stage, Track, Handles, NoHold, Current, Holding
<1>18. OpenIsUsed'
  BY <1>4, <1>13 DEF OpenIsUsed
<1>19. CloseInOrder'
  BY <1>1, <1>3, <1>4, <1>5 DEF CloseInOrder, Over, Moves, Stage, NoHold
<1>. QED
  BY <1>6, <1>7, <1>8, <1>9, <1>10, <1>11, <1>12, <1>14, <1>15, <1>16, <1>17, <1>18, <1>19

\* An opening fails.
LEMMA OpeningFailsStep ==
    ASSUME LeaseInv, NEW c \in Consumers, OpeningFails(c)
    PROVE  LeaseInv'
<1>. USE DEF LeaseInv
<1>. DEFINE t == Track(c)
            h == NoHold
<1>1. hold[c] \in Handles /\ t \in Tracks /\ lease[t] \in Leases
  BY HandleTyped DEF OpeningFails
<1>2. h \in Handles \cup {NoHold} /\ hold' = [hold EXCEPT ![c] = h]
  BY <1>1 DEF OpeningFails, To, Drop, Handles, HoldStages, Holding
<1>3. Moves(c, h) /\ hold' \in [Consumers -> Handles \cup {NoHold}]
  BY <1>2, OneMoves
<1>4. /\ lease' = lease /\ opens' = opens /\ parent' = parent /\ segment' = segment
      /\ whole' = whole /\ life' = life /\ phase' = phase /\ pending' = pending
      /\ todo' = todo /\ failed' = failed
      /\ faults' \in Nat /\ outside' = outside /\ forgotten' = forgotten
  BY DEF OpeningFails, trackVars, closeVars, faultVars, Fault, LeaseTypeOK
<1>5. Stage(c) = "opening"
  BY <1>1 DEF OpeningFails, Handles, Fault, LeaseTypeOK
<1>6. LeaseTypeOK'
  BY <1>1, <1>3, <1>4, <1>5 DEF LeaseTypeOK
<1>7. HandlesInOrder'
  BY <1>1, <1>3, <1>4, <1>5
  DEF HandlesInOrder, HandleInOrder, Moves, Stage, Track, Handles, NoHold, Holding, Starting
<1>8. QueuesExclusive'
  BY <1>1, <1>3, <1>4, <1>5
  DEF QueuesExclusive, Exclusive, Moves, Stage, Track, Handles, NoHold, InLiveQueue
<1>9. LeaseSteady'
  BY <1>1, <1>3, <1>4, <1>5
  DEF LeaseSteady, Steady, Moves, Stage, Track, Handles, NoHold, Current, Holding, Starting
<1>10. LeasesNumbered'
  BY <1>4 DEF LeasesNumbered
<1>11. OpeningAlone'
  BY <1>1, <1>3, <1>4, <1>5 DEF OpeningAlone, Moves, Stage, Track, Handles, NoHold
<1>12. AllCounted'
  <2>. SUFFICES ASSUME NEW s \in Tracks PROVE Counted(s)'
    BY DEF AllCounted
  <2>1. CountMoves(c, s)
    BY <1>3, <1>4, CountsMove
  <2>2. (c \in Refs(s) <=> c \in Refs(s)') /\ (c \in Watch(s) <=> c \in Watch(s)')
    BY <1>1, <1>3, <1>4, <1>5
    DEF Refs, Watch, Users, On, Moves, Stage, Track, Handles, NoHold, Current, Holding
  <2>. QED
    BY <1>4, <2>1, <2>2 DEF AllCounted, Counted, CountMoves
<1>13. \A s \in Tracks : Users(s)' = Users(s)
  BY <1>1, <1>3, <1>4, <1>5
  DEF Users, On, Moves, Stage, Track, Handles, NoHold, Current, Holding
<1>14. LiveHasStarted'
  BY <1>1, <1>3, <1>4, <1>5 DEF LiveHasStarted, Moves, Stage, Track, Handles, NoHold, Current
<1>15. LiveIsThere'
  <2>. SUFFICES ASSUME NEW s \in Tracks, lease[s].started, parent[s],
                       ~(segment[s] # "none" \/ whole[s])
                PROVE  \E d \in Users(s)' : Stage(d)' = "ended"
    BY <1>4 DEF LiveIsThere
  <2>1. PICK d \in Users(s) : Stage(d) = "ended"
    BY DEF LiveIsThere
  <2>. QED
    BY <1>2, <1>3, <1>5, <1>13, <2>1 DEF Moves, Stage, Users, NoHold
<1>16. LiveIsOwed'
  <2>. SUFFICES ASSUME NEW s \in Tracks, lease[s].started
                PROVE  \E d \in Users(s)' : hold'[d].live # "no"
    BY <1>4 DEF LiveIsOwed
  <2>1. PICK d \in Users(s) : hold[d].live # "no"
    BY DEF LiveIsOwed
  <2>2. hold'[d].live # "no"
    BY <1>1, <1>3, <1>4, <1>5, <2>1 DEF Users, Moves, Stage, Track, Handles, NoHold, Holding
  <2>. QED
    BY <1>13, <2>1, <2>2
<1>17. HeldStayOpen'
  BY <1>1, <1>3, <1>4, <1>5
  DEF HeldStayOpen, StaysOpen, Moves, Stage, Track, Handles, NoHold, Current, Holding
<1>18. OpenIsUsed'
  BY <1>4, <1>13 DEF OpenIsUsed
<1>19. CloseInOrder'
  BY <1>1, <1>3, <1>4, <1>5 DEF CloseInOrder, Over, Moves, Stage, NoHold
<1>. QED
  BY <1>6, <1>7, <1>8, <1>9, <1>10, <1>11, <1>12, <1>14, <1>15, <1>16, <1>17, <1>18, <1>19
\* A lease that is not that of the track any more is not watched.
LEMMA JoinNothing ==
    ASSUME LeaseInv, NEW c \in Consumers, JoinLive(c), ~Current(c)
    PROVE  LeaseInv'
<1>. USE DEF LeaseInv
<1>. DEFINE t == Track(c)
            h == [hold[c] EXCEPT !.stage = "releasing"]
<1>1. hold[c] \in Handles /\ t \in Tracks /\ lease[t] \in Leases
  BY HandleTyped DEF JoinLive
<1>2. h \in Handles \cup {NoHold} /\ hold' = [hold EXCEPT ![c] = h]
  BY <1>1 DEF JoinLive, To, Drop, Handles, HoldStages, Holding
<1>3. Moves(c, h) /\ hold' \in [Consumers -> Handles \cup {NoHold}]
  BY <1>2, OneMoves
<1>4. /\ lease' = lease /\ opens' = opens /\ parent' = parent /\ segment' = segment
      /\ whole' = whole /\ life' = life /\ phase' = phase /\ pending' = pending
      /\ todo' = todo /\ failed' = failed /\ faults' = faults /\ outside' = outside
      /\ forgotten' = forgotten
  BY DEF JoinLive, trackVars, closeVars, faultVars
<1>5. Stage(c) = "joining" /\ ~Current(c)
  BY <1>1 DEF JoinLive, Handles
<1>6. LeaseTypeOK'
  BY <1>1, <1>3, <1>4, <1>5 DEF LeaseTypeOK
<1>7. HandlesInOrder'
  BY <1>1, <1>3, <1>4, <1>5
  DEF HandlesInOrder, HandleInOrder, Moves, Stage, Track, Handles, Holding, Starting
<1>8. QueuesExclusive'
  BY <1>1, <1>3, <1>4, <1>5
  DEF QueuesExclusive, Exclusive, Moves, Stage, Track, Handles, InLiveQueue
<1>9. LeaseSteady'
  BY <1>1, <1>3, <1>4, <1>5
  DEF LeaseSteady, Steady, Moves, Stage, Track, Handles, Current, Holding, Starting
<1>10. LeasesNumbered'
  BY <1>4 DEF LeasesNumbered
<1>11. OpeningAlone'
  BY <1>1, <1>3, <1>4, <1>5 DEF OpeningAlone, Moves, Stage, Track, Handles
<1>12. AllCounted'
  <2>. SUFFICES ASSUME NEW s \in Tracks PROVE Counted(s)'
    BY DEF AllCounted
  <2>1. CountMoves(c, s)
    BY <1>3, <1>4, CountsMove
  <2>2. (c \in Refs(s) <=> c \in Refs(s)') /\ (c \in Watch(s) <=> c \in Watch(s)')
    BY <1>1, <1>3, <1>4, <1>5
    DEF Refs, Watch, Users, On, Moves, Stage, Track, Handles, Current, Holding
  <2>. QED
    BY <1>4, <2>1, <2>2 DEF AllCounted, Counted, CountMoves
<1>13. \A s \in Tracks : Users(s)' = Users(s)
  BY <1>1, <1>3, <1>4, <1>5 DEF Users, On, Moves, Stage, Track, Handles, Current, Holding
<1>14. LiveHasStarted'
  BY <1>1, <1>3, <1>4, <1>5 DEF LiveHasStarted, Moves, Stage, Track, Handles, Current
<1>15. LiveIsThere'
  <2>. SUFFICES ASSUME NEW s \in Tracks, lease[s].started, parent[s],
                       ~(segment[s] # "none" \/ whole[s])
                PROVE  \E d \in Users(s)' : Stage(d)' = "ended"
    BY <1>4 DEF LiveIsThere
  <2>1. PICK d \in Users(s) : Stage(d) = "ended"
    BY DEF LiveIsThere
  <2>. QED
    BY <1>2, <1>3, <1>5, <1>13, <2>1 DEF Moves, Stage, Users, NoHold
<1>16. LiveIsOwed'
  <2>. SUFFICES ASSUME NEW s \in Tracks, lease[s].started
                PROVE  \E d \in Users(s)' : hold'[d].live # "no"
    BY <1>4 DEF LiveIsOwed
  <2>1. PICK d \in Users(s) : hold[d].live # "no"
    BY DEF LiveIsOwed
  <2>2. hold'[d].live # "no"
    BY <1>1, <1>3, <1>4, <1>5, <2>1 DEF Users, Moves, Stage, Track, Handles, Holding
  <2>. QED
    BY <1>13, <2>1, <2>2
<1>17. HeldStayOpen'
  BY <1>1, <1>3, <1>4, <1>5
  DEF HeldStayOpen, StaysOpen, Moves, Stage, Track, Handles, Current, Holding
<1>18. OpenIsUsed'
  BY <1>4, <1>13 DEF OpenIsUsed
<1>19. CloseInOrder'
  BY <1>1, <1>3, <1>4, <1>5 DEF CloseInOrder, Over, Moves, Stage, NoHold
<1>. QED
  BY <1>6, <1>7, <1>8, <1>9, <1>10, <1>11, <1>12, <1>14, <1>15, <1>16, <1>17, <1>18, <1>19

\* Live replication of a lease that has gone has started.
LEMMA StartedNothing ==
    ASSUME LeaseInv, NEW c \in Consumers, Started(c), ~Current(c)
    PROVE  LeaseInv'
<1>. USE DEF LeaseInv
<1>. DEFINE t == Track(c)
            h == [hold[c] EXCEPT !.stage = "startFailed"]
<1>1. hold[c] \in Handles /\ t \in Tracks /\ lease[t] \in Leases
  BY HandleTyped DEF Started
<1>2. h \in Handles \cup {NoHold} /\ hold' = [hold EXCEPT ![c] = h]
  BY <1>1 DEF Started, To, Drop, Handles, HoldStages, Holding
<1>3. Moves(c, h) /\ hold' \in [Consumers -> Handles \cup {NoHold}]
  BY <1>2, OneMoves
<1>4. /\ lease' = lease /\ opens' = opens /\ parent' = parent /\ segment' = segment
      /\ whole' = whole /\ life' = life /\ phase' = phase /\ pending' = pending
      /\ todo' = todo /\ failed' = failed /\ faults' = faults /\ outside' = outside
      /\ forgotten' = forgotten
  BY DEF Started, trackVars, closeVars, faultVars
<1>5. Stage(c) = "started" /\ ~Current(c)
  BY <1>1 DEF Started, Handles
<1>6. LeaseTypeOK'
  BY <1>1, <1>3, <1>4, <1>5 DEF LeaseTypeOK
<1>7. HandlesInOrder'
  BY <1>1, <1>3, <1>4, <1>5
  DEF HandlesInOrder, HandleInOrder, Moves, Stage, Track, Handles, Holding, Starting
<1>8. QueuesExclusive'
  BY <1>1, <1>3, <1>4, <1>5
  DEF QueuesExclusive, Exclusive, Moves, Stage, Track, Handles, InLiveQueue
<1>9. LeaseSteady'
  BY <1>1, <1>3, <1>4, <1>5
  DEF LeaseSteady, Steady, Moves, Stage, Track, Handles, Current, Holding, Starting
<1>10. LeasesNumbered'
  BY <1>4 DEF LeasesNumbered
<1>11. OpeningAlone'
  BY <1>1, <1>3, <1>4, <1>5 DEF OpeningAlone, Moves, Stage, Track, Handles
<1>12. AllCounted'
  <2>. SUFFICES ASSUME NEW s \in Tracks PROVE Counted(s)'
    BY DEF AllCounted
  <2>1. CountMoves(c, s)
    BY <1>3, <1>4, CountsMove
  <2>2. (c \in Refs(s) <=> c \in Refs(s)') /\ (c \in Watch(s) <=> c \in Watch(s)')
    BY <1>1, <1>3, <1>4, <1>5
    DEF Refs, Watch, Users, On, Moves, Stage, Track, Handles, Current, Holding
  <2>. QED
    BY <1>4, <2>1, <2>2 DEF AllCounted, Counted, CountMoves
<1>13. \A s \in Tracks : Users(s)' = Users(s)
  BY <1>1, <1>3, <1>4, <1>5 DEF Users, On, Moves, Stage, Track, Handles, Current, Holding
<1>14. LiveHasStarted'
  BY <1>1, <1>3, <1>4, <1>5 DEF LiveHasStarted, Moves, Stage, Track, Handles, Current
<1>15. LiveIsThere'
  <2>. SUFFICES ASSUME NEW s \in Tracks, lease[s].started, parent[s],
                       ~(segment[s] # "none" \/ whole[s])
                PROVE  \E d \in Users(s)' : Stage(d)' = "ended"
    BY <1>4 DEF LiveIsThere
  <2>1. PICK d \in Users(s) : Stage(d) = "ended"
    BY DEF LiveIsThere
  <2>. QED
    BY <1>2, <1>3, <1>5, <1>13, <2>1 DEF Moves, Stage, Users, NoHold
<1>16. LiveIsOwed'
  <2>. SUFFICES ASSUME NEW s \in Tracks, lease[s].started
                PROVE  \E d \in Users(s)' : hold'[d].live # "no"
    BY <1>4 DEF LiveIsOwed
  <2>1. PICK d \in Users(s) : hold[d].live # "no"
    BY DEF LiveIsOwed
  <2>2. hold'[d].live # "no"
    BY <1>1, <1>3, <1>4, <1>5, <2>1 DEF Users, Moves, Stage, Track, Handles, Holding
  <2>. QED
    BY <1>13, <2>1, <2>2
<1>17. HeldStayOpen'
  BY <1>1, <1>3, <1>4, <1>5
  DEF HeldStayOpen, StaysOpen, Moves, Stage, Track, Handles, Current, Holding
<1>18. OpenIsUsed'
  BY <1>4, <1>13 DEF OpenIsUsed
<1>19. CloseInOrder'
  BY <1>1, <1>3, <1>4, <1>5 DEF CloseInOrder, Over, Moves, Stage, NoHold
<1>. QED
  BY <1>6, <1>7, <1>8, <1>9, <1>10, <1>11, <1>12, <1>14, <1>15, <1>16, <1>17, <1>18, <1>19

\* Live replication of a lease that has gone is undone.
LEMMA UndoNothing ==
    ASSUME LeaseInv, NEW c \in Consumers, StartUndone(c), ~Current(c)
    PROVE  LeaseInv'
<1>. USE DEF LeaseInv
<1>. DEFINE t == Track(c)
            h == [hold[c] EXCEPT !.stage = "releasing"]
<1>1. hold[c] \in Handles /\ t \in Tracks /\ lease[t] \in Leases
  BY HandleTyped DEF StartUndone
<1>2. h \in Handles \cup {NoHold} /\ hold' = [hold EXCEPT ![c] = h]
  BY <1>1 DEF StartUndone, To, Drop, Handles, HoldStages, Holding
<1>3. Moves(c, h) /\ hold' \in [Consumers -> Handles \cup {NoHold}]
  BY <1>2, OneMoves
<1>4. /\ lease' = lease /\ opens' = opens /\ parent' = parent /\ segment' = segment
      /\ whole' = whole /\ life' = life /\ phase' = phase /\ pending' = pending
      /\ todo' = todo /\ failed' = failed /\ faults' = faults /\ outside' = outside
      /\ forgotten' = forgotten
  BY DEF StartUndone, trackVars, closeVars, faultVars
<1>5. Stage(c) = "startFailed" /\ ~Current(c)
  BY <1>1 DEF StartUndone, Handles
<1>6. LeaseTypeOK'
  BY <1>1, <1>3, <1>4, <1>5 DEF LeaseTypeOK
<1>7. HandlesInOrder'
  BY <1>1, <1>3, <1>4, <1>5
  DEF HandlesInOrder, HandleInOrder, Moves, Stage, Track, Handles, Holding, Starting
<1>8. QueuesExclusive'
  BY <1>1, <1>3, <1>4, <1>5
  DEF QueuesExclusive, Exclusive, Moves, Stage, Track, Handles, InLiveQueue
<1>9. LeaseSteady'
  BY <1>1, <1>3, <1>4, <1>5
  DEF LeaseSteady, Steady, Moves, Stage, Track, Handles, Current, Holding, Starting
<1>10. LeasesNumbered'
  BY <1>4 DEF LeasesNumbered
<1>11. OpeningAlone'
  BY <1>1, <1>3, <1>4, <1>5 DEF OpeningAlone, Moves, Stage, Track, Handles
<1>12. AllCounted'
  <2>. SUFFICES ASSUME NEW s \in Tracks PROVE Counted(s)'
    BY DEF AllCounted
  <2>1. CountMoves(c, s)
    BY <1>3, <1>4, CountsMove
  <2>2. (c \in Refs(s) <=> c \in Refs(s)') /\ (c \in Watch(s) <=> c \in Watch(s)')
    BY <1>1, <1>3, <1>4, <1>5
    DEF Refs, Watch, Users, On, Moves, Stage, Track, Handles, Current, Holding
  <2>. QED
    BY <1>4, <2>1, <2>2 DEF AllCounted, Counted, CountMoves
<1>13. \A s \in Tracks : Users(s)' = Users(s)
  BY <1>1, <1>3, <1>4, <1>5 DEF Users, On, Moves, Stage, Track, Handles, Current, Holding
<1>14. LiveHasStarted'
  BY <1>1, <1>3, <1>4, <1>5 DEF LiveHasStarted, Moves, Stage, Track, Handles, Current
<1>15. LiveIsThere'
  <2>. SUFFICES ASSUME NEW s \in Tracks, lease[s].started, parent[s],
                       ~(segment[s] # "none" \/ whole[s])
                PROVE  \E d \in Users(s)' : Stage(d)' = "ended"
    BY <1>4 DEF LiveIsThere
  <2>1. PICK d \in Users(s) : Stage(d) = "ended"
    BY DEF LiveIsThere
  <2>. QED
    BY <1>2, <1>3, <1>5, <1>13, <2>1 DEF Moves, Stage, Users, NoHold
<1>16. LiveIsOwed'
  <2>. SUFFICES ASSUME NEW s \in Tracks, lease[s].started
                PROVE  \E d \in Users(s)' : hold'[d].live # "no"
    BY <1>4 DEF LiveIsOwed
  <2>1. PICK d \in Users(s) : hold[d].live # "no"
    BY DEF LiveIsOwed
  <2>2. hold'[d].live # "no"
    BY <1>1, <1>3, <1>4, <1>5, <2>1 DEF Users, Moves, Stage, Track, Handles, Holding
  <2>. QED
    BY <1>13, <2>1, <2>2
<1>17. HeldStayOpen'
  BY <1>1, <1>3, <1>4, <1>5
  DEF HeldStayOpen, StaysOpen, Moves, Stage, Track, Handles, Current, Holding
<1>18. OpenIsUsed'
  BY <1>4, <1>13 DEF OpenIsUsed
<1>19. CloseInOrder'
  BY <1>1, <1>3, <1>4, <1>5 DEF CloseInOrder, Over, Moves, Stage, NoHold
<1>. QED
  BY <1>6, <1>7, <1>8, <1>9, <1>10, <1>11, <1>12, <1>14, <1>15, <1>16, <1>17, <1>18, <1>19

\* A lease that has gone needs no release.
LEMMA ReleaseNothing ==
    ASSUME LeaseInv, NEW c \in Consumers, ReleaseReferences(c), ~Current(c)
    PROVE  LeaseInv'
<1>. USE DEF LeaseInv
<1>. DEFINE t == Track(c)
            h == NoHold
<1>1. hold[c] \in Handles /\ t \in Tracks /\ lease[t] \in Leases
  BY HandleTyped DEF ReleaseReferences
<1>2. h \in Handles \cup {NoHold} /\ hold' = [hold EXCEPT ![c] = h]
  BY <1>1 DEF ReleaseReferences, To, Drop, Handles, HoldStages, Holding
<1>3. Moves(c, h) /\ hold' \in [Consumers -> Handles \cup {NoHold}]
  BY <1>2, OneMoves
<1>4. /\ lease' = lease /\ opens' = opens /\ parent' = parent /\ segment' = segment
      /\ whole' = whole /\ life' = life /\ phase' = phase /\ pending' = pending
      /\ todo' = todo /\ failed' = failed /\ faults' = faults /\ outside' = outside
      /\ forgotten' = forgotten
  BY DEF ReleaseReferences, trackVars, closeVars, faultVars
<1>5. Stage(c) = "releasing" /\ ~Current(c)
  BY <1>1 DEF ReleaseReferences, Handles
<1>6. LeaseTypeOK'
  BY <1>1, <1>3, <1>4, <1>5 DEF LeaseTypeOK
<1>7. HandlesInOrder'
  BY <1>1, <1>3, <1>4, <1>5
  DEF HandlesInOrder, HandleInOrder, Moves, Stage, Track, Handles, NoHold, Holding, Starting
<1>8. QueuesExclusive'
  BY <1>1, <1>3, <1>4, <1>5
  DEF QueuesExclusive, Exclusive, Moves, Stage, Track, Handles, NoHold, InLiveQueue
<1>9. LeaseSteady'
  BY <1>1, <1>3, <1>4, <1>5
  DEF LeaseSteady, Steady, Moves, Stage, Track, Handles, NoHold, Current, Holding, Starting
<1>10. LeasesNumbered'
  BY <1>4 DEF LeasesNumbered
<1>11. OpeningAlone'
  BY <1>1, <1>3, <1>4, <1>5 DEF OpeningAlone, Moves, Stage, Track, Handles, NoHold
<1>12. AllCounted'
  <2>. SUFFICES ASSUME NEW s \in Tracks PROVE Counted(s)'
    BY DEF AllCounted
  <2>1. CountMoves(c, s)
    BY <1>3, <1>4, CountsMove
  <2>2. (c \in Refs(s) <=> c \in Refs(s)') /\ (c \in Watch(s) <=> c \in Watch(s)')
    BY <1>1, <1>3, <1>4, <1>5
    DEF Refs, Watch, Users, On, Moves, Stage, Track, Handles, NoHold, Current, Holding
  <2>. QED
    BY <1>4, <2>1, <2>2 DEF AllCounted, Counted, CountMoves
<1>13. \A s \in Tracks : Users(s)' = Users(s)
  BY <1>1, <1>3, <1>4, <1>5
  DEF Users, On, Moves, Stage, Track, Handles, NoHold, Current, Holding
<1>14. LiveHasStarted'
  BY <1>1, <1>3, <1>4, <1>5 DEF LiveHasStarted, Moves, Stage, Track, Handles, NoHold, Current
<1>15. LiveIsThere'
  <2>. SUFFICES ASSUME NEW s \in Tracks, lease[s].started, parent[s],
                       ~(segment[s] # "none" \/ whole[s])
                PROVE  \E d \in Users(s)' : Stage(d)' = "ended"
    BY <1>4 DEF LiveIsThere
  <2>1. PICK d \in Users(s) : Stage(d) = "ended"
    BY DEF LiveIsThere
  <2>. QED
    BY <1>2, <1>3, <1>5, <1>13, <2>1 DEF Moves, Stage, Users, NoHold
<1>16. LiveIsOwed'
  <2>. SUFFICES ASSUME NEW s \in Tracks, lease[s].started
                PROVE  \E d \in Users(s)' : hold'[d].live # "no"
    BY <1>4 DEF LiveIsOwed
  <2>1. PICK d \in Users(s) : hold[d].live # "no"
    BY DEF LiveIsOwed
  <2>2. hold'[d].live # "no"
    BY <1>1, <1>3, <1>4, <1>5, <2>1 DEF Users, Moves, Stage, Track, Handles, NoHold, Holding
  <2>. QED
    BY <1>13, <2>1, <2>2
<1>17. HeldStayOpen'
  BY <1>1, <1>3, <1>4, <1>5
  DEF HeldStayOpen, StaysOpen, Moves, Stage, Track, Handles, NoHold, Current, Holding
<1>18. OpenIsUsed'
  BY <1>4, <1>13 DEF OpenIsUsed
<1>19. CloseInOrder'
  BY <1>1, <1>3, <1>4, <1>5 DEF CloseInOrder, Over, Moves, Stage, NoHold
<1>. QED
  BY <1>6, <1>7, <1>8, <1>9, <1>10, <1>11, <1>12, <1>14, <1>15, <1>16, <1>17, <1>18, <1>19

\* Live replication starts.
LEMMA StartLiveStep ==
    ASSUME LeaseInv, NEW c \in Consumers, StartLive(c)
    PROVE  LeaseInv'
<1>. USE DEF LeaseInv
<1>. DEFINE t == Track(c)
            h == [hold[c] EXCEPT !.stage = "started"]
<1>1. hold[c] \in Handles /\ t \in Tracks /\ lease[t] \in Leases
  BY HandleTyped DEF StartLive
<1>2. h \in Handles \cup {NoHold} /\ hold' = [hold EXCEPT ![c] = h]
  BY <1>1 DEF StartLive, To, Drop, Handles, HoldStages, Holding
<1>3. Moves(c, h) /\ hold' \in [Consumers -> Handles \cup {NoHold}]
  BY <1>2, OneMoves
<1>4. /\ lease' = lease /\ opens' = opens /\ parent' = parent /\ whole' = whole
      /\ life' = life /\ phase' = phase /\ pending' = pending /\ todo' = todo
      /\ failed' = failed /\ faults' = faults /\ outside' = outside
      /\ forgotten' = forgotten
      /\ segment' \in [Tracks -> {"none", "live", "ended"}]
      /\ segment'[t] = "live" /\ \A s \in Tracks : s # t => segment'[s] = segment[s]
  BY <1>1 DEF StartLive, trackVars, closeVars, faultVars, Track, LeaseTypeOK
<1>5. Stage(c) = "starting" /\ Current(c)
  BY <1>1 DEF StartLive, Handles, Track, LeaseTypeOK
<1>6. LeaseTypeOK'
  BY <1>1, <1>3, <1>4, <1>5 DEF LeaseTypeOK
<1>7. HandlesInOrder'
  BY <1>1, <1>3, <1>4, <1>5
  DEF HandlesInOrder, HandleInOrder, Moves, Stage, Track, Handles, Holding, Starting
<1>8. QueuesExclusive'
  BY <1>1, <1>3, <1>4, <1>5
  DEF QueuesExclusive, Exclusive, Moves, Stage, Track, Handles, InLiveQueue
<1>9. LeaseSteady'
  BY <1>1, <1>3, <1>4, <1>5
  DEF LeaseSteady, Steady, Moves, Stage, Track, Handles, Current, Holding, Starting
<1>10. LeasesNumbered'
  BY <1>4 DEF LeasesNumbered
<1>11. OpeningAlone'
  BY <1>1, <1>3, <1>4, <1>5 DEF OpeningAlone, Moves, Stage, Track, Handles
<1>12. AllCounted'
  <2>. SUFFICES ASSUME NEW s \in Tracks PROVE Counted(s)'
    BY DEF AllCounted
  <2>1. CountMoves(c, s)
    BY <1>3, <1>4, CountsMove
  <2>2. (c \in Refs(s) <=> c \in Refs(s)') /\ (c \in Watch(s) <=> c \in Watch(s)')
    BY <1>1, <1>3, <1>4, <1>5
    DEF Refs, Watch, Users, On, Moves, Stage, Track, Handles, Current, Holding
  <2>. QED
    BY <1>4, <2>1, <2>2 DEF AllCounted, Counted, CountMoves
<1>13. \A s \in Tracks : Users(s)' = Users(s)
  BY <1>1, <1>3, <1>4, <1>5 DEF Users, On, Moves, Stage, Track, Handles, Current, Holding
<1>14. LiveHasStarted'
  <2>. SUFFICES ASSUME NEW d \in Consumers, Stage(d)' = "started", Current(d)', parent[Track(d)']
                PROVE  segment'[Track(d)'] # "none" \/ whole'[Track(d)']
    BY <1>4 DEF LiveHasStarted
  <2>1. CASE d = c
    BY <1>1, <1>3, <1>4, <1>5, <2>1 DEF Moves, Stage, Track, Handles
  <2>2. CASE d # c
    <3>1. hold'[d] = hold[d] /\ Stage(d) = "started" /\ Current(d)
      BY <1>3, <1>4, <2>2 DEF Moves, Stage, Current, Track
    <3>2. Track(d) \in Tracks
      BY <3>1, HandleTyped
    <3>. QED
      BY <1>1, <1>4, <3>1, <3>2 DEF LiveHasStarted, Track
  <2>. QED
    BY <2>1, <2>2
<1>15. LiveIsThere'
  <2>. SUFFICES ASSUME NEW s \in Tracks, lease[s].started, parent[s],
                       ~(segment'[s] # "none" \/ whole'[s])
                PROVE  \E d \in Users(s)' : Stage(d)' = "ended"
    BY <1>4 DEF LiveIsThere
  <2>1. PICK d \in Users(s) : Stage(d) = "ended"
    BY <1>1, <1>4 DEF LiveIsThere
  <2>. QED
    BY <1>3, <1>5, <1>13, <2>1 DEF Moves, Stage, Users, NoHold
<1>16. LiveIsOwed'
  <2>. SUFFICES ASSUME NEW s \in Tracks, lease[s].started
                PROVE  \E d \in Users(s)' : hold'[d].live # "no"
    BY <1>4 DEF LiveIsOwed
  <2>1. PICK d \in Users(s) : hold[d].live # "no"
    BY DEF LiveIsOwed
  <2>2. hold'[d].live # "no"
    BY <1>1, <1>3, <1>4, <1>5, <2>1 DEF Users, Moves, Stage, Track, Handles, Holding
  <2>. QED
    BY <1>13, <2>1, <2>2
<1>17. HeldStayOpen'
  BY <1>1, <1>3, <1>4, <1>5
  DEF HeldStayOpen, StaysOpen, Moves, Stage, Track, Handles, Current, Holding
<1>18. OpenIsUsed'
  BY <1>4, <1>13 DEF OpenIsUsed
<1>19. CloseInOrder'
  BY <1>1, <1>3, <1>4, <1>5 DEF CloseInOrder, Over, Moves, Stage, NoHold
<1>. QED
  BY <1>6, <1>7, <1>8, <1>9, <1>10, <1>11, <1>12, <1>14, <1>15, <1>16, <1>17, <1>18, <1>19

\* A default replicates its track.
LEMMA ReplicateAllStep ==
    ASSUME LeaseInv, NEW c \in Consumers, ReplicateAll(c)
    PROVE  LeaseInv'
<1>. USE DEF LeaseInv
<1>. DEFINE t == Track(c)
            h == [hold[c] EXCEPT !.stage = "held"]
<1>1. hold[c] \in Handles /\ t \in Tracks /\ lease[t] \in Leases
  BY HandleTyped DEF ReplicateAll
<1>2. h \in Handles \cup {NoHold} /\ hold' = [hold EXCEPT ![c] = h]
  BY <1>1 DEF ReplicateAll, To, Drop, Handles, HoldStages, Holding
<1>3. Moves(c, h) /\ hold' \in [Consumers -> Handles \cup {NoHold}]
  BY <1>2, OneMoves
<1>4. /\ lease' = lease /\ opens' = opens /\ parent' = parent /\ life' = life
      /\ phase' = phase /\ pending' = pending /\ todo' = todo /\ failed' = failed
      /\ faults' = faults /\ outside' = outside /\ forgotten' = forgotten
      /\ segment' \in [Tracks -> {"none", "live", "ended"}] /\ whole' \in [Tracks -> BOOLEAN]
      /\ whole'[t] /\ \A s \in Tracks : s # t => segment'[s] = segment[s] /\ whole'[s] = whole[s]
  BY <1>1 DEF ReplicateAll, trackVars, closeVars, faultVars, Ended, Track, LeaseTypeOK
<1>5. Stage(c) = "replicating" /\ Current(c)
  BY <1>1 DEF ReplicateAll, Handles, Ended, Track, LeaseTypeOK
<1>6. LeaseTypeOK'
  BY <1>1, <1>3, <1>4, <1>5 DEF LeaseTypeOK
<1>7. HandlesInOrder'
  BY <1>1, <1>3, <1>4, <1>5
  DEF HandlesInOrder, HandleInOrder, Moves, Stage, Track, Handles, Holding, Starting
<1>8. QueuesExclusive'
  BY <1>1, <1>3, <1>4, <1>5
  DEF QueuesExclusive, Exclusive, Moves, Stage, Track, Handles, InLiveQueue
<1>9. LeaseSteady'
  BY <1>1, <1>3, <1>4, <1>5
  DEF LeaseSteady, Steady, Moves, Stage, Track, Handles, Current, Holding, Starting
<1>10. LeasesNumbered'
  BY <1>4 DEF LeasesNumbered
<1>11. OpeningAlone'
  BY <1>1, <1>3, <1>4, <1>5 DEF OpeningAlone, Moves, Stage, Track, Handles
<1>12. AllCounted'
  <2>. SUFFICES ASSUME NEW s \in Tracks PROVE Counted(s)'
    BY DEF AllCounted
  <2>1. CountMoves(c, s)
    BY <1>3, <1>4, CountsMove
  <2>2. (c \in Refs(s) <=> c \in Refs(s)') /\ (c \in Watch(s) <=> c \in Watch(s)')
    BY <1>1, <1>3, <1>4, <1>5
    DEF Refs, Watch, Users, On, Moves, Stage, Track, Handles, Current, Holding
  <2>. QED
    BY <1>4, <2>1, <2>2 DEF AllCounted, Counted, CountMoves
<1>13. \A s \in Tracks : Users(s)' = Users(s)
  BY <1>1, <1>3, <1>4, <1>5 DEF Users, On, Moves, Stage, Track, Handles, Current, Holding
<1>14. LiveHasStarted'
  <2>. SUFFICES ASSUME NEW d \in Consumers, Stage(d)' = "started", Current(d)', parent[Track(d)']
                PROVE  segment'[Track(d)'] # "none" \/ whole'[Track(d)']
    BY <1>4 DEF LiveHasStarted
  <2>1. CASE d = c
    BY <1>1, <1>3, <1>4, <1>5, <2>1 DEF Moves, Stage, Track, Handles
  <2>2. CASE d # c
    <3>1. hold'[d] = hold[d] /\ Stage(d) = "started" /\ Current(d)
      BY <1>3, <1>4, <2>2 DEF Moves, Stage, Current, Track
    <3>2. Track(d) \in Tracks
      BY <3>1, HandleTyped
    <3>. QED
      BY <1>1, <1>4, <3>1, <3>2 DEF LiveHasStarted, Track
  <2>. QED
    BY <2>1, <2>2
<1>15. LiveIsThere'
  <2>. SUFFICES ASSUME NEW s \in Tracks, lease[s].started, parent[s],
                       ~(segment'[s] # "none" \/ whole'[s])
                PROVE  \E d \in Users(s)' : Stage(d)' = "ended"
    BY <1>4 DEF LiveIsThere
  <2>1. PICK d \in Users(s) : Stage(d) = "ended"
    BY <1>1, <1>4 DEF LiveIsThere
  <2>. QED
    BY <1>3, <1>5, <1>13, <2>1 DEF Moves, Stage, Users, NoHold
<1>16. LiveIsOwed'
  <2>. SUFFICES ASSUME NEW s \in Tracks, lease[s].started
                PROVE  \E d \in Users(s)' : hold'[d].live # "no"
    BY <1>4 DEF LiveIsOwed
  <2>1. PICK d \in Users(s) : hold[d].live # "no"
    BY DEF LiveIsOwed
  <2>2. hold'[d].live # "no"
    BY <1>1, <1>3, <1>4, <1>5, <2>1 DEF Users, Moves, Stage, Track, Handles, Holding
  <2>. QED
    BY <1>13, <2>1, <2>2
<1>17. HeldStayOpen'
  BY <1>1, <1>3, <1>4, <1>5
  DEF HeldStayOpen, StaysOpen, Moves, Stage, Track, Handles, Current, Holding
<1>18. OpenIsUsed'
  BY <1>4, <1>13 DEF OpenIsUsed
<1>19. CloseInOrder'
  BY <1>1, <1>3, <1>4, <1>5 DEF CloseInOrder, Over, Moves, Stage, NoHold
<1>. QED
  BY <1>6, <1>7, <1>8, <1>9, <1>10, <1>11, <1>12, <1>14, <1>15, <1>16, <1>17, <1>18, <1>19

\* The replication of a track fails.
LEMMA ReplicateFailsStep ==
    ASSUME LeaseInv, NEW c \in Consumers, ReplicateFails(c)
    PROVE  LeaseInv'
<1>. USE DEF LeaseInv
<1>. DEFINE t == Track(c)
            h == [hold[c] EXCEPT !.stage = "releasing"]
<1>1. hold[c] \in Handles /\ t \in Tracks /\ lease[t] \in Leases
  BY HandleTyped DEF ReplicateFails
<1>2. h \in Handles \cup {NoHold} /\ hold' = [hold EXCEPT ![c] = h]
  BY <1>1 DEF ReplicateFails, To, Drop, Handles, HoldStages, Holding
<1>3. Moves(c, h) /\ hold' \in [Consumers -> Handles \cup {NoHold}]
  BY <1>2, OneMoves
<1>4. /\ lease' = lease /\ opens' = opens /\ parent' = parent /\ whole' = whole
      /\ life' = life /\ phase' = phase /\ pending' = pending /\ todo' = todo
      /\ failed' = failed
      /\ segment' \in [Tracks -> {"none", "live", "ended"}]
      /\ \A s \in Tracks : segment'[s] # "none" <=> segment[s] # "none"
      /\ faults' \in Nat /\ outside' = outside /\ forgotten' = forgotten
  BY <1>1 DEF ReplicateFails, trackVars, closeVars, faultVars, Fault, Ended, Track, LeaseTypeOK
<1>5. Stage(c) = "replicating"
  BY <1>1 DEF ReplicateFails, Handles, Fault, Ended, Track, LeaseTypeOK
<1>6. LeaseTypeOK'
  BY <1>1, <1>3, <1>4, <1>5 DEF LeaseTypeOK
<1>7. HandlesInOrder'
  BY <1>1, <1>3, <1>4, <1>5
  DEF HandlesInOrder, HandleInOrder, Moves, Stage, Track, Handles, Holding, Starting
<1>8. QueuesExclusive'
  BY <1>1, <1>3, <1>4, <1>5
  DEF QueuesExclusive, Exclusive, Moves, Stage, Track, Handles, InLiveQueue
<1>9. LeaseSteady'
  BY <1>1, <1>3, <1>4, <1>5
  DEF LeaseSteady, Steady, Moves, Stage, Track, Handles, Current, Holding, Starting
<1>10. LeasesNumbered'
  BY <1>4 DEF LeasesNumbered
<1>11. OpeningAlone'
  BY <1>1, <1>3, <1>4, <1>5 DEF OpeningAlone, Moves, Stage, Track, Handles
<1>12. AllCounted'
  <2>. SUFFICES ASSUME NEW s \in Tracks PROVE Counted(s)'
    BY DEF AllCounted
  <2>1. CountMoves(c, s)
    BY <1>3, <1>4, CountsMove
  <2>2. (c \in Refs(s) <=> c \in Refs(s)') /\ (c \in Watch(s) <=> c \in Watch(s)')
    BY <1>1, <1>3, <1>4, <1>5
    DEF Refs, Watch, Users, On, Moves, Stage, Track, Handles, Current, Holding
  <2>. QED
    BY <1>4, <2>1, <2>2 DEF AllCounted, Counted, CountMoves
<1>13. \A s \in Tracks : Users(s)' = Users(s)
  BY <1>1, <1>3, <1>4, <1>5 DEF Users, On, Moves, Stage, Track, Handles, Current, Holding
<1>14. LiveHasStarted'
  <2>. SUFFICES ASSUME NEW d \in Consumers, Stage(d)' = "started", Current(d)', parent[Track(d)']
                PROVE  segment'[Track(d)'] # "none" \/ whole'[Track(d)']
    BY <1>4 DEF LiveHasStarted
  <2>1. CASE d = c
    BY <1>1, <1>3, <1>4, <1>5, <2>1 DEF Moves, Stage, Track, Handles
  <2>2. CASE d # c
    <3>1. hold'[d] = hold[d] /\ Stage(d) = "started" /\ Current(d)
      BY <1>3, <1>4, <2>2 DEF Moves, Stage, Current, Track
    <3>2. Track(d) \in Tracks
      BY <3>1, HandleTyped
    <3>. QED
      BY <1>1, <1>4, <3>1, <3>2 DEF LiveHasStarted, Track
  <2>. QED
    BY <2>1, <2>2
<1>15. LiveIsThere'
  <2>. SUFFICES ASSUME NEW s \in Tracks, lease[s].started, parent[s],
                       ~(segment'[s] # "none" \/ whole'[s])
                PROVE  \E d \in Users(s)' : Stage(d)' = "ended"
    BY <1>4 DEF LiveIsThere
  <2>1. PICK d \in Users(s) : Stage(d) = "ended"
    BY <1>1, <1>4 DEF LiveIsThere
  <2>. QED
    BY <1>3, <1>5, <1>13, <2>1 DEF Moves, Stage, Users, NoHold
<1>16. LiveIsOwed'
  <2>. SUFFICES ASSUME NEW s \in Tracks, lease[s].started
                PROVE  \E d \in Users(s)' : hold'[d].live # "no"
    BY <1>4 DEF LiveIsOwed
  <2>1. PICK d \in Users(s) : hold[d].live # "no"
    BY DEF LiveIsOwed
  <2>2. hold'[d].live # "no"
    BY <1>1, <1>3, <1>4, <1>5, <2>1 DEF Users, Moves, Stage, Track, Handles, Holding
  <2>. QED
    BY <1>13, <2>1, <2>2
<1>17. HeldStayOpen'
  BY <1>1, <1>3, <1>4, <1>5
  DEF HeldStayOpen, StaysOpen, Moves, Stage, Track, Handles, Current, Holding
<1>18. OpenIsUsed'
  BY <1>4, <1>13 DEF OpenIsUsed
<1>19. CloseInOrder'
  BY <1>1, <1>3, <1>4, <1>5 DEF CloseInOrder, Over, Moves, Stage, NoHold
<1>. QED
  BY <1>6, <1>7, <1>8, <1>9, <1>10, <1>11, <1>12, <1>14, <1>15, <1>16, <1>17, <1>18, <1>19

\* Live replication ends.
LEMMA EndLiveStep ==
    ASSUME LeaseInv, NEW c \in Consumers, EndLive(c)
    PROVE  LeaseInv'
<1>. USE DEF LeaseInv
<1>. DEFINE t == Track(c)
            h == [hold[c] EXCEPT !.stage = "ended"]
<1>1. hold[c] \in Handles /\ t \in Tracks /\ lease[t] \in Leases
  BY HandleTyped DEF EndLive
<1>2. h \in Handles \cup {NoHold} /\ hold' = [hold EXCEPT ![c] = h]
  BY <1>1 DEF EndLive, To, Drop, Handles, HoldStages, Holding
<1>3. Moves(c, h) /\ hold' \in [Consumers -> Handles \cup {NoHold}]
  BY <1>2, OneMoves
<1>4. /\ lease' = lease /\ opens' = opens /\ parent' = parent /\ whole' = whole
      /\ life' = life /\ phase' = phase /\ pending' = pending /\ todo' = todo
      /\ failed' = failed /\ faults' = faults /\ outside' = outside
      /\ forgotten' = forgotten
      /\ segment' \in [Tracks -> {"none", "live", "ended"}]
      /\ ~Current(c) => segment' = segment
      /\ \A s \in Tracks : s # t => segment'[s] = segment[s]
  BY <1>1 DEF EndLive, trackVars, closeVars, faultVars, Track, LeaseTypeOK
<1>5. Stage(c) = "ending"
  BY <1>1 DEF EndLive, Handles, Track, LeaseTypeOK
<1>6. LeaseTypeOK'
  BY <1>1, <1>3, <1>4, <1>5 DEF LeaseTypeOK
<1>7. HandlesInOrder'
  BY <1>1, <1>3, <1>4, <1>5
  DEF HandlesInOrder, HandleInOrder, Moves, Stage, Track, Handles, Holding, Starting
<1>8. QueuesExclusive'
  BY <1>1, <1>3, <1>4, <1>5
  DEF QueuesExclusive, Exclusive, Moves, Stage, Track, Handles, InLiveQueue
<1>9. LeaseSteady'
  BY <1>1, <1>3, <1>4, <1>5
  DEF LeaseSteady, Steady, Moves, Stage, Track, Handles, Current, Holding, Starting
<1>10. LeasesNumbered'
  BY <1>4 DEF LeasesNumbered
<1>11. OpeningAlone'
  BY <1>1, <1>3, <1>4, <1>5 DEF OpeningAlone, Moves, Stage, Track, Handles
<1>12. AllCounted'
  <2>. SUFFICES ASSUME NEW s \in Tracks PROVE Counted(s)'
    BY DEF AllCounted
  <2>1. CountMoves(c, s)
    BY <1>3, <1>4, CountsMove
  <2>2. (c \in Refs(s) <=> c \in Refs(s)') /\ (c \in Watch(s) <=> c \in Watch(s)')
    BY <1>1, <1>3, <1>4, <1>5
    DEF Refs, Watch, Users, On, Moves, Stage, Track, Handles, Current, Holding
  <2>. QED
    BY <1>4, <2>1, <2>2 DEF AllCounted, Counted, CountMoves
<1>13. \A s \in Tracks : Users(s)' = Users(s)
  BY <1>1, <1>3, <1>4, <1>5 DEF Users, On, Moves, Stage, Track, Handles, Current, Holding
<1>14. LiveHasStarted'
  <2>. SUFFICES ASSUME NEW d \in Consumers, Stage(d)' = "started", Current(d)', parent[Track(d)']
                PROVE  segment'[Track(d)'] # "none" \/ whole[Track(d)']
    BY <1>4 DEF LiveHasStarted
  <2>1. d # c /\ hold'[d] = hold[d] /\ Stage(d) = "started" /\ Current(d)
    BY <1>1, <1>3, <1>4, <1>5 DEF Moves, Stage, Current, Track, Handles
  <2>2. ~Current(c) \/ Track(d) # t
    BY <1>1, <1>5, <2>1 DEF QueuesExclusive, Exclusive, InLiveQueue, Stage, Current, Track
  <2>3. hold[d] \in Handles /\ Track(d) \in Tracks
    BY <2>1, HandleTyped
  <2>. QED
    BY <1>4, <2>1, <2>2, <2>3 DEF LiveHasStarted, Track
<1>15. LiveIsThere'
  <2>. SUFFICES ASSUME NEW s \in Tracks, lease[s].started, parent[s],
                       ~(segment'[s] # "none" \/ whole[s])
                PROVE  \E d \in Users(s)' : Stage(d)' = "ended"
    BY <1>4 DEF LiveIsThere
  <2>1. CASE segment[s] # "none"
    <3>1. Current(c) /\ s = t
      BY <1>4, <2>1
    <3>2. c \in Users(s)
      BY <1>1, <1>5, <3>1 DEF Users, On, Stage, Track, Holding
    <3>. QED
      BY <1>1, <1>3, <1>13, <3>2 DEF Moves, Stage, Handles
  <2>2. CASE segment[s] = "none"
    <3>1. PICK d \in Users(s) : Stage(d) = "ended"
      BY <2>2 DEF LiveIsThere
    <3>. QED
      BY <1>3, <1>5, <1>13, <3>1 DEF Moves, Stage, Users
  <2>. QED
    BY <2>1, <2>2
<1>16. LiveIsOwed'
  <2>. SUFFICES ASSUME NEW s \in Tracks, lease[s].started
                PROVE  \E d \in Users(s)' : hold'[d].live # "no"
    BY <1>4 DEF LiveIsOwed
  <2>1. PICK d \in Users(s) : hold[d].live # "no"
    BY DEF LiveIsOwed
  <2>2. hold'[d].live # "no"
    BY <1>1, <1>3, <1>4, <1>5, <2>1 DEF Users, Moves, Stage, Track, Handles, Holding
  <2>. QED
    BY <1>13, <2>1, <2>2
<1>17. HeldStayOpen'
  BY <1>1, <1>3, <1>4, <1>5
  DEF HeldStayOpen, StaysOpen, Moves, Stage, Track, Handles, Current, Holding
<1>18. OpenIsUsed'
  BY <1>4, <1>13 DEF OpenIsUsed
<1>19. CloseInOrder'
  BY <1>1, <1>3, <1>4, <1>5 DEF CloseInOrder, Over, Moves, Stage, NoHold
<1>. QED
  BY <1>6, <1>7, <1>8, <1>9, <1>10, <1>11, <1>12, <1>14, <1>15, <1>16, <1>17, <1>18, <1>19

\* The last reference takes the track with it.
LEMMA LastLeaves ==
    ASSUME LeaseInv, NEW c \in Consumers, LeaveTrack(c), Retires(c)
    PROVE  LeaseInv'
<1>. USE DEF LeaseInv
<1>. DEFINE t == Track(c)
            h == [hold[c] EXCEPT !.stage = "closing"]
<1>1. hold[c] \in Handles /\ t \in Tracks /\ lease[t] \in Leases
  BY HandleTyped DEF LeaveTrack
<1>2. h \in Handles \cup {NoHold} /\ hold' = [hold EXCEPT ![c] = h]
  BY <1>1 DEF LeaveTrack, To, Drop, Handles, HoldStages, Holding
<1>3. Moves(c, h) /\ hold' \in [Consumers -> Handles \cup {NoHold}]
  BY <1>2, OneMoves
<1>4. /\ lease' = lease /\ opens' = opens /\ parent' = parent /\ segment' = segment
      /\ whole' = whole /\ life' = life /\ phase' = phase /\ pending' = pending
      /\ todo' = todo /\ failed' = failed /\ faults' = faults /\ outside' = outside
      /\ forgotten' = forgotten
  BY DEF LeaveTrack, trackVars, closeVars, faultVars, Retires
<1>5. Stage(c) = "leaving" /\ QueueFree(t) /\ Current(c) /\ lease[t].references = 0
  BY <1>1 DEF LeaveTrack, Handles, Retires
<1>6. LeaseTypeOK'
  BY <1>1, <1>3, <1>4, <1>5 DEF LeaseTypeOK
<1>7. HandlesInOrder'
  BY <1>1, <1>3, <1>4, <1>5
  DEF HandlesInOrder, HandleInOrder, Moves, Stage, Track, Handles, Holding, Starting
<1>8. QueuesExclusive'
  BY <1>1, <1>3, <1>4, <1>5
  DEF QueuesExclusive, Exclusive, QueueFree, On, Moves, Stage, Track, Handles, InLiveQueue
<1>9. LeaseSteady'
  BY <1>1, <1>3, <1>4, <1>5
  DEF LeaseSteady, Steady, Moves, Stage, Track, Handles, Current, Holding, Starting
<1>10. LeasesNumbered'
  BY <1>4 DEF LeasesNumbered
<1>11. OpeningAlone'
  BY <1>1, <1>3, <1>4, <1>5 DEF OpeningAlone, Moves, Stage, Track, Handles
<1>12. AllCounted'
  <2>. SUFFICES ASSUME NEW s \in Tracks PROVE Counted(s)'
    BY DEF AllCounted
  <2>1. CountMoves(c, s)
    BY <1>3, <1>4, CountsMove
  <2>2. (c \in Refs(s) <=> c \in Refs(s)') /\ (c \in Watch(s) <=> c \in Watch(s)')
    BY <1>1, <1>3, <1>4, <1>5
    DEF Refs, Watch, Users, On, Moves, Stage, Track, Handles, Current, Holding
  <2>. QED
    BY <1>4, <2>1, <2>2 DEF AllCounted, Counted, CountMoves
<1>13. \A s \in Tracks : Users(s)' = Users(s)
  BY <1>1, <1>3, <1>4, <1>5 DEF Users, On, Moves, Stage, Track, Handles, Current, Holding
<1>14. LiveHasStarted'
  BY <1>1, <1>3, <1>4, <1>5 DEF LiveHasStarted, Moves, Stage, Track, Handles, Current
<1>15. LiveIsThere'
  <2>. SUFFICES ASSUME NEW s \in Tracks, lease[s].started, parent[s],
                       ~(segment[s] # "none" \/ whole[s])
                PROVE  \E d \in Users(s)' : Stage(d)' = "ended"
    BY <1>4 DEF LiveIsThere
  <2>1. PICK d \in Users(s) : Stage(d) = "ended"
    BY DEF LiveIsThere
  <2>. QED
    BY <1>2, <1>3, <1>5, <1>13, <2>1 DEF Moves, Stage, Users, NoHold
<1>16. LiveIsOwed'
  <2>. SUFFICES ASSUME NEW s \in Tracks, lease[s].started
                PROVE  \E d \in Users(s)' : hold'[d].live # "no"
    BY <1>4 DEF LiveIsOwed
  <2>1. PICK d \in Users(s) : hold[d].live # "no"
    BY DEF LiveIsOwed
  <2>2. hold'[d].live # "no"
    BY <1>1, <1>3, <1>4, <1>5, <2>1 DEF Users, Moves, Stage, Track, Handles, Holding
  <2>. QED
    BY <1>13, <2>1, <2>2
<1>17. HeldStayOpen'
  BY <1>1, <1>3, <1>4, <1>5
  DEF HeldStayOpen, StaysOpen, Moves, Stage, Track, Handles, Current, Holding
<1>18. OpenIsUsed'
  BY <1>4, <1>13 DEF OpenIsUsed
<1>19. CloseInOrder'
  BY <1>1, <1>3, <1>4, <1>5 DEF CloseInOrder, Over, Moves, Stage, NoHold
<1>. QED
  BY <1>6, <1>7, <1>8, <1>9, <1>10, <1>11, <1>12, <1>14, <1>15, <1>16, <1>17, <1>18, <1>19

\* A consumer leaves a track that others use, or that stays open.
LEMMA OneLeaves ==
    ASSUME LeaseInv, NEW c \in Consumers, LeaveTrack(c), ~Retires(c)
    PROVE  LeaseInv'
<1>. USE DEF LeaseInv
<1>. DEFINE t == Track(c)
            h == NoHold
<1>1. hold[c] \in Handles /\ t \in Tracks /\ lease[t] \in Leases
  BY HandleTyped DEF LeaveTrack
<1>2. h \in Handles \cup {NoHold} /\ hold' = [hold EXCEPT ![c] = h]
  BY <1>1 DEF LeaveTrack, To, Drop, Handles, HoldStages, Holding
<1>3. Moves(c, h) /\ hold' \in [Consumers -> Handles \cup {NoHold}]
  BY <1>2, OneMoves
<1>4. /\ lease' = lease /\ opens' = opens /\ parent' = parent /\ segment' = segment
      /\ whole' = whole /\ life' = life /\ phase' = phase /\ pending' = pending
      /\ todo' = todo /\ failed' = failed /\ faults' = faults /\ outside' = outside
      /\ forgotten' = forgotten
  BY DEF LeaveTrack, trackVars, closeVars, faultVars, HandlesInOrder, HandleInOrder, Holding
<1>5. Stage(c) = "leaving" /\ hold[c].released /\ hold[c].live # "yes"
  BY <1>1 DEF LeaveTrack, Handles, HandlesInOrder, HandleInOrder, Holding
<1>6. LeaseTypeOK'
  BY <1>1, <1>3, <1>4, <1>5 DEF LeaseTypeOK
<1>7. HandlesInOrder'
  BY <1>1, <1>3, <1>4, <1>5
  DEF HandlesInOrder, HandleInOrder, Moves, Stage, Track, Handles, NoHold, Holding, Starting
<1>8. QueuesExclusive'
  BY <1>1, <1>3, <1>4, <1>5
  DEF QueuesExclusive, Exclusive, Moves, Stage, Track, Handles, NoHold, InLiveQueue
<1>9. LeaseSteady'
  BY <1>1, <1>3, <1>4, <1>5
  DEF LeaseSteady, Steady, Moves, Stage, Track, Handles, NoHold, Current, Holding, Starting
<1>10. LeasesNumbered'
  BY <1>4 DEF LeasesNumbered
<1>11. OpeningAlone'
  BY <1>1, <1>3, <1>4, <1>5 DEF OpeningAlone, Moves, Stage, Track, Handles, NoHold
<1>12. AllCounted'
  <2>. SUFFICES ASSUME NEW s \in Tracks PROVE Counted(s)'
    BY DEF AllCounted
  <2>1. CountMoves(c, s)
    BY <1>3, <1>4, CountsMove
  <2>2. (c \in Refs(s) <=> c \in Refs(s)') /\ (c \in Watch(s) <=> c \in Watch(s)')
    BY <1>1, <1>3, <1>4, <1>5
    DEF Refs, Watch, Users, On, Moves, Stage, Track, Handles, NoHold, Current, Holding
  <2>. QED
    BY <1>4, <2>1, <2>2 DEF AllCounted, Counted, CountMoves
<1>13. \A s \in Tracks : Users(s)' = Users(s) \ {c}
  BY <1>1, <1>3, <1>4, <1>5
  DEF Users, On, Moves, Stage, Track, Handles, Current, Holding, NoHold
<1>14. LiveHasStarted'
  BY <1>1, <1>3, <1>4, <1>5 DEF LiveHasStarted, Moves, Stage, Track, Handles, NoHold, Current
<1>15. LiveIsThere'
  <2>. SUFFICES ASSUME NEW s \in Tracks, lease[s].started, parent[s],
                       ~(segment[s] # "none" \/ whole[s])
                PROVE  \E d \in Users(s)' : Stage(d)' = "ended"
    BY <1>4 DEF LiveIsThere
  <2>1. PICK d \in Users(s) : Stage(d) = "ended"
    BY DEF LiveIsThere
  <2>. QED
    BY <1>3, <1>5, <1>13, <2>1 DEF Moves, Stage, Users
<1>16. LiveIsOwed'
  <2>. SUFFICES ASSUME NEW s \in Tracks, lease[s].started
                PROVE  \E d \in Users(s)' : hold'[d].live # "no"
    BY <1>4 DEF LiveIsOwed
  <2>1. CASE c \in Users(s)
    <3>1. lease[s].live # 0
      BY <1>1, <1>5, <2>1 DEF LeaseSteady, Steady, Users, On, Stage, Track, Holding
    <3>2. PICK d \in Users(s) : hold[d].live = "yes"
      BY <3>1, CountsSay DEF Watch
    <3>. QED
      BY <1>3, <1>5, <1>13, <3>2 DEF Moves, Users
  <2>2. CASE c \notin Users(s)
    <3>1. PICK d \in Users(s) : hold[d].live # "no"
      BY DEF LiveIsOwed
    <3>. QED
      BY <1>3, <1>13, <2>2, <3>1 DEF Moves, Users
  <2>. QED
    BY <2>1, <2>2
<1>17. HeldStayOpen'
  BY <1>1, <1>3, <1>4, <1>5
  DEF HeldStayOpen, StaysOpen, Moves, Stage, Track, Handles, NoHold, Current, Holding
<1>18. OpenIsUsed'
  <2>. SUFFICES ASSUME NEW s \in Tracks, parent[s], s \notin forgotten, ~lease[s].keepOpen
                PROVE  Users(s)' # {}
    BY <1>4 DEF OpenIsUsed
  <2>1. CASE c \in Users(s)
    <3>1. Current(c) /\ s = t
      BY <2>1 DEF Users, On, Track
    <3>2. lease[s].references # 0
      BY <3>1 DEF Retires
    <3>3. PICK d \in Users(s) : ~hold[d].released
      BY <3>2, CountsSay DEF Refs
    <3>. QED
      BY <1>5, <1>13, <3>3
  <2>2. CASE c \notin Users(s)
    BY <1>13, <2>2 DEF OpenIsUsed
  <2>. QED
    BY <2>1, <2>2
<1>19. CloseInOrder'
  BY <1>1, <1>3, <1>4, <1>5 DEF CloseInOrder, Over, Moves, Stage, NoHold
<1>. QED
  BY <1>6, <1>7, <1>8, <1>9, <1>10, <1>11, <1>12, <1>14, <1>15, <1>16, <1>17, <1>18, <1>19

\* A release that fails is kept for the next attempt.
LEMMA ReleaseKept ==
    ASSUME LeaseInv, NEW c \in Consumers, ReleaseFails(c), hold[c].kept
    PROVE  LeaseInv'
<1>. USE DEF LeaseInv
<1>. DEFINE t == Track(c)
            h == [hold[c] EXCEPT !.stage = "owed"]
<1>1. hold[c] \in Handles /\ t \in Tracks /\ lease[t] \in Leases
  BY HandleTyped DEF ReleaseFails
<1>2. h \in Handles \cup {NoHold} /\ hold' = [hold EXCEPT ![c] = h]
  BY <1>1 DEF ReleaseFails, To, Drop, Handles, HoldStages, Holding
<1>3. Moves(c, h) /\ hold' \in [Consumers -> Handles \cup {NoHold}]
  BY <1>2, OneMoves
<1>4. /\ lease' = lease /\ opens' = opens /\ parent' = parent /\ segment' = segment
      /\ whole' = whole /\ life' = life /\ phase' = phase /\ todo' = todo
      /\ outside' = outside /\ forgotten' = forgotten
      /\ pending' = pending \ {c} /\ failed' = (failed \/ c \in pending)
      /\ faults' \in Nat /\ failed' \in BOOLEAN
  BY
  DEF ReleaseFails, trackVars, closeVars, faultVars, HandlesInOrder, HandleInOrder, Holding,
      LeaseTypeOK
<1>5. Stage(c) \in {"ending", "closing"} /\ hold[c].released /\ hold[c].live # "yes"
  BY <1>1 DEF ReleaseFails, Handles, HandlesInOrder, HandleInOrder, Holding, LeaseTypeOK
<1>6. LeaseTypeOK'
  BY <1>1, <1>3, <1>4, <1>5 DEF LeaseTypeOK
<1>7. HandlesInOrder'
  BY <1>1, <1>3, <1>4, <1>5
  DEF HandlesInOrder, HandleInOrder, Moves, Stage, Track, Handles, Holding, Starting
<1>8. QueuesExclusive'
  BY <1>1, <1>3, <1>4, <1>5
  DEF QueuesExclusive, Exclusive, Moves, Stage, Track, Handles, InLiveQueue
<1>9. LeaseSteady'
  BY <1>1, <1>3, <1>4, <1>5
  DEF LeaseSteady, Steady, Moves, Stage, Track, Handles, Current, Holding, Starting
<1>10. LeasesNumbered'
  BY <1>4 DEF LeasesNumbered
<1>11. OpeningAlone'
  BY <1>1, <1>3, <1>4, <1>5 DEF OpeningAlone, Moves, Stage, Track, Handles
<1>12. AllCounted'
  <2>. SUFFICES ASSUME NEW s \in Tracks PROVE Counted(s)'
    BY DEF AllCounted
  <2>1. CountMoves(c, s)
    BY <1>3, <1>4, CountsMove
  <2>2. (c \in Refs(s) <=> c \in Refs(s)') /\ (c \in Watch(s) <=> c \in Watch(s)')
    BY <1>1, <1>3, <1>4, <1>5
    DEF Refs, Watch, Users, On, Moves, Stage, Track, Handles, Current, Holding
  <2>. QED
    BY <1>4, <2>1, <2>2 DEF AllCounted, Counted, CountMoves
<1>13. \A s \in Tracks : Users(s)' = Users(s)
  BY <1>1, <1>3, <1>4, <1>5 DEF Users, On, Moves, Stage, Track, Handles, Current, Holding
<1>14. LiveHasStarted'
  BY <1>1, <1>3, <1>4, <1>5 DEF LiveHasStarted, Moves, Stage, Track, Handles, Current
<1>15. LiveIsThere'
  <2>. SUFFICES ASSUME NEW s \in Tracks, lease[s].started, parent[s],
                       ~(segment[s] # "none" \/ whole[s])
                PROVE  \E d \in Users(s)' : Stage(d)' = "ended"
    BY <1>4 DEF LiveIsThere
  <2>1. PICK d \in Users(s) : Stage(d) = "ended"
    BY DEF LiveIsThere
  <2>. QED
    BY <1>3, <1>5, <1>13, <2>1 DEF Moves, Stage, Users
<1>16. LiveIsOwed'
  <2>. SUFFICES ASSUME NEW s \in Tracks, lease[s].started
                PROVE  \E d \in Users(s)' : hold'[d].live # "no"
    BY <1>4 DEF LiveIsOwed
  <2>1. PICK d \in Users(s) : hold[d].live # "no"
    BY DEF LiveIsOwed
  <2>2. hold'[d].live # "no"
    BY <1>1, <1>3, <1>4, <1>5, <2>1 DEF Users, Moves, Stage, Track, Handles, Holding
  <2>. QED
    BY <1>13, <2>1, <2>2
<1>17. HeldStayOpen'
  BY <1>1, <1>3, <1>4, <1>5
  DEF HeldStayOpen, StaysOpen, Moves, Stage, Track, Handles, Current, Holding
<1>18. OpenIsUsed'
  BY <1>4, <1>13 DEF OpenIsUsed
<1>19. CloseInOrder'
  BY <1>1, <1>3, <1>4, <1>5 DEF CloseInOrder, Over, Moves, Stage, NoHold
<1>. QED
  BY <1>6, <1>7, <1>8, <1>9, <1>10, <1>11, <1>12, <1>14, <1>15, <1>16, <1>17, <1>18, <1>19

\* A release that fails is forgotten by a consumer that had become inactive.
LEMMA ReleaseForgotten ==
    ASSUME LeaseInv, NEW c \in Consumers, ReleaseFails(c), ~hold[c].kept
    PROVE  LeaseInv'
<1>. USE DEF LeaseInv
<1>. DEFINE t == Track(c)
            h == NoHold
<1>1. hold[c] \in Handles /\ t \in Tracks /\ lease[t] \in Leases
  BY HandleTyped DEF ReleaseFails
<1>2. h \in Handles \cup {NoHold} /\ hold' = [hold EXCEPT ![c] = h]
  BY <1>1 DEF ReleaseFails, To, Drop, Handles, HoldStages, Holding
<1>3. Moves(c, h) /\ hold' \in [Consumers -> Handles \cup {NoHold}]
  BY <1>2, OneMoves
<1>4. /\ lease' = lease /\ opens' = opens /\ parent' = parent /\ segment' = segment
      /\ whole' = whole /\ life' = life /\ phase' = phase /\ pending' = pending
      /\ todo' = todo /\ failed' = failed /\ outside' = outside
      /\ forgotten' = forgotten \cup {t}
      /\ faults' \in Nat
  BY
  DEF ReleaseFails, trackVars, closeVars, faultVars, HandlesInOrder, HandleInOrder, Holding,
      LeaseTypeOK
<1>5. Stage(c) \in {"ending", "closing"} /\ hold[c].released /\ hold[c].live = "no"
  BY <1>1 DEF ReleaseFails, Handles, HandlesInOrder, HandleInOrder, Holding, LeaseTypeOK
<1>6. LeaseTypeOK'
  BY <1>1, <1>3, <1>4, <1>5 DEF LeaseTypeOK
<1>7. HandlesInOrder'
  BY <1>1, <1>3, <1>4, <1>5
  DEF HandlesInOrder, HandleInOrder, Moves, Stage, Track, Handles, NoHold, Holding, Starting
<1>8. QueuesExclusive'
  BY <1>1, <1>3, <1>4, <1>5
  DEF QueuesExclusive, Exclusive, Moves, Stage, Track, Handles, NoHold, InLiveQueue
<1>9. LeaseSteady'
  BY <1>1, <1>3, <1>4, <1>5
  DEF LeaseSteady, Steady, Moves, Stage, Track, Handles, NoHold, Current, Holding, Starting
<1>10. LeasesNumbered'
  BY <1>4 DEF LeasesNumbered
<1>11. OpeningAlone'
  BY <1>1, <1>3, <1>4, <1>5 DEF OpeningAlone, Moves, Stage, Track, Handles, NoHold
<1>12. AllCounted'
  <2>. SUFFICES ASSUME NEW s \in Tracks PROVE Counted(s)'
    BY DEF AllCounted
  <2>1. CountMoves(c, s)
    BY <1>3, <1>4, CountsMove
  <2>2. (c \in Refs(s) <=> c \in Refs(s)') /\ (c \in Watch(s) <=> c \in Watch(s)')
    BY <1>1, <1>3, <1>4, <1>5
    DEF Refs, Watch, Users, On, Moves, Stage, Track, Handles, NoHold, Current, Holding
  <2>. QED
    BY <1>4, <2>1, <2>2 DEF AllCounted, Counted, CountMoves
<1>13. \A s \in Tracks : Users(s)' = Users(s) \ {c}
  BY <1>1, <1>3, <1>4, <1>5
  DEF Users, On, Moves, Stage, Track, Handles, Current, Holding, NoHold
<1>14. LiveHasStarted'
  BY <1>1, <1>3, <1>4, <1>5 DEF LiveHasStarted, Moves, Stage, Track, Handles, NoHold, Current
<1>15. LiveIsThere'
  <2>. SUFFICES ASSUME NEW s \in Tracks, lease[s].started, parent[s],
                       ~(segment[s] # "none" \/ whole[s])
                PROVE  \E d \in Users(s)' : Stage(d)' = "ended"
    BY <1>4 DEF LiveIsThere
  <2>1. PICK d \in Users(s) : Stage(d) = "ended"
    BY DEF LiveIsThere
  <2>. QED
    BY <1>3, <1>5, <1>13, <2>1 DEF Moves, Stage, Users
<1>16. LiveIsOwed'
  <2>. SUFFICES ASSUME NEW s \in Tracks, lease[s].started
                PROVE  \E d \in Users(s)' : hold'[d].live # "no"
    BY <1>4 DEF LiveIsOwed
  <2>1. PICK d \in Users(s) : hold[d].live # "no"
    BY DEF LiveIsOwed
  <2>. QED
    BY <1>3, <1>5, <1>13, <2>1 DEF Moves, Users
<1>17. HeldStayOpen'
  BY <1>1, <1>3, <1>4, <1>5
  DEF HeldStayOpen, StaysOpen, Moves, Stage, Track, Handles, NoHold, Current, Holding
<1>18. OpenIsUsed'
  BY <1>4, <1>13 DEF OpenIsUsed, Users, On, Track
<1>19. CloseInOrder'
  BY <1>1, <1>3, <1>4, <1>5 DEF CloseInOrder, Over, Moves, Stage, NoHold
<1>. QED
  BY <1>6, <1>7, <1>8, <1>9, <1>10, <1>11, <1>12, <1>14, <1>15, <1>16, <1>17, <1>18, <1>19
\* A lease with other references, kept open or not.
LEMMA LeaseWith ==
    ASSUME NEW l \in Leases, NEW x \in Int, NEW b \in BOOLEAN
    PROVE  [l EXCEPT !.references = x, !.keepOpen = b] \in Leases
BY DEF Leases

\* What a lease is when one more shares it, and when one gives its references back.
LEMMA SharedLease ==
    ASSUME NEW l \in Leases, NEW c
    PROVE  \E m \in Leases : /\ Shared(l, c) = m /\ m.n = l.n /\ m.references = l.references + 1
                             /\ m.live = l.live /\ m.started = l.started
<1>1. CASE l.keepOpen \/ c \in KeepOpen
  <2>. DEFINE m == [l EXCEPT !.references = @ + 1, !.keepOpen = TRUE]
  <2>1. (l.keepOpen \/ c \in KeepOpen) = TRUE
    BY <1>1, Zenon
  <2>2. Shared(l, c) = m
    BY <2>1, Zenon DEF Shared
  <2>3. m \in Leases
    <3>1. l.references + 1 \in Int
      BY DEF Leases
    <3>2. TRUE \in BOOLEAN /\ FALSE \in BOOLEAN
      OBVIOUS
    <3>. QED
      BY <3>1, <3>2, LeaseWith, Zenon
  <2>4. m.n = l.n /\ m.references = l.references + 1 /\ m.live = l.live
    BY DEF Leases
  <2>5. m.started = l.started
    BY DEF Leases
  <2>. QED
    BY <2>2, <2>4, <2>5, <2>3
<1>2. CASE ~(l.keepOpen \/ c \in KeepOpen)
  <2>. DEFINE m == [l EXCEPT !.references = @ + 1, !.keepOpen = FALSE]
  <2>1. (l.keepOpen \/ c \in KeepOpen) = FALSE
    BY <1>2, Zenon
  <2>2. Shared(l, c) = m
    BY <2>1, Zenon DEF Shared
  <2>3. m \in Leases
    <3>1. l.references + 1 \in Int
      BY DEF Leases
    <3>2. TRUE \in BOOLEAN /\ FALSE \in BOOLEAN
      OBVIOUS
    <3>. QED
      BY <3>1, <3>2, LeaseWith, Zenon
  <2>4. m.n = l.n /\ m.references = l.references + 1 /\ m.live = l.live
    BY DEF Leases
  <2>5. m.started = l.started
    BY DEF Leases
  <2>. QED
    BY <2>2, <2>4, <2>5, <2>3
<1>. QED
  BY <1>1, <1>2

\* The first who watches a track live starts its live replication.
LEMMA JoinFirst ==
    ASSUME LeaseInv, NEW c \in Consumers, JoinLive(c), Current(c),
           lease[Track(c)].live = 0 /\ ~lease[Track(c)].started
    PROVE  LeaseInv'
<1>. USE DEF LeaseInv
<1>. DEFINE t == Track(c)
<1>1. hold[c] \in Handles /\ t \in Tracks /\ lease[t] \in Leases
  BY HandleTyped DEF JoinLive
<1>2. PICK h \in Handles :
        /\ hold' = [hold EXCEPT ![c] = h] /\ h.track = t /\ h.n = hold[c].n
        /\ h.kept = hold[c].kept
        /\ h.released = hold[c].released /\ h.live = "yes" /\ h.stage = "starting"
  <2>. DEFINE g == [hold[c] EXCEPT !.stage = "starting", !.live = "yes"]
  <2>1. g \in Handles
    BY <1>1 DEF Handles, HoldStages, Holding
  <2>2. hold' = [hold EXCEPT ![c] = g]
    BY <1>1 DEF JoinLive, Handles
  <2>3. /\ g.track = t /\ g.n = hold[c].n /\ g.kept = hold[c].kept
        /\ g.released = hold[c].released /\ g.live = "yes" /\ g.stage = "starting"
    BY <1>1 DEF Handles, Track
  <2>. QED
    BY <2>1, <2>2, <2>3
<1>3. Moves(c, h) /\ hold' \in [Consumers -> Handles \cup {NoHold}]
  BY <1>2, OneMoves
<1>4. /\ opens' = opens /\ parent' = parent /\ segment' = segment /\ whole' = whole
      /\ life' = life /\ phase' = phase /\ pending' = pending /\ todo' = todo
      /\ failed' = failed /\ faults' = faults /\ outside' = outside
      /\ forgotten' = forgotten
  BY DEF JoinLive, trackVars, closeVars, faultVars
<1>5. Stage(c) = "joining" /\ LiveFree(c) /\ Current(c) /\ hold[c].live = "no" /\ hold[c].kept
  BY <1>1
  DEF JoinLive, Track, Stage, Current, HandlesInOrder, HandleInOrder, LeaseSteady, Steady,
      Holding, Starting
<1>6. lease' \in [Tracks -> Leases] /\ (\A s \in Tracks : s # t => lease'[s] = lease[s])
     /\ lease'[t].n = lease[t].n /\ lease'[t].references = lease[t].references
     /\ lease'[t].live = lease[t].live + 1
     /\ lease'[t].started = lease[t].started /\ lease'[t].keepOpen = lease[t].keepOpen
  <2>. DEFINE m == [lease[t] EXCEPT !.live = @ + 1]
  <2>1. m \in Leases
    BY <1>1 DEF Leases
  <2>2. lease' = [lease EXCEPT ![t] = m]
    BY <1>1, <1>5 DEF JoinLive, Leases
  <2>3. /\ m.n = lease[t].n
        /\ m.references = lease[t].references /\ m.live = lease[t].live + 1
      /\ m.started = lease[t].started /\ m.keepOpen = lease[t].keepOpen
    BY <1>1, <1>5 DEF Leases
  <2>. QED
    BY <1>1, <2>1, <2>2, <2>3 DEF LeaseTypeOK
<1>7. /\ \A s \in Tracks : lease'[s].n = lease[s].n
      /\ lease[t].n # 0
      /\ \A d \in Consumers : Stage(d) # "none" => hold[d] \in Handles /\ Track(d) \in Tracks
  <2>1. \A s \in Tracks : lease'[s].n = lease[s].n
    BY <1>6
  <2>2. lease[t].n # 0
    BY <1>1, <1>5 DEF HandlesInOrder, HandleInOrder, Holding, Current
  <2>. QED
    BY <2>1, <2>2, HandleTyped
<1>8. LeaseTypeOK'
  BY <1>3, <1>4, <1>6 DEF LeaseTypeOK
<1>9. HandlesInOrder'
  BY <1>1, <1>2, <1>3, <1>4, <1>5
  DEF HandlesInOrder, HandleInOrder, Moves, Stage, Track, Handles, Holding, Starting
<1>10. QueuesExclusive'
  BY <1>1, <1>2, <1>3, <1>4, <1>5
  DEF QueuesExclusive, Exclusive, QueueFree, LiveFree, On, Moves, Stage, Track, Handles,
      InLiveQueue, Current
<1>11. LeaseSteady'
  <2>. SUFFICES ASSUME NEW d \in Consumers PROVE Steady(d)'
    BY DEF LeaseSteady
  <2>1. CASE d = c
    BY <1>1, <1>2, <1>3, <1>4, <1>5, <1>6, <1>7, <2>1
    DEF LeaseSteady, Steady, Moves, Stage, Track, Handles, Current, Holding, Starting
  <2>2. CASE d # c
    <3>. SUFFICES ASSUME Stage(d) \in Holding, Current(d), Track(d) = t, hold'[d] = hold[d]
                  PROVE  Steady(d)'
      <4>1. hold'[d] = hold[d]
        BY <1>3, <2>2 DEF Moves
      <4>2. ASSUME Stage(d) \in Holding, Current(d)', Track(d) # t PROVE Steady(d)'
        <5>1. Track(d) \in Tracks
          BY <4>2, HandleTyped DEF Holding
        <5>. QED
          BY <1>6, <4>1, <4>2, <5>1 DEF LeaseSteady, Steady, Stage, Track, Current
      <4>3. ASSUME Stage(d) \in Holding, Current(d)', Track(d) = t PROVE Current(d)
        BY <1>6, <4>1, <4>3 DEF Stage, Track, Current
      <4>4. ~(Stage(d) \in Holding /\ Current(d)') => Steady(d)'
        BY <4>1 DEF Steady, Stage
      <4>. QED
        BY <4>1, <4>2, <4>3, <4>4
    <3>1. Stage(d) \notin InLiveQueue
      BY <1>5, <2>2 DEF LiveFree, On, Current, Track, Stage, Holding
    <3>. QED
      BY <1>6, <3>1 DEF LeaseSteady, Steady, Stage, Track, Current, Starting, InLiveQueue
  <2>. QED
    BY <2>1, <2>2
<1>12. LeasesNumbered'
  BY <1>4, <1>6, <1>7 DEF LeasesNumbered
<1>13. OpeningAlone'
  BY <1>1, <1>2, <1>3, <1>4, <1>5, <1>6, <1>7 DEF OpeningAlone, Moves, Stage, Track, Handles
<1>14. AllCounted'
  <2>. SUFFICES ASSUME NEW s \in Tracks PROVE Counted(s)'
    BY DEF AllCounted
  <2>1. CountMoves(c, s)
    BY <1>3, <1>6, CountsMove
  <2>2. CASE s # t
    <3>1. (c \in Refs(s) <=> c \in Refs(s)') /\ (c \in Watch(s) <=> c \in Watch(s)')
      BY <1>1, <1>2, <1>3, <1>5, <2>2
      DEF Refs, Watch, Users, On, Moves, Stage, Track, Handles, Holding
    <3>. QED
      BY <1>6, <2>1, <2>2, <3>1 DEF AllCounted, Counted, CountMoves
  <2>3. CASE s = t
    <3>1. (c \in Refs(s) <=> c \in Refs(s)')
      BY <1>1, <1>2, <1>3, <1>5, <1>6, <2>3
      DEF Refs, Users, On, Moves, Stage, Track, Handles, Current, Holding
    <3>2. c \notin Watch(s) /\ c \in Watch(s)'
      BY <1>1, <1>2, <1>3, <1>5, <1>6, <2>3
      DEF Watch, Users, On, Moves, Stage, Track, Handles, Current, Holding
    <3>. QED
      BY <1>1, <1>6, <2>1, <2>3, <3>1, <3>2 DEF AllCounted, Counted, CountMoves, Leases
  <2>. QED
    BY <2>2, <2>3
<1>15. \A s \in Tracks : Users(s)' = Users(s)
  BY <1>1, <1>2, <1>3, <1>4, <1>5, <1>6, <1>7
  DEF Users, On, Moves, Stage, Track, Handles, Current, Holding
<1>16. LiveHasStarted'
  BY <1>1, <1>2, <1>3, <1>4, <1>5, <1>6, <1>7
  DEF LiveHasStarted, Moves, Stage, Track, Handles, Current
<1>17. LiveIsThere'
  <2>. SUFFICES ASSUME NEW s \in Tracks, lease'[s].started, parent[s],
                       ~(segment[s] # "none" \/ whole[s])
                PROVE  \E d \in Users(s)' : Stage(d)' = "ended"
    BY <1>4 DEF LiveIsThere
  <2>1. PICK d \in Users(s) : Stage(d) = "ended"
    BY <1>6 DEF LiveIsThere
  <2>. QED
    BY <1>3, <1>5, <1>15, <2>1 DEF Moves, Stage, Users
<1>18. LiveIsOwed'
  <2>. SUFFICES ASSUME NEW s \in Tracks, lease'[s].started
                PROVE  \E d \in Users(s)' : hold'[d].live # "no"
    BY <1>4 DEF LiveIsOwed
  <2>1. PICK d \in Users(s) : hold[d].live # "no"
    BY <1>6 DEF LiveIsOwed
  <2>2. hold'[d].live # "no"
    BY <1>1, <1>2, <1>3, <1>4, <1>5, <2>1 DEF Users, Moves, Stage, Track, Handles, Holding
  <2>. QED
    BY <1>15, <2>1, <2>2
<1>19. HeldStayOpen'
  BY <1>1, <1>2, <1>3, <1>4, <1>5, <1>6, <1>7
  DEF HeldStayOpen, StaysOpen, Moves, Stage, Track, Handles, Current, Holding
<1>20. OpenIsUsed'
  BY <1>4, <1>15, <1>6 DEF OpenIsUsed
<1>21. CloseInOrder'
  BY <1>1, <1>2, <1>3, <1>4, <1>5, <1>6, <1>7 DEF CloseInOrder, Over, Moves, Stage, Track
<1>. QED
  BY <1>8, <1>9, <1>10, <1>11, <1>12, <1>13, <1>14, <1>16, <1>17, <1>18, <1>19, <1>20, <1>21

\* Others join it.
LEMMA JoinMore ==
    ASSUME LeaseInv, NEW c \in Consumers, JoinLive(c), Current(c),
           ~(lease[Track(c)].live = 0 /\ ~lease[Track(c)].started)
    PROVE  LeaseInv'
<1>. USE DEF LeaseInv
<1>. DEFINE t == Track(c)
<1>1. hold[c] \in Handles /\ t \in Tracks /\ lease[t] \in Leases
  BY HandleTyped DEF JoinLive
<1>2. PICK h \in Handles :
        /\ hold' = [hold EXCEPT ![c] = h] /\ h.track = t /\ h.n = hold[c].n
        /\ h.kept = hold[c].kept
        /\ h.released = hold[c].released /\ h.live = "yes" /\ h.stage = "held"
  <2>. DEFINE g == [hold[c] EXCEPT !.stage = "held", !.live = "yes"]
  <2>1. g \in Handles
    BY <1>1 DEF Handles, HoldStages, Holding
  <2>2. hold' = [hold EXCEPT ![c] = g]
    BY <1>1 DEF JoinLive, Handles
  <2>3. /\ g.track = t /\ g.n = hold[c].n /\ g.kept = hold[c].kept
        /\ g.released = hold[c].released /\ g.live = "yes" /\ g.stage = "held"
    BY <1>1 DEF Handles, Track
  <2>. QED
    BY <2>1, <2>2, <2>3
<1>3. Moves(c, h) /\ hold' \in [Consumers -> Handles \cup {NoHold}]
  BY <1>2, OneMoves
<1>4. /\ opens' = opens /\ parent' = parent /\ segment' = segment /\ whole' = whole
      /\ life' = life /\ phase' = phase /\ pending' = pending /\ todo' = todo
      /\ failed' = failed /\ faults' = faults /\ outside' = outside
      /\ forgotten' = forgotten
  BY DEF JoinLive, trackVars, closeVars, faultVars
<1>5. Stage(c) = "joining" /\ LiveFree(c) /\ Current(c) /\ hold[c].live = "no"
      /\ hold[c].kept /\ (lease[t].live # 0 \/ lease[t].started)
  BY <1>1
  DEF JoinLive, Track, Stage, Current, HandlesInOrder, HandleInOrder, LeaseSteady, Steady,
      Holding, Starting
<1>6. lease' \in [Tracks -> Leases] /\ (\A s \in Tracks : s # t => lease'[s] = lease[s])
     /\ lease'[t].n = lease[t].n /\ lease'[t].references = lease[t].references
     /\ lease'[t].live = lease[t].live + 1
     /\ lease'[t].started = lease[t].started /\ lease'[t].keepOpen = lease[t].keepOpen
  <2>. DEFINE m == [lease[t] EXCEPT !.live = @ + 1]
  <2>1. m \in Leases
    BY <1>1 DEF Leases
  <2>2. lease' = [lease EXCEPT ![t] = m]
    BY <1>1, <1>5 DEF JoinLive, Leases
  <2>3. /\ m.n = lease[t].n
        /\ m.references = lease[t].references /\ m.live = lease[t].live + 1
      /\ m.started = lease[t].started /\ m.keepOpen = lease[t].keepOpen
    BY <1>1, <1>5 DEF Leases
  <2>. QED
    BY <1>1, <2>1, <2>2, <2>3 DEF LeaseTypeOK
<1>7. /\ \A s \in Tracks : lease'[s].n = lease[s].n
      /\ lease[t].n # 0
      /\ \A d \in Consumers : Stage(d) # "none" => hold[d] \in Handles /\ Track(d) \in Tracks
  <2>1. \A s \in Tracks : lease'[s].n = lease[s].n
    BY <1>6
  <2>2. lease[t].n # 0
    BY <1>1, <1>5 DEF HandlesInOrder, HandleInOrder, Holding, Current
  <2>. QED
    BY <2>1, <2>2, HandleTyped
<1>8. lease[t].started
  <2>. SUFFICES ASSUME lease[t].live # 0, ~lease[t].started PROVE FALSE
    BY <1>5
  <2>1. PICK d \in Users(t) : hold[d].live = "yes"
    BY <1>1, CountsSay DEF Watch
  <2>2. d \in Consumers /\ On(d, t) /\ Stage(d) \in Holding /\ Current(d) /\ d # c
    BY <1>5, <2>1 DEF Users
  <2>3. Stage(d) \in Starting
    BY <2>1, <2>2 DEF LeaseSteady, Steady, On, Track
  <2>. QED
    BY <1>5, <2>2, <2>3 DEF LiveFree, On, Current, Track, Starting, InLiveQueue
<1>9. LeaseTypeOK'
  BY <1>3, <1>4, <1>6 DEF LeaseTypeOK
<1>10. HandlesInOrder'
  BY <1>1, <1>2, <1>3, <1>4, <1>5
  DEF HandlesInOrder, HandleInOrder, Moves, Stage, Track, Handles, Holding, Starting
<1>11. QueuesExclusive'
  BY <1>1, <1>2, <1>3, <1>4, <1>5
  DEF QueuesExclusive, Exclusive, QueueFree, LiveFree, On, Moves, Stage, Track, Handles,
      InLiveQueue, Current
<1>12. LeaseSteady'
  <2>. SUFFICES ASSUME NEW d \in Consumers PROVE Steady(d)'
    BY DEF LeaseSteady
  <2>1. CASE d = c
    BY <1>1, <1>2, <1>3, <1>4, <1>5, <1>6, <1>7, <1>8, <2>1
    DEF LeaseSteady, Steady, Moves, Stage, Track, Handles, Current, Holding, Starting
  <2>2. CASE d # c
    <3>. SUFFICES ASSUME Stage(d) \in Holding, Current(d), Track(d) = t, hold'[d] = hold[d]
                  PROVE  Steady(d)'
      <4>1. hold'[d] = hold[d]
        BY <1>3, <2>2 DEF Moves
      <4>2. ASSUME Stage(d) \in Holding, Current(d)', Track(d) # t PROVE Steady(d)'
        <5>1. Track(d) \in Tracks
          BY <4>2, HandleTyped DEF Holding
        <5>. QED
          BY <1>6, <4>1, <4>2, <5>1 DEF LeaseSteady, Steady, Stage, Track, Current
      <4>3. ASSUME Stage(d) \in Holding, Current(d)', Track(d) = t PROVE Current(d)
        BY <1>6, <4>1, <4>3 DEF Stage, Track, Current
      <4>4. ~(Stage(d) \in Holding /\ Current(d)') => Steady(d)'
        BY <4>1 DEF Steady, Stage
      <4>. QED
        BY <4>1, <4>2, <4>3, <4>4
    <3>1. Stage(d) \notin InLiveQueue
      BY <1>5, <2>2 DEF LiveFree, On, Current, Track, Stage, Holding
    <3>. QED
      BY <1>6, <3>1 DEF LeaseSteady, Steady, Stage, Track, Current, Starting, InLiveQueue
  <2>. QED
    BY <2>1, <2>2
<1>13. LeasesNumbered'
  BY <1>4, <1>6, <1>7 DEF LeasesNumbered
<1>14. OpeningAlone'
  BY <1>1, <1>2, <1>3, <1>4, <1>5, <1>6, <1>7, <1>8
  DEF OpeningAlone, Moves, Stage, Track, Handles
<1>15. AllCounted'
  <2>. SUFFICES ASSUME NEW s \in Tracks PROVE Counted(s)'
    BY DEF AllCounted
  <2>1. CountMoves(c, s)
    BY <1>3, <1>6, CountsMove
  <2>2. CASE s # t
    <3>1. (c \in Refs(s) <=> c \in Refs(s)') /\ (c \in Watch(s) <=> c \in Watch(s)')
      BY <1>1, <1>2, <1>3, <1>5, <2>2
      DEF Refs, Watch, Users, On, Moves, Stage, Track, Handles, Holding
    <3>. QED
      BY <1>6, <2>1, <2>2, <3>1 DEF AllCounted, Counted, CountMoves
  <2>3. CASE s = t
    <3>1. (c \in Refs(s) <=> c \in Refs(s)')
      BY <1>1, <1>2, <1>3, <1>5, <1>6, <2>3
      DEF Refs, Users, On, Moves, Stage, Track, Handles, Current, Holding
    <3>2. c \notin Watch(s) /\ c \in Watch(s)'
      BY <1>1, <1>2, <1>3, <1>5, <1>6, <2>3
      DEF Watch, Users, On, Moves, Stage, Track, Handles, Current, Holding
    <3>. QED
      BY <1>1, <1>6, <2>1, <2>3, <3>1, <3>2 DEF AllCounted, Counted, CountMoves, Leases
  <2>. QED
    BY <2>2, <2>3
<1>16. \A s \in Tracks : Users(s)' = Users(s)
  BY <1>1, <1>2, <1>3, <1>4, <1>5, <1>6, <1>7, <1>8
  DEF Users, On, Moves, Stage, Track, Handles, Current, Holding
<1>17. LiveHasStarted'
  BY <1>1, <1>2, <1>3, <1>4, <1>5, <1>6, <1>7, <1>8
  DEF LiveHasStarted, Moves, Stage, Track, Handles, Current
<1>18. LiveIsThere'
  <2>. SUFFICES ASSUME NEW s \in Tracks, lease'[s].started, parent[s],
                       ~(segment[s] # "none" \/ whole[s])
                PROVE  \E d \in Users(s)' : Stage(d)' = "ended"
    BY <1>4 DEF LiveIsThere
  <2>1. PICK d \in Users(s) : Stage(d) = "ended"
    BY <1>6 DEF LiveIsThere
  <2>. QED
    BY <1>3, <1>5, <1>16, <2>1 DEF Moves, Stage, Users
<1>19. LiveIsOwed'
  <2>. SUFFICES ASSUME NEW s \in Tracks, lease'[s].started
                PROVE  \E d \in Users(s)' : hold'[d].live # "no"
    BY <1>4 DEF LiveIsOwed
  <2>1. PICK d \in Users(s) : hold[d].live # "no"
    BY <1>6 DEF LiveIsOwed
  <2>2. hold'[d].live # "no"
    BY <1>1, <1>2, <1>3, <1>4, <1>5, <2>1 DEF Users, Moves, Stage, Track, Handles, Holding
  <2>. QED
    BY <1>16, <2>1, <2>2
<1>20. HeldStayOpen'
  BY <1>1, <1>2, <1>3, <1>4, <1>5, <1>6, <1>7, <1>8
  DEF HeldStayOpen, StaysOpen, Moves, Stage, Track, Handles, Current, Holding
<1>21. OpenIsUsed'
  BY <1>4, <1>16, <1>6 DEF OpenIsUsed
<1>22. CloseInOrder'
  BY <1>1, <1>2, <1>3, <1>4, <1>5, <1>6, <1>7, <1>8 DEF CloseInOrder, Over, Moves, Stage, Track
<1>. QED
  BY <1>9, <1>10, <1>11, <1>12, <1>13, <1>14, <1>15, <1>17, <1>18, <1>19, <1>20, <1>21, <1>22

\* Live replication has started.
LEMMA StartedLive ==
    ASSUME LeaseInv, NEW c \in Consumers, Started(c), Current(c)
    PROVE  LeaseInv'
<1>. USE DEF LeaseInv
<1>. DEFINE t == Track(c)
            h == [hold[c] EXCEPT !.stage = "held"]
<1>1. hold[c] \in Handles /\ t \in Tracks /\ lease[t] \in Leases
  BY HandleTyped DEF Started
<1>2. h \in Handles \cup {NoHold} /\ hold' = [hold EXCEPT ![c] = h]
  BY <1>1 DEF Started, To, Drop, Handles, HoldStages, Holding
<1>3. Moves(c, h) /\ hold' \in [Consumers -> Handles \cup {NoHold}]
  BY <1>2, OneMoves
<1>4. /\ opens' = opens /\ parent' = parent /\ segment' = segment /\ whole' = whole
      /\ life' = life /\ phase' = phase /\ pending' = pending /\ todo' = todo
      /\ failed' = failed /\ faults' = faults /\ outside' = outside
      /\ forgotten' = forgotten
  BY DEF Started, trackVars, closeVars, faultVars
<1>5. Stage(c) = "started" /\ Current(c) /\ hold[c].live = "yes"
  BY <1>1
  DEF Started, Track, Stage, Current, HandlesInOrder, HandleInOrder, LeaseSteady, Steady,
      Holding, Starting
<1>6. lease' \in [Tracks -> Leases] /\ (\A s \in Tracks : s # t => lease'[s] = lease[s])
     /\ lease'[t].n = lease[t].n /\ lease'[t].references = lease[t].references
     /\ lease'[t].live = lease[t].live
     /\ lease'[t].started /\ lease'[t].keepOpen = lease[t].keepOpen
  <2>. DEFINE m == [lease[t] EXCEPT !.started = TRUE]
  <2>1. m \in Leases
    BY <1>1 DEF Leases
  <2>2. lease' = [lease EXCEPT ![t] = m]
    BY <1>1, <1>5 DEF Started, Leases
  <2>3. /\ m.n = lease[t].n
        /\ m.references = lease[t].references /\ m.live = lease[t].live
      /\ m.started /\ m.keepOpen = lease[t].keepOpen
    BY <1>1, <1>5 DEF Leases
  <2>. QED
    BY <1>1, <2>1, <2>2, <2>3 DEF LeaseTypeOK
<1>7. /\ \A s \in Tracks : lease'[s].n = lease[s].n
      /\ lease[t].n # 0
      /\ \A d \in Consumers : Stage(d) # "none" => hold[d] \in Handles /\ Track(d) \in Tracks
  <2>1. \A s \in Tracks : lease'[s].n = lease[s].n
    BY <1>6
  <2>2. lease[t].n # 0
    BY <1>1, <1>5 DEF HandlesInOrder, HandleInOrder, Holding, Current
  <2>. QED
    BY <2>1, <2>2, HandleTyped
<1>8. c \in Users(t) /\ (~parent[t] \/ segment[t] # "none" \/ whole[t])
  BY <1>1, <1>5 DEF LiveHasStarted, Users, On, Stage, Track, Holding
<1>9. LeaseTypeOK'
  BY <1>3, <1>4, <1>6 DEF LeaseTypeOK
<1>10. HandlesInOrder'
  BY <1>1, <1>3, <1>4, <1>5
  DEF HandlesInOrder, HandleInOrder, Moves, Stage, Track, Handles, Holding, Starting
<1>11. QueuesExclusive'
  BY <1>1, <1>3, <1>4, <1>5
  DEF QueuesExclusive, Exclusive, QueueFree, LiveFree, On, Moves, Stage, Track, Handles,
      InLiveQueue, Current
<1>12. LeaseSteady'
  <2>. SUFFICES ASSUME NEW d \in Consumers PROVE Steady(d)'
    BY DEF LeaseSteady
  <2>1. CASE d = c
    BY <1>1, <1>3, <1>4, <1>5, <1>6, <1>7, <1>8, <2>1
    DEF LeaseSteady, Steady, Moves, Stage, Track, Handles, Current, Holding, Starting
  <2>2. CASE d # c
    <3>. SUFFICES ASSUME Stage(d) \in Holding, Current(d), Track(d) = t, hold'[d] = hold[d]
                  PROVE  Steady(d)'
      <4>1. hold'[d] = hold[d]
        BY <1>3, <2>2 DEF Moves
      <4>2. ASSUME Stage(d) \in Holding, Current(d)', Track(d) # t PROVE Steady(d)'
        <5>1. Track(d) \in Tracks
          BY <4>2, HandleTyped DEF Holding
        <5>. QED
          BY <1>6, <4>1, <4>2, <5>1 DEF LeaseSteady, Steady, Stage, Track, Current
      <4>3. ASSUME Stage(d) \in Holding, Current(d)', Track(d) = t PROVE Current(d)
        BY <1>6, <4>1, <4>3 DEF Stage, Track, Current
      <4>4. ~(Stage(d) \in Holding /\ Current(d)') => Steady(d)'
        BY <4>1 DEF Steady, Stage
      <4>. QED
        BY <4>1, <4>2, <4>3, <4>4
    <3>1. Stage(d) \notin InLiveQueue
      BY <1>5, <2>2 DEF QueuesExclusive, Exclusive, InLiveQueue, Current, Track, Stage, Holding
    <3>. QED
      BY <1>6, <3>1 DEF LeaseSteady, Steady, Stage, Track, Current, Starting, InLiveQueue
  <2>. QED
    BY <2>1, <2>2
<1>13. LeasesNumbered'
  BY <1>4, <1>6, <1>7 DEF LeasesNumbered
<1>14. OpeningAlone'
  BY <1>1, <1>3, <1>4, <1>5, <1>6, <1>7, <1>8 DEF OpeningAlone, Moves, Stage, Track, Handles
<1>15. AllCounted'
  <2>. SUFFICES ASSUME NEW s \in Tracks PROVE Counted(s)'
    BY DEF AllCounted
  <2>1. CountMoves(c, s)
    BY <1>3, <1>6, CountsMove
  <2>2. CASE s # t
    <3>1. (c \in Refs(s) <=> c \in Refs(s)') /\ (c \in Watch(s) <=> c \in Watch(s)')
      BY <1>1, <1>3, <1>5, <2>2
      DEF Refs, Watch, Users, On, Moves, Stage, Track, Handles, Holding
    <3>. QED
      BY <1>6, <2>1, <2>2, <3>1 DEF AllCounted, Counted, CountMoves
  <2>3. CASE s = t
    <3>1. (c \in Refs(s) <=> c \in Refs(s)')
      BY <1>1, <1>3, <1>5, <1>6, <2>3
      DEF Refs, Users, On, Moves, Stage, Track, Handles, Current, Holding
    <3>2. (c \in Watch(s) <=> c \in Watch(s)')
      BY <1>1, <1>3, <1>5, <1>6, <2>3
      DEF Watch, Users, On, Moves, Stage, Track, Handles, Current, Holding
    <3>. QED
      BY <1>1, <1>6, <2>1, <2>3, <3>1, <3>2 DEF AllCounted, Counted, CountMoves, Leases
  <2>. QED
    BY <2>2, <2>3
<1>16. \A s \in Tracks : Users(s)' = Users(s)
  BY <1>1, <1>3, <1>4, <1>5, <1>6, <1>7, <1>8
  DEF Users, On, Moves, Stage, Track, Handles, Current, Holding
<1>17. LiveHasStarted'
  BY <1>1, <1>3, <1>4, <1>5, <1>6, <1>7, <1>8
  DEF LiveHasStarted, Moves, Stage, Track, Handles, Current
<1>18. LiveIsThere'
  <2>. SUFFICES ASSUME NEW s \in Tracks, lease'[s].started, parent[s],
                       ~(segment[s] # "none" \/ whole[s])
                PROVE  \E d \in Users(s)' : Stage(d)' = "ended"
    BY <1>4 DEF LiveIsThere
  <2>1. s # t
    BY <1>8
  <2>2. PICK d \in Users(s) : Stage(d) = "ended"
    BY <1>6, <2>1 DEF LiveIsThere
  <2>. QED
    BY <1>3, <1>5, <1>16, <2>2 DEF Moves, Stage, Users
<1>19. LiveIsOwed'
  <2>. SUFFICES ASSUME NEW s \in Tracks, lease'[s].started
                PROVE  \E d \in Users(s)' : hold'[d].live # "no"
    BY <1>4 DEF LiveIsOwed
  <2>1. PICK d \in Users(s) : hold[d].live # "no"
    <3>1. CASE s = t
      BY <1>5, <1>8, <3>1
    <3>2. CASE s # t
      BY <1>6, <3>2 DEF LiveIsOwed
    <3>. QED
      BY <3>1, <3>2
  <2>2. hold'[d].live # "no"
    BY <1>1, <1>3, <1>4, <1>5, <2>1 DEF Users, Moves, Stage, Track, Handles, Holding
  <2>. QED
    BY <1>16, <2>1, <2>2
<1>20. HeldStayOpen'
  BY <1>1, <1>3, <1>4, <1>5, <1>6, <1>7, <1>8
  DEF HeldStayOpen, StaysOpen, Moves, Stage, Track, Handles, Current, Holding
<1>21. OpenIsUsed'
  BY <1>4, <1>16, <1>6 DEF OpenIsUsed
<1>22. CloseInOrder'
  BY <1>1, <1>3, <1>4, <1>5, <1>6, <1>7, <1>8 DEF CloseInOrder, Over, Moves, Stage, Track
<1>. QED
  BY <1>9, <1>10, <1>11, <1>12, <1>13, <1>14, <1>15, <1>17, <1>18, <1>19, <1>20, <1>21, <1>22

\* Live replication that has not started is undone.
LEMMA StartUndoneLive ==
    ASSUME LeaseInv, NEW c \in Consumers, StartUndone(c), Current(c)
    PROVE  LeaseInv'
<1>. USE DEF LeaseInv
<1>. DEFINE t == Track(c)
<1>1. hold[c] \in Handles /\ t \in Tracks /\ lease[t] \in Leases
  BY HandleTyped DEF StartUndone
<1>2. PICK h \in Handles :
        /\ hold' = [hold EXCEPT ![c] = h] /\ h.track = t /\ h.n = hold[c].n
        /\ h.kept = hold[c].kept
        /\ h.released = hold[c].released /\ h.live = "no" /\ h.stage = "releasing"
  <2>. DEFINE g == [hold[c] EXCEPT !.stage = "releasing", !.live = "no"]
  <2>1. g \in Handles
    BY <1>1 DEF Handles, HoldStages, Holding
  <2>2. hold' = [hold EXCEPT ![c] = g]
    BY <1>1 DEF StartUndone, Handles
  <2>3. /\ g.track = t /\ g.n = hold[c].n /\ g.kept = hold[c].kept
        /\ g.released = hold[c].released /\ g.live = "no" /\ g.stage = "releasing"
    BY <1>1 DEF Handles, Track
  <2>. QED
    BY <2>1, <2>2, <2>3
<1>3. Moves(c, h) /\ hold' \in [Consumers -> Handles \cup {NoHold}]
  BY <1>2, OneMoves
<1>4. /\ opens' = opens /\ parent' = parent /\ segment' = segment /\ whole' = whole
      /\ life' = life /\ phase' = phase /\ pending' = pending /\ todo' = todo
      /\ failed' = failed /\ faults' = faults /\ outside' = outside
      /\ forgotten' = forgotten
  BY DEF StartUndone, trackVars, closeVars, faultVars
<1>5. Stage(c) = "startFailed" /\ Current(c) /\ hold[c].live = "yes" /\ ~lease[t].started
  BY <1>1
  DEF StartUndone, Track, Stage, Current, HandlesInOrder, HandleInOrder, LeaseSteady, Steady,
      Holding, Starting
<1>6. lease' \in [Tracks -> Leases] /\ (\A s \in Tracks : s # t => lease'[s] = lease[s])
     /\ lease'[t].n = lease[t].n /\ lease'[t].references = lease[t].references
     /\ lease'[t].live = lease[t].live - 1
     /\ lease'[t].started = lease[t].started /\ lease'[t].keepOpen = lease[t].keepOpen
  <2>. DEFINE m == [lease[t] EXCEPT !.live = @ - 1]
  <2>1. m \in Leases
    BY <1>1 DEF Leases
  <2>2. lease' = [lease EXCEPT ![t] = m]
    BY <1>1, <1>5 DEF StartUndone, Leases
  <2>3. /\ m.n = lease[t].n
        /\ m.references = lease[t].references /\ m.live = lease[t].live - 1
      /\ m.started = lease[t].started /\ m.keepOpen = lease[t].keepOpen
    BY <1>1, <1>5 DEF Leases
  <2>. QED
    BY <1>1, <2>1, <2>2, <2>3 DEF LeaseTypeOK
<1>7. /\ \A s \in Tracks : lease'[s].n = lease[s].n
      /\ lease[t].n # 0
      /\ \A d \in Consumers : Stage(d) # "none" => hold[d] \in Handles /\ Track(d) \in Tracks
  <2>1. \A s \in Tracks : lease'[s].n = lease[s].n
    BY <1>6
  <2>2. lease[t].n # 0
    BY <1>1, <1>5 DEF HandlesInOrder, HandleInOrder, Holding, Current
  <2>. QED
    BY <2>1, <2>2, HandleTyped
<1>8. LeaseTypeOK'
  BY <1>3, <1>4, <1>6 DEF LeaseTypeOK
<1>9. HandlesInOrder'
  BY <1>1, <1>2, <1>3, <1>4, <1>5
  DEF HandlesInOrder, HandleInOrder, Moves, Stage, Track, Handles, Holding, Starting
<1>10. QueuesExclusive'
  BY <1>1, <1>2, <1>3, <1>4, <1>5
  DEF QueuesExclusive, Exclusive, QueueFree, LiveFree, On, Moves, Stage, Track, Handles,
      InLiveQueue, Current
<1>11. LeaseSteady'
  <2>. SUFFICES ASSUME NEW d \in Consumers PROVE Steady(d)'
    BY DEF LeaseSteady
  <2>1. CASE d = c
    BY <1>1, <1>2, <1>3, <1>4, <1>5, <1>6, <1>7, <2>1
    DEF LeaseSteady, Steady, Moves, Stage, Track, Handles, Current, Holding, Starting
  <2>2. CASE d # c
    <3>. SUFFICES ASSUME Stage(d) \in Holding, Current(d), Track(d) = t, hold'[d] = hold[d]
                  PROVE  Steady(d)'
      <4>1. hold'[d] = hold[d]
        BY <1>3, <2>2 DEF Moves
      <4>2. ASSUME Stage(d) \in Holding, Current(d)', Track(d) # t PROVE Steady(d)'
        <5>1. Track(d) \in Tracks
          BY <4>2, HandleTyped DEF Holding
        <5>. QED
          BY <1>6, <4>1, <4>2, <5>1 DEF LeaseSteady, Steady, Stage, Track, Current
      <4>3. ASSUME Stage(d) \in Holding, Current(d)', Track(d) = t PROVE Current(d)
        BY <1>6, <4>1, <4>3 DEF Stage, Track, Current
      <4>4. ~(Stage(d) \in Holding /\ Current(d)') => Steady(d)'
        BY <4>1 DEF Steady, Stage
      <4>. QED
        BY <4>1, <4>2, <4>3, <4>4
    <3>1. Stage(d) \notin InLiveQueue
      BY <1>5, <2>2 DEF QueuesExclusive, Exclusive, InLiveQueue, Current, Track, Stage, Holding
    <3>. QED
      BY <1>6, <3>1 DEF LeaseSteady, Steady, Stage, Track, Current, Starting, InLiveQueue
  <2>. QED
    BY <2>1, <2>2
<1>12. LeasesNumbered'
  BY <1>4, <1>6, <1>7 DEF LeasesNumbered
<1>13. OpeningAlone'
  BY <1>1, <1>2, <1>3, <1>4, <1>5, <1>6, <1>7 DEF OpeningAlone, Moves, Stage, Track, Handles
<1>14. AllCounted'
  <2>. SUFFICES ASSUME NEW s \in Tracks PROVE Counted(s)'
    BY DEF AllCounted
  <2>1. CountMoves(c, s)
    BY <1>3, <1>6, CountsMove
  <2>2. CASE s # t
    <3>1. (c \in Refs(s) <=> c \in Refs(s)') /\ (c \in Watch(s) <=> c \in Watch(s)')
      BY <1>1, <1>2, <1>3, <1>5, <2>2
      DEF Refs, Watch, Users, On, Moves, Stage, Track, Handles, Holding
    <3>. QED
      BY <1>6, <2>1, <2>2, <3>1 DEF AllCounted, Counted, CountMoves
  <2>3. CASE s = t
    <3>1. (c \in Refs(s) <=> c \in Refs(s)')
      BY <1>1, <1>2, <1>3, <1>5, <1>6, <2>3
      DEF Refs, Users, On, Moves, Stage, Track, Handles, Current, Holding
    <3>2. c \in Watch(s) /\ c \notin Watch(s)'
      BY <1>1, <1>2, <1>3, <1>5, <1>6, <2>3
      DEF Watch, Users, On, Moves, Stage, Track, Handles, Current, Holding
    <3>. QED
      BY <1>1, <1>6, <2>1, <2>3, <3>1, <3>2 DEF AllCounted, Counted, CountMoves, Leases
  <2>. QED
    BY <2>2, <2>3
<1>15. \A s \in Tracks : Users(s)' = Users(s)
  BY <1>1, <1>2, <1>3, <1>4, <1>5, <1>6, <1>7
  DEF Users, On, Moves, Stage, Track, Handles, Current, Holding
<1>16. LiveHasStarted'
  BY <1>1, <1>2, <1>3, <1>4, <1>5, <1>6, <1>7
  DEF LiveHasStarted, Moves, Stage, Track, Handles, Current
<1>17. LiveIsThere'
  <2>. SUFFICES ASSUME NEW s \in Tracks, lease'[s].started, parent[s],
                       ~(segment[s] # "none" \/ whole[s])
                PROVE  \E d \in Users(s)' : Stage(d)' = "ended"
    BY <1>4 DEF LiveIsThere
  <2>1. PICK d \in Users(s) : Stage(d) = "ended"
    BY <1>6 DEF LiveIsThere
  <2>. QED
    BY <1>3, <1>5, <1>15, <2>1 DEF Moves, Stage, Users
<1>18. LiveIsOwed'
  <2>. SUFFICES ASSUME NEW s \in Tracks, lease'[s].started
                PROVE  \E d \in Users(s)' : hold'[d].live # "no"
    BY <1>4 DEF LiveIsOwed
  <2>1. s # t
    BY <1>5, <1>6
  <2>2. PICK d \in Users(s) : hold[d].live # "no"
    BY <1>6 DEF LiveIsOwed
  <2>3. d # c
    BY <1>1, <2>1, <2>2 DEF Users, On, Track
  <2>. QED
    BY <1>3, <1>15, <2>2, <2>3 DEF Moves, Users
<1>19. HeldStayOpen'
  BY <1>1, <1>2, <1>3, <1>4, <1>5, <1>6, <1>7
  DEF HeldStayOpen, StaysOpen, Moves, Stage, Track, Handles, Current, Holding
<1>20. OpenIsUsed'
  BY <1>4, <1>15, <1>6 DEF OpenIsUsed
<1>21. CloseInOrder'
  BY <1>1, <1>2, <1>3, <1>4, <1>5, <1>6, <1>7 DEF CloseInOrder, Over, Moves, Stage, Track
<1>. QED
  BY <1>8, <1>9, <1>10, <1>11, <1>12, <1>13, <1>14, <1>16, <1>17, <1>18, <1>19, <1>20, <1>21

\* Live replication has ended.
LEMMA LiveEndedNow ==
    ASSUME LeaseInv, NEW c \in Consumers, LiveEnded(c), Current(c)
    PROVE  LeaseInv'
<1>. USE DEF LeaseInv
<1>. DEFINE t == Track(c)
            h == [hold[c] EXCEPT !.stage = "leaving"]
<1>1. hold[c] \in Handles /\ t \in Tracks /\ lease[t] \in Leases
  BY HandleTyped DEF LiveEnded
<1>2. h \in Handles \cup {NoHold} /\ hold' = [hold EXCEPT ![c] = h]
  BY <1>1 DEF LiveEnded, To, Drop, Handles, HoldStages, Holding
<1>3. Moves(c, h) /\ hold' \in [Consumers -> Handles \cup {NoHold}]
  BY <1>2, OneMoves
<1>4. /\ opens' = opens /\ parent' = parent /\ segment' = segment /\ whole' = whole
      /\ life' = life /\ phase' = phase /\ pending' = pending /\ todo' = todo
      /\ failed' = failed /\ faults' = faults /\ outside' = outside
      /\ forgotten' = forgotten
  BY DEF LiveEnded, trackVars, closeVars, faultVars
<1>5. Stage(c) = "ended" /\ Current(c) /\ lease[t].live = 0 /\ hold[c].live # "yes"
  BY <1>1
  DEF LiveEnded, Track, Stage, Current, HandlesInOrder, HandleInOrder, LeaseSteady, Steady,
      Holding, Starting
<1>6. lease' \in [Tracks -> Leases] /\ (\A s \in Tracks : s # t => lease'[s] = lease[s])
     /\ lease'[t].n = lease[t].n /\ lease'[t].references = lease[t].references
     /\ lease'[t].live = lease[t].live
     /\ ~lease'[t].started /\ lease'[t].keepOpen = lease[t].keepOpen
  <2>. DEFINE m == [lease[t] EXCEPT !.started = FALSE]
  <2>1. m \in Leases
    BY <1>1 DEF Leases
  <2>2. lease' = [lease EXCEPT ![t] = m]
    BY <1>1, <1>5 DEF LiveEnded, Leases
  <2>3. /\ m.n = lease[t].n
        /\ m.references = lease[t].references /\ m.live = lease[t].live
      /\ ~m.started /\ m.keepOpen = lease[t].keepOpen
    BY <1>1, <1>5 DEF Leases
  <2>. QED
    BY <1>1, <2>1, <2>2, <2>3 DEF LeaseTypeOK
<1>7. /\ \A s \in Tracks : lease'[s].n = lease[s].n
      /\ lease[t].n # 0
      /\ \A d \in Consumers : Stage(d) # "none" => hold[d] \in Handles /\ Track(d) \in Tracks
  <2>1. \A s \in Tracks : lease'[s].n = lease[s].n
    BY <1>6
  <2>2. lease[t].n # 0
    BY <1>1, <1>5 DEF HandlesInOrder, HandleInOrder, Holding, Current
  <2>. QED
    BY <2>1, <2>2, HandleTyped
<1>8. \A d \in Users(t) : hold[d].live # "yes"
  BY <1>1, <1>5, CountsSay DEF Watch
<1>9. LeaseTypeOK'
  BY <1>3, <1>4, <1>6 DEF LeaseTypeOK
<1>10. HandlesInOrder'
  BY <1>1, <1>3, <1>4, <1>5
  DEF HandlesInOrder, HandleInOrder, Moves, Stage, Track, Handles, Holding, Starting
<1>11. QueuesExclusive'
  BY <1>1, <1>3, <1>4, <1>5
  DEF QueuesExclusive, Exclusive, QueueFree, LiveFree, On, Moves, Stage, Track, Handles,
      InLiveQueue, Current
<1>12. LeaseSteady'
  <2>. SUFFICES ASSUME NEW d \in Consumers PROVE Steady(d)'
    BY DEF LeaseSteady
  <2>1. CASE d = c
    BY <1>1, <1>3, <1>4, <1>5, <1>6, <1>7, <1>8, <2>1
    DEF LeaseSteady, Steady, Moves, Stage, Track, Handles, Current, Holding, Starting
  <2>2. CASE d # c
    <3>. SUFFICES ASSUME Stage(d) \in Holding, Current(d), Track(d) = t, hold'[d] = hold[d]
                  PROVE  Steady(d)'
      <4>1. hold'[d] = hold[d]
        BY <1>3, <2>2 DEF Moves
      <4>2. ASSUME Stage(d) \in Holding, Current(d)', Track(d) # t PROVE Steady(d)'
        <5>1. Track(d) \in Tracks
          BY <4>2, HandleTyped DEF Holding
        <5>. QED
          BY <1>6, <4>1, <4>2, <5>1 DEF LeaseSteady, Steady, Stage, Track, Current
      <4>3. ASSUME Stage(d) \in Holding, Current(d)', Track(d) = t PROVE Current(d)
        BY <1>6, <4>1, <4>3 DEF Stage, Track, Current
      <4>4. ~(Stage(d) \in Holding /\ Current(d)') => Steady(d)'
        BY <4>1 DEF Steady, Stage
      <4>. QED
        BY <4>1, <4>2, <4>3, <4>4
    <3>1. Stage(d) \notin InLiveQueue
      BY <1>5, <2>2 DEF QueuesExclusive, Exclusive, InLiveQueue, Current, Track, Stage, Holding
    <3>2. hold[d].live # "yes"
      BY <1>8 DEF Users, On, Track, Stage, Holding
    <3>. QED
      BY <1>6, <3>1, <3>2 DEF LeaseSteady, Steady, Stage, Track, Current, Starting, InLiveQueue
  <2>. QED
    BY <2>1, <2>2
<1>13. LeasesNumbered'
  BY <1>4, <1>6, <1>7 DEF LeasesNumbered
<1>14. OpeningAlone'
  BY <1>1, <1>3, <1>4, <1>5, <1>6, <1>7, <1>8 DEF OpeningAlone, Moves, Stage, Track, Handles
<1>15. AllCounted'
  <2>. SUFFICES ASSUME NEW s \in Tracks PROVE Counted(s)'
    BY DEF AllCounted
  <2>1. CountMoves(c, s)
    BY <1>3, <1>6, CountsMove
  <2>2. CASE s # t
    <3>1. (c \in Refs(s) <=> c \in Refs(s)') /\ (c \in Watch(s) <=> c \in Watch(s)')
      BY <1>1, <1>3, <1>5, <2>2
      DEF Refs, Watch, Users, On, Moves, Stage, Track, Handles, Holding
    <3>. QED
      BY <1>6, <2>1, <2>2, <3>1 DEF AllCounted, Counted, CountMoves
  <2>3. CASE s = t
    <3>1. (c \in Refs(s) <=> c \in Refs(s)')
      BY <1>1, <1>3, <1>5, <1>6, <2>3
      DEF Refs, Users, On, Moves, Stage, Track, Handles, Current, Holding
    <3>2. (c \in Watch(s) <=> c \in Watch(s)')
      BY <1>1, <1>3, <1>5, <1>6, <2>3
      DEF Watch, Users, On, Moves, Stage, Track, Handles, Current, Holding
    <3>. QED
      BY <1>1, <1>6, <2>1, <2>3, <3>1, <3>2 DEF AllCounted, Counted, CountMoves, Leases
  <2>. QED
    BY <2>2, <2>3
<1>16. \A s \in Tracks : Users(s)' = Users(s)
  BY <1>1, <1>3, <1>4, <1>5, <1>6, <1>7, <1>8
  DEF Users, On, Moves, Stage, Track, Handles, Current, Holding
<1>17. LiveHasStarted'
  BY <1>1, <1>3, <1>4, <1>5, <1>6, <1>7, <1>8
  DEF LiveHasStarted, Moves, Stage, Track, Handles, Current
<1>18. LiveIsThere'
  <2>. SUFFICES ASSUME NEW s \in Tracks, lease'[s].started, parent[s],
                       ~(segment[s] # "none" \/ whole[s])
                PROVE  \E d \in Users(s)' : Stage(d)' = "ended"
    BY <1>4 DEF LiveIsThere
  <2>1. s # t /\ lease[s].started
    BY <1>6
  <2>2. PICK d \in Users(s) : Stage(d) = "ended"
    BY <2>1 DEF LiveIsThere
  <2>3. d # c
    BY <1>1, <2>1, <2>2 DEF Users, On, Track
  <2>. QED
    BY <1>3, <1>16, <2>2, <2>3 DEF Moves, Stage, Users
<1>19. LiveIsOwed'
  <2>. SUFFICES ASSUME NEW s \in Tracks, lease'[s].started
                PROVE  \E d \in Users(s)' : hold'[d].live # "no"
    BY <1>4 DEF LiveIsOwed
  <2>1. PICK d \in Users(s) : hold[d].live # "no"
    BY <1>6 DEF LiveIsOwed
  <2>2. hold'[d].live # "no"
    BY <1>1, <1>3, <1>4, <1>5, <2>1 DEF Users, Moves, Stage, Track, Handles, Holding
  <2>. QED
    BY <1>16, <2>1, <2>2
<1>20. HeldStayOpen'
  BY <1>1, <1>3, <1>4, <1>5, <1>6, <1>7, <1>8
  DEF HeldStayOpen, StaysOpen, Moves, Stage, Track, Handles, Current, Holding
<1>21. OpenIsUsed'
  BY <1>4, <1>16, <1>6 DEF OpenIsUsed
<1>22. CloseInOrder'
  BY <1>1, <1>3, <1>4, <1>5, <1>6, <1>7, <1>8 DEF CloseInOrder, Over, Moves, Stage, Track
<1>. QED
  BY <1>9, <1>10, <1>11, <1>12, <1>13, <1>14, <1>15, <1>17, <1>18, <1>19, <1>20, <1>21, <1>22

\* Live replication of a lease that has gone has ended.
LEMMA EndedNothing ==
    ASSUME LeaseInv, NEW c \in Consumers, LiveEnded(c), ~Current(c)
    PROVE  LeaseInv'
<1>. USE DEF LeaseInv
<1>. DEFINE t == Track(c)
            h == [hold[c] EXCEPT !.stage = "leaving"]
<1>1. hold[c] \in Handles /\ t \in Tracks /\ lease[t] \in Leases
  BY HandleTyped DEF LiveEnded
<1>2. h \in Handles \cup {NoHold} /\ hold' = [hold EXCEPT ![c] = h]
  BY <1>1 DEF LiveEnded, To, Drop, Handles, HoldStages, Holding
<1>3. Moves(c, h) /\ hold' \in [Consumers -> Handles \cup {NoHold}]
  BY <1>2, OneMoves
<1>4. /\ opens' = opens /\ parent' = parent /\ segment' = segment /\ whole' = whole
      /\ life' = life /\ phase' = phase /\ pending' = pending /\ todo' = todo
      /\ failed' = failed /\ faults' = faults /\ outside' = outside
      /\ forgotten' = forgotten
      /\ lease' = lease
  BY DEF LiveEnded, trackVars, closeVars, faultVars, LeaseTypeOK, Leases, Track
<1>5. Stage(c) = "ended" /\ ~Current(c)
  BY <1>1 DEF LiveEnded, Handles
<1>6. LeaseTypeOK'
  BY <1>1, <1>3, <1>4, <1>5 DEF LeaseTypeOK
<1>7. HandlesInOrder'
  BY <1>1, <1>3, <1>4, <1>5
  DEF HandlesInOrder, HandleInOrder, Moves, Stage, Track, Handles, Holding, Starting
<1>8. QueuesExclusive'
  BY <1>1, <1>3, <1>4, <1>5
  DEF QueuesExclusive, Exclusive, Moves, Stage, Track, Handles, InLiveQueue
<1>9. LeaseSteady'
  BY <1>1, <1>3, <1>4, <1>5
  DEF LeaseSteady, Steady, Moves, Stage, Track, Handles, Current, Holding, Starting
<1>10. LeasesNumbered'
  BY <1>4 DEF LeasesNumbered
<1>11. OpeningAlone'
  BY <1>1, <1>3, <1>4, <1>5 DEF OpeningAlone, Moves, Stage, Track, Handles
<1>12. AllCounted'
  <2>. SUFFICES ASSUME NEW s \in Tracks PROVE Counted(s)'
    BY DEF AllCounted
  <2>1. CountMoves(c, s)
    BY <1>3, <1>4, CountsMove
  <2>2. (c \in Refs(s) <=> c \in Refs(s)') /\ (c \in Watch(s) <=> c \in Watch(s)')
    BY <1>1, <1>3, <1>4, <1>5
    DEF Refs, Watch, Users, On, Moves, Stage, Track, Handles, Current, Holding
  <2>. QED
    BY <1>4, <2>1, <2>2 DEF AllCounted, Counted, CountMoves
<1>13. \A s \in Tracks : Users(s)' = Users(s)
  BY <1>1, <1>3, <1>4, <1>5 DEF Users, On, Moves, Stage, Track, Handles, Current, Holding
<1>14. LiveHasStarted'
  BY <1>1, <1>3, <1>4, <1>5 DEF LiveHasStarted, Moves, Stage, Track, Handles, Current
<1>15. LiveIsThere'
  <2>. SUFFICES ASSUME NEW s \in Tracks, lease[s].started, parent[s],
                       ~(segment[s] # "none" \/ whole[s])
                PROVE  \E d \in Users(s)' : Stage(d)' = "ended"
    BY <1>4 DEF LiveIsThere
  <2>1. PICK d \in Users(s) : Stage(d) = "ended"
    BY DEF LiveIsThere
  <2>. QED
    BY <1>2, <1>3, <1>5, <1>13, <2>1 DEF Moves, Stage, Users, NoHold
<1>16. LiveIsOwed'
  <2>. SUFFICES ASSUME NEW s \in Tracks, lease[s].started
                PROVE  \E d \in Users(s)' : hold'[d].live # "no"
    BY <1>4 DEF LiveIsOwed
  <2>1. PICK d \in Users(s) : hold[d].live # "no"
    BY DEF LiveIsOwed
  <2>2. hold'[d].live # "no"
    BY <1>1, <1>3, <1>4, <1>5, <2>1 DEF Users, Moves, Stage, Track, Handles, Holding
  <2>. QED
    BY <1>13, <2>1, <2>2
<1>17. HeldStayOpen'
  BY <1>1, <1>3, <1>4, <1>5
  DEF HeldStayOpen, StaysOpen, Moves, Stage, Track, Handles, Current, Holding
<1>18. OpenIsUsed'
  BY <1>4, <1>13 DEF OpenIsUsed
<1>19. CloseInOrder'
  BY <1>1, <1>3, <1>4, <1>5 DEF CloseInOrder, Over, Moves, Stage, NoHold
<1>. QED
  BY <1>6, <1>7, <1>8, <1>9, <1>10, <1>11, <1>12, <1>14, <1>15, <1>16, <1>17, <1>18, <1>19
\* What giving back leaves of a lease.
LEMMA GivenBack ==
    ASSUME NEW l \in Leases, NEW h
    PROVE  LET m == GiveBack(l, h) IN
           /\ m \in Leases /\ m.n = l.n /\ m.started = l.started /\ m.keepOpen = l.keepOpen
           /\ m.references = IF h.released THEN l.references ELSE l.references - 1
           /\ m.live = IF h.live = "yes" THEN l.live - 1 ELSE l.live
<1>. DEFINE r == IF h.released THEN l.references ELSE l.references - 1
            v == IF h.live = "yes" THEN l.live - 1 ELSE l.live
            m == [l EXCEPT !.references = r, !.live = v]
<1>1. r \in Int /\ v \in Int
  BY DEF Leases
<1>2. GiveBack(l, h) = m
  BY DEF GiveBack
<1>. HIDE DEF r, v
<1>3. m \in Leases
  BY <1>1 DEF Leases
<1>4. m.n = l.n /\ m.started = l.started /\ m.keepOpen = l.keepOpen
      /\ m.references = r /\ m.live = v
  BY DEF Leases
<1>. QED
  BY <1>2, <1>3, <1>4 DEF r, v

\* A consumer gives its references back.
LEMMA ReleaseReferencesLive ==
    ASSUME LeaseInv, NEW c \in Consumers, ReleaseReferences(c), Current(c)
    PROVE  LeaseInv'
<1>. USE DEF LeaseInv
<1>. DEFINE t == Track(c)
<1>1. hold[c] \in Handles /\ t \in Tracks /\ lease[t] \in Leases
  BY HandleTyped DEF ReleaseReferences
<1>. DEFINE m == GiveBack(lease[t], hold[c])
<1>2. /\ m \in Leases /\ m.n = lease[t].n /\ m.started = lease[t].started
      /\ m.keepOpen = lease[t].keepOpen
     
      /\ m.references = IF hold[c].released THEN lease[t].references ELSE lease[t].references - 1
      /\ m.live = IF hold[c].live = "yes" THEN lease[t].live - 1 ELSE lease[t].live
  BY <1>1, GivenBack
<1>. HIDE DEF m
<1>3. PICK h \in Handles :
        /\ hold' = [hold EXCEPT ![c] = h] /\ h.track = t /\ h.n = hold[c].n
        /\ h.kept = hold[c].kept /\ h.released /\ h.stage \in {"ending", "leaving"}
        /\ h.live = IF hold[c].live = "yes" THEN "released" ELSE hold[c].live
        /\ h.stage = "ending" <=> m.live = 0 /\ m.started
  <2>. DEFINE mode == IF hold[c].live = "yes" THEN "released" ELSE hold[c].live
              stage == IF m.live = 0 /\ m.started THEN "ending" ELSE "leaving"
              g == [hold[c] EXCEPT !.released = TRUE, !.live = mode, !.stage = stage]
  <2>1. mode \in {"no", "yes", "released"} /\ stage \in HoldStages
        /\ stage \in {"ending", "leaving"}
    BY <1>1 DEF Handles, HoldStages, Holding
  <2>2. stage = "ending" <=> m.live = 0 /\ m.started
    OBVIOUS
  <2>3. hold' = [hold EXCEPT ![c].released = TRUE,
                             ![c].live = IF @ = "yes" THEN "released" ELSE @,
                             ![c].stage = stage]
    BY DEF ReleaseReferences, m
  <2>4. hold' = [hold EXCEPT ![c] = g]
    BY <1>1, <2>3, Zenon
  <2>. HIDE DEF mode, stage
  <2>5. g \in Handles
    BY <1>1, <2>1 DEF Handles
  <2>6. /\ g.track = t /\ g.n = hold[c].n /\ g.kept = hold[c].kept /\ g.released
        /\ g.live = mode /\ g.stage = stage
    BY <1>1, <2>1 DEF Handles, Track
  <2>. QED
    BY <2>1, <2>2, <2>4, <2>5, <2>6 DEF mode
<1>4. Moves(c, h) /\ hold' \in [Consumers -> Handles \cup {NoHold}]
  BY <1>3, OneMoves
<1>5. /\ opens' = opens /\ parent' = parent /\ segment' = segment /\ whole' = whole
      /\ life' = life /\ phase' = phase /\ pending' = pending /\ todo' = todo
      /\ failed' = failed /\ faults' = faults /\ outside' = outside
      /\ forgotten' = forgotten
  BY DEF ReleaseReferences, trackVars, closeVars, faultVars
<1>6. Stage(c) = "releasing" /\ LiveFree(c) /\ QueueFree(t) /\ Current(c)
      /\ (hold[c].live # "no" => hold[c].kept) /\ (hold[c].released => hold[c].live # "yes")
  BY <1>1 DEF ReleaseReferences, HandlesInOrder, HandleInOrder, Holding
<1>7. /\ lease' \in [Tracks -> Leases] /\ \A s \in Tracks : s # t => lease'[s] = lease[s]
      /\ lease'[t].n = lease[t].n /\ lease'[t].started = lease[t].started
      /\ lease'[t].keepOpen = lease[t].keepOpen
      /\ lease'[t].references = IF hold[c].released THEN lease[t].references
                                                 ELSE lease[t].references - 1
      /\ lease'[t].live = IF hold[c].live = "yes" THEN lease[t].live - 1 ELSE lease[t].live
      /\ h.stage = "ending" <=> lease'[t].live = 0 /\ lease'[t].started
  <2>1. lease' = [lease EXCEPT ![t] = m]
    BY <1>6 DEF ReleaseReferences, m
  <2>2. lease'[t] = m /\ lease' \in [Tracks -> Leases]
    BY <1>1, <1>2, <2>1 DEF LeaseTypeOK
  <2>3. \A s \in Tracks : s # t => lease'[s] = lease[s]
    BY <2>1 DEF LeaseTypeOK
  <2>. QED
    BY <1>3, <1>2, <2>2, <2>3
<1>8. /\ \A s \in Tracks : lease'[s].n = lease[s].n
      /\ lease[t].n # 0
      /\ \A d \in Consumers : Stage(d) # "none" => hold[d] \in Handles /\ Track(d) \in Tracks
  <2>1. \A s \in Tracks : lease'[s].n = lease[s].n
    BY <1>7
  <2>2. lease[t].n # 0
    BY <1>1, <1>6 DEF HandlesInOrder, HandleInOrder, Holding, Current
  <2>. QED
    BY <2>1, <2>2, HandleTyped
<1>9. LeaseTypeOK'
  BY <1>4, <1>5, <1>7 DEF LeaseTypeOK
<1>10. HandlesInOrder'
  BY <1>1, <1>3, <1>4, <1>5, <1>6
  DEF HandlesInOrder, HandleInOrder, Moves, Stage, Track, Handles, Holding, Starting
<1>11. QueuesExclusive'
  BY <1>1, <1>3, <1>4, <1>5, <1>6
  DEF QueuesExclusive, Exclusive, QueueFree, LiveFree, On, Moves, Stage, Track, Handles,
      InLiveQueue, Current
<1>12. LeaseSteady'
  <2>. SUFFICES ASSUME NEW d \in Consumers PROVE Steady(d)'
    BY DEF LeaseSteady
  <2>1. CASE d = c
    BY <1>1, <1>3, <1>4, <1>5, <1>6, <1>7, <1>8, <2>1
    DEF LeaseSteady, Steady, Moves, Stage, Track, Handles, Current, Holding, Starting
  <2>2. CASE d # c
    <3>. SUFFICES ASSUME Stage(d) \in Holding, Current(d), Track(d) = t, hold'[d] = hold[d]
                  PROVE  Steady(d)'
      <4>1. hold'[d] = hold[d]
        BY <1>4, <2>2 DEF Moves
      <4>2. ASSUME Stage(d) \in Holding, Current(d)', Track(d) # t PROVE Steady(d)'
        <5>1. Track(d) \in Tracks
          BY <4>2, HandleTyped DEF Holding
        <5>. QED
          BY <1>7, <4>1, <4>2, <5>1 DEF LeaseSteady, Steady, Stage, Track, Current
      <4>3. ASSUME Stage(d) \in Holding, Current(d)', Track(d) = t PROVE Current(d)
        BY <1>7, <4>1, <4>3 DEF Stage, Track, Current
      <4>4. ~(Stage(d) \in Holding /\ Current(d)') => Steady(d)'
        BY <4>1 DEF Steady, Stage
      <4>. QED
        BY <4>1, <4>2, <4>3, <4>4
    <3>1. Stage(d) \notin InLiveQueue
      BY <1>6, <2>2 DEF LiveFree, On, Current, Track, Stage, Holding
    <3>. QED
      BY <1>7, <3>1 DEF LeaseSteady, Steady, Stage, Track, Current, Starting, InLiveQueue
  <2>. QED
    BY <2>1, <2>2
<1>13. LeasesNumbered'
  BY <1>5, <1>7, <1>8 DEF LeasesNumbered
<1>14. OpeningAlone'
  BY <1>1, <1>3, <1>4, <1>5, <1>6, <1>7, <1>8 DEF OpeningAlone, Moves, Stage, Track, Handles
<1>15. AllCounted'
  <2>. SUFFICES ASSUME NEW s \in Tracks PROVE Counted(s)'
    BY DEF AllCounted
  <2>1. CountMoves(c, s)
    BY <1>4, <1>7, CountsMove
  <2>2. CASE s # t
    <3>1. (c \in Refs(s) <=> c \in Refs(s)') /\ (c \in Watch(s) <=> c \in Watch(s)')
      BY <1>1, <1>3, <1>4, <1>6, <2>2
      DEF Refs, Watch, Users, On, Moves, Stage, Track, Handles, Holding
    <3>. QED
      BY <1>7, <2>1, <2>2, <3>1 DEF AllCounted, Counted, CountMoves
  <2>3. CASE s = t
    <3>1. hold[c].released => (c \in Refs(s) <=> c \in Refs(s)')
      BY <1>1, <1>3, <1>4, <1>6, <1>7, <2>3
      DEF Refs, Users, On, Moves, Stage, Track, Handles, Current, Holding
    <3>2. ~hold[c].released => c \in Refs(s) /\ c \notin Refs(s)'
      BY <1>1, <1>3, <1>4, <1>6, <1>7, <2>3
      DEF Refs, Users, On, Moves, Stage, Track, Handles, Current, Holding
    <3>3. hold[c].live # "yes" => (c \in Watch(s) <=> c \in Watch(s)')
      BY <1>1, <1>3, <1>4, <1>6, <1>7, <2>3
      DEF Watch, Users, On, Moves, Stage, Track, Handles, Current, Holding
    <3>4. hold[c].live = "yes" => c \in Watch(s) /\ c \notin Watch(s)'
      BY <1>1, <1>3, <1>4, <1>6, <1>7, <2>3
      DEF Watch, Users, On, Moves, Stage, Track, Handles, Current, Holding
    <3>. QED
      BY <1>1, <1>7, <2>1, <2>3, <3>1, <3>2, <3>3, <3>4
      DEF AllCounted, Counted, CountMoves, Leases
  <2>. QED
    BY <2>2, <2>3
<1>16. \A s \in Tracks : Users(s)' = Users(s)
  BY <1>1, <1>3, <1>4, <1>5, <1>6, <1>7, <1>8
  DEF Users, On, Moves, Stage, Track, Handles, Current, Holding
<1>17. LiveHasStarted'
  BY <1>1, <1>3, <1>4, <1>5, <1>6, <1>7, <1>8
  DEF LiveHasStarted, Moves, Stage, Track, Handles, Current
<1>18. LiveIsThere'
  <2>. SUFFICES ASSUME NEW s \in Tracks, lease'[s].started, parent[s],
                       ~(segment[s] # "none" \/ whole[s])
                PROVE  \E d \in Users(s)' : Stage(d)' = "ended"
    BY <1>5 DEF LiveIsThere
  <2>1. PICK d \in Users(s) : Stage(d) = "ended"
    BY <1>7 DEF LiveIsThere
  <2>. QED
    BY <1>4, <1>6, <1>16, <2>1 DEF Moves, Stage, Users
<1>19. LiveIsOwed'
  <2>. SUFFICES ASSUME NEW s \in Tracks, lease'[s].started
                PROVE  \E d \in Users(s)' : hold'[d].live # "no"
    BY <1>5 DEF LiveIsOwed
  <2>1. PICK d \in Users(s) : hold[d].live # "no"
    BY <1>7 DEF LiveIsOwed
  <2>2. hold'[d].live # "no"
    BY <1>1, <1>3, <1>4, <1>5, <1>6, <2>1 DEF Users, Moves, Stage, Track, Handles, Holding
  <2>. QED
    BY <1>16, <2>1, <2>2
<1>20. HeldStayOpen'
  BY <1>1, <1>3, <1>4, <1>5, <1>6, <1>7, <1>8
  DEF HeldStayOpen, StaysOpen, Moves, Stage, Track, Handles, Current, Holding
<1>21. OpenIsUsed'
  BY <1>5, <1>16, <1>7 DEF OpenIsUsed
<1>22. CloseInOrder'
  BY <1>1, <1>3, <1>4, <1>5, <1>6, <1>7, <1>8 DEF CloseInOrder, Over, Moves, Stage, Track
<1>. QED
  BY <1>9, <1>10, <1>11, <1>12, <1>13, <1>14, <1>15, <1>17, <1>18, <1>19, <1>20, <1>21, <1>22
\* A consumer shares a lease.
LEMMA ShareLeaseStep ==
    ASSUME LeaseInv, NEW c \in Consumers, ShareLease(c)
    PROVE  LeaseInv'
<1>. USE DEF LeaseInv
<1>. DEFINE t == Track(c)
            h == Handle(t, "acquired", lease[t].n)
<1>1. hold[c] \in Handles /\ t \in Tracks /\ lease[t] \in Leases
  BY HandleTyped DEF ShareLease
<1>2. h \in Handles \cup {NoHold} /\ hold' = [hold EXCEPT ![c] = h]
  <2>1. lease[t].n \in Nat
    BY <1>1 DEF Leases
  <2>. QED
    BY <1>1, <2>1 DEF ShareLease, Handle, Handles, HoldStages, Holding
<1>3. Moves(c, h) /\ hold' \in [Consumers -> Handles \cup {NoHold}]
  BY <1>2, OneMoves
<1>4. /\ opens' = opens /\ parent' = parent /\ segment' = segment /\ whole' = whole
      /\ life' = life /\ phase' = phase /\ pending' = pending /\ todo' = todo
      /\ failed' = failed /\ faults' = faults /\ outside' = outside
      /\ forgotten' = forgotten
  BY DEF ShareLease, trackVars, closeVars, faultVars
<1>5. Stage(c) = "queued" /\ QueueFree(t) /\ phase = "open" /\ parent[t]
  BY <1>1 DEF ShareLease, Handles
<1>6. /\ lease' \in [Tracks -> Leases] /\ \A s \in Tracks : s # t => lease'[s] = lease[s]
      /\ lease'[t].n = lease[t].n /\ lease'[t].started = lease[t].started
      /\ lease'[t].references = lease[t].references + 1 /\ lease'[t].live = lease[t].live
  <2>1. PICK m \in Leases :
          /\ Shared(lease[t], c) = m /\ m.n = lease[t].n /\ m.live = lease[t].live
          /\ m.references = lease[t].references + 1 /\ m.started = lease[t].started
    BY <1>1, SharedLease
  <2>2. lease' = [lease EXCEPT ![t] = m]
    BY <1>1, <2>1, Zenon DEF ShareLease
  <2>. QED
    BY <1>1, <2>1, <2>2 DEF LeaseTypeOK
<1>7. /\ \A s \in Tracks : lease'[s].n = lease[s].n
      /\ lease[t].n # 0 /\ lease[t].n \in 1 .. opens[t]
      /\ \A d \in Consumers : Stage(d) # "none" => hold[d] \in Handles /\ Track(d) \in Tracks
  <2>1. \A s \in Tracks : lease'[s].n = lease[s].n
    BY <1>6
  <2>2. lease[t].n # 0
    BY <1>1, <1>5 DEF LeasesNumbered
  <2>3. lease[t].n \in 1 .. opens[t]
    BY <1>1, <2>2 DEF LeasesNumbered, LeaseTypeOK, Leases
  <2>. QED
    BY <2>1, <2>2, <2>3, HandleTyped
<1>8. LeaseTypeOK'
  BY <1>3, <1>4, <1>6 DEF LeaseTypeOK
<1>9. HandlesInOrder'
  BY <1>1, <1>3, <1>4, <1>5, <1>7
  DEF HandlesInOrder, HandleInOrder, Moves, Stage, Track, Handles, Handle, Holding, Starting
<1>10. QueuesExclusive'
  BY <1>1, <1>3, <1>4, <1>5
  DEF QueuesExclusive, Exclusive, QueueFree, LiveFree, On, Moves, Stage, Track, Handles,
      Handle, InLiveQueue, Current
<1>11. LeaseSteady'
  <2>. SUFFICES ASSUME NEW d \in Consumers PROVE Steady(d)'
    BY DEF LeaseSteady
  <2>1. CASE d = c
    BY <1>1, <1>3, <1>4, <1>5, <1>6, <1>7, <2>1
    DEF LeaseSteady, Steady, Moves, Stage, Track, Handles, Handle, Current, Holding, Starting
  <2>2. CASE d # c
    <3>. SUFFICES ASSUME Stage(d) \in Holding, Current(d), Track(d) = t, hold'[d] = hold[d]
                  PROVE  Steady(d)'
      <4>1. hold'[d] = hold[d]
        BY <1>3, <2>2 DEF Moves
      <4>2. ASSUME Stage(d) \in Holding, Current(d)', Track(d) # t PROVE Steady(d)'
        <5>1. Track(d) \in Tracks
          BY <4>2, HandleTyped DEF Holding
        <5>. QED
          BY <1>6, <4>1, <4>2, <5>1 DEF LeaseSteady, Steady, Stage, Track, Current
      <4>3. ASSUME Stage(d) \in Holding, Current(d)', Track(d) = t PROVE Current(d)
        BY <1>6, <4>1, <4>3 DEF Stage, Track, Current
      <4>4. ~(Stage(d) \in Holding /\ Current(d)') => Steady(d)'
        BY <4>1 DEF Steady, Stage
      <4>. QED
        BY <4>1, <4>2, <4>3, <4>4
    <3>1. Stage(d) # "closing"
      BY <1>5, <2>2 DEF QueueFree, On, Track, Holding
    <3>. QED
      BY <1>6, <3>1 DEF LeaseSteady, Steady, Stage, Track, Current
  <2>. QED
    BY <2>1, <2>2
<1>12. LeasesNumbered'
  BY <1>4, <1>6, <1>7 DEF LeasesNumbered
<1>13. OpeningAlone'
  BY <1>1, <1>3, <1>4, <1>5, <1>6, <1>7 DEF OpeningAlone, Moves, Stage, Track, Handles, Handle
<1>14. AllCounted'
  <2>. SUFFICES ASSUME NEW s \in Tracks PROVE Counted(s)'
    BY DEF AllCounted
  <2>1. CountMoves(c, s)
    BY <1>3, <1>6, CountsMove
  <2>2. CASE s # t
    <3>1. (c \in Refs(s) <=> c \in Refs(s)') /\ (c \in Watch(s) <=> c \in Watch(s)')
      BY <1>1, <1>3, <1>5, <2>2
      DEF Refs, Watch, Users, On, Moves, Stage, Track, Handles, Handle, Holding
    <3>. QED
      BY <1>6, <2>1, <2>2, <3>1 DEF AllCounted, Counted, CountMoves
  <2>3. CASE s = t
    <3>1. c \notin Refs(s) /\ c \in Refs(s)'
      BY <1>1, <1>3, <1>5, <1>6, <2>3
      DEF Refs, Users, On, Moves, Stage, Track, Handles, Handle, Current, Holding
    <3>2. (c \in Watch(s) <=> c \in Watch(s)')
      BY <1>1, <1>3, <1>5, <1>6, <2>3
      DEF Watch, Users, On, Moves, Stage, Track, Handles, Handle, Current, Holding
    <3>. QED
      BY <1>1, <1>6, <2>1, <2>3, <3>1, <3>2 DEF AllCounted, Counted, CountMoves, Leases
  <2>. QED
    BY <2>2, <2>3
<1>15. /\ Users(t)' = Users(t) \cup {c}
       /\ \A s \in Tracks : Users(s) \subseteq Users(s)'
       /\ \A s \in Tracks : s # t => Users(s)' = Users(s)
  <2>1. Users(t)' = Users(t) \cup {c}
    BY <1>1, <1>3, <1>4, <1>5, <1>6, <1>7
    DEF Users, On, Moves, Stage, Track, Handles, Handle, Current, Holding
  <2>2. ASSUME NEW s \in Tracks, s # t PROVE Users(s)' = Users(s)
    BY <1>1, <1>3, <1>4, <1>5, <1>6, <1>7, <2>2
    DEF Users, On, Moves, Stage, Track, Handles, Handle, Current, Holding
  <2>3. ASSUME NEW s \in Tracks PROVE Users(s) \subseteq Users(s)'
    BY <1>1, <1>3, <1>4, <1>5, <1>6, <1>7, <2>3
    DEF Users, On, Moves, Stage, Track, Handles, Handle, Current, Holding
  <2>. QED
    BY <2>1, <2>2, <2>3
<1>16. LiveHasStarted'
  BY <1>1, <1>3, <1>4, <1>5, <1>6, <1>7
  DEF LiveHasStarted, Moves, Stage, Track, Handles, Handle, Current
<1>17. LiveIsThere'
  <2>. SUFFICES ASSUME NEW s \in Tracks, lease'[s].started, parent[s],
                       ~(segment[s] # "none" \/ whole[s])
                PROVE  \E d \in Users(s)' : Stage(d)' = "ended"
    BY <1>4 DEF LiveIsThere
  <2>1. PICK d \in Users(s) : Stage(d) = "ended"
    BY <1>6 DEF LiveIsThere
  <2>. QED
    BY <1>3, <1>5, <1>15, <2>1 DEF Moves, Stage, Users
<1>18. LiveIsOwed'
  <2>. SUFFICES ASSUME NEW s \in Tracks, lease'[s].started
                PROVE  \E d \in Users(s)' : hold'[d].live # "no"
    BY <1>4 DEF LiveIsOwed
  <2>1. PICK d \in Users(s) : hold[d].live # "no"
    BY <1>6 DEF LiveIsOwed
  <2>2. hold'[d].live # "no"
    BY <1>1, <1>3, <1>4, <1>5, <2>1 DEF Users, Moves, Stage, Track, Handles, Handle, Holding
  <2>. QED
    BY <1>15, <2>1, <2>2
<1>19. HeldStayOpen'
  BY <1>1, <1>3, <1>4, <1>5, <1>6, <1>7
  DEF HeldStayOpen, StaysOpen, Moves, Stage, Track, Handles, Handle, Current, Holding
<1>20. OpenIsUsed'
  <2>. SUFFICES ASSUME NEW s \in Tracks, parent[s], s \notin forgotten, Users(s)' = {}
                PROVE  lease'[s].keepOpen
    BY <1>4 DEF OpenIsUsed
  <2>1. s # t /\ Users(s)' = Users(s)
    BY <1>15
  <2>. QED
    BY <1>6, <2>1 DEF OpenIsUsed
<1>21. CloseInOrder'
  BY <1>1, <1>3, <1>4, <1>5, <1>6, <1>7 DEF CloseInOrder, Over, Moves, Stage, Track
<1>. QED
  BY <1>8, <1>9, <1>10, <1>11, <1>12, <1>13, <1>14, <1>16, <1>17, <1>18, <1>19, <1>20, <1>21
\* The opening of a track starts.
LEMMA StartOpeningStep ==
    ASSUME LeaseInv, NEW c \in Consumers, StartOpening(c)
    PROVE  LeaseInv'
<1>. USE DEF LeaseInv
<1>. DEFINE t == Track(c)
            h == [hold[c] EXCEPT !.stage = "opening"]
<1>1. hold[c] \in Handles /\ t \in Tracks /\ lease[t] \in Leases
  BY HandleTyped DEF StartOpening
<1>2. h \in Handles \cup {NoHold} /\ hold' = [hold EXCEPT ![c] = h]
  BY <1>1 DEF StartOpening, To, Drop, Handles, HoldStages, Holding
<1>3. Moves(c, h) /\ hold' \in [Consumers -> Handles \cup {NoHold}]
  BY <1>2, OneMoves
<1>4. /\ opens' = opens /\ parent' = parent /\ segment' = segment /\ whole' = whole
      /\ life' = life /\ phase' = phase /\ pending' = pending /\ todo' = todo
      /\ failed' = failed /\ faults' = faults /\ outside' = outside
      /\ forgotten' = forgotten
  BY DEF StartOpening, trackVars, closeVars, faultVars
<1>5. Stage(c) = "queued" /\ QueueFree(t) /\ phase = "open" /\ ~parent[t]
  BY <1>1 DEF StartOpening, Handles
<1>6. /\ lease' \in [Tracks -> Leases] /\ lease'[t] = NoLease
      /\ \A s \in Tracks : s # t => lease'[s] = lease[s]
  <2>1. NoLease \in Leases
    BY DEF NoLease, Leases
  <2>2. lease' = [lease EXCEPT ![t] = NoLease]
    BY DEF StartOpening
  <2>. QED
    BY <1>1, <2>1, <2>2 DEF LeaseTypeOK
<1>7. /\ lease'[t].n = 0
      /\ \A d \in Consumers : Stage(d) # "none" => hold[d] \in Handles /\ Track(d) \in Tracks
      /\ \A d \in Consumers : Stage(d) \in Holding => hold[d].n # 0
  <2>1. \A d \in Consumers : Stage(d) \in Holding => hold[d].n # 0
    BY DEF HandlesInOrder, HandleInOrder
  <2>2. lease'[t].n = 0
    BY <1>6 DEF NoLease
  <2>. QED
    BY <2>1, <2>2, HandleTyped
<1>8. LeaseTypeOK'
  BY <1>3, <1>4, <1>6 DEF LeaseTypeOK
<1>9. HandlesInOrder'
  BY <1>1, <1>3, <1>4, <1>5, <1>6, <1>7
  DEF HandlesInOrder, HandleInOrder, Moves, Stage, Track, Handles, Holding, Starting
<1>10. QueuesExclusive'
  BY <1>1, <1>3, <1>4, <1>5
  DEF QueuesExclusive, Exclusive, QueueFree, On, Moves, Stage, Track, Handles, InLiveQueue
<1>11. LeaseSteady'
  <2>. SUFFICES ASSUME NEW d \in Consumers, Stage(d)' \in Holding, Current(d)'
                PROVE  Steady(d)'
    BY DEF LeaseSteady, Steady
  <2>1. CASE Track(d)' = t
    BY <1>1, <1>3, <1>4, <1>5, <1>6, <1>7, <2>1
    DEF Steady, Moves, Stage, Track, Handles, Current, Holding, Starting
  <2>2. CASE Track(d)' # t
    BY <1>1, <1>3, <1>4, <1>5, <1>6, <1>7, <2>2
    DEF LeaseSteady, Steady, Moves, Stage, Track, Handles, Current, Holding, Starting
  <2>. QED
    BY <2>1, <2>2
<1>12. LeasesNumbered'
  BY <1>1, <1>4, <1>5, <1>6, <1>7 DEF LeasesNumbered, LeaseTypeOK
<1>13. OpeningAlone'
  BY <1>1, <1>3, <1>4, <1>5, <1>6, <1>7 DEF OpeningAlone, Moves, Stage, Track, Handles
<1>14. /\ \A s \in Tracks : s = t => Users(s)' = {}
       /\ \A s \in Tracks : s # t => Users(s)' = Users(s)
  <2>1. ASSUME NEW s \in Tracks, s = t PROVE Users(s)' = {}
    BY <1>1, <1>3, <1>4, <1>5, <1>6, <1>7, <2>1
    DEF Users, On, Moves, Stage, Track, Handles, Current, Holding
  <2>2. ASSUME NEW s \in Tracks, s # t PROVE Users(s)' = Users(s)
    BY <1>1, <1>3, <1>4, <1>5, <1>6, <1>7, <2>2
    DEF Users, On, Moves, Stage, Track, Handles, Current, Holding
  <2>. QED
    BY <2>1, <2>2
<1>15. AllCounted'
  <2>. SUFFICES ASSUME NEW s \in Tracks PROVE Counted(s)'
    BY DEF AllCounted
  <2>1. CASE s # t
    <3>1. CountMoves(c, s)
      BY <1>3, <1>6, <2>1, CountsMove
    <3>2. (c \in Refs(s) <=> c \in Refs(s)') /\ (c \in Watch(s) <=> c \in Watch(s)')
      BY <1>1, <1>3, <1>5, <2>1
      DEF Refs, Watch, Users, On, Moves, Stage, Track, Handles, Holding
    <3>. QED
      BY <1>6, <2>1, <3>1, <3>2 DEF AllCounted, Counted, CountMoves
  <2>2. CASE s = t
    <3>1. Refs(s)' = {} /\ Watch(s)' = {}
      BY <1>14, <2>2 DEF Refs, Watch
    <3>. QED
      BY <1>6, <2>2, <3>1, FS_EmptySet DEF Counted, NoLease
  <2>. QED
    BY <2>1, <2>2
<1>16. LiveHasStarted'
  BY <1>1, <1>3, <1>4, <1>5, <1>6, <1>7
  DEF LiveHasStarted, Moves, Stage, Track, Handles, Current
<1>17. LiveIsThere'
  <2>. SUFFICES ASSUME NEW s \in Tracks, s # t, lease[s].started, parent[s],
                       ~(segment[s] # "none" \/ whole[s])
                PROVE  \E d \in Users(s)' : Stage(d)' = "ended"
    BY <1>4, <1>6 DEF LiveIsThere, NoLease
  <2>1. PICK d \in Users(s) : Stage(d) = "ended"
    BY DEF LiveIsThere
  <2>. QED
    BY <1>3, <1>5, <1>14, <2>1 DEF Moves, Stage, Users
<1>18. LiveIsOwed'
  <2>. SUFFICES ASSUME NEW s \in Tracks, s # t, lease[s].started
                PROVE  \E d \in Users(s)' : hold'[d].live # "no"
    BY <1>4, <1>6 DEF LiveIsOwed, NoLease
  <2>1. PICK d \in Users(s) : hold[d].live # "no"
    BY DEF LiveIsOwed
  <2>2. d # c
    BY <1>1, <1>5, <2>1 DEF Users, On, Track, Stage, Holding
  <2>. QED
    BY <1>3, <1>14, <2>1, <2>2 DEF Moves, Users
<1>19. HeldStayOpen'
  <2>. SUFFICES ASSUME phase = "open", NEW d \in Consumers PROVE StaysOpen(d)'
    BY <1>4 DEF HeldStayOpen
  <2>1. StaysOpen(d)
    BY DEF HeldStayOpen
  <2>2. CASE d = c
    BY <1>1, <1>3, <2>2 DEF StaysOpen, Moves, Stage, Track, Handles, Holding
  <2>3. CASE d # c
    <3>1. hold'[d] = hold[d]
      BY <1>3, <2>3 DEF Moves
    <3>2. Track(d) = t => Stage(d) # "closing"
      BY <1>5 DEF QueueFree, On, Track, Stage
    <3>3. Stage(d) \in Holding /\ Track(d) # t => lease'[Track(d)] = lease[Track(d)]
      BY <1>6, <1>7 DEF Holding
    <3>4. Stage(d) = "closing" => Stage(d) \in Holding
      BY DEF Holding
    <3>. QED
      BY <1>4, <1>5, <2>1, <3>1, <3>2, <3>3, <3>4 DEF StaysOpen, Stage, Track, Current
  <2>. QED
    BY <2>2, <2>3
<1>20. OpenIsUsed'
  <2>. SUFFICES ASSUME NEW s \in Tracks, parent'[s], s \notin forgotten'
                PROVE  lease'[s].keepOpen \/ Users(s)' # {}
    BY DEF OpenIsUsed
  <2>1. s # t
    BY <1>4, <1>5
  <2>. QED
    BY <1>4, <1>14, <1>6, <2>1 DEF OpenIsUsed
<1>21. CloseInOrder'
  BY <1>1, <1>3, <1>4, <1>5, <1>6, <1>7 DEF CloseInOrder, Over, Moves, Stage, Track, NoLease
<1>. QED
  BY <1>8, <1>9, <1>10, <1>11, <1>12, <1>13, <1>15, <1>16, <1>17, <1>18, <1>19, <1>20, <1>21
\* The lease of a track that has just opened, before anybody has it.
LEMMA NewLease ==
    ASSUME NEW n \in Nat
    PROVE  LET l == [NoLease EXCEPT !.n = n] IN
           l \in Leases /\ l.n = n /\ l.references = 0 /\ l.live = 0 /\ ~l.started
<1>. DEFINE l == [NoLease EXCEPT !.n = n]
<1>1. NoLease \in Leases
  BY DEF Leases, NoLease
<1>2. NoLease.references = 0 /\ NoLease.live = 0 /\ ~NoLease.started
  BY DEF NoLease
<1>3. l \in Leases
  BY <1>1 DEF Leases
<1>4. l.n = n /\ l.references = NoLease.references /\ l.live = NoLease.live
  BY <1>1 DEF Leases
<1>5. l.started = NoLease.started
  BY <1>1 DEF Leases
<1>. QED
  BY <1>2, <1>3, <1>4, <1>5

\* The track of the last reference has closed.
LEMMA RetiredStep ==
    ASSUME LeaseInv, NEW c \in Consumers, Retired(c)
    PROVE  LeaseInv'
<1>. USE DEF LeaseInv
<1>. DEFINE t == Track(c)
            h == NoHold
<1>1. hold[c] \in Handles /\ t \in Tracks /\ lease[t] \in Leases
  BY HandleTyped DEF Retired
<1>2. h \in Handles \cup {NoHold} /\ hold' = [hold EXCEPT ![c] = h]
  BY <1>1 DEF Retired, To, Drop, Handles, HoldStages, Holding
<1>3. Moves(c, h) /\ hold' \in [Consumers -> Handles \cup {NoHold}]
  BY <1>2, OneMoves
<1>4. /\ opens' = opens /\ life' = life /\ phase' = phase /\ pending' = pending
      /\ todo' = todo /\ failed' = failed /\ faults' = faults /\ outside' = outside
      /\ forgotten' = forgotten
      /\ parent' \in [Tracks -> BOOLEAN] /\ whole' \in [Tracks -> BOOLEAN]
      /\ segment' \in [Tracks -> {"none", "live", "ended"}] /\ ~parent'[t]
      /\ \A s \in Tracks : s # t =>
          parent'[s] = parent[s] /\ segment'[s] = segment[s] /\ whole'[s] = whole[s]
  BY <1>1 DEF Retired, trackVars, closeVars, faultVars, TrackCloses, LeaseTypeOK
<1>5. Stage(c) = "closing"
  BY <1>1 DEF Retired, Handles, TrackCloses, LeaseTypeOK
<1>6. /\ lease' \in [Tracks -> Leases] /\ lease'[t] = NoLease
      /\ \A s \in Tracks : s # t => lease'[s] = lease[s]
  <2>1. NoLease \in Leases
    BY DEF NoLease, Leases
  <2>2. lease' = [lease EXCEPT ![t] = NoLease]
    BY DEF Retired
  <2>. QED
    BY <1>1, <2>1, <2>2 DEF LeaseTypeOK
<1>7. /\ lease'[t].n = 0
      /\ \A d \in Consumers : Stage(d) # "none" => hold[d] \in Handles /\ Track(d) \in Tracks
      /\ \A d \in Consumers : Stage(d) \in Holding => hold[d].n # 0
  <2>1. \A d \in Consumers : Stage(d) \in Holding => hold[d].n # 0
    BY DEF HandlesInOrder, HandleInOrder
  <2>2. lease'[t].n = 0
    BY <1>6 DEF NoLease
  <2>. QED
    BY <2>1, <2>2, HandleTyped
<1>8. LeaseTypeOK'
  BY <1>3, <1>4, <1>6 DEF LeaseTypeOK
<1>9. HandlesInOrder'
  BY <1>1, <1>3, <1>4, <1>5, <1>6, <1>7
  DEF HandlesInOrder, HandleInOrder, Moves, Stage, Track, Handles, NoHold, Holding, Starting
<1>10. QueuesExclusive'
  BY <1>1, <1>3, <1>4, <1>5
  DEF QueuesExclusive, Exclusive, QueueFree, On, Moves, Stage, Track, Handles, NoHold,
      InLiveQueue
<1>11. LeaseSteady'
  <2>. SUFFICES ASSUME NEW d \in Consumers, Stage(d)' \in Holding, Current(d)'
                PROVE  Steady(d)'
    BY DEF LeaseSteady, Steady
  <2>1. CASE Track(d)' = t
    BY <1>1, <1>3, <1>4, <1>5, <1>6, <1>7, <2>1
    DEF Steady, Moves, Stage, Track, Handles, NoHold, Current, Holding, Starting
  <2>2. CASE Track(d)' # t
    BY <1>1, <1>3, <1>4, <1>5, <1>6, <1>7, <2>2
    DEF LeaseSteady, Steady, Moves, Stage, Track, Handles, NoHold, Current, Holding, Starting
  <2>. QED
    BY <2>1, <2>2
<1>12. LeasesNumbered'
  BY <1>1, <1>4, <1>5, <1>6, <1>7 DEF LeasesNumbered, LeaseTypeOK
<1>13. OpeningAlone'
  BY <1>1, <1>3, <1>4, <1>5, <1>6, <1>7 DEF OpeningAlone, Moves, Stage, Track, Handles, NoHold
<1>14. /\ \A s \in Tracks : s = t => Users(s)' = {}
       /\ \A s \in Tracks : s # t => Users(s)' = Users(s)
  <2>1. ASSUME NEW s \in Tracks, s = t PROVE Users(s)' = {}
    BY <1>1, <1>3, <1>4, <1>5, <1>6, <1>7, <2>1
    DEF Users, On, Moves, Stage, Track, Handles, NoHold, Current, Holding
  <2>2. ASSUME NEW s \in Tracks, s # t PROVE Users(s)' = Users(s)
    BY <1>1, <1>3, <1>4, <1>5, <1>6, <1>7, <2>2
    DEF Users, On, Moves, Stage, Track, Handles, NoHold, Current, Holding
  <2>. QED
    BY <2>1, <2>2
<1>15. AllCounted'
  <2>. SUFFICES ASSUME NEW s \in Tracks PROVE Counted(s)'
    BY DEF AllCounted
  <2>1. CASE s # t
    <3>1. CountMoves(c, s)
      BY <1>3, <1>6, <2>1, CountsMove
    <3>2. (c \in Refs(s) <=> c \in Refs(s)') /\ (c \in Watch(s) <=> c \in Watch(s)')
      BY <1>1, <1>3, <1>5, <2>1
      DEF Refs, Watch, Users, On, Moves, Stage, Track, Handles, NoHold, Holding
    <3>. QED
      BY <1>6, <2>1, <3>1, <3>2 DEF AllCounted, Counted, CountMoves
  <2>2. CASE s = t
    <3>1. Refs(s)' = {} /\ Watch(s)' = {}
      BY <1>14, <2>2 DEF Refs, Watch
    <3>. QED
      BY <1>6, <2>2, <3>1, FS_EmptySet DEF Counted, NoLease
  <2>. QED
    BY <2>1, <2>2
<1>16. LiveHasStarted'
  BY <1>1, <1>3, <1>4, <1>5, <1>6, <1>7
  DEF LiveHasStarted, Moves, Stage, Track, Handles, NoHold, Current
<1>17. LiveIsThere'
  <2>. SUFFICES ASSUME NEW s \in Tracks, s # t, lease[s].started, parent[s],
                       ~(segment[s] # "none" \/ whole[s])
                PROVE  \E d \in Users(s)' : Stage(d)' = "ended"
    BY <1>4, <1>6 DEF LiveIsThere, NoLease
  <2>1. PICK d \in Users(s) : Stage(d) = "ended"
    BY DEF LiveIsThere
  <2>. QED
    BY <1>3, <1>5, <1>14, <2>1 DEF Moves, Stage, Users
<1>18. LiveIsOwed'
  <2>. SUFFICES ASSUME NEW s \in Tracks, s # t, lease[s].started
                PROVE  \E d \in Users(s)' : hold'[d].live # "no"
    BY <1>4, <1>6 DEF LiveIsOwed, NoLease
  <2>1. PICK d \in Users(s) : hold[d].live # "no"
    BY DEF LiveIsOwed
  <2>2. d # c
    BY <1>1, <1>5, <2>1 DEF Users, On, Track, Stage, Holding
  <2>. QED
    BY <1>3, <1>14, <2>1, <2>2 DEF Moves, Users
<1>19. HeldStayOpen'
  <2>. SUFFICES ASSUME phase = "open", NEW d \in Consumers PROVE StaysOpen(d)'
    BY <1>4 DEF HeldStayOpen
  <2>1. StaysOpen(c) /\ StaysOpen(d) /\ Steady(c)
    BY DEF HeldStayOpen, LeaseSteady
  <2>2. Refs(t) = {}
    <3>1. lease[t].references = 0
      BY <1>1, <1>5, <2>1 DEF StaysOpen, Steady, Stage, Track, Holding
    <3>. QED
      BY <1>1, <3>1, CountsSay
  <2>3. CASE d = c
    BY <1>3, <2>3 DEF StaysOpen, Moves, Stage, NoHold, Holding
  <2>4. CASE d # c
    <3>1. hold'[d] = hold[d]
      BY <1>3, <2>4 DEF Moves
    <3>2. Stage(d) = "closing" => Track(d) # t
      BY <1>5, <2>4 DEF QueuesExclusive, Exclusive, Track
    <3>3. Stage(d) \in Holding /\ Track(d) = t /\ ~hold[d].released => ~Current(d)
      BY <2>2 DEF Refs, Users, On, Track, Stage, Holding
    <3>4. Stage(d) \in Holding /\ Track(d) # t =>
             lease'[Track(d)] = lease[Track(d)] /\ parent'[Track(d)] = parent[Track(d)]
      BY <1>4, <1>6, <1>7 DEF Holding
    <3>5. Stage(d) = "closing" => Stage(d) \in Holding
      BY DEF Holding
    <3>. QED
      BY <1>4, <2>1, <3>1, <3>2, <3>3, <3>4, <3>5 DEF StaysOpen, Stage, Track, Current
  <2>. QED
    BY <2>3, <2>4
<1>20. OpenIsUsed'
  <2>. SUFFICES ASSUME NEW s \in Tracks, parent'[s], s \notin forgotten'
                PROVE  lease'[s].keepOpen \/ Users(s)' # {}
    BY DEF OpenIsUsed
  <2>1. s # t
    BY <1>4, <1>5
  <2>. QED
    BY <1>4, <1>14, <1>6, <2>1 DEF OpenIsUsed
<1>21. CloseInOrder'
  BY <1>1, <1>3, <1>4, <1>5, <1>6, <1>7 DEF CloseInOrder, Over, Moves, Stage, Track, NoLease
<1>. QED
  BY <1>8, <1>9, <1>10, <1>11, <1>12, <1>13, <1>15, <1>16, <1>17, <1>18, <1>19, <1>20, <1>21

\* A track has opened.
LEMMA OpenedStep ==
    ASSUME LeaseInv, NEW c \in Consumers, Opened(c)
    PROVE  LeaseInv'
<1>. USE DEF LeaseInv
<1>. DEFINE t == Track(c)
            h == Handle(t, "acquired", opens'[t])
<1>1. hold[c] \in Handles /\ t \in Tracks /\ lease[t] \in Leases
  BY HandleTyped DEF Opened
<1>2. h \in Handles \cup {NoHold} /\ hold' = [hold EXCEPT ![c] = h]
  <2>1. opens'[t] \in Nat
    BY <1>1 DEF Opened, LeaseTypeOK
  <2>. QED
    BY <1>1, <2>1 DEF Opened, Handle, Handles, HoldStages, Holding
<1>3. Moves(c, h) /\ hold' \in [Consumers -> Handles \cup {NoHold}]
  BY <1>2, OneMoves
<1>4. /\ segment' = segment /\ whole' = whole /\ life' = life /\ phase' = phase
      /\ pending' = pending /\ todo' = todo /\ failed' = failed /\ faults' = faults
      /\ outside' = outside /\ forgotten' = forgotten
      /\ opens' \in [Tracks -> Nat] /\ opens'[t] = opens[t] + 1
      /\ parent' \in [Tracks -> BOOLEAN] /\ parent'[t]
      /\ \A s \in Tracks : s # t => opens'[s] = opens[s] /\ parent'[s] = parent[s]
  BY <1>1 DEF Opened, trackVars, closeVars, faultVars, LeaseTypeOK, Track
<1>5. Stage(c) = "opening" /\ ~parent[t]
  BY <1>1 DEF Opened, Handles, LeaseTypeOK, Track, OpeningAlone
<1>6. /\ lease' \in [Tracks -> Leases] /\ \A s \in Tracks : s # t => lease'[s] = lease[s]
      /\ lease'[t].n = opens'[t] /\ lease'[t].references = 1 /\ lease'[t].live = 0
      /\ ~lease'[t].started
  <2>. DEFINE l == [NoLease EXCEPT !.n = opens'[t]]
  <2>1. opens'[t] \in Nat
    BY <1>1, <1>4
  <2>2. l \in Leases /\ l.n = opens'[t] /\ l.references = 0 /\ l.live = 0 /\ ~l.started
    BY <2>1, NewLease
  <2>. HIDE DEF l
  <2>3. PICK m \in Leases : /\ Shared(l, c) = m /\ m.n = l.n /\ m.live = l.live
                            /\ m.references = l.references + 1 /\ m.started = l.started
    BY <2>2, SharedLease
  <2>4. lease' = [lease EXCEPT ![t] = m]
    BY <2>3, Zenon DEF Opened, l
  <2>5. lease' \in [Tracks -> Leases] /\ lease'[t] = m
        /\ \A s \in Tracks : s # t => lease'[s] = lease[s]
    BY <1>1, <2>3, <2>4 DEF LeaseTypeOK
  <2>6. m.references = 1 /\ m.live = 0 /\ m.n = opens'[t]
    BY <2>2, <2>3
  <2>7. ~m.started
    BY <2>2, <2>3
  <2>. QED
    BY <2>5, <2>6, <2>7
<1>7. /\ lease'[t].n = opens[t] + 1 /\ opens[t] \in Nat
      /\ \A d \in Consumers : Stage(d) # "none" => hold[d] \in Handles /\ Track(d) \in Tracks
      /\ \A d \in Consumers : Stage(d) \in Holding => hold[d].n # 0 /\ hold[d].n <= opens[Track(d)]
      /\ \A d \in Consumers : d # c /\ Stage(d) \in {"opening", "closing"} => Track(d) # t
  <2>1. \A d \in Consumers : Stage(d) \in Holding => hold[d].n # 0 /\ hold[d].n <= opens[Track(d)]
    <3>1. \A d \in Consumers : Stage(d) \in Holding => hold[d].n \in 1 .. opens[Track(d)]
      BY DEF HandlesInOrder, HandleInOrder
    <3>. QED
      BY <3>1
  <2>2. lease'[t].n = opens[t] + 1 /\ opens[t] \in Nat
    BY <1>1, <1>4, <1>6 DEF LeaseTypeOK
  <2>3. \A d \in Consumers : d # c /\ Stage(d) \in {"opening", "closing"} => Track(d) # t
    BY <1>5 DEF QueuesExclusive, Exclusive, Track
  <2>. QED
    BY <2>1, <2>2, <2>3, HandleTyped
<1>8. LeaseTypeOK'
  BY <1>3, <1>4, <1>6 DEF LeaseTypeOK
<1>9. HandlesInOrder'
  <2>. SUFFICES ASSUME NEW d \in Consumers PROVE HandleInOrder(d)'
    BY DEF HandlesInOrder
  <2>1. CASE d = c
    BY <1>1, <1>3, <1>4, <1>5, <1>6, <1>7, <2>1
    DEF HandleInOrder, Moves, Stage, Track, Handles, Handle, Holding, Starting
  <2>2. CASE d # c
    <3>1. hold'[d] = hold[d]
      BY <1>3, <2>2 DEF Moves
    <3>2. HandleInOrder(d)
      BY DEF HandlesInOrder
    <3>3. Stage(d) \in Holding => hold[d].n \in 1 .. opens'[Track(d)]
      <4>1. Stage(d) \in Holding => hold[d] \in Handles /\ Track(d) \in Tracks
        BY <1>7 DEF Holding
      <4>2. \A s \in Tracks : opens[s] \in Nat /\ opens'[s] \in Nat /\ opens[s] <= opens'[s]
        BY <1>4, <1>7 DEF LeaseTypeOK
      <4>. QED
        BY <3>2, <4>1, <4>2 DEF HandleInOrder
    <3>. QED
      BY <3>1, <3>2, <3>3 DEF HandleInOrder, Stage, Track
  <2>. QED
    BY <2>1, <2>2
<1>10. QueuesExclusive'
  BY <1>1, <1>3, <1>4, <1>5
  DEF QueuesExclusive, Exclusive, QueueFree, On, Moves, Stage, Track, Handles, Handle,
      InLiveQueue
<1>11. LeaseSteady'
  <2>. SUFFICES ASSUME NEW d \in Consumers, Stage(d)' \in Holding, Current(d)'
                PROVE  Steady(d)'
    BY DEF LeaseSteady, Steady
  <2>1. CASE Track(d)' = t
    BY <1>1, <1>3, <1>4, <1>5, <1>6, <1>7, <2>1
    DEF Steady, Moves, Stage, Track, Handles, Handle, Current, Holding, Starting
  <2>2. CASE Track(d)' # t
    BY <1>1, <1>3, <1>4, <1>5, <1>6, <1>7, <2>2
    DEF LeaseSteady, Steady, Moves, Stage, Track, Handles, Handle, Current, Holding, Starting
  <2>. QED
    BY <2>1, <2>2
<1>12. LeasesNumbered'
  <2>. SUFFICES ASSUME NEW s \in Tracks
                PROVE  /\ lease'[s].n <= opens'[s]
                       /\ lease'[s].n = 0 => lease'[s] = NoLease
                       /\ parent'[s] => lease'[s].n # 0
    BY DEF LeasesNumbered
  <2>1. CASE s = t
    BY <1>1, <1>4, <1>6, <1>7, <2>1
  <2>2. CASE s # t
    BY <1>4, <1>6, <2>2 DEF LeasesNumbered
  <2>. QED
    BY <2>1, <2>2
<1>13. OpeningAlone'
  <2>. SUFFICES ASSUME NEW d \in Consumers, Stage(d)' = "opening"
                PROVE  lease'[Track(d)'].n = 0 /\ ~parent'[Track(d)']
    BY DEF OpeningAlone
  <2>1. d # c /\ hold'[d] = hold[d] /\ Stage(d) = "opening"
    BY <1>1, <1>3 DEF Moves, Stage, Handles, Handle
  <2>2. Track(d) # t /\ Track(d) \in Tracks
    BY <1>7, <2>1
  <2>. QED
    BY <1>4, <1>6, <2>1, <2>2 DEF OpeningAlone, Track
<1>14. /\ \A s \in Tracks : s = t => Users(s)' = {c}
       /\ \A s \in Tracks : s # t => Users(s)' = Users(s)
  <2>1. ASSUME NEW s \in Tracks, s = t PROVE Users(s)' = {c}
    BY <1>1, <1>3, <1>4, <1>5, <1>6, <1>7, <2>1
    DEF Users, On, Moves, Stage, Track, Handles, Handle, Current, Holding
  <2>2. ASSUME NEW s \in Tracks, s # t PROVE Users(s)' = Users(s)
    BY <1>1, <1>3, <1>4, <1>5, <1>6, <1>7, <2>2
    DEF Users, On, Moves, Stage, Track, Handles, Handle, Current, Holding
  <2>. QED
    BY <2>1, <2>2
<1>15. AllCounted'
  <2>. SUFFICES ASSUME NEW s \in Tracks PROVE Counted(s)'
    BY DEF AllCounted
  <2>1. CASE s # t
    <3>1. CountMoves(c, s)
      BY <1>3, <1>6, <2>1, CountsMove
    <3>2. (c \in Refs(s) <=> c \in Refs(s)') /\ (c \in Watch(s) <=> c \in Watch(s)')
      BY <1>1, <1>3, <1>5, <2>1
      DEF Refs, Watch, Users, On, Moves, Stage, Track, Handles, Handle, Holding
    <3>. QED
      BY <1>6, <2>1, <3>1, <3>2 DEF AllCounted, Counted, CountMoves
  <2>2. CASE s = t
    <3>1. hold'[c].live = "no" /\ ~hold'[c].released
      BY <1>1, <1>3, <1>5
      DEF HandlesInOrder, HandleInOrder, Moves, Stage, Track, Handles, Handle
    <3>2. Refs(s)' = {c} /\ Watch(s)' = {}
      BY <1>14, <2>2, <3>1 DEF Refs, Watch
    <3>. QED
      BY <1>6, <2>2, <3>2, FS_EmptySet, FS_Singleton DEF Counted
  <2>. QED
    BY <2>1, <2>2
<1>16. LiveHasStarted'
  <2>. SUFFICES ASSUME NEW d \in Consumers, Stage(d)' = "started", Current(d)', parent'[Track(d)']
                PROVE  segment[Track(d)'] # "none" \/ whole[Track(d)']
    BY <1>4 DEF LiveHasStarted
  <2>1. d # c /\ hold'[d] = hold[d] /\ Stage(d) = "started"
    BY <1>1, <1>3 DEF Moves, Stage, Handles, Handle
  <2>2. Track(d) # t /\ Track(d) \in Tracks
    BY <1>1, <1>3, <1>4, <1>5, <1>6, <1>7, <2>1 DEF Current, Track, Stage, Holding
  <2>. QED
    BY <1>4, <1>6, <2>1, <2>2 DEF LiveHasStarted, Track, Current, Stage
<1>17. LiveIsThere'
  <2>. SUFFICES ASSUME NEW s \in Tracks, s # t, lease[s].started, parent[s],
                       ~(segment[s] # "none" \/ whole[s])
                PROVE  \E d \in Users(s)' : Stage(d)' = "ended"
    BY <1>4, <1>6 DEF LiveIsThere
  <2>1. PICK d \in Users(s) : Stage(d) = "ended"
    BY DEF LiveIsThere
  <2>. QED
    BY <1>3, <1>5, <1>14, <2>1 DEF Moves, Stage, Users
<1>18. LiveIsOwed'
  <2>. SUFFICES ASSUME NEW s \in Tracks, s # t, lease[s].started
                PROVE  \E d \in Users(s)' : hold'[d].live # "no"
    BY <1>4, <1>6 DEF LiveIsOwed
  <2>1. PICK d \in Users(s) : hold[d].live # "no"
    BY DEF LiveIsOwed
  <2>2. d # c
    BY <1>1, <1>5, <2>1 DEF Users, On, Track, Stage, Holding
  <2>. QED
    BY <1>3, <1>14, <2>1, <2>2 DEF Moves, Users
<1>19. HeldStayOpen'
  <2>. SUFFICES ASSUME phase = "open", NEW d \in Consumers PROVE StaysOpen(d)'
    BY <1>4 DEF HeldStayOpen
  <2>1. StaysOpen(d)
    BY DEF HeldStayOpen
  <2>2. CASE d = c
    BY <1>1, <1>3, <1>4, <1>5, <1>6, <1>7, <2>2
    DEF StaysOpen, Moves, Stage, Track, Handles, Handle, Current, Holding
  <2>3. CASE d # c
    <3>1. hold'[d] = hold[d]
      BY <1>3, <2>3 DEF Moves
    <3>2. Stage(d) = "closing" => Track(d) # t
      BY <1>7, <2>3
    <3>3. Stage(d) \in Holding /\ Track(d) # t =>
             lease'[Track(d)] = lease[Track(d)] /\ parent'[Track(d)] = parent[Track(d)]
      BY <1>4, <1>6, <1>7 DEF Holding
    <3>4. Stage(d) = "closing" => Stage(d) \in Holding
      BY DEF Holding
    <3>. QED
      BY <1>4, <1>5, <2>1, <3>1, <3>2, <3>3, <3>4 DEF StaysOpen, Stage, Track, Current
  <2>. QED
    BY <2>2, <2>3
<1>20. OpenIsUsed'
  <2>. SUFFICES ASSUME NEW s \in Tracks, parent'[s], s \notin forgotten'
                PROVE  lease'[s].keepOpen \/ Users(s)' # {}
    BY DEF OpenIsUsed
  <2>1. CASE s = t
    BY <1>14, <2>1
  <2>2. CASE s # t
    BY <1>4, <1>14, <1>6, <2>2 DEF OpenIsUsed
  <2>. QED
    BY <2>1, <2>2
<1>21. CloseInOrder'
  <2>1. ~(phase = "tracks" /\ ~failed) /\ phase # "closed"
    BY <1>5 DEF CloseInOrder, Over, Stage, Consumers
  <2>. QED
    BY <1>1, <1>3, <1>4, <1>5, <1>6, <1>7, <2>1 DEF CloseInOrder, Over, Moves, Stage, Track
<1>. QED
  BY <1>8, <1>9, <1>10, <1>11, <1>12, <1>13, <1>15, <1>16, <1>17, <1>18, <1>19, <1>20, <1>21
\* A step that leaves the tracks and what the consumers have of them as they are.
LEMMA FrameStep ==
    ASSUME LeaseInv, UNCHANGED <<trackVars, hold, outside, forgotten>>,
           life' \in [Consumers -> {"off", "on", "paused", "closing", "gone"}],
           phase' \in {"open", "consumers", "defaults", "tracks", "failed", "closed"},
           phase' = "open" => phase = "open",
           pending' \in SUBSET Consumers, todo' \in SUBSET Tracks, failed' \in BOOLEAN,
           faults' \in Nat, CloseInOrder'
    PROVE  LeaseInv'
<1>. USE DEF LeaseInv
<1>1. /\ lease' = lease /\ opens' = opens /\ parent' = parent /\ segment' = segment
      /\ whole' = whole /\ hold' = hold /\ outside' = outside /\ forgotten' = forgotten
  BY DEF trackVars
<1>2. LeaseTypeOK'
  BY <1>1 DEF LeaseTypeOK
<1>3. HandlesInOrder' /\ QueuesExclusive' /\ LeaseSteady'
  BY <1>1 DEF HandlesInOrder, HandleInOrder, QueuesExclusive, Exclusive, LeaseSteady, Steady,
              Stage, Track, Current
<1>4. LeasesNumbered' /\ OpeningAlone'
  BY <1>1 DEF LeasesNumbered, OpeningAlone, Stage, Track
<1>5. AllCounted'
  <2>. SUFFICES ASSUME NEW s \in Tracks PROVE Counted(s)'
    BY DEF AllCounted
  <2>1. Refs(s)' = Refs(s) /\ Watch(s)' = Watch(s)
    BY <1>1 DEF Refs, Watch, Users, On, Stage, Track, Current
  <2>. QED
    BY <1>1, <2>1 DEF AllCounted, Counted
<1>6. LiveHasStarted' /\ LiveIsThere' /\ LiveIsOwed'
  BY <1>1 DEF LiveHasStarted, LiveIsThere, LiveIsOwed, Users, On, Stage, Track, Current
<1>7. HeldStayOpen'
  BY <1>1 DEF HeldStayOpen, StaysOpen, Stage, Track, Current
<1>8. OpenIsUsed'
  BY <1>1 DEF OpenIsUsed, Users, On, Stage, Track, Current
<1>. QED
  BY <1>2, <1>3, <1>4, <1>5, <1>6, <1>7, <1>8

\* A consumer comes, pauses, resumes, stops, or has stopped.
LEMMA LifeStep ==
    ASSUME LeaseInv, NEW c \in Consumers,
           Appear(c) \/ Pause(c) \/ Resume(c) \/ Stop(c) \/ Stopped(c)
    PROVE  LeaseInv'
<1>. USE DEF LeaseInv
<1>1. UNCHANGED <<trackVars, hold, outside, forgotten>> /\ phase' = phase
  BY DEF Appear, Pause, Resume, Stop, Stopped, closeVars, faultVars
<1>2. /\ todo' = todo /\ failed' = failed /\ faults' = faults
      /\ pending' = pending \/ (pending' = pending \ {c} /\ life'[c] = "gone")
  BY DEF Appear, Pause, Resume, Stop, Stopped, closeVars, faultVars, LeaseTypeOK
<1>3. /\ life' \in [Consumers -> {"off", "on", "paused", "closing", "gone"}]
      /\ \A d \in Consumers : d # c => life'[d] = life[d]
      /\ life[c] \in {"off", "gone"} => phase = "open" /\ life[c] = "off"
      /\ life'[c] \in {"off", "gone"} => Stage(c) = "none"
  BY DEF Appear, Pause, Resume, Stop, Stopped, LeaseTypeOK
<1>4. CloseInOrder'
  <2>1. /\ hold' = hold /\ lease' = lease /\ phase' = phase /\ todo' = todo /\ failed' = failed
    BY <1>1, <1>2 DEF trackVars
  <2>2. \A d \in Consumers : Over(d) /\ phase # "open" => Over(d)'
    BY <1>3 DEF Over
  <2>3. \A d \in Consumers : Over(d)' => Stage(d)' = "none"
    BY <1>3, <2>1 DEF CloseInOrder, Over, Stage
  <2>4. \A d \in Consumers : d \in pending => d \in pending' \/ Over(d)'
    BY <1>2 DEF Over
  <2>5. Viewers \cup Monitors \subseteq Consumers /\ Defaults \subseteq Consumers
    BY DEF Consumers
  <2>. QED
    BY <2>1, <2>2, <2>3, <2>4, <2>5 DEF CloseInOrder
<1>. QED
  BY <1>1, <1>2, <1>3, <1>4, FrameStep DEF LeaseTypeOK

\* Closers of one kind are told to close.
LEMMA Summoned ==
    ASSUME LeaseInv, NEW cs \in SUBSET Consumers, Summon(cs)
    PROVE  /\ pending' \in SUBSET Consumers
           /\ life' \in [Consumers -> {"off", "on", "paused", "closing", "gone"}]
           /\ \A c \in Consumers :
                  life'[c] = life[c] \/ (life[c] \notin {"off", "gone"} /\ life'[c] = "closing")
           /\ \A c \in cs : life'[c] \in {"off", "gone"} \/ c \in pending'
<1>1. life \in [Consumers -> {"off", "on", "paused", "closing", "gone"}]
  BY DEF LeaseInv, LeaseTypeOK
<1>2. pending' = {c \in cs : life[c] \in {"on", "paused", "closing"}}
  BY DEF Summon
<1>3. life' = [c \in Consumers |-> IF c \in pending' THEN "closing" ELSE life[c]]
  BY DEF Summon
<1>4. pending' \in SUBSET Consumers
  BY <1>2
<1>5. life' \in [Consumers -> {"off", "on", "paused", "closing", "gone"}]
  BY <1>1, <1>3
<1>6. ASSUME NEW c \in Consumers
      PROVE  life'[c] = life[c] \/ (life[c] \notin {"off", "gone"} /\ life'[c] = "closing")
  BY <1>2, <1>3
<1>7. ASSUME NEW c \in cs PROVE life'[c] \in {"off", "gone"} \/ c \in pending'
  BY <1>1, <1>2, <1>3
<1>. QED
  BY <1>4, <1>5, <1>6, <1>7

\* The steps of the close of the stream.
LEMMA CloseStep ==
    ASSUME LeaseInv, BeginClose \/ ConsumersClosed \/ DefaultsClosed \/ EndClose
                     \/ (\E t \in Tracks : SkipTrack(t) \/ CloseTrackFails(t))
    PROVE  LeaseInv'
<1>. USE DEF LeaseInv
<1>1. CASE BeginClose
  <2>1. /\ UNCHANGED <<trackVars, hold, outside, forgotten>> /\ hold' = hold /\ lease' = lease
        /\ phase' = "consumers" /\ failed' = FALSE /\ todo' = todo /\ faults' = faults
        /\ Summon(Viewers \cup Monitors)
    BY <1>1 DEF BeginClose, trackVars, faultVars
  <2>2. Viewers \cup Monitors \in SUBSET Consumers
    BY DEF Consumers
  <2>3. CloseInOrder'
    BY <2>1, <2>2, Summoned DEF CloseInOrder, Over, Stage
  <2>4. failed' \in BOOLEAN
    BY <2>1, Zenon
  <2>. QED
    BY <2>1, <2>2, <2>3, <2>4, Summoned, FrameStep DEF LeaseTypeOK
<1>2. CASE ConsumersClosed
  <2>1. /\ UNCHANGED <<trackVars, hold, outside, forgotten>> /\ hold' = hold /\ lease' = lease
        /\ phase = "consumers" /\ pending = {}
        /\ phase' = "defaults" /\ failed' = failed /\ todo' = todo /\ faults' = faults
        /\ Summon(Defaults)
    BY <1>2 DEF ConsumersClosed, trackVars, faultVars
  <2>2. Defaults \in SUBSET Consumers /\ Viewers \cup Monitors \in SUBSET Consumers
    BY DEF Consumers
  <2>3. CloseInOrder'
    BY <2>1, <2>2, Summoned DEF CloseInOrder, Over, Stage
  <2>. QED
    BY <2>1, <2>2, <2>3, Summoned, FrameStep DEF LeaseTypeOK
<1>3. CASE DefaultsClosed
  <2>1. /\ UNCHANGED <<trackVars, hold, outside, forgotten>> /\ hold' = hold /\ lease' = lease
        /\ phase = "defaults" /\ pending = {} /\ life' = life /\ pending' = pending
        /\ phase' = "tracks" /\ failed' = failed /\ faults' = faults
        /\ todo' = {t \in Tracks : lease[t] # NoLease}
    BY <1>3 DEF DefaultsClosed, trackVars, faultVars
  <2>2. \A t \in Tracks \ todo' : lease[t].n = 0
    BY <2>1 DEF NoLease
  <2>3. CloseInOrder'
    BY <2>1, <2>2 DEF CloseInOrder, Over, Stage
  <2>. QED
    BY <2>1, <2>3, FrameStep DEF LeaseTypeOK
<1>4. CASE EndClose
  <2>1. /\ UNCHANGED <<trackVars, hold, outside, forgotten>> /\ hold' = hold /\ lease' = lease
        /\ phase = "tracks" /\ todo = {} /\ life' = life /\ pending' = pending /\ todo' = todo
        /\ phase' = (IF failed THEN "failed" ELSE "closed") /\ failed' = failed
        /\ faults' = faults
    BY <1>4 DEF EndClose, trackVars, faultVars
  <2>2. CloseInOrder'
    BY <2>1 DEF CloseInOrder, Over, Stage, Consumers
  <2>. QED
    BY <2>1, <2>2, FrameStep DEF LeaseTypeOK
<1>5. ASSUME NEW t \in Tracks, SkipTrack(t) PROVE LeaseInv'
  <2>1. /\ UNCHANGED <<trackVars, hold, outside, forgotten>> /\ hold' = hold /\ lease' = lease
        /\ phase = "tracks" /\ life' = life /\ pending' = pending /\ todo' = todo \ {t}
        /\ phase' = phase /\ failed' = failed /\ faults' = faults /\ lease[t].started
    BY <1>5 DEF SkipTrack, trackVars, faultVars
  <2>2. failed
    <3>. SUFFICES ASSUME ~failed PROVE FALSE
      OBVIOUS
    <3>1. PICK c \in Users(t) : hold[c].live # "no"
      BY <2>1 DEF LiveIsOwed
    <3>2. c \in Consumers /\ Stage(c) # "none"
      BY <3>1 DEF Users, On
    <3>. QED
      BY <2>1, <3>2 DEF CloseInOrder, Consumers
  <2>3. CloseInOrder'
    BY <2>1, <2>2 DEF CloseInOrder, Over, Stage
  <2>. QED
    BY <2>1, <2>3, FrameStep DEF LeaseTypeOK
<1>6. ASSUME NEW t \in Tracks, CloseTrackFails(t) PROVE LeaseInv'
  <2>1. /\ UNCHANGED <<trackVars, hold, outside, forgotten>> /\ hold' = hold /\ lease' = lease
        /\ phase = "tracks" /\ life' = life /\ pending' = pending /\ todo' = todo \ {t}
        /\ phase' = phase /\ failed' = TRUE /\ faults' = faults + 1
    BY <1>6 DEF CloseTrackFails, trackVars, Fault
  <2>2. CloseInOrder'
    BY <2>1 DEF CloseInOrder, Over, Stage
  <2>3. failed' \in BOOLEAN
    BY <2>1, Zenon
  <2>. QED
    BY <2>1, <2>2, <2>3, FrameStep DEF LeaseTypeOK
<1>. QED
  BY <1>1, <1>2, <1>3, <1>4, <1>5, <1>6

\* A track is closed by somebody else.
LEMMA ClosedOutsideStep ==
    ASSUME LeaseInv, NEW t \in Tracks, ClosedOutside(t) PROVE LeaseInv'
<1>. USE DEF LeaseInv
<1>1. /\ lease' = lease /\ opens' = opens /\ hold' = hold /\ life' = life /\ phase' = phase
      /\ pending' = pending /\ todo' = todo /\ failed' = failed /\ forgotten' = forgotten
      /\ outside' = outside \cup {<<t, lease[t].n>>}
  BY DEF ClosedOutside, closeVars
<1>2. /\ faults' \in Nat /\ parent' \in [Tracks -> BOOLEAN] /\ whole' \in [Tracks -> BOOLEAN]
      /\ segment' \in [Tracks -> {"none", "live", "ended"}]
  BY DEF ClosedOutside, TrackCloses, LeaseTypeOK
<1>3. /\ ~parent'[t]
      /\ \A s \in Tracks : s # t =>
             parent'[s] = parent[s] /\ segment'[s] = segment[s] /\ whole'[s] = whole[s]
  BY DEF ClosedOutside, TrackCloses, LeaseTypeOK
<1>4. LeaseTypeOK'
  <2>1. lease[t].n \in Nat
    BY DEF LeaseTypeOK, Leases
  <2>. QED
    BY <1>1, <1>2, <2>1 DEF LeaseTypeOK
<1>5. HandlesInOrder' /\ QueuesExclusive' /\ LeaseSteady'
  BY <1>1 DEF HandlesInOrder, HandleInOrder, QueuesExclusive, Exclusive, LeaseSteady, Steady,
              Stage, Track, Current
<1>6. LeasesNumbered'
  BY <1>1, <1>3 DEF LeasesNumbered
<1>7. \A c \in Consumers : Stage(c) # "none" => Track(c) \in Tracks
  BY HandleTyped
<1>8. OpeningAlone'
  BY <1>1, <1>3, <1>7 DEF OpeningAlone, Stage, Track
<1>9. AllCounted'
  <2>. SUFFICES ASSUME NEW s \in Tracks PROVE Counted(s)'
    BY DEF AllCounted
  <2>1. Refs(s)' = Refs(s) /\ Watch(s)' = Watch(s)
    BY <1>1 DEF Refs, Watch, Users, On, Stage, Track, Current
  <2>. QED
    BY <1>1, <2>1 DEF AllCounted, Counted
<1>10. LiveHasStarted'
  BY <1>1, <1>3, <1>7 DEF LiveHasStarted, Stage, Track, Current
<1>11. LiveIsThere'
  <2>. SUFFICES ASSUME NEW s \in Tracks, s # t, lease[s].started, parent[s],
                       ~(segment[s] # "none" \/ whole[s])
                PROVE  \E d \in Users(s)' : Stage(d)' = "ended"
    BY <1>1, <1>3 DEF LiveIsThere
  <2>. QED
    BY <1>1 DEF LiveIsThere, Users, On, Stage, Track, Current
<1>12. LiveIsOwed'
  BY <1>1 DEF LiveIsOwed, Users, On, Stage, Track, Current
<1>13. HeldStayOpen'
  <2>. SUFFICES ASSUME phase = "open", NEW d \in Consumers PROVE StaysOpen(d)'
    BY <1>1 DEF HeldStayOpen
  <2>1. StaysOpen(d)
    BY DEF HeldStayOpen
  <2>2. Stage(d) \in Holding => Track(d) \in Tracks
    BY <1>7 DEF Holding
  <2>. QED
    BY <1>1, <1>3, <2>1, <2>2 DEF StaysOpen, Stage, Track, Current
<1>14. OpenIsUsed'
  <2>. SUFFICES ASSUME NEW s \in Tracks, s # t, parent[s], s \notin forgotten
                PROVE  lease[s].keepOpen \/ Users(s)' # {}
    BY <1>1, <1>3 DEF OpenIsUsed
  <2>. QED
    BY <1>1 DEF OpenIsUsed, Users, On, Stage, Track, Current
<1>15. CloseInOrder'
  BY <1>1 DEF CloseInOrder, Over, Stage
<1>. QED
  BY <1>4, <1>5, <1>6, <1>8, <1>9, <1>10, <1>11, <1>12, <1>13, <1>14, <1>15

\* The stream closes a track.
LEMMA CloseTrackStep ==
    ASSUME LeaseInv, NEW t \in Tracks, CloseTrack(t) PROVE LeaseInv'
<1>. USE DEF LeaseInv
<1>1. /\ opens' = opens /\ hold' = hold /\ life' = life /\ phase' = phase /\ phase = "tracks"
      /\ pending' = pending /\ todo' = todo \ {t} /\ failed' = failed /\ faults' = faults
      /\ outside' = outside /\ forgotten' = forgotten
  BY DEF CloseTrack, faultVars
<1>2. /\ parent' \in [Tracks -> BOOLEAN] /\ whole' \in [Tracks -> BOOLEAN]
      /\ segment' \in [Tracks -> {"none", "live", "ended"}]
  BY DEF CloseTrack, TrackCloses, LeaseTypeOK
<1>3. /\ ~parent'[t]
      /\ \A s \in Tracks : s # t =>
             parent'[s] = parent[s] /\ segment'[s] = segment[s] /\ whole'[s] = whole[s]
  BY DEF CloseTrack, TrackCloses, LeaseTypeOK
<1>4. /\ lease' \in [Tracks -> Leases] /\ lease'[t] = NoLease
      /\ \A s \in Tracks : s # t => lease'[s] = lease[s]
  <2>1. NoLease \in Leases
    BY DEF NoLease, Leases
  <2>2. lease' = [lease EXCEPT ![t] = NoLease]
    BY DEF CloseTrack
  <2>. QED
    BY <2>1, <2>2 DEF LeaseTypeOK
<1>5. LeaseTypeOK'
  BY <1>1, <1>2, <1>4 DEF LeaseTypeOK
<1>6. HandlesInOrder' /\ QueuesExclusive'
  BY <1>1 DEF HandlesInOrder, HandleInOrder, QueuesExclusive, Exclusive, Stage, Track
<1>7. /\ \A c \in Consumers : Stage(c) # "none" => Track(c) \in Tracks
      /\ \A c \in Consumers : Stage(c) \in Holding => hold[c].n # 0
      /\ lease'[t].n = 0
  <2>1. \A c \in Consumers : Stage(c) \in Holding => hold[c].n # 0
    BY DEF HandlesInOrder, HandleInOrder
  <2>2. lease'[t].n = 0
    BY <1>4 DEF NoLease
  <2>. QED
    BY <2>1, <2>2, HandleTyped
<1>8. LeaseSteady'
  <2>. SUFFICES ASSUME NEW d \in Consumers, Stage(d) \in Holding, Current(d)' PROVE Steady(d)'
    BY <1>1 DEF LeaseSteady, Steady, Stage
  <2>1. Track(d) # t /\ Track(d) \in Tracks
    BY <1>1, <1>7 DEF Current, Track, Stage, Holding
  <2>. QED
    BY <1>1, <1>4, <2>1 DEF LeaseSteady, Steady, Stage, Track, Current
<1>9. LeasesNumbered'
  BY <1>1, <1>3, <1>4, <1>7 DEF LeasesNumbered, LeaseTypeOK
<1>10. OpeningAlone'
  BY <1>1, <1>3, <1>4, <1>7 DEF OpeningAlone, Stage, Track
<1>11. /\ \A s \in Tracks : s = t => Users(s)' = {}
       /\ \A s \in Tracks : s # t => Users(s)' = Users(s)
  <2>1. ASSUME NEW s \in Tracks, s = t PROVE Users(s)' = {}
    BY <1>1, <1>7, <2>1 DEF Users, On, Stage, Current, Track
  <2>2. ASSUME NEW s \in Tracks, s # t PROVE Users(s)' = Users(s)
    BY <1>1, <1>4, <2>2 DEF Users, On, Stage, Current, Track
  <2>. QED
    BY <2>1, <2>2
<1>12. AllCounted'
  <2>. SUFFICES ASSUME NEW s \in Tracks PROVE Counted(s)'
    BY DEF AllCounted
  <2>1. CASE s # t
    <3>1. Refs(s)' = Refs(s) /\ Watch(s)' = Watch(s)
      BY <1>1, <1>11, <2>1 DEF Refs, Watch
    <3>. QED
      BY <1>4, <2>1, <3>1 DEF AllCounted, Counted
  <2>2. CASE s = t
    <3>1. Refs(s)' = {} /\ Watch(s)' = {}
      BY <1>11, <2>2 DEF Refs, Watch
    <3>. QED
      BY <1>4, <2>2, <3>1, FS_EmptySet DEF Counted, NoLease
  <2>. QED
    BY <2>1, <2>2
<1>13. LiveHasStarted'
  <2>. SUFFICES ASSUME NEW d \in Consumers, Stage(d) = "started", Current(d)', parent'[Track(d)]
                PROVE  segment'[Track(d)] # "none" \/ whole'[Track(d)]
    BY <1>1 DEF LiveHasStarted, Stage, Track
  <2>1. Track(d) # t /\ Track(d) \in Tracks
    BY <1>3, <1>7
  <2>. QED
    BY <1>1, <1>3, <1>4, <2>1 DEF LiveHasStarted, Track, Current
<1>14. LiveIsThere'
  <2>. SUFFICES ASSUME NEW s \in Tracks, s # t, lease[s].started, parent[s],
                       ~(segment[s] # "none" \/ whole[s])
                PROVE  \E d \in Users(s)' : Stage(d)' = "ended"
    BY <1>3, <1>4 DEF LiveIsThere
  <2>. QED
    BY <1>1, <1>11 DEF LiveIsThere, Stage
<1>15. LiveIsOwed'
  <2>. SUFFICES ASSUME NEW s \in Tracks, s # t, lease[s].started
                PROVE  \E d \in Users(s)' : hold'[d].live # "no"
    BY <1>4 DEF LiveIsOwed, NoLease
  <2>. QED
    BY <1>1, <1>11 DEF LiveIsOwed
<1>16. HeldStayOpen'
  BY <1>1 DEF HeldStayOpen
<1>17. OpenIsUsed'
  BY <1>1, <1>3, <1>4, <1>11 DEF OpenIsUsed
<1>18. CloseInOrder'
  BY <1>1, <1>4, <1>7 DEF CloseInOrder, Over, Stage
<1>. QED
  BY <1>5, <1>6, <1>8, <1>9, <1>10, <1>12, <1>13, <1>14, <1>15, <1>16, <1>17, <1>18

\* Nothing is open at first.
LEMMA LeasesStart == LeaseInit => LeaseInv
<1>. SUFFICES ASSUME LeaseInit PROVE LeaseInv
  OBVIOUS
<1>. USE DEF LeaseInit
<1>1. \A c \in Consumers : Stage(c) = "none"
  BY DEF Stage, NoHold
<1>2. \A t \in Tracks : Users(t) = {}
  BY <1>1 DEF Users, On
<1>3. NoLease \in Leases
  BY DEF NoLease, Leases
<1>4. LeaseTypeOK
  BY <1>3 DEF LeaseTypeOK
<1>5. HandlesInOrder /\ QueuesExclusive /\ LeaseSteady /\ OpeningAlone /\ LiveHasStarted
  BY <1>1 DEF HandlesInOrder, HandleInOrder, QueuesExclusive, Exclusive, LeaseSteady, Steady,
              OpeningAlone, LiveHasStarted, Holding, Starting
<1>6. LeasesNumbered /\ LiveIsThere /\ LiveIsOwed /\ OpenIsUsed
  BY DEF LeasesNumbered, LiveIsThere, LiveIsOwed, OpenIsUsed, NoLease
<1>7. AllCounted
  <2>. SUFFICES ASSUME NEW t \in Tracks PROVE Counted(t)
    BY DEF AllCounted
  <2>1. Refs(t) = {} /\ Watch(t) = {}
    BY <1>2 DEF Refs, Watch
  <2>. QED
    BY <2>1, FS_EmptySet DEF Counted, NoLease
<1>8. HeldStayOpen /\ CloseInOrder
  BY <1>1 DEF HeldStayOpen, StaysOpen, CloseInOrder, Over, Holding
<1>. QED
  BY <1>4, <1>5, <1>6, <1>7, <1>8 DEF LeaseInv

\* Every step keeps the invariant.
LEMMA LeaseStep == LeaseInv /\ [LeaseNext]_leaseVars => LeaseInv'
<1>. SUFFICES ASSUME LeaseInv, [LeaseNext]_leaseVars PROVE LeaseInv'
  OBVIOUS
<1>1. ASSUME NEW c \in Consumers,
             \/ Appear(c) \/ Pause(c) \/ Resume(c) \/ Stop(c) \/ Stopped(c)
             \/ \E t \in Tracks : AddTrack(c, t)
             \/ Refused(c) \/ ShareLease(c) \/ StartOpening(c) \/ Opened(c)
             \/ OpeningFails(c) \/ Acquired(c)
      PROVE  LeaseInv'
  BY <1>1, LifeStep, AddTrackStep, RefusedStep, ShareLeaseStep, StartOpeningStep, OpenedStep,
     OpeningFailsStep, AcquiredStep
<1>2. ASSUME NEW c \in Consumers,
             \/ JoinLive(c) \/ StartLive(c) \/ StartFails(c) \/ Started(c) \/ StartUndone(c)
             \/ ReplicateAll(c) \/ ReplicateFails(c)
      PROVE  LeaseInv'
  BY <1>2, JoinNothing, JoinFirst, JoinMore, StartLiveStep, StartFailsStep, StartedNothing,
     StartedLive, UndoNothing, StartUndoneLive, ReplicateAllStep, ReplicateFailsStep
<1>3. ASSUME NEW c \in Consumers,
             \/ Leave(c) \/ ReleaseReferences(c) \/ EndLive(c) \/ LiveEnded(c)
             \/ LeaveTrack(c) \/ Retired(c) \/ ReleaseFails(c)
      PROVE  LeaseInv'
  BY <1>3, LeaveStep, ReleaseNothing, ReleaseReferencesLive, EndLiveStep, LiveEndedNow,
     EndedNothing, LastLeaves, OneLeaves, RetiredStep, ReleaseKept, ReleaseForgotten
<1>4. ASSUME NEW t \in Tracks,
             ClosedOutside(t) \/ SkipTrack(t) \/ CloseTrack(t) \/ CloseTrackFails(t)
      PROVE  LeaseInv'
  BY <1>4, ClosedOutsideStep, CloseStep, CloseTrackStep
<1>5. CASE BeginClose \/ ConsumersClosed \/ DefaultsClosed \/ EndClose
  BY <1>5, CloseStep
<1>6. CASE UNCHANGED leaseVars
  <2>1. UNCHANGED <<trackVars, hold, outside, forgotten>>
    BY <1>6 DEF leaseVars, trackVars
  <2>2. /\ life' = life /\ phase' = phase /\ pending' = pending /\ todo' = todo
        /\ failed' = failed /\ faults' = faults /\ hold' = hold /\ lease' = lease
    BY <1>6 DEF leaseVars
  <2>3. CloseInOrder'
    BY <2>2 DEF LeaseInv, CloseInOrder, Over, Stage
  <2>. QED
    BY <2>1, <2>2, <2>3, FrameStep DEF LeaseInv, LeaseTypeOK
<1>. QED
  BY <1>1, <1>2, <1>3, <1>4, <1>5, <1>6 DEF LeaseNext

\* The inductive invariant of the leases holds, whatever fails and whoever overtakes whom.
THEOREM LeasesSafe == LeaseSpec => []LeaseInv
BY LeasesStart, LeaseStep, PTL DEF LeaseSpec

\* The references of a lease, and its live references, are the consumers that have them,
\* however openings, releases, failures and closes come together.
THEOREM ReferencesAreExact == LeaseSpec => []LeasesAreCounted
<1>1. LeaseInv => LeasesAreCounted
  BY DEF LeaseInv, AllCounted, Counted, Refs, Watch, LeasesAreCounted
<1>. QED
  BY <1>1, LeasesSafe, PTL

\* Who holds a track of an open stream has it open, or it was closed from outside; and who
\* watches it live has its live segment or the whole track.
THEOREM HoldersAreServed == LeaseSpec => []HeldTracksAreServed
<1>1. LeaseInv => HeldTracksAreServed
  <2>. SUFFICES ASSUME LeaseInv PROVE HeldTracksAreServed
    OBVIOUS
  <2>. USE DEF LeaseInv
  <2>1. ASSUME NEW c \in Consumers, Stage(c) \in Holding, ~hold[c].released, phase = "open"
        PROVE  <<Track(c), hold[c].n>> \in outside \/ (Current(c) /\ parent[Track(c)])
    BY <2>1 DEF HeldStayOpen, StaysOpen
  <2>2. ASSUME NEW c \in Viewers, Stage(c) = "held", Current(c), parent[Track(c)]
        PROVE  segment[Track(c)] # "none" \/ whole[Track(c)]
    <3>1. c \in Consumers /\ Track(c) \in Tracks
      BY <2>2, HandleTyped DEF Consumers
    <3>2. hold[c].live = "yes"
      BY <2>2, <3>1 DEF HandlesInOrder, HandleInOrder
    <3>3. c \in Watch(Track(c))
      BY <2>2, <3>1, <3>2 DEF Watch, Users, On, Track, Holding
    <3>4. lease[Track(c)].live # 0
      BY <3>1, <3>3, CountsSay
    <3>5. lease[Track(c)].started
      BY <2>2, <3>1, <3>2 DEF LeaseSteady, Steady, Holding, Starting
    <3>6. ASSUME NEW d \in Users(Track(c)), Stage(d) = "ended" PROVE FALSE
      BY <3>4, <3>6 DEF LeaseSteady, Steady, Users, On, Track
    <3>. QED
      BY <2>2, <3>1, <3>5, <3>6 DEF LiveIsThere
  <2>. QED
    BY <2>1, <2>2 DEF HeldTracksAreServed
<1>. QED
  BY <1>1, LeasesSafe, PTL

\* A release that fails is owed by somebody, unless its consumer had become inactive before
\* it got its lease; and a stream that has closed has nothing open.
THEOREM ReleasesAreOwed == LeaseSpec => []FailedReleasesAreOwed
<1>1. LeaseInv => FailedReleasesAreOwed
  <2>. SUFFICES ASSUME LeaseInv PROVE FailedReleasesAreOwed
    OBVIOUS
  <2>. USE DEF LeaseInv
  <2>1. ASSUME NEW t \in Tracks \ forgotten, parent[t] PROVE InUse(t) \/ lease[t].keepOpen
    BY <2>1 DEF OpenIsUsed, InUse, Users
  <2>2. ASSUME phase = "closed", NEW t \in Tracks PROVE lease[t] = NoLease /\ ~parent[t]
    BY <2>2 DEF CloseInOrder, LeasesNumbered
  <2>. QED
    BY <2>1, <2>2 DEF FailedReleasesAreOwed
<1>. QED
  BY <1>1, LeasesSafe, PTL

=============================================================================
