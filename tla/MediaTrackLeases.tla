--------------------------- MODULE MediaTrackLeases ---------------------------
\* The tracks a media stream has open (MediaStreamDB in streaming-utils): the
\* leases its iterators, monitors and default replication hold on them, the
\* live replication the iterators share, and the close of the stream.
\*
\* A consumer has one track at a time.  What runs inside a track's queue without
\* an await is one step; "opening" and "closing" are the awaits inside it.  A
\* lease is named by the number of its opening, n.
EXTENDS Naturals, FiniteSets

CONSTANTS
    Tracks,
    Viewers,      \* live iterators
    Monitors,     \* subscriptions to the maximum time or to replication
    Defaults,     \* tracks replicated by default: one consumer each
    KeepOpen,     \* consumers with keepTracksOpen
    MaxOpens,     \* bound on the openings of a track
    MaxFaults   \* bound on the calls that fail and on closes from outside

Consumers == Viewers \cup Monitors \cup Defaults

ASSUME LeaseAssumption ==
    /\ MaxOpens \in Nat /\ MaxFaults \in Nat
    /\ IsFiniteSet(Consumers) /\ KeepOpen \subseteq Viewers \cup Monitors
    /\ Viewers \cap Monitors = {} /\ (Viewers \cup Monitors) \cap Defaults = {}

VARIABLES
    lease,      \* trackLeases
    opens,      \* how often each track has been opened
    parent,     \* is the stream a parent of the open track?
    segment,    \* the live segment of the track's source
    whole,      \* does the source replicate the whole track?
    hold,     \* what each consumer has
    life,       \* of each consumer
    phase,      \* of the stream's close
    pending,    \* closers the close is waiting for
    todo,       \* tracks closeOpenTracks has yet to look at
    failed,     \* has a cleanup of this close failed?
    faults,   \* faults so far
    outside,    \* leases whose track was closed by somebody else
    forgotten   \* tracks a release failed for that nobody kept

leaseVars == <<lease, opens, parent, segment, whole, hold, life, phase,
               pending, todo, failed, faults, outside, forgotten>>
trackVars == <<lease, opens, parent, segment, whole>>
closeVars == <<phase, pending, todo, failed>>
faultVars == <<faults, outside, forgotten>>

NoLease == [n |-> 0, references |-> 0, live |-> 0, started |-> FALSE, keepOpen |-> FALSE]
NoHold == [stage |-> "none"]
Handle(t, stage, n) == [track |-> t, stage |-> stage, n |-> n, kept |-> FALSE,
                        released |-> FALSE, live |-> "no"]
Holding == {"acquired", "joining", "starting", "started", "startFailed", "replicating",
            "held", "releasing", "ending", "ended", "leaving", "closing", "owed"}
InLiveQueue == {"starting", "started", "startFailed", "ending", "ended", "leaving", "closing"}

LeaseInit ==
    /\ lease = [t \in Tracks |-> NoLease] /\ opens = [t \in Tracks |-> 0]
    /\ parent = [t \in Tracks |-> FALSE]
    /\ segment = [t \in Tracks |-> "none"] /\ whole = [t \in Tracks |-> FALSE]
    /\ hold = [c \in Consumers |-> NoHold] /\ life = [c \in Consumers |-> "off"]
    /\ phase = "open" /\ pending = {} /\ todo = {} /\ failed = FALSE
    /\ faults = 0 /\ outside = {} /\ forgotten = {}

Stage(c) == hold[c].stage
On(c, t) == Stage(c) # "none" /\ hold[c].track = t
Track(c) == hold[c].track
\* trackLeases.get(trackId) === lease
Current(c) == lease[Track(c)].n = hold[c].n
QueueFree(t) == \A c \in Consumers : On(c, t) => Stage(c) \notin {"opening", "closing"}
LiveFree(c) == \A d \in Consumers \ {c} :
    On(d, Track(c)) /\ hold[d].n = hold[c].n => Stage(d) \notin InLiveQueue

To(c, stage) == hold' = [hold EXCEPT ![c].stage = stage]
Drop(c) == hold' = [hold EXCEPT ![c] = NoHold]
Fault == faults < MaxFaults /\ faults' = faults + 1 /\ UNCHANGED <<outside, forgotten>>
\* A wait that was aborted, or whose track has gone, fails without a fault.
FaultUnless(excused) == IF excused THEN UNCHANGED faultVars ELSE Fault

-----------------------------------------------------------------------------
\* Consumers come, pause, resume and go.

Appear(c) ==
    /\ life[c] = "off" /\ phase = "open"
    /\ life' = [life EXCEPT ![c] = "on"]
    /\ UNCHANGED <<trackVars, hold, closeVars, faultVars>>

Pause(c) ==
    /\ c \in Viewers /\ life[c] = "on"
    /\ life' = [life EXCEPT ![c] = "paused"]
    /\ UNCHANGED <<trackVars, hold, closeVars, faultVars>>

\* Play goes on once what was owed from before the pause is closed.
Resume(c) ==
    /\ life[c] = "paused" /\ Stage(c) = "none"
    /\ life' = [life EXCEPT ![c] = "on"]
    /\ UNCHANGED <<trackVars, hold, closeVars, faultVars>>

\* close of an iterator, stop of a monitor, removal of a track.
Stop(c) ==
    /\ life[c] \in {"on", "paused"}
    /\ life' = [life EXCEPT ![c] = "closing"]
    /\ UNCHANGED <<trackVars, hold, closeVars, faultVars>>

Stopped(c) ==
    /\ life[c] = "closing" /\ Stage(c) = "none"
    /\ life' = [life EXCEPT ![c] = "gone"] /\ pending' = pending \ {c}
    /\ UNCHANGED <<trackVars, hold, phase, todo, failed, faultVars>>

-----------------------------------------------------------------------------
\* acquireTrackLease.

AddTrack(c, t) ==
    /\ life[c] = "on" /\ Stage(c) = "none"
    /\ hold' = [hold EXCEPT ![c] = Handle(t, "queued", 0)]
    /\ UNCHANGED <<trackVars, life, closeVars, faultVars>>

Refused(c) ==
    /\ Stage(c) = "queued" /\ QueueFree(Track(c)) /\ phase # "open"
    /\ Drop(c)
    /\ UNCHANGED <<trackVars, life, closeVars, faultVars>>

Shared(l, c) == [l EXCEPT !.references = @ + 1, !.keepOpen = @ \/ c \in KeepOpen]

ShareLease(c) ==
    /\ Stage(c) = "queued" /\ QueueFree(Track(c)) /\ phase = "open"
    /\ lease[Track(c)] # NoLease /\ parent[Track(c)]
    /\ lease' = [lease EXCEPT ![Track(c)] = Shared(@, c)]
    /\ hold' = [hold EXCEPT ![c] = Handle(Track(c), "acquired", lease[Track(c)].n)]
    /\ UNCHANGED <<opens, parent, segment, whole, life, closeVars, faultVars>>

\* A lease whose track was closed by somebody else makes way for a new one.
StartOpening(c) ==
    /\ Stage(c) = "queued" /\ QueueFree(Track(c)) /\ phase = "open"
    /\ ~parent[Track(c)] /\ opens[Track(c)] < MaxOpens
    /\ lease' = [lease EXCEPT ![Track(c)] = NoLease]
    /\ To(c, "opening")
    /\ UNCHANGED <<opens, parent, segment, whole, life, closeVars, faultVars>>

Opened(c) ==
    /\ Stage(c) = "opening"
    /\ opens' = [opens EXCEPT ![Track(c)] = @ + 1]
    /\ parent' = [parent EXCEPT ![Track(c)] = TRUE]
    /\ lease' = [lease EXCEPT ![Track(c)] = Shared([NoLease EXCEPT !.n = opens'[Track(c)]], c)]
    /\ hold' = [hold EXCEPT ![c] = Handle(Track(c), "acquired", opens'[Track(c)])]
    /\ UNCHANGED <<segment, whole, life, closeVars, faultVars>>

OpeningFails(c) ==
    /\ Stage(c) = "opening" /\ Fault /\ Drop(c)
    /\ UNCHANGED <<trackVars, life, closeVars>>

\* What the consumer does with its lease.  An iterator that was paused or closed
\* meanwhile, or a monitor that was stopped, gives it back at once, and does not
\* keep it for a retry.
Inactive(c) == life[c] # "on" /\ c \notin Defaults
Next1(c) == IF Inactive(c) THEN "releasing"
            ELSE IF c \in Viewers THEN "joining"
            ELSE IF c \in Defaults THEN "replicating" ELSE "held"

Acquired(c) ==
    /\ Stage(c) = "acquired"
    /\ hold' = [hold EXCEPT ![c].stage = Next1(c), ![c].kept = ~Inactive(c)]
    /\ UNCHANGED <<trackVars, life, closeVars, faultVars>>

-----------------------------------------------------------------------------
\* acquireLivestream, and the replication of whole tracks.

JoinLive(c) ==
    LET t == Track(c)
        start == lease[t].live = 0 /\ ~lease[t].started IN
    /\ Stage(c) = "joining" /\ LiveFree(c) /\ QueueFree(t)
    /\ \/ ~Current(c) /\ To(c, "releasing") /\ UNCHANGED lease
       \/ /\ Current(c)
          /\ lease' = [lease EXCEPT ![t].live = @ + 1]
          /\ hold' = [hold EXCEPT ![c].stage = IF start THEN "starting" ELSE "held",
                                      ![c].live = "yes"]
    /\ UNCHANGED <<opens, parent, segment, whole, life, closeVars, faultVars>>

StartLive(c) ==
    /\ Stage(c) = "starting" /\ Current(c) /\ parent[Track(c)]
    /\ segment' = [segment EXCEPT ![Track(c)] = "live"]
    /\ To(c, "started")
    /\ UNCHANGED <<lease, opens, parent, whole, life, closeVars, faultVars>>

StartFails(c) ==
    /\ Stage(c) = "starting"
    /\ FaultUnless(life[c] # "on" \/ ~Current(c) \/ ~parent[Track(c)])
    /\ To(c, "startFailed")
    /\ UNCHANGED <<trackVars, life, closeVars>>

Started(c) ==
    /\ Stage(c) = "started" /\ QueueFree(Track(c))
    /\ IF Current(c)
       THEN To(c, "held") /\ lease' = [lease EXCEPT ![Track(c)].started = TRUE]
       ELSE To(c, "startFailed") /\ UNCHANGED lease
    /\ UNCHANGED <<opens, parent, segment, whole, life, closeVars, faultVars>>

StartUndone(c) ==
    /\ Stage(c) = "startFailed" /\ QueueFree(Track(c))
    /\ IF Current(c)
       THEN /\ lease' = [lease EXCEPT ![Track(c)].live = @ - 1]
            /\ hold' = [hold EXCEPT ![c].stage = "releasing", ![c].live = "no"]
       ELSE To(c, "releasing") /\ UNCHANGED lease
    /\ UNCHANGED <<opens, parent, segment, whole, life, closeVars, faultVars>>

\* Replicating the whole track ends the live segment first.
Ended(t) == segment' = [segment EXCEPT ![t] = IF @ = "live" THEN "ended" ELSE @]

ReplicateAll(c) ==
    /\ Stage(c) = "replicating" /\ Current(c) /\ parent[Track(c)]
    /\ Ended(Track(c)) /\ whole' = [whole EXCEPT ![Track(c)] = TRUE]
    /\ To(c, "held")
    /\ UNCHANGED <<lease, opens, parent, life, closeVars, faultVars>>

ReplicateFails(c) ==
    /\ Stage(c) = "replicating"
    /\ \/ ~(Current(c) /\ parent[Track(c)]) /\ UNCHANGED <<segment, faultVars>>
       \/ /\ Current(c) /\ parent[Track(c)] /\ Fault
          /\ Ended(Track(c)) \/ UNCHANGED segment
    /\ To(c, "releasing")
    /\ UNCHANGED <<lease, opens, parent, whole, life, closeVars>>

-----------------------------------------------------------------------------
\* release.

\* A consumer lets its track go: it has ended or is not wanted any more.  What a
\* failed release left is tried again.
Leave(c) ==
    /\ Stage(c) \in {"held", "owed"}
    /\ c \in Defaults => life[c] = "closing"
    /\ To(c, "releasing")
    /\ UNCHANGED <<trackVars, life, closeVars, faultVars>>

\* Mutant: a release that is tried again gives its references back again.
MutGiveBack(l, h) == [l EXCEPT !.references = IF @ = 0 THEN 0 ELSE @ - 1,
                               !.live = IF h.live = "yes" THEN @ - 1 ELSE @]
GiveBack(l, h) == [l EXCEPT !.references = IF h.released THEN @ ELSE @ - 1,
                            !.live = IF h.live = "yes" THEN @ - 1 ELSE @]

ReleaseReferences(c) ==
    LET l == GiveBack(lease[Track(c)], hold[c]) IN
    /\ Stage(c) = "releasing" /\ LiveFree(c) /\ QueueFree(Track(c))
    /\ IF Current(c)
       THEN /\ lease' = [lease EXCEPT ![Track(c)] = l]
            /\ hold' = [hold EXCEPT
                   ![c].released = TRUE,
                   ![c].live = IF @ = "yes" THEN "released" ELSE @,
                   ![c].stage = IF l.live = 0 /\ l.started THEN "ending" ELSE "leaving"]
       ELSE Drop(c) /\ UNCHANGED lease
    /\ UNCHANGED <<opens, parent, segment, whole, life, closeVars, faultVars>>

EndLive(c) ==
    /\ Stage(c) = "ending"
    /\ segment' = [segment EXCEPT ![Track(c)] = IF Current(c) THEN "none" ELSE @]
    /\ To(c, "ended")
    /\ UNCHANGED <<lease, opens, parent, whole, life, closeVars, faultVars>>

LiveEnded(c) ==
    /\ Stage(c) = "ended" /\ QueueFree(Track(c))
    /\ lease' = [lease EXCEPT ![Track(c)].started =
                     IF Current(c) /\ lease[Track(c)].live = 0 THEN FALSE ELSE @]
    /\ To(c, "leaving")
    /\ UNCHANGED <<opens, parent, segment, whole, life, closeVars, faultVars>>

\* Mutant: nobody looks whether others have come while live replication ended.
MutRetires(c) == Current(c) /\ ~lease[Track(c)].keepOpen
\* Does the last reference take the track with it?
Retires(c) == Current(c) /\ lease[Track(c)].references = 0 /\ ~lease[Track(c)].keepOpen

LeaveTrack(c) ==
    /\ Stage(c) = "leaving" /\ QueueFree(Track(c))
    /\ IF Retires(c) THEN To(c, "closing") ELSE Drop(c)
    /\ UNCHANGED <<trackVars, life, closeVars, faultVars>>

\* The track closes: what it replicated ends with it.
TrackCloses(t) ==
    /\ parent' = [parent EXCEPT ![t] = FALSE]
    /\ segment' = [segment EXCEPT ![t] = "none"] /\ whole' = [whole EXCEPT ![t] = FALSE]

Retired(c) ==
    /\ Stage(c) = "closing"
    /\ TrackCloses(Track(c)) /\ lease' = [lease EXCEPT ![Track(c)] = NoLease]
    /\ Drop(c)
    /\ UNCHANGED <<opens, life, closeVars, faultVars>>

\* Mutant: no consumer keeps a release that failed.
MutReleaseFails(c) ==
    /\ Stage(c) \in {"ending", "closing"} /\ Current(c) /\ parent[Track(c)]
    /\ faults < MaxFaults /\ faults' = faults + 1
    /\ Drop(c)
    /\ UNCHANGED <<trackVars, life, closeVars, outside, forgotten>>

\* A release that fails is kept by its consumer for the next attempt, or is lost.
\* A consumer that is closing reports the failure.
ReleaseFails(c) ==
    /\ Stage(c) \in {"ending", "closing"} /\ Current(c) /\ parent[Track(c)]
    /\ faults < MaxFaults /\ faults' = faults + 1
    /\ IF hold[c].kept
       THEN /\ To(c, "owed") /\ UNCHANGED forgotten
            /\ pending' = pending \ {c} /\ failed' = (failed \/ c \in pending)
       ELSE /\ Drop(c) /\ forgotten' = forgotten \cup {Track(c)}
            /\ UNCHANGED <<pending, failed>>
    /\ UNCHANGED <<trackVars, life, phase, todo, outside>>

\* Somebody else closes or drops the track.
ClosedOutside(t) ==
    /\ parent[t] /\ QueueFree(t) /\ faults < MaxFaults /\ faults' = faults + 1
    /\ TrackCloses(t)
    /\ outside' = outside \cup {<<t, lease[t].n>>}
    /\ UNCHANGED <<lease, opens, hold, life, closeVars, forgotten>>

-----------------------------------------------------------------------------
\* The close of the stream: its consumers, its default replication, then what is
\* still open.  One that fails can be tried again.

Summon(cs) ==
    /\ pending' = {c \in cs : life[c] \in {"on", "paused", "closing"}}
    /\ life' = [c \in Consumers |-> IF c \in pending' THEN "closing" ELSE life[c]]

BeginClose ==
    /\ phase \in {"open", "failed"} /\ phase' = "consumers"
    /\ failed' = FALSE /\ Summon(Viewers \cup Monitors)
    /\ UNCHANGED <<trackVars, hold, todo, faultVars>>

ConsumersClosed ==
    /\ phase = "consumers" /\ pending = {}
    /\ \A t \in Tracks : QueueFree(t)
    /\ phase' = "defaults" /\ Summon(Defaults)
    /\ UNCHANGED <<trackVars, hold, todo, failed, faultVars>>

DefaultsClosed ==
    /\ phase = "defaults" /\ pending = {}
    /\ phase' = "tracks" /\ todo' = {t \in Tracks : lease[t] # NoLease}
    /\ UNCHANGED <<trackVars, hold, life, pending, failed, faultVars>>

\* A track whose live replication has not ended is left to the consumer that
\* will end it.
SkipTrack(t) ==
    /\ phase = "tracks" /\ t \in todo /\ lease[t].started
    /\ todo' = todo \ {t}
    /\ UNCHANGED <<trackVars, hold, life, phase, pending, failed, faultVars>>

CloseTrack(t) ==
    /\ phase = "tracks" /\ t \in todo /\ ~lease[t].started
    /\ todo' = todo \ {t}
    /\ TrackCloses(t) /\ lease' = [lease EXCEPT ![t] = NoLease]
    /\ UNCHANGED <<opens, hold, life, phase, pending, failed, faultVars>>

CloseTrackFails(t) ==
    /\ phase = "tracks" /\ t \in todo /\ ~lease[t].started /\ parent[t]
    /\ todo' = todo \ {t} /\ failed' = TRUE /\ Fault
    /\ UNCHANGED <<trackVars, hold, life, phase, pending>>

EndClose ==
    /\ phase = "tracks" /\ todo = {}
    /\ phase' = IF failed THEN "failed" ELSE "closed"
    /\ UNCHANGED <<trackVars, hold, life, pending, todo, failed, faultVars>>

LeaseNext ==
    \/ \E c \in Consumers :
           \/ Appear(c) \/ Pause(c) \/ Resume(c) \/ Stop(c) \/ Stopped(c)
           \/ \E t \in Tracks : AddTrack(c, t)
           \/ Refused(c) \/ ShareLease(c) \/ StartOpening(c) \/ Opened(c)
           \/ OpeningFails(c) \/ Acquired(c)
           \/ JoinLive(c) \/ StartLive(c) \/ StartFails(c) \/ Started(c) \/ StartUndone(c)
           \/ ReplicateAll(c) \/ ReplicateFails(c)
           \/ Leave(c) \/ ReleaseReferences(c) \/ EndLive(c) \/ LiveEnded(c)
           \/ LeaveTrack(c) \/ Retired(c) \/ ReleaseFails(c)
    \/ \E t \in Tracks : \/ ClosedOutside(t)
                         \/ SkipTrack(t) \/ CloseTrack(t) \/ CloseTrackFails(t)
    \/ BeginClose \/ ConsumersClosed \/ DefaultsClosed \/ EndClose

LeaseSpec == LeaseInit /\ [][LeaseNext]_leaseVars

-----------------------------------------------------------------------------
Users(t) == {c \in Consumers : On(c, t) /\ Stage(c) \in Holding /\ Current(c)}

\* The references of a lease are the consumers that have not given theirs back,
\* and its live references those that watch it live.
LeasesAreCounted ==
    \A t \in Tracks : lease[t] # NoLease =>
        /\ lease[t].references = Cardinality({c \in Users(t) : ~hold[c].released})
        /\ lease[t].live = Cardinality({c \in Users(t) : hold[c].live = "yes"})

\* A track stays open while one of its consumers holds it, unless it was closed
\* from outside or the stream closes.  Whoever watches it live gets it: its live
\* segment is there unless the whole track is replicated, or was to be.
HeldTracksAreServed ==
    /\ \A c \in Consumers : (Stage(c) \in Holding /\ ~hold[c].released /\ phase = "open") =>
           \/ <<Track(c), hold[c].n>> \in outside
           \/ Current(c) /\ parent[Track(c)]
    /\ \A c \in Viewers : (Stage(c) = "held" /\ Current(c) /\ parent[Track(c)]) =>
           segment[Track(c)] # "none" \/ whole[Track(c)]

InUse(t) == \E c \in Consumers : On(c, t) /\ Stage(c) \in Holding \cup {"opening"}

\* No track stays open without somebody who uses it, owes its close, or asked to
\* keep it.
NothingIsLeftOpen ==
    \A t \in Tracks : parent[t] => InUse(t) \/ lease[t].keepOpen

\* The same of the tracks whose release was not dropped by a consumer that had
\* become inactive before it got its lease.  A stream that has closed holds
\* nothing at all, whatever failed on the way.
FailedReleasesAreOwed ==
    /\ \A t \in Tracks \ forgotten : parent[t] => InUse(t) \/ lease[t].keepOpen
    /\ phase = "closed" => \A t \in Tracks : lease[t] = NoLease /\ ~parent[t]

=============================================================================
