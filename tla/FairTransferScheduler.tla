----------------------- MODULE FairTransferScheduler -----------------------
(***************************************************************************)
(* The permit scheduler of the file-share library (FairTransferScheduler   *)
(* in transfer-scheduling.ts).  Transfers ("owners") ask for permits of a  *)
(* number of slots and of bytes, in a lane; the scheduler grants them      *)
(* within a shared slot and byte budget and per-lane slot budgets, and     *)
(* rotates the owners.                                                     *)
(*                                                                         *)
(* JavaScript runs an entry point to completion, so acquire, an abort,     *)
(* release, cancelOwner, close and reopen are each one action, and the     *)
(* loop each of them ends in, pump, is the steps taken while pc is not     *)
(* "idle"; no entry point runs in between.                                 *)
(*                                                                         *)
(* A member of Requests is a call of acquire; it may be made again once    *)
(* the permit it got has been given back.  Left out: promises (a request   *)
(* is "held" as soon as it is granted), the peaks kept for diagnostics,    *)
(* and the two branches of pump for entries that are stale (an owner in    *)
(* the rotation without requests, a reservation that is not the head of    *)
(* its queue), which RotationExact and ReservedIsHead show to be dead.     *)
(***************************************************************************)
EXTENDS Integers, SequenceUtils

CONSTANTS
    Owners,       \* transfers: uploads, or reads
    Requests,     \* calls of acquire: as many as are ever made, which is finitely many
    Owner,        \* the transfer that makes the request
    Count,        \* the slots it asks for
    Bytes,        \* the bytes it asks for
    Lane,         \* the lane it asks for them in
    Lanes,
    CountLimit,   \* slots that may be held at once
    ByteLimit,    \* bytes that may be held at once
    LaneLimit,    \* slots that may be held at once in each limited lane
    NoOwner, NoRequest

ASSUME SchedulerAssumption ==
    /\ IsFiniteSet(Requests)
    /\ Owner \in [Requests -> Owners]
    /\ Count \in [Requests -> Nat \ {0}]
    /\ Bytes \in [Requests -> Nat]
    /\ Lane \in [Requests -> Lanes]
    /\ CountLimit \in Nat \ {0}
    /\ ByteLimit \in Nat \ {0}
    /\ DOMAIN LaneLimit \subseteq Lanes
    /\ \A lane \in DOMAIN LaneLimit : LaneLimit[lane] \in Nat
    /\ NoOwner \notin Owners
    /\ NoRequest \notin Requests

VARIABLES
    status,        \* what has become of each request
    held,          \* the slots and bytes each permit still covers
    queue,         \* owners: the pending requests of each owner, oldest first
    scheduled,     \* owner.scheduled
    rotation,      \* the owners in the order they are served
    reserved,      \* reservedRequest
    lastGranted,   \* lastGrantedOwnerId
    closed,        \* closedReason is set
    activeCount, activeBytes, laneCount,  \* what is granted and not given back
    pendingCount,  \* pendingPermitCount
    pc,            \* where pump is: "idle", "reserved" (its first part), "scan"
    examined       \* examinedWithoutGrant

admissionVars == <<queue, scheduled, rotation, reserved, pendingCount>>
grantVars == <<lastGranted, activeCount, activeBytes, laneCount, held>>
vars == <<status, admissionVars, grantVars, closed, pc, examined>>

Nothing == [count |-> 0, bytes |-> 0]

Init ==
    /\ status = [r \in Requests |-> "new"]
    /\ held = [r \in Requests |-> Nothing]
    /\ queue = [o \in Owners |-> <<>>]
    /\ scheduled = [o \in Owners |-> FALSE]
    /\ rotation = <<>>
    /\ reserved = NoRequest
    /\ lastGranted = NoOwner
    /\ closed = FALSE
    /\ activeCount = 0
    /\ activeBytes = 0
    /\ laneCount = [lane \in Lanes |-> 0]
    /\ pendingCount = 0
    /\ pc = "idle"
    /\ examined = 0

-----------------------------------------------------------------------------
HasSharedCapacity(r) ==
    /\ activeCount + Count[r] <= CountLimit
    /\ activeBytes = 0 \/ activeBytes + Bytes[r] <= ByteLimit

HasLaneCapacity(r) ==
    Lane[r] \in DOMAIN LaneLimit =>
        laneCount[Lane[r]] + Count[r] <= LaneLimit[Lane[r]]

CanGrant(r) == HasSharedCapacity(r) /\ HasLaneCapacity(r)

\* What acquire accepts: a request that could be granted if nothing were held.
Admissible(r) ==
    /\ Bytes[r] <= ByteLimit
    /\ Count[r] <= CountLimit
    /\ Lane[r] \in DOMAIN LaneLimit => Count[r] <= LaneLimit[Lane[r]]

\* unscheduleOwner.
MutUnscheduleOwner(o) ==
    /\ scheduled' = [scheduled EXCEPT ![o] = FALSE]
    /\ UNCHANGED rotation

UnscheduleOwner(o) ==
    /\ scheduled' = [scheduled EXCEPT ![o] = FALSE]
    /\ rotation' = Without(rotation, o)

RequestsOf(o) == {r \in Requests : Owner[r] = o}

\* The reservation once the given requests can no longer have it.
ReservationWithout(requests) ==
    IF reserved \in requests THEN NoRequest ELSE reserved

Pump == pc' = "reserved" /\ UNCHANGED examined

-----------------------------------------------------------------------------
\* acquire.  An owner that is not yet in the rotation joins it at the end, and
\* the owner that was served last gives it the front place.
Acquire(r) ==
    LET o == Owner[r]
        joined == IF scheduled[o] THEN rotation ELSE Append(rotation, o)
        demote == ~scheduled[o] /\ o # lastGranted /\ Head(joined) = lastGranted
    IN  /\ pc = "idle"
        /\ status[r] = "new"
        /\ Admissible(r)
        /\ ~closed
        /\ status' = [status EXCEPT ![r] = "queued"]
        /\ queue' = [queue EXCEPT ![o] = Append(@, r)]
        /\ pendingCount' = pendingCount + 1
        /\ scheduled' = [scheduled EXCEPT ![o] = TRUE]
        /\ rotation' = IF demote THEN ToTheEnd(joined)
                                 ELSE joined
        /\ reserved' = IF demote THEN ReservationWithout(RequestsOf(lastGranted))
                                 ELSE reserved
        /\ Pump
        /\ UNCHANGED <<grantVars, closed>>

\* removePending: the signal of a pending request aborts.
Abort(r) ==
    LET o == Owner[r]
        rest == Without(queue[o], r)
    IN  /\ pc = "idle"
        /\ status[r] = "queued"
        /\ status' = [status EXCEPT ![r] = "new"]
        /\ queue' = [queue EXCEPT ![o] = rest]
        /\ pendingCount' = pendingCount - 1
        /\ reserved' = ReservationWithout({r})
        /\ IF rest = <<>> THEN UnscheduleOwner(o)
                          ELSE UNCHANGED <<scheduled, rotation>>
        /\ Pump
        /\ UNCHANGED <<grantVars, closed>>

\* The lane's count is lowered by what is released, not by what was granted.
MutLaneCountAfter(r, count) == [laneCount EXCEPT ![Lane[r]] = @ - Count[r]]

LaneCountAfter(r, count) == [laneCount EXCEPT ![Lane[r]] = @ - count]

\* permit.release, of everything the permit still covers or of a part of it.
Release(r, count, bytes) ==
    /\ pc = "idle"
    /\ status[r] = "held"
    /\ <<count, bytes>> # <<0, 0>>
    /\ held' = [held EXCEPT ![r] = [count |-> @.count - count,
                                    bytes |-> @.bytes - bytes]]
    /\ status' = [status EXCEPT ![r] =
                      IF held'[r] = Nothing THEN "new" ELSE "held"]
    /\ activeCount' = activeCount - count
    /\ activeBytes' = activeBytes - bytes
    /\ laneCount' = LaneCountAfter(r, count)
    /\ Pump
    /\ UNCHANGED <<admissionVars, lastGranted, closed>>

\* What happens to pending requests that are cancelled.  Permits that were
\* granted are not touched.
Cancelled(requests) ==
    /\ status' = [r \in Requests |->
           IF status[r] = "queued" /\ r \in requests THEN "new" ELSE status[r]]
    /\ reserved' = ReservationWithout(requests)

\* cancelOwner.
CancelOwner(o) ==
    /\ pc = "idle"
    /\ queue[o] # <<>>
    /\ UnscheduleOwner(o)
    /\ queue' = [queue EXCEPT ![o] = <<>>]
    /\ Cancelled(RequestsOf(o))
    /\ pendingCount' = pendingCount - Len(queue[o])
    /\ Pump
    /\ UNCHANGED <<grantVars, closed>>

\* close: cancels every owner; the pump of each finds the scheduler closed.
Close ==
    /\ pc = "idle"
    /\ ~closed
    /\ closed' = TRUE
    /\ Cancelled(Requests)
    /\ queue' = [o \in Owners |-> <<>>]
    /\ scheduled' = [o \in Owners |-> FALSE]
    /\ rotation' = <<>>
    /\ pendingCount' = 0
    /\ UNCHANGED <<grantVars, pc, examined>>

\* reopen.  What is still held keeps counting against the budget.
MutReopen ==
    /\ pc = "idle"
    /\ closed
    /\ closed' = FALSE
    /\ reserved' = NoRequest
    /\ activeCount' = 0
    /\ activeBytes' = 0
    /\ UNCHANGED <<status, held, queue, scheduled, rotation, pendingCount,
                   lastGranted, laneCount, pc, examined>>

Reopen ==
    /\ pc = "idle"
    /\ closed
    /\ pendingCount = 0
    /\ \A o \in Owners : queue[o] = <<>>
    /\ closed' = FALSE
    /\ reserved' = NoRequest
    /\ UNCHANGED <<status, queue, scheduled, rotation, pendingCount, grantVars,
                   pc, examined>>

-----------------------------------------------------------------------------
\* grant, with the removal of the request from the head of its queue; the
\* owner goes to the end of the rotation if it has more requests.
Grant(r) ==
    LET o == Owner[r]
        more == Tail(queue[o]) # <<>>
        others == Without(rotation, o)
    IN  /\ queue' = [queue EXCEPT ![o] = Tail(@)]
        /\ scheduled' = [scheduled EXCEPT ![o] = more]
        /\ rotation' = IF more THEN Append(others, o) ELSE others
        /\ status' = [status EXCEPT ![r] = "held"]
        /\ held' = [held EXCEPT ![r] = [count |-> Count[r], bytes |-> Bytes[r]]]
        /\ pendingCount' = pendingCount - 1
        /\ activeCount' = activeCount + Count[r]
        /\ activeBytes' = activeBytes + Bytes[r]
        /\ laneCount' = [laneCount EXCEPT ![Lane[r]] = @ + Count[r]]
        /\ lastGranted' = o
        /\ UNCHANGED closed

\* pump has nothing to do, or a reservation still waits for shared capacity.
MutPumpStops ==
    /\ pc = "reserved"
    /\ closed \/ rotation = <<>> \/ reserved # NoRequest
    /\ pc' = "idle"
    /\ UNCHANGED <<status, admissionVars, grantVars, closed, examined>>

PumpStops ==
    /\ pc = "reserved"
    /\ \/ closed
       \/ rotation = <<>>
       \/ reserved # NoRequest /\ ~HasSharedCapacity(reserved)
    /\ pc' = "idle"
    /\ UNCHANGED <<status, admissionVars, grantVars, closed, examined>>

PumpContinues ==
    /\ pc = "reserved"
    /\ ~closed
    /\ rotation # <<>>
    /\ pc' = "scan"
    /\ examined' = 0

\* The reservation can be honoured.
PumpGrantsReserved ==
    /\ PumpContinues
    /\ reserved # NoRequest
    /\ CanGrant(reserved)
    /\ Grant(reserved)
    /\ reserved' = NoRequest

\* There is no reservation, or only its lane is saturated now.
PumpReservesNothing ==
    /\ PumpContinues
    /\ reserved # NoRequest =>
           HasSharedCapacity(reserved) /\ ~HasLaneCapacity(reserved)
    /\ reserved' = NoRequest
    /\ UNCHANGED <<status, queue, scheduled, rotation, pendingCount, grantVars,
                   closed>>

\* The scan stops once every owner was examined since the last grant.
ScanEnds ==
    /\ pc = "scan"
    /\ examined >= Len(rotation)
    /\ pc' = "idle"
    /\ examined' = 0
    /\ UNCHANGED <<status, admissionVars, grantVars, closed>>

\* One round of the scan looks at the oldest request of the front owner.
Scanned(r) ==
    /\ pc = "scan"
    /\ examined < Len(rotation)
    /\ r = Head(queue[Head(rotation)])

ScanGrants(r) ==
    /\ Scanned(r)
    /\ CanGrant(r)
    /\ Grant(r)
    /\ examined' = 0
    /\ UNCHANGED <<reserved, pc>>

RotatePast == rotation' = ToTheEnd(rotation)

\* The head only misses shared capacity: everything freed from now on is its.
MutNoReservation(r) ==
    /\ Scanned(r)
    /\ ~HasSharedCapacity(r)
    /\ HasLaneCapacity(r)
    /\ RotatePast
    /\ examined' = examined + 1
    /\ UNCHANGED <<status, queue, scheduled, reserved, pendingCount, grantVars,
                   closed, pc>>

ScanReserves(r) ==
    /\ Scanned(r)
    /\ ~HasSharedCapacity(r)
    /\ HasLaneCapacity(r)
    /\ RotatePast
    /\ reserved' = r
    /\ pc' = "idle"
    /\ examined' = 0
    /\ UNCHANGED <<status, queue, scheduled, pendingCount, grantVars, closed>>

\* A saturated lane: the other lanes may go on.
ScanPasses(r) ==
    /\ Scanned(r)
    /\ ~HasLaneCapacity(r)
    /\ RotatePast
    /\ examined' = examined + 1
    /\ UNCHANGED <<status, queue, scheduled, reserved, pendingCount, grantVars,
                   closed, pc>>

PumpStep ==
    \/ PumpStops
    \/ PumpGrantsReserved
    \/ PumpReservesNothing
    \/ ScanEnds
    \/ \E r \in Requests : ScanGrants(r) \/ ScanReserves(r) \/ ScanPasses(r)

\* What release accepts: not more than the permit still covers.
ReleaseSome(r) ==
    \E count \in 0 .. held[r].count, bytes \in 0 .. held[r].bytes :
        Release(r, count, bytes)

ReleaseAll(r) == Release(r, held[r].count, held[r].bytes)

Next ==
    \/ \E r \in Requests : Acquire(r) \/ Abort(r) \/ ReleaseSome(r)
    \/ \E o \in Owners : CancelOwner(o)
    \/ Close
    \/ Reopen
    \/ PumpStep

Spec == Init /\ [][Next]_vars

\* pump is a loop and runs to its end; and what a permit was taken for settles
\* in the end, whatever else the event loop delivers in between (hence strong
\* fairness: an entry point of the scheduler is not enabled during pump).
FairSpec ==
    /\ Spec
    /\ WF_vars(PumpStep)
    /\ \A r \in Requests : SF_vars(ReleaseAll(r))

-----------------------------------------------------------------------------
\* The counters are integers here: that they never go below zero follows from
\* Conservation.
TypeOK ==
    /\ status \in [Requests -> {"new", "queued", "held"}]
    /\ held \in [Requests -> [count : Nat, bytes : Nat]]
    /\ queue \in [Owners -> Seq(Requests)]
    /\ scheduled \in [Owners -> BOOLEAN]
    /\ rotation \in Seq(Owners)
    /\ reserved \in Requests \cup {NoRequest}
    /\ lastGranted \in Owners \cup {NoOwner}
    /\ closed \in BOOLEAN
    /\ activeCount \in Int
    /\ activeBytes \in Int
    /\ laneCount \in [Lanes -> Int]
    /\ pendingCount \in Int
    /\ pc \in {"idle", "reserved", "scan"}
    /\ examined \in Nat

\* Whatever the owners do, the permits in use stay within the shared slot and
\* byte budget and within every lane's budget, although the byte check is
\* skipped while no bytes are in use.
WithinBudget ==
    /\ activeCount <= CountLimit
    /\ activeBytes <= ByteLimit
    /\ \A lane \in DOMAIN LaneLimit : laneCount[lane] <= LaneLimit[lane]

\* The counters are exactly what the permits still cover: partial releases,
\* releases after a cancellation and a close and reopen lose or free nothing.
Conservation ==
    LET InUse == {r \in Requests : status[r] = "held"}
    IN  /\ activeCount = MapThenSumSet(LAMBDA r : held[r].count, InUse)
        /\ activeBytes = MapThenSumSet(LAMBDA r : held[r].bytes, InUse)
        /\ \A lane \in Lanes :
               laneCount[lane] = MapThenSumSet(LAMBDA r : held[r].count,
                                       {r \in InUse : Lane[r] = lane})
        /\ pendingCount =
               Cardinality({r \in Requests : status[r] = "queued"})

\* The rotation holds every owner with pending requests exactly once and no
\* other owner, so no waiting owner is forgotten and none is served twice;
\* its queue holds exactly its pending requests.
RotationExact ==
    /\ IsInjective(rotation)
    /\ \A o \in Owners :
           /\ scheduled[o] <=> o \in ToSet(rotation)
           /\ scheduled[o] <=> queue[o] # <<>>
           /\ IsInjective(queue[o])
           /\ ToSet(queue[o]) =
                  {r \in Requests : status[r] = "queued" /\ Owner[r] = o}

\* A reservation is for the oldest request of an owner that still waits, so a
\* request that was aborted or cancelled never blocks the scheduler.
ReservedIsHead ==
    reserved # NoRequest =>
        /\ queue[Owner[reserved]] # <<>>
        /\ reserved = Head(queue[Owner[reserved]])

\* When pump is done, capacity is left unused only for a reservation that does
\* not fit yet, or because every waiting owner's lane is saturated
\* ("must not reserve otherwise-free shared capacity").
WorkConserving ==
    pc = "idle" /\ ~closed =>
        IF reserved # NoRequest
        THEN ~HasSharedCapacity(reserved)
        ELSE \A o \in ToSet(rotation) : ~HasLaneCapacity(Head(queue[o]))

\* The lane of a reserved request has room as long as the reservation lasts
\* (so the branch of pump for a reservation whose lane is saturated never
\* runs), and pump never scans past a reservation.
ReservedLaneOpen ==
    reserved # NoRequest => HasLaneCapacity(reserved) /\ pc # "scan"

Pool == INSTANCE PermitPool

\* Seen by those who ask it for permits, the scheduler is a permit pool: its
\* counters, the check for bytes that it skips while none are in use, and
\* permits that outlive a close and a reopen never let more be held than the
\* budgets allow, and a permit is taken from nobody.
PoolSpec == Pool!Spec

\* "mixed request sizes therefore cannot starve": a request does not stay in
\* its queue for ever while permits are given back.
NoStarvation ==
    \A r \in Requests : status[r] = "queued" ~> status[r] # "queued"
=============================================================================
