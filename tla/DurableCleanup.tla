--------------------------- MODULE DurableCleanup ---------------------------
(***************************************************************************)
(* The cleanup of playback resources: the registry of what has yet to be   *)
(* closed, which all owners share, the drain of each owner with its        *)
(* automatic retries (resourceCleanup.ts), and the coordinator that hands  *)
(* the resources of a viewer to its drain (viewerPlaybackCleanup.ts).      *)
(* A close may succeed, fail or never end; whoever waits for it waits for  *)
(* a limited time.                                                         *)
(***************************************************************************)
EXTENDS Integers

CONSTANTS
    Owners, Resources,
    OwnerOf,            \* the owner that has created the resource
    MaxAutomaticRetries,
    MaxCalls, MaxBarriers   \* bounds for each owner: calls, and those that wait

ASSUME CleanupAssumption ==
    /\ OwnerOf \in [Resources -> Owners]
    /\ MaxAutomaticRetries \in Nat /\ MaxCalls \in Nat /\ MaxBarriers \in Nat

VARIABLES
    owned, retired,     \* of the coordinators
    entries,            \* the resources that the registry holds
    closes,             \* closes[r]: number of calls of close that are under way
    closed,
    barriers,           \* barriers[o]: number of calls of enqueueInternal that wait
    retryTimer,         \* the owners that have one
    automaticRetryAttempts,
    calls

cleanupVars == <<owned, retired, entries, closes, closed, barriers, retryTimer,
                 automaticRetryAttempts, calls>>
coordinator == <<owned, retired>>
registry == <<entries, closes, closed>>

CleanupInit ==
    /\ owned = {} /\ retired = {} /\ entries = {} /\ closed = {} /\ retryTimer = {}
    /\ closes = [r \in Resources |-> 0]
    /\ barriers = [o \in Owners |-> 0]
    /\ automaticRetryAttempts = [o \in Owners |-> 0]
    /\ calls = [o \in Owners |-> 0]

Of(o) == {r \in Resources : OwnerOf[r] = o}
PendingOf(o) == entries \cap Of(o)

-----------------------------------------------------------------------------
\* registry.retry: who has no attempt under way gets one, the others share theirs.
MutCloseAttempt(resources) ==
    closes' = [r \in Resources |-> IF r \in resources THEN closes[r] + 1 ELSE closes[r]]

CloseAttempt(resources) ==
    closes' = [r \in Resources |-> IF r \in resources /\ closes[r] = 0 THEN 1 ELSE closes[r]]

\* enqueueInternal as a lifecycle action: the budget is fresh, everything that is
\* left of any owner is tried again, and the caller waits.
Enqueue(o, resources, waiting) ==
    /\ calls[o] < MaxCalls /\ calls' = [calls EXCEPT ![o] = @ + 1]
    /\ barriers[o] + waiting <= MaxBarriers
    /\ barriers' = [barriers EXCEPT ![o] = @ + waiting]
    /\ retryTimer' = retryTimer \ {o}
    /\ automaticRetryAttempts' = [automaticRetryAttempts EXCEPT ![o] = 0]
    /\ entries' = entries \cup resources
    /\ CloseAttempt(entries')
    /\ UNCHANGED closed

\* register refuses what was retired.
RegisterResource(r) ==
    /\ r \notin retired /\ owned' = owned \cup {r}
    /\ UNCHANGED <<retired, registry, barriers, retryTimer, automaticRetryAttempts, calls>>

\* detach
MutDetached(resources) == resources
Detached(resources) == resources \ retired
Detach(resources) ==
    /\ owned' = owned \ resources /\ retired' = retired \cup Detached(resources)

\* retire
RetireResources(o, resources) ==
    /\ Detach(resources)
    /\ IF Detached(resources) = {}
       THEN UNCHANGED <<registry, barriers, retryTimer, automaticRetryAttempts, calls>>
       ELSE Enqueue(o, Detached(resources), 1)

\* retireAll: a retry and, if there is something to retire, an enqueue as well.
RetireOwner(o) ==
    LET all == Detached(Of(o) \cap owned)
    IN Detach(all) /\ Enqueue(o, all, IF all = {} THEN 1 ELSE 2)

\* retry
Retry(o) == Enqueue(o, {}, 1) /\ UNCHANGED coordinator

\* The retry timer fires: another enqueueInternal, for the owner's entries.
MutAutomaticRetry(o) ==
    /\ o \in retryTimer /\ retryTimer' = retryTimer \ {o}
    /\ CloseAttempt(PendingOf(o))
    /\ UNCHANGED <<coordinator, entries, closed, barriers, automaticRetryAttempts, calls>>

AutomaticRetry(o) ==
    /\ o \in retryTimer /\ retryTimer' = retryTimer \ {o}
    /\ barriers[o] < MaxBarriers /\ barriers' = [barriers EXCEPT ![o] = @ + 1]
    /\ CloseAttempt(PendingOf(o))
    /\ UNCHANGED <<coordinator, entries, closed, automaticRetryAttempts, calls>>

\* The browser is online or visible again.
RetryWhenUseful ==
    /\ entries # {} /\ CloseAttempt(entries)
    /\ UNCHANGED <<coordinator, entries, closed, barriers, retryTimer,
                   automaticRetryAttempts, calls>>

\* A close has ended.
CloseSettles(r, succeeds) ==
    /\ closes[r] > 0 /\ closes' = [closes EXCEPT ![r] = @ - 1]
    /\ entries' = IF succeeds THEN entries \ {r} ELSE entries
    /\ closed' = IF succeeds THEN closed \cup {r} ELSE closed
    /\ UNCHANGED <<coordinator, barriers, retryTimer, automaticRetryAttempts, calls>>

\* The attempts that a call waits for have settled, or it has waited long enough.
BarrierEnds(o) ==
    /\ barriers[o] > 0 /\ barriers' = [barriers EXCEPT ![o] = @ - 1]
    /\ CASE PendingOf(o) = {} ->
              /\ retryTimer' = retryTimer \ {o}
              /\ automaticRetryAttempts' = [automaticRetryAttempts EXCEPT ![o] = 0]
         [] PendingOf(o) # {} /\ o \notin retryTimer
                 /\ automaticRetryAttempts[o] < MaxAutomaticRetries ->
              /\ retryTimer' = retryTimer \cup {o}
              /\ automaticRetryAttempts' = [automaticRetryAttempts EXCEPT ![o] = @ + 1]
         [] OTHER -> UNCHANGED <<retryTimer, automaticRetryAttempts>>
    /\ UNCHANGED <<coordinator, registry, calls>>

CleanupNext ==
    \/ \E r \in Resources : \/ RegisterResource(r)
                            \/ \E succeeds \in BOOLEAN : CloseSettles(r, succeeds)
    \/ \E o \in Owners : \/ \E resources \in SUBSET Of(o) : RetireResources(o, resources)
                         \/ RetireOwner(o) \/ Retry(o) \/ AutomaticRetry(o) \/ BarrierEnds(o)
    \/ RetryWhenUseful

CleanupSpec == CleanupInit /\ [][CleanupNext]_cleanupVars

-----------------------------------------------------------------------------
StageOf(r) ==
    CASE r \in entries -> "retired" [] r \in closed -> "closed"
      [] r \in owned -> "owned" [] OTHER -> "unborn"

Coordinated == INSTANCE PlaybackHandles
                   WITH Handles <- Resources, handle <- [r \in Resources |-> StageOf(r)]

\* The coordinator keeps the promise that the viewer relies on.
CleanupKeepsHandles == Coordinated!HandlesSpec

\* However lifecycle actions, automatic retries and wake-ups of all owners overlap
\* with a close that fails late or never ends, close is not called while another
\* call of it is under way, nor after one has succeeded.
ClosesOnce == \A r \in Resources : closes[r] <= IF r \in closed THEN 0 ELSE 1

\* Who has something left and nobody that waits for it is tried again by a timer,
\* unless the budget of automatic retries is spent.
RetryIsScheduled ==
    \A o \in Owners : PendingOf(o) # {} /\ barriers[o] = 0 =>
        o \in retryTimer \/ automaticRetryAttempts[o] = MaxAutomaticRetries
=============================================================================
