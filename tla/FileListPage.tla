----------------------------- MODULE FileListPage -----------------------------
(***************************************************************************)
(* The list of files of a file-share page (Drop.tsx) while the files of    *)
(* the share change: the change events of the local store, the refreshes   *)
(* that list the local store or the peers, and the confirmation of single  *)
(* files by the peers (remote-root-reconciliation.ts, root-list.ts).       *)
(*                                                                         *)
(* history[r] is the sequence of puts (TRUE) and deletes (FALSE) of file   *)
(* r, and a position in it is the version of what was put there.  The peers *)
(* (as one) and the local store have each seen a prefix of it.  Confirming *)
(* is what module Inquiries says; RemoteRootConfirmation implements it.    *)
(* A listing and the answer of a peer are what the store held when it was  *)
(* asked, and are handled later.                                           *)
(***************************************************************************)
EXTENDS Integers, Sequences, Inquiries

CONSTANTS MaxChanges, MaxInterruptions   \* bounds: changes of a file,
                                           \* of the role or of copies in the list

ASSUME FileListAssumption == MaxChanges \in Nat /\ MaxInterruptions \in Nat

VARIABLES
    history, remoteAt, localAt,      \* the world
    role,                            \* currentRoleRef: "replicator", "observer"
    interruptions,                   \* of the role, and onReady events
    shown,                           \* listRef: the ids that are listed
    state,                           \* remoteRootReconciliationState
    refresh,                         \* refreshList while it waits for a listing
    queued,                          \* queuedListRefreshSourceRef
    run,                             \* a run of confirmations is asked for
    context,                         \* the ids whose context in the scheduler is
                                     \* of the current rootListRevision
    flight,                          \* flight[r]: the context and the answer of an inquiry
    removedAt                        \* the last delete of r that the page learned of

world == <<history, remoteAt, localAt>>
pageVars == <<history, remoteAt, localAt, role, interruptions, shown, state, refresh,
              queued, run, context, flight, removedAt, inquiry>>

Changes == 0..MaxChanges
Immediate == {"initial-open", "join", "role-change"}
Sources == Immediate \cup {"refresh", "stale-root-revision"}
NotQueued == "none"

\* The version of r that a store holds that has seen its history up to at.
Held(r, at) == IF at > 0 /\ history[r][at] THEN at ELSE 0
Local == [r \in Roots |-> Held(r, localAt[r])]
Remote == [r \in Roots |-> Held(r, remoteAt[r])]
In(listing) == {r \in Roots : listing[r] > 0}
Exists(r) == Held(r, Len(history[r])) > 0

NotSuppressed == -1
Unversioned == 0

Idle == [stage |-> "idle", source |-> NotQueued, role |-> "replicator",
         current |-> FALSE, listing |-> [r \in Roots |-> 0],
         localListing |-> [r \in Roots |-> 0], localKnown |-> FALSE]
NoAnswer == [current |-> FALSE, status |-> "none", version |-> 0]

PageTypeOK ==
    /\ history \in [Roots -> UNION {[1..n -> BOOLEAN] : n \in Changes}]
    /\ remoteAt \in [Roots -> Changes] /\ localAt \in [Roots -> Changes]
    /\ role \in {"replicator", "observer"} /\ interruptions \in 0..MaxInterruptions
    /\ shown \subseteq Roots
    /\ state.localRootIds \subseteq Roots /\ state.remoteOnlyIds \subseteq Roots
    /\ state.suppressedIds \in [Roots -> Changes \cup {NotSuppressed}]
    /\ state.observedVersions \in [Roots -> Changes]
    /\ refresh.stage \in {"idle", "listing", "remote"}
    /\ queued \in Sources \cup {NotQueued} /\ run \in BOOLEAN
    /\ context \subseteq Roots /\ removedAt \in [Roots -> Changes]
    /\ \A r \in Roots : flight[r].status \in {"none", "present", "missing", "unknown"}
    /\ inquiry \in [Roots -> InquiryStages]

PageInit ==
    /\ history = [r \in Roots |-> <<>>]
    /\ remoteAt = [r \in Roots |-> 0] /\ localAt = [r \in Roots |-> 0]
    /\ role = "replicator" /\ interruptions = 0
    /\ shown = {}
    /\ state = [localRootIds |-> {}, remoteOnlyIds |-> {},
                suppressedIds |-> [r \in Roots |-> NotSuppressed],
                observedVersions |-> [r \in Roots |-> 0]]
    /\ refresh = Idle /\ queued = "initial-open"
    /\ run = FALSE /\ context = {}
    /\ flight = [r \in Roots |-> NoAnswer]
    /\ removedAt = [r \in Roots |-> 0]
    /\ InquiryInit

-----------------------------------------------------------------------------
(* The reconciliation state. *)

Suppressed(s) == {r \in Roots : s.suppressedIds[r] # NotSuppressed}

\* recordExplicitRootChange, of one removal (whose event may lack the version)
\* or of one addition.
RecordRemoval(s, r, version) ==
    LET known == IF version # Unversioned THEN version ELSE s.observedVersions[r]
    IN [localRootIds |-> s.localRootIds \ {r},
        remoteOnlyIds |-> s.remoteOnlyIds \ {r},
        suppressedIds |-> [s.suppressedIds EXCEPT ![r] = known],
        observedVersions |-> [s.observedVersions EXCEPT ![r] = known]]

RecordAddition(s, r, version) ==
    [localRootIds |-> s.localRootIds \cup {r},
     remoteOnlyIds |-> s.remoteOnlyIds \ {r},
     suppressedIds |-> [s.suppressedIds EXCEPT ![r] = NotSuppressed],
     observedVersions |-> [s.observedVersions EXCEPT ![r] = version]]

ObserveLocalRootSnapshot(s, listing) ==
    LET visible == In(listing) \ Suppressed(s)
        gone == (s.localRootIds \ visible) \ Suppressed(s)
    IN [s EXCEPT !.localRootIds = visible,
                 !.remoteOnlyIds = (@ \cup gone) \ visible,
                 !.observedVersions = [r \in Roots |->
                     IF r \in visible THEN listing[r] ELSE @[r]]]

RemoteVisible(s, listing) == In(listing) \ Suppressed(s)

MutConfirmationIds(s, listing) == Suppressed(s) \cap In(listing)

ConfirmationIds(s, listing) ==
    (s.remoteOnlyIds \ In(listing)) \cup (Suppressed(s) \cap In(listing))

ObserveRemoteRootSnapshot(s, listing) ==
    LET visible == RemoteVisible(s, listing)
    IN [s EXCEPT !.remoteOnlyIds = (@ \cup visible) \ s.localRootIds,
                 !.observedVersions = [r \in Roots |->
                     IF r \in visible /\ listing[r] > @[r] THEN listing[r] ELSE @[r]]]

\* isCausallyNewer than what the suppression remembers, if it remembers any.
MutSupersedes(version, suppression) == TRUE
Supersedes(version, suppression) ==
    suppression # Unversioned /\ version > suppression

-----------------------------------------------------------------------------
(* The world. *)

\* rootListRevision goes up: what was asked before is out of date.
MutOutdate ==
    /\ refresh' = refresh
    /\ flight' = [r \in Roots |-> [flight[r] EXCEPT !.current = FALSE]]

Outdate ==
    /\ refresh' = [refresh EXCEPT !.current = FALSE]
    /\ flight' = [r \in Roots |-> [flight[r] EXCEPT !.current = FALSE]]

\* filesChangeListener, for the change of r that the local store makes when it
\* gets to version to of its history.
HandleChange(r, to) ==
    LET added == history'[r][to]
        before == Held(r, localAt[r])
    IN
    IF ~added /\ before = 0
    THEN UNCHANGED <<shown, state, refresh, context, flight, removedAt, inquiry>>
    ELSE /\ Outdate
         /\ context' = {}
         /\ Revise({r}, {})
         /\ IF added
            THEN /\ state' = RecordAddition(state, r, to)
                 /\ shown' = shown \cup {r}
                 /\ UNCHANGED removedAt
            ELSE /\ \E version \in {before, Unversioned} :
                        state' = RecordRemoval(state, r, version)
                 /\ shown' = shown \ {r}
                 /\ removedAt' = [removedAt EXCEPT ![r] = to]

CanChange(r) == Len(history[r]) < MaxChanges
Change(r, put) ==
    /\ CanChange(r) /\ (put \/ Exists(r))
    /\ history' = [history EXCEPT ![r] = Append(@, put)]

\* A peer puts or deletes r.
ChangeElsewhere(r, put) ==
    /\ Change(r, put)
    /\ remoteAt' = [remoteAt EXCEPT ![r] = Len(history'[r])]
    /\ UNCHANGED <<localAt, role, interruptions, shown, state, refresh, queued, run,
                   context, flight, removedAt, inquiry>>

\* The user of the page does, who has seen what there is.
ChangeHere(r, put) ==
    /\ localAt[r] = Len(history[r]) /\ Change(r, put)
    /\ localAt' = [localAt EXCEPT ![r] = Len(history'[r])]
    /\ HandleChange(r, Len(history'[r]))
    /\ UNCHANGED <<remoteAt, role, interruptions, queued, run>>

RemoteCatchesUp(r) ==
    /\ remoteAt[r] < Len(history[r])
    /\ remoteAt' = [remoteAt EXCEPT ![r] = Len(history[r])]
    /\ UNCHANGED <<history, localAt, role, interruptions, shown, state, refresh, queued,
                   run, context, flight, removedAt, inquiry>>

\* A replicator is sent what it lacks, the changes of what it has in their order.
LocalCatchesUp(r) ==
    /\ role = "replicator" /\ localAt[r] < Len(history[r])
    /\ \E to \in localAt[r] + 1 .. Len(history[r]) :
           /\ Local[r] > 0 => to = localAt[r] + 1
           /\ localAt' = [localAt EXCEPT ![r] = to]
           /\ UNCHANGED history
           /\ HandleChange(r, to)
    /\ UNCHANGED <<remoteAt, role, interruptions, queued, run>>

\* The local store gives up an entry that the peers have: no event tells the page.
Prune(r) ==
    /\ Held(r, localAt[r]) > 0 /\ remoteAt[r] = localAt[r]
    /\ localAt' = [localAt EXCEPT ![r] = 0]
    /\ UNCHANGED <<history, remoteAt, role, interruptions, shown, state, refresh, queued,
                   run, context, flight, removedAt, inquiry>>

-----------------------------------------------------------------------------
(* Refreshing the list. *)

\* coalesceRootListRefreshSource
Coalesced(next) == IF queued \in Immediate /\ next \notin Immediate THEN queued ELSE next

\* updateList, by the timer and by the events of the log.
RequestRefresh(source) ==
    /\ queued' = Coalesced(source) /\ queued' # queued
    /\ UNCHANGED <<world, role, interruptions, shown, state, refresh, run, context,
                   flight, removedAt, inquiry>>

\* updateRole and selectRole
ChangeRole ==
    /\ interruptions < MaxInterruptions /\ interruptions' = interruptions + 1
    /\ role' = IF role = "observer" THEN "replicator" ELSE "observer"
    /\ queued' = Coalesced("role-change")
    /\ UNCHANGED <<world, shown, state, refresh, run, context, flight, removedAt, inquiry>>

Heard(listing, from) == [r \in Roots |-> IF r \in from THEN listing[r] ELSE 0]
Newest(a, b) == [r \in Roots |-> IF a[r] > b[r] THEN a[r] ELSE b[r]]

\* refreshList lists the store for the role of now.
StartRefresh ==
    /\ refresh.stage = "idle" /\ queued # NotQueued
    /\ queued' = NotQueued
    /\ \E from \in SUBSET Roots, known \in BOOLEAN :
           refresh' = [stage |-> "listing", source |-> queued, role |-> role,
                       current |-> TRUE, localListing |-> Local,
                       localKnown |-> known \/ role = "replicator",
                       listing |-> IF role = "replicator" THEN Local
                                   ELSE Newest(Local, Heard(Remote, from))]
    /\ UNCHANGED <<world, role, interruptions, shown, state, run, context, flight,
                   removedAt, inquiry>>

\* scheduleRemoteRootConfirmations, which renews the context of what is queued; no
\* run while a transfer is active or when the last one is too recent.
Waiting == {r \in Roots : inquiry[r] = "waiting"}
Confirm(forgotten, ids, mayRun) ==
    /\ Revise(forgotten, ids)
    /\ context' = ((context \cup Waiting) \ forgotten) \cup ids
    /\ \E runs \in {mayRun, FALSE} : run' = (run \/ runs)

NothingToConfirm == UNCHANGED <<run, context, inquiry>>

\* The peers' listing has arrived in the page.
MergeRemote(s, listing, mayRun) ==
    /\ state' = ObserveRemoteRootSnapshot(s, listing)
    /\ shown' = shown \cup RemoteVisible(s, listing)
    /\ Confirm(RemoteVisible(s, listing), ConfirmationIds(s, listing), mayRun)

\* queueRefreshAfterStaleRootRevision
StaleListing ==
    /\ ~refresh.current
    /\ queued' = Coalesced("stale-root-revision")
    /\ refresh' = Idle
    /\ NothingToConfirm /\ UNCHANGED <<shown, state>>

\* shouldReconcileRemoteRootFiles; for "refresh" it depends on the time.
Reconciles(reconcile) ==
    /\ reconcile => refresh.role = "replicator" /\ refresh.source # "stale-root-revision"
    /\ refresh.role = "replicator" /\ refresh.source \in Immediate => reconcile

ListingArrives ==
    /\ refresh.stage = "listing"
    /\ \/ StaleListing
       \/ /\ refresh.current
          /\ UNCHANGED queued
          /\ \E reconcile \in BOOLEAN, from \in SUBSET Roots :
                 /\ Reconciles(reconcile) /\ (~reconcile => from = {})
                 /\ refresh' = IF reconcile
                               THEN [refresh EXCEPT !.stage = "remote",
                                                    !.listing = Heard(Remote, from)]
                               ELSE Idle
          /\ IF refresh.role = "replicator"
             THEN /\ state' = ObserveLocalRootSnapshot(state, refresh.listing)
                  /\ shown' = shown \cup (In(refresh.listing) \ Suppressed(state))
                  /\ NothingToConfirm
             ELSE IF ~refresh.localKnown
             THEN /\ shown' = shown \cup (In(refresh.listing) \ Suppressed(state))
                  /\ NothingToConfirm /\ UNCHANGED state
             ELSE MergeRemote(ObserveLocalRootSnapshot(state, refresh.localListing),
                              refresh.listing, TRUE)
    /\ UNCHANGED <<world, role, interruptions, flight, removedAt>>

RemoteListingArrives ==
    /\ refresh.stage = "remote"
    /\ \/ StaleListing
       \/ /\ refresh.current
          /\ MergeRemote(state, refresh.listing, TRUE)
          /\ refresh' = Idle /\ UNCHANGED queued
    /\ UNCHANGED <<world, role, interruptions, flight, removedAt>>

ListingFails ==
    /\ refresh.stage # "idle" /\ refresh' = Idle
    /\ UNCHANGED <<world, role, interruptions, shown, state, queued, run, context, flight,
                   removedAt, inquiry>>

-----------------------------------------------------------------------------
(* Confirmations. *)

AskPeers ==
    /\ run /\ run' = FALSE
    /\ Ask(Waiting)
    /\ flight' = [r \in Roots |-> IF r \in Waiting
                                  THEN [NoAnswer EXCEPT !.current = r \in context]
                                  ELSE flight[r]]
    /\ UNCHANGED <<world, role, interruptions, shown, state, refresh, queued, context, removedAt>>

\* confirmRemoteRoot has asked the peers that are known, if any is.
PeersAnswer(r, heard) ==
    /\ inquiry[r] \in {"asked", "dropped", "again"} /\ flight[r].status = "none"
    /\ flight' = [flight EXCEPT ![r] =
           [@ EXCEPT !.status = IF ~heard THEN "unknown"
                                ELSE IF Remote[r] > 0 THEN "present" ELSE "missing",
                     !.version = IF heard THEN remoteAt[r] ELSE 0]]
    /\ UNCHANGED <<world, role, interruptions, shown, state, refresh, queued, run, context,
                   removedAt, inquiry>>

\* onResult with the answer: how it ends is in the status until it is finished.
Applied(r, status) == flight' = [flight EXCEPT ![r] = [@ EXCEPT !.status = status]]

TellPresent(r) ==
    LET accepted == \/ state.suppressedIds[r] = NotSuppressed
                    \/ Supersedes(flight[r].version, state.suppressedIds[r])
    IN
    /\ flight[r].status = "present"
    /\ IF accepted
       THEN /\ state' = [state EXCEPT
                   !.suppressedIds[r] = NotSuppressed,
                   !.observedVersions[r] = flight[r].version,
                   !.remoteOnlyIds = IF r \in state.localRootIds THEN @ \ {r} ELSE @ \cup {r}]
            /\ shown' = shown \cup {r}
            /\ Applied(r, "present")
       ELSE Applied(r, "unknown") /\ UNCHANGED <<state, shown>>
    /\ UNCHANGED removedAt

TellMissing(r) ==
    /\ flight[r].status = "missing"
    /\ Applied(r, "missing")
    /\ IF r \in state.remoteOnlyIds
       THEN /\ state' = [state EXCEPT !.remoteOnlyIds = @ \ {r},
                                      !.suppressedIds[r] = state.observedVersions[r]]
            /\ shown' = shown \ {r}
            /\ removedAt' = [removedAt EXCEPT ![r] = flight[r].version]
       ELSE UNCHANGED <<state, shown, removedAt>>

TellPage(r) ==
    /\ flight[r].status # "none" /\ Tell(r)
    /\ IF flight[r].current /\ flight[r].status # "unknown"
       THEN TellPresent(r) \/ TellMissing(r)
       ELSE Applied(r, "unknown") /\ UNCHANGED <<state, shown, removedAt>>
    /\ UNCHANGED <<world, role, interruptions, refresh, queued, run, context>>

FinishInquiry(r) ==
    /\ flight[r].status # "none" /\ inquiry[r] \in {"told", "dropped", "again"}
    /\ Finish(r, flight[r].status = "unknown")
    /\ context' = IF inquiry'[r] = "none" THEN context \ {r} ELSE context
    /\ flight' = [flight EXCEPT ![r] = NoAnswer]
    /\ UNCHANGED <<world, role, interruptions, shown, state, refresh, queued, run, removedAt>>

\* onReady of the pending-ready resolver: the list has a newer copy of r.
ReadyRootArrives(r) ==
    /\ r \in shown /\ role = "replicator"
    /\ interruptions < MaxInterruptions /\ interruptions' = interruptions + 1
    /\ Outdate /\ context' = {}
    /\ UNCHANGED <<world, role, shown, state, queued, run, removedAt, inquiry>>

PageNext ==
    \/ \E r \in Roots : \/ \E put \in BOOLEAN : ChangeElsewhere(r, put) \/ ChangeHere(r, put)
                        \/ RemoteCatchesUp(r) \/ LocalCatchesUp(r) \/ Prune(r)
                        \/ ReadyRootArrives(r)
                        \/ \E heard \in BOOLEAN : PeersAnswer(r, heard)
                        \/ TellPage(r) \/ FinishInquiry(r)
    \/ RequestRefresh("refresh") \/ RequestRefresh("join") \/ ChangeRole
    \/ StartRefresh \/ ListingArrives \/ RemoteListingArrives \/ ListingFails
    \/ AskPeers

PageSpec == PageInit /\ [][PageNext]_pageVars

\* The timer of the page runs, its promises settle, the peers and a replicating
\* store get what they lack, and again and again the listings and the answers are
\* complete and no transfer keeps the page from asking for confirmations.
Reconciled == RemoteListingArrives /\ refresh.current /\ In(refresh.listing) = In(Remote) /\ run'
ObserverListed == /\ ListingArrives /\ refresh.role = "observer" /\ refresh.current
                  /\ refresh.localKnown /\ In(refresh.listing) = In(Newest(Local, Remote)) /\ run'

PageFairness ==
    /\ WF_pageVars(RequestRefresh("refresh")) /\ WF_pageVars(StartRefresh)
    /\ WF_pageVars(ListingArrives) /\ WF_pageVars(RemoteListingArrives)
    /\ SF_pageVars(StartRefresh /\ refresh'.localKnown /\ In(refresh'.listing) = In(Newest(Local, Remote)))
    /\ SF_pageVars(ListingArrives /\ refresh'.stage = "remote" /\ In(refresh'.listing) = In(Remote))
    /\ SF_pageVars(Reconciled) /\ SF_pageVars(ObserverListed)
    /\ WF_pageVars(AskPeers)
    /\ \A r \in Roots : /\ WF_pageVars(RemoteCatchesUp(r)) /\ WF_pageVars(LocalCatchesUp(r))
                        /\ WF_pageVars(\E heard \in BOOLEAN : PeersAnswer(r, heard))
                        /\ SF_pageVars(PeersAnswer(r, TRUE))
                        /\ WF_pageVars(TellPage(r)) /\ WF_pageVars(FinishInquiry(r))

PageFairSpec == PageSpec /\ PageFairness

-----------------------------------------------------------------------------
PutSince(r, at) == \E i \in at + 1 .. Len(history[r]) : history[r][i]
DeletedSince(r, at) == \E i \in at + 1 .. Len(history[r]) : ~history[r][i]

\* Once the page has learned that a file is gone, by an event or by its peers, it
\* lists it only if it has been put again since, or its own store is behind the
\* peers and still has it: no listing, no confirmation and no refresh that was
\* under way brings it back.
NoGhost ==
    \A r \in shown : removedAt[r] > 0 => PutSince(r, removedAt[r]) \/ Local[r] > 0

\* What the page hides was deleted after the version that the page remembers: no
\* late answer makes it hide a file that it has seen more recently.  (A removal
\* without a version may hide a newer file that the own store has yet to get.)
HiddenWasDeleted ==
    \A r \in Suppressed(state) : \/ DeletedSince(r, state.suppressedIds[r])
                                 \/ localAt[r] \in 1 .. state.suppressedIds[r] - 1

\* What the own store has is listed, and so is all that the page believes to be there: no
\* listing, answer or refresh that was under way takes away a file that the store has.
KnownIsListed == In(Local) \cup state.localRootIds \cup state.remoteOnlyIds \subseteq shown

\* Once nothing changes any more, the page lists what its store or its peers have,
\* and a replicator therefore what there is, unless it has
\* listed a file that its reconciliation state does not know of (it does so when an
\* observer could not list its own store).
Tracked == shown \subseteq state.localRootIds \cup state.remoteOnlyIds
PageIsRight == shown = In(Local) \cup In(Remote)
PageConverges == []Tracked => <>[]PageIsRight
=============================================================================
