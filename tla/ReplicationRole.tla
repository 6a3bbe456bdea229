--------------------------- MODULE ReplicationRole ---------------------------
(***************************************************************************)
(* The replication role of a file-share page: the user's choice, and the   *)
(* operations that make the log of the program replicate accordingly       *)
(* (updateRole, refreshAdaptiveReplication and selectRole of Drop.tsx,     *)
(* applyReplicationRoleGuarded of role-state.ts).  Each operation awaits   *)
(* calls of log.replicate; calls of several operations may end in any      *)
(* order, and each takes effect when it ends.                              *)
(***************************************************************************)
EXTENDS Integers

CONSTANTS
    ReplicatingRoles,   \* options of a replicator
    RoleOperations,     \* slots for operations that are under way
    MaxRevision,        \* bound on roleRevisionRef
    MaxRoleFailures     \* bound on calls of replicate that fail

ASSUME RoleAssumption ==
    ReplicatingRoles # {} /\ MaxRevision \in Nat /\ MaxRoleFailures \in Nat

VARIABLES
    currentRole,        \* currentRoleRef
    roleRevision,       \* roleRevisionRef
    persistChunkReads,  \* of the program
    replicated,         \* what the log replicates
    operation,          \* operation[o]: what it awaits, or NoOperation
    adaptive,           \* the operation that adaptiveRefreshRef is, or NoAdaptive
    owed,               \* the debounced effect has yet to call updateRole
    roleFailures,
    failed              \* a call has failed since the last updateRole

roleVars == <<currentRole, roleRevision, persistChunkReads, replicated, operation,
              adaptive, owed, roleFailures, failed>>

Observer == "observer"      \* the role false
RolesOfPage == ReplicatingRoles \cup {Observer}
NoOperation == [awaits |-> "nothing", applying |-> Observer, revision |-> 0]
NoAdaptive == "none"

RoleInit ==
    /\ currentRole \in RolesOfPage /\ replicated = currentRole
    /\ persistChunkReads = (currentRole # Observer)
    /\ roleRevision = 0
    /\ operation = [o \in RoleOperations |-> NoOperation]
    /\ adaptive = NoAdaptive
    /\ owed = TRUE      \* the effect runs when the page is mounted
    /\ roleFailures = 0 /\ failed = FALSE

RoleTypeOK ==
    /\ currentRole \in RolesOfPage /\ replicated \in RolesOfPage
    /\ persistChunkReads \in BOOLEAN /\ owed \in BOOLEAN /\ failed \in BOOLEAN
    /\ roleRevision \in 0..MaxRevision /\ roleFailures \in 0..MaxRoleFailures
    /\ adaptive \in RoleOperations \cup {NoAdaptive}
    /\ operation \in [RoleOperations -> [awaits : {"nothing", "off", "on", "rebalance"},
                                        applying : RolesOfPage, revision : 0..MaxRevision]]

Free(o) == operation[o] = NoOperation
Awaits(o, call, r, revision) ==
    operation' = [operation EXCEPT ![o] =
        [awaits |-> call, applying |-> r, revision |-> revision]]

\* selectRole("observer"), or a change of a setting: an effect calls updateRole
\* when the user has stopped changing.
SelectRole(observe) ==
    /\ IF observe /\ currentRole # Observer
       THEN /\ roleRevision < MaxRevision /\ roleRevision' = roleRevision + 1
            /\ currentRole' = Observer /\ persistChunkReads' = FALSE
       ELSE UNCHANGED <<roleRevision, currentRole, persistChunkReads>>
    /\ owed' = TRUE
    /\ UNCHANGED <<replicated, operation, adaptive, roleFailures, failed>>

\* updateRole up to its first await, in applyReplicationRoleGuarded.
UpdateRole(o, r) ==
    /\ Free(o) /\ owed /\ owed' = FALSE
    /\ roleRevision < MaxRevision /\ roleRevision' = roleRevision + 1
    /\ currentRole' = r /\ persistChunkReads' = (r # Observer)
    /\ Awaits(o, "off", r, roleRevision + 1)
    /\ failed' = FALSE
    /\ UNCHANGED <<replicated, adaptive, roleFailures>>

\* refreshAdaptiveReplication, after a transfer or when a file is ready.
RefreshAdaptively(o) ==
    /\ Free(o) /\ currentRole # Observer /\ adaptive = NoAdaptive
    /\ adaptive' = o
    /\ persistChunkReads' = TRUE
    /\ Awaits(o, "rebalance", currentRole, roleRevision)
    /\ UNCHANGED <<currentRole, roleRevision, replicated, owed, roleFailures, failed>>

\* The loops of updateRole and of refreshAdaptiveReplication: while the revision
\* is not the one that was applied, what is the role now is applied.
Release(o) ==
    /\ operation' = [operation EXCEPT ![o] = NoOperation]
    /\ adaptive' = IF adaptive = o THEN NoAdaptive ELSE adaptive

MutUntilCurrent(o) == Release(o) /\ UNCHANGED persistChunkReads

UntilCurrent(o) ==
    IF operation[o].revision = roleRevision
    THEN Release(o) /\ UNCHANGED persistChunkReads
    ELSE /\ Awaits(o, "off", currentRole, roleRevision)
         /\ persistChunkReads' = (currentRole # Observer)
         /\ UNCHANGED adaptive

\* replicate(false) is over: the role is applied unless it is outdated.
ReplicatesNothing(o) ==
    LET op == operation[o]
        valid == op.applying = currentRole /\ op.revision = roleRevision
    IN
    /\ op.awaits = "off" /\ replicated' = Observer
    /\ IF op.applying # Observer /\ valid
       THEN /\ operation' = [operation EXCEPT ![o].awaits = "on"]
            /\ UNCHANGED <<adaptive, persistChunkReads>>
       ELSE UntilCurrent(o)
    /\ UNCHANGED <<currentRole, roleRevision, owed, roleFailures, failed>>

\* replicate(role) is over.
Replicates(o) ==
    /\ operation[o].awaits \in {"on", "rebalance"}
    /\ replicated' = operation[o].applying
    /\ UntilCurrent(o)
    /\ UNCHANGED <<currentRole, roleRevision, owed, roleFailures, failed>>

\* The call failed; the operation is over.
ReplicateFails(o) ==
    /\ ~Free(o) /\ roleFailures < MaxRoleFailures
    /\ roleFailures' = roleFailures + 1 /\ failed' = TRUE
    /\ Release(o)
    /\ UNCHANGED <<currentRole, roleRevision, persistChunkReads, replicated, owed>>

RoleStep(o) == ReplicatesNothing(o) \/ Replicates(o)

RoleNext ==
    \/ \E observe \in BOOLEAN : SelectRole(observe)
    \/ \E o \in RoleOperations :
           \/ \E r \in RolesOfPage : UpdateRole(o, r)
           \/ RefreshAdaptively(o) \/ RoleStep(o) \/ ReplicateFails(o)

RoleSpec == RoleInit /\ [][RoleNext]_roleVars

-----------------------------------------------------------------------------
\* When nothing is under way, the log replicates what the user has chosen last
\* and reads are kept only by a replicator, in whatever order overlapping changes
\* of role, rebalancing and the undoing of the previous role have ended.
RoleSettles ==
    (\A o \in RoleOperations : Free(o)) /\ ~owed /\ ~failed =>
        replicated = currentRole /\ persistChunkReads = (currentRole # Observer)
=============================================================================
