------------------------ MODULE MCSchedulerLiveness ------------------------
\* Requests that compete for slots, for bytes and for a limited lane, and the
\* reads of a file store: a persisted read asks for several slots of its lane
\* at once while other reads ask for one.
EXTENDS FairTransferScheduler

\* Where a lane is limited, only single slots are asked for.
MixedRequests == {"a1", "a2", "b1", "c1"}
MixedOwner == [a1 |-> "a", a2 |-> "a", b1 |-> "b", c1 |-> "c"]
MixedCount == [a1 |-> 1, a2 |-> 2, b1 |-> 1, c1 |-> 1]
MixedBytes == [a1 |-> 1, a2 |-> 1, b1 |-> 3, c1 |-> 1]
MixedLane == [a1 |-> "remote", a2 |-> "default", b1 |-> "default",
              c1 |-> "remote"]
MixedLimits == [remote |-> 1]

ReadRequests == {"a1", "b1", "c1"}
ReadOwner == [a1 |-> "a", b1 |-> "b", c1 |-> "c"]
ReadCount == [a1 |-> 2, b1 |-> 1, c1 |-> 1]
ReadBytes == [r \in ReadRequests |-> 1]
ReadLane == [r \in ReadRequests |-> "remote"]
ReadLimits == [remote |-> 2]

MCOwners == {"a", "b", "c"}
=============================================================================
