----------------------- MODULE MCFairTransferScheduler -----------------------
\* Three transfers share two slots and three bytes.  The first asks for a
\* permit in the limited lane and for a two-slot permit, the second for a
\* permit that takes the whole byte budget and for one in the limited lane,
\* the third for one without bytes; "huge" exceeds the byte budget.
EXTENDS FairTransferScheduler

MCOwners == {"a", "b", "c"}
MCRequests == {"a1", "a2", "b1", "b2", "c1", "huge"}
MCOwner == [a1 |-> "a", a2 |-> "a", b1 |-> "b", b2 |-> "b", c1 |-> "c",
            huge |-> "c"]
MCCount == [a1 |-> 1, a2 |-> 2, b1 |-> 1, b2 |-> 1, c1 |-> 1, huge |-> 1]
MCBytes == [a1 |-> 1, a2 |-> 1, b1 |-> 3, b2 |-> 2, c1 |-> 0, huge |-> 4]
MCLane == [a1 |-> "remote", a2 |-> "default", b1 |-> "default",
           b2 |-> "remote", c1 |-> "remote", huge |-> "default"]
MCLanes == {"default", "remote"}
MCLaneLimit == [remote |-> 1]
=============================================================================
