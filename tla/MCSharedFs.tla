----------------------------- MODULE MCSharedFs -----------------------------
\* Two peers with a client each, a file "a" and two directories that both have.
\* Either they work on "a", the first through its mount and the second by calls
\* of the library; or both make, move and remove directories.
EXTENDS SharedFsMount

CONSTANTS p1, p2, t1, t2

MCClients == {1, 2}
MCPeerOf == <<p1, p2>>
MCDirectories == <<Place(1, "directory", Root, "d"), Place(2, "directory", Root, "e")>>
MCFiles == <<Place(3, "file", Root, "a"), Place(4, "file", 1, "f")>>

A == <<"a">>
B == <<"b">>
MCOpens == {[path |-> A, create |-> FALSE, truncate |-> FALSE],
            [path |-> A, create |-> TRUE, truncate |-> TRUE]}
FileRequests ==
    {[call |-> "rename", path |-> A, to |-> B], [call |-> "write", path |-> A, content |-> t2]}
    \cup [call : {"remove", "mkdir", "resolve"}, path : {A}]

D == <<"d">>
E == <<"e">>
DE == <<"d", "e">>
ED == <<"e", "d">>
DF == <<"d", "f">>
DED == <<"d", "e", "d">>
Moves == {<<D, ED>>, <<E, DE>>, <<DE, E>>, <<D, DED>>}
TreeRequests ==
    {[call |-> "rename", path |-> move[1], to |-> move[2]] : move \in Moves}
    \cup [call : {"remove"}, path : {D, DE, DF}]
    \cup [call : {"mkdir"}, path : {D, DE}]
MCRequests == FileRequests \cup TreeRequests

VARIABLE part   \* what the clients work on

MCInit == part \in {"file", "tree"} /\ MountInit

CallsWithin(paths) == \A c \in Clients : op'[c] # Idle => op'[c].path \in paths

\* The first client writes through its handle only, the second has none.
FileRoles ==
    /\ CallsWithin({A, B})
    /\ handle'[2] = Closed
    /\ op'[1].call \in {"write", "resolve"} => IsSave(1)'

TreeNext ==
    /\ Next /\ CallsWithin({r.path : r \in TreeRequests} \cup {move[2] : move \in Moves})
    /\ UNCHANGED <<handle, saves>>

MCNext ==
    /\ \/ part = "file" /\ MountNext /\ FileRoles
       \/ part = "tree" /\ TreeNext
    /\ UNCHANGED part

\* Calls go on while their peer is up, and peers are connected in the end.
MCFairness ==
    /\ \A c \in Clients : WF_mountVars(\/ StepOfCall(c) \/ ReturnCall(c) \/ SaveReadsHeads(c)
                                       \/ PutSavedVersion(c) \/ SaveReturns(c))
    /\ \A p \in Peers : WF_mountVars(Deliver(p) /\ UNCHANGED <<handle, saves>>)

MCSpec == MCInit /\ [][MCNext]_<<part, mountVars>> /\ MCFairness
=============================================================================
