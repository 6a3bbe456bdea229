--------------------------- MODULE MCSharedFsMount ---------------------------
\* A file "a" that two peers have and open, with a client that also moves and
\* removes it; and variants in which one thing races a save.
EXTENDS SharedFsMount

CONSTANTS p1, p2, t1, t2, t3

MCClients == {1, 2}
MCPeerOf == <<p1, p2>>
SamePeer == <<p1, p1>>
A == <<"a">>
B == <<"b">>
MCDirectories == <<>>
MCFiles == <<Place(1, "file", Root, "a")>>

MCOpens == {[path |-> A, create |-> FALSE, truncate |-> FALSE],
            [path |-> A, create |-> TRUE, truncate |-> TRUE]}
Existing == {[path |-> A, create |-> FALSE, truncate |-> FALSE]}

RenameOnly == {[call |-> "rename", path |-> A, to |-> B]}
MCRequests == RenameOnly \cup [call : {"remove", "mkdir"}, path : {A}]
                         \cup [call : {"write"}, path : {A}, content : {t2}]
WriteOnly == {[call |-> "write", path |-> A, content |-> t2]}
=============================================================================
