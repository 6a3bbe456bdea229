-------------------------- MODULE MCFileTransfers --------------------------
\* Small stores: an upload that puts one chunk after another (job a), and a
\* read that can be served two jobs at a time.
EXTENDS FileTransfers

CONSTANTS u, r, a

MCTransfer == [j \in Jobs |-> IF j = a THEN u ELSE r]

MCLimit == [k \in Kinds |-> IF k = "upload" THEN 1 ELSE 2]
=============================================================================
