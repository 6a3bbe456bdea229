-------------------------- MODULE MCMediaAndStore ---------------------------
\* Parts that share no variable, side by side: the playback of a viewer, the leases
\* of the tracks of a live stream, the cleanup that a page keeps beyond its
\* components, the circuit for the manifest-head batches of a file store, and its
\* upload and removal of a file.  A behaviour is one of the part that it starts with.
EXTENDS ViewerPlayback, MediaTrackLeases, DurableCleanup, ManifestHeadBatchCircuit,
        UploadRetention, TLC

\* Two viewers: one has two resources to close.
MCOwnerOf == 1 :> "first" @@ 2 :> "second" @@ 3 :> "first"

VARIABLE part

MCInit ==
    /\ part \in {"viewer", "leases", "cleanup", "circuit", "shared file", "own file"}
    /\ ViewerInit /\ LeaseInit /\ CleanupInit /\ Init /\ RetentionInit

\* A file that others write too: one removal, nothing throws, no restart.
SharedFileNext == RetentionNext /\ removals' <= 1 /\ throws' = 0 /\ restarts' = 0

\* A file that nobody else writes, up to the bounds.
OwnFileNext == StoreSteps

MCNext ==
    /\ UNCHANGED part
    /\ \/ /\ part = "viewer" /\ ViewerNext
          /\ UNCHANGED <<leaseVars, cleanupVars, vars, retentionVars>>
       \/ /\ part = "leases" /\ LeaseNext
          /\ UNCHANGED <<viewerVars, cleanupVars, vars, retentionVars>>
       \/ /\ part = "cleanup" /\ CleanupNext
          /\ UNCHANGED <<viewerVars, leaseVars, vars, retentionVars>>
       \/ /\ part = "circuit" /\ Next
          /\ UNCHANGED <<viewerVars, leaseVars, cleanupVars, retentionVars>>
       \/ /\ \/ part = "shared file" /\ SharedFileNext
             \/ part = "own file" /\ OwnFileNext
          /\ UNCHANGED <<viewerVars, leaseVars, cleanupVars, vars>>

MCSpec == MCInit /\ [][MCNext]_<<part, viewerVars, leaseVars, cleanupVars, vars, retentionVars>>
=============================================================================
