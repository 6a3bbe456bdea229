--------------------------- MODULE UploadRetention ---------------------------
(***************************************************************************)
(* What a store keeps of one large file that it uploads: the pending root, *)
(* the chunks, the commit of the ready root, the rollback of an upload     *)
(* that fails, the removal of the file, and the check that decides which   *)
(* entries may be pruned (class Files of the file-share library, index.ts).*)
(*                                                                         *)
(* A version of a document is the entry that put it.  The upload puts the  *)
(* "pending" and the "ready" version of the root and the "upload" version  *)
(* of every chunk; another writer of the same file may put "other"         *)
(* versions, or remove the root.  The document store is external: a put    *)
(* or a delete takes effect in the local index at one moment, and its call *)
(* returns or throws at a later one, or throws before it took effect.  A   *)
(* delete that names an entry (meta.next) removes no other version.        *)
(*                                                                         *)
(* What is between two awaits is one action.  Left out: the permits of the *)
(* scheduler (see FileTransfers), files of one chunk, the sets of chunk    *)
(* ids and the chunk counts, which only serve to find the heads to release.*)
(***************************************************************************)
EXTENDS Integers, FiniteSets

CONSTANTS
    Chunks,          \* indices of the chunks of the file
    Strangers,       \* documents that another writer may put a version of
    MaxRemovals,     \* bound: calls of removeById
    MaxThrows,       \* bound: puts, deletes and lookups that throw
    MaxRestarts,     \* bound: times the store is closed, or its process ends
    BlindChecks      \* may the lookup of an entry that is not retained throw?

\* The document of the manifest.
Manifest == 0

Documents == Chunks \cup {Manifest}

ASSUME RetentionAssumption ==
    /\ Chunks \subseteq Nat \ {Manifest}
    /\ Strangers \subseteq Documents
    /\ BlindChecks \in BOOLEAN

ManifestVersions == {"pending", "ready", "other"}

Heads == ({Manifest} \X ManifestVersions) \cup (Chunks \X {"upload", "other"})

NoHead == <<>>

VARIABLES
    current,     \* the version of each document in the local index, or "none"
    stored,      \* entries in the local log
    retained,    \* retainedChunkEntryHeads, every head owned by its document
    upload,      \* where the call of addSource or addChunkedFile is
    puts,        \* the put of each document: "none", "sent", "applied" (in the
                 \* index), "done" or "failed"
    captured,    \* documents whose head the upload knows: chunkEntryHeads,
                 \* pendingManifestHead
    cancelled,   \* the owner of the transfer has failed
    swept,       \* chunks that the running cleanup is done with
    left,        \* chunks that it failed to delete
    lock,        \* whose operation is at the head of fileMutationTails
    removal,     \* where removeById is
    target,      \* the version of the root that it removes
    deleting,    \* pendingLargeFileDeletions: the version, or "none"
    found,       \* chunks that fetchChunks found
    check,       \* the running call of shouldKeepFileEntry
    dropped,     \* entries it answered false for, to be pruned
    removals, throws, restarts,
    rootRemoved, \* a removal has deleted the root
    overtaken    \* documents that another writer put between a read of them and the
                 \* step that relied on it: the commit's check, the check of an entry

retentionVars == <<current, stored, retained, upload, puts, captured, cancelled, swept, left,
                   lock, removal, target, deleting, found, check, dropped,
                   removals, throws, restarts, rootRemoved, overtaken>>

storeVars == <<current, stored, retained>>
uploadVars == <<upload, puts, captured, cancelled>>
sweepVars == <<swept, left>>
removalVars == <<removal, target, deleting, found, removals>>
checkVars == <<check, dropped>>
historyVars == <<rootRemoved, overtaken>>
boundVars == <<throws, restarts, historyVars>>

Idle == [head |-> NoHead, at |-> "idle", failed |-> FALSE]

RetentionInit ==
    /\ current = [d \in Documents |-> "none"]
    /\ stored = {} /\ retained = {}
    /\ upload = "none" /\ puts = [d \in Documents |-> "none"]
    /\ captured = {} /\ cancelled = FALSE
    /\ swept = {} /\ left = {}
    /\ lock = "free"
    /\ removal = "idle" /\ target = "none" /\ deleting = "none" /\ found = {} /\ removals = 0
    /\ check = Idle /\ dropped = {}
    /\ throws = 0 /\ restarts = 0 /\ rootRemoved = FALSE /\ overtaken = {}

------------------------------------------------------------------------------
(* The document store.                                                     *)

Apply(d, v) ==
    /\ current' = [current EXCEPT ![d] = v]
    /\ stored' = stored \cup {<<d, v>>}

Delete(d) ==
    /\ current' = [current EXCEPT ![d] = "none"]
    /\ stored' = stored \ {<<d, current[d]>>}

\* A delete of the version v of d, which no other version falls to.
DeleteExact(d, v) ==
    IF current[d] = v THEN Delete(d) ELSE UNCHANGED <<current, stored>>

\* One of the calls that the store makes throws.
Throws == throws < MaxThrows /\ throws' = throws + 1

\* releaseOwnedEntryHead: what is retained once an entry is given up.
Without(h) == retained \ {h}

\* withFileMutation: operations on a file follow one another.
Unlocked == lock = "free"

InFlight(d) == puts[d] \in {"sent", "applied"}

\* pendingAuthoredDocumentIds: a put of the document has not ended.
Authored(d) == InFlight(d) \/ (d = Manifest /\ upload \in {"readying", "readied"})

------------------------------------------------------------------------------
(* The upload: addSource and addChunkedFile with putAuthoredFile.          *)

OwnVersion(d) == IF d = Manifest THEN "pending" ELSE "upload"

PutPending ==
    /\ upload = "none"
    /\ upload' = "opening"
    /\ puts' = [puts EXCEPT ![Manifest] = "sent"]
    /\ UNCHANGED <<storeVars, captured, cancelled, sweepVars, lock, removalVars, checkVars,
                   boundVars>>

PutChunk(i) ==
    /\ upload = "chunks" /\ ~cancelled /\ puts[i] = "none"
    /\ \A j \in Chunks : j < i => puts[j] # "none"
    /\ puts' = [puts EXCEPT ![i] = "sent"]
    /\ UNCHANGED <<storeVars, upload, captured, cancelled, sweepVars, lock, removalVars,
                   checkVars,
                   boundVars>>

\* Mutant: the upload learns the head of an entry only when its put returns.
MutPutApplied(d) ==
    /\ puts[d] = "sent"
    /\ puts' = [puts EXCEPT ![d] = "applied"]
    /\ Apply(d, OwnVersion(d))
    /\ captured' = IF d = Manifest THEN captured \cup {d} ELSE captured
    /\ UNCHANGED <<retained, upload, cancelled, sweepVars, lock, removalVars, checkVars,
                   boundVars>>

\* The put reaches the index: captureLocalHead hears of it before the call returns.
PutApplied(d) ==
    /\ puts[d] = "sent"
    /\ puts' = [puts EXCEPT ![d] = "applied"]
    /\ Apply(d, OwnVersion(d))
    /\ captured' = captured \cup {d}
    /\ UNCHANGED <<retained, upload, cancelled, sweepVars, lock, removalVars, checkVars,
                   boundVars>>

PutReturns(d) ==
    /\ puts[d] = "applied"
    /\ puts' = [puts EXCEPT ![d] = "done"]
    /\ retained' = retained \cup {<<d, OwnVersion(d)>>}
    /\ upload' = IF upload = "opening" /\ ~cancelled THEN "chunks" ELSE upload
    /\ UNCHANGED <<current, stored, captured, cancelled, sweepVars, lock, removalVars,
                   checkVars, boundVars>>

\* It throws, before or after it took effect: the owner of the transfer fails.
PutThrows(d) ==
    /\ InFlight(d) /\ Throws
    /\ puts' = [puts EXCEPT ![d] = "failed"]
    /\ cancelled' = TRUE
    /\ UNCHANGED <<storeVars, upload, captured, sweepVars, lock, removalVars, checkVars,
                   restarts, historyVars>>

\* cancelTransfer, or a source that fails.
Cancel ==
    /\ upload \in {"opening", "chunks", "committing", "readying", "readied"} /\ ~cancelled
    /\ cancelled' = TRUE
    /\ UNCHANGED <<storeVars, upload, puts, captured, sweepVars, lock, removalVars,
                   checkVars, boundVars>>

------------------------------------------------------------------------------
(* commitReadyManifest, under the lock of the file.                        *)

Committed == \A i \in Chunks : puts[i] = "done"

\* The queue has drained; the commit may have to wait for the lock, and does not
\* hear of a cancellation then.
Drained ==
    /\ upload = "chunks" /\ ~cancelled /\ Committed
    /\ upload' = "committing"
    /\ UNCHANGED <<storeVars, puts, captured, cancelled, sweepVars, lock, removalVars, checkVars,
                   boundVars>>

\* Mutant: the ready root is put whatever the current root is.
MutCommitBegins ==
    /\ upload = "committing" /\ Unlocked
    /\ upload' = "readying" /\ lock' = "upload"
    /\ UNCHANGED <<storeVars, puts, captured, cancelled, sweepVars, removalVars, checkVars,
                   boundVars>>

\* The pending root must still be the current one.
CommitBegins ==
    /\ upload = "committing" /\ Unlocked
    /\ \/ /\ current[Manifest] = "pending"
          /\ upload' = "readying" /\ lock' = "upload"
          /\ UNCHANGED throws
       \/ /\ current[Manifest] # "pending"
          /\ upload' = "failing"
          /\ UNCHANGED <<lock, throws>>
       \/ /\ Throws
          /\ upload' = "failing"
          /\ UNCHANGED lock
    /\ UNCHANGED <<storeVars, puts, captured, cancelled, sweepVars, removalVars, checkVars,
                   restarts, historyVars>>

ReadyApplied ==
    /\ upload = "readying"
    /\ upload' = "readied"
    /\ Apply(Manifest, "ready")
    /\ UNCHANGED <<retained, puts, captured, cancelled, sweepVars, lock, removalVars,
                   checkVars, boundVars>>

\* The ready root takes the place of the pending one: retainAuthoredFile and
\* retireAuthoredFileEntry.  A transfer that was cancelled meanwhile still fails.
ReadyRetained ==
    /\ retained' = Without(<<Manifest, "pending">>) \cup {<<Manifest, "ready">>}
    /\ upload' = IF cancelled THEN "failing" ELSE "succeeded"

ReadyReturns ==
    /\ upload = "readied"
    /\ ReadyRetained
    /\ lock' = "free"
    /\ UNCHANGED <<current, stored, puts, captured, cancelled, sweepVars, removalVars,
                   checkVars, boundVars>>

\* The put throws: the commit stands if the ready root is the current one.
ReadyThrows ==
    /\ upload \in {"readying", "readied"} /\ Throws
    /\ \/ current[Manifest] = "ready" /\ ReadyRetained
       \/ current[Manifest] # "ready" /\ upload' = "failing" /\ UNCHANGED retained
    /\ lock' = "free"
    /\ UNCHANGED <<current, stored, puts, captured, cancelled, sweepVars, removalVars,
                   checkVars,
                   restarts, historyVars>>

------------------------------------------------------------------------------
(* cleanupFailedUploadIfCurrent and cleanupChunkedUpload.                  *)

\* The tasks of the owner have settled.
PutsSettled == \A d \in Documents : ~InFlight(d)

Failing == upload = "failing" \/ (upload \in {"opening", "chunks"} /\ cancelled)

RollbackBegins ==
    /\ Failing /\ PutsSettled
    /\ Unlocked \/ Manifest \notin captured
    /\ swept' = {} /\ left' = {}
    /\ \/ /\ Manifest \notin captured \/ current[Manifest] \notin {"pending", "none"}
          /\ upload' = "abandoned"
          /\ UNCHANGED <<lock, retained, throws>>
       \/ /\ Throws
          /\ upload' = "abandoned"
          /\ UNCHANGED <<lock, retained>>
       \/ /\ Manifest \in captured /\ current[Manifest] = "pending"
          /\ upload' = "uprooting" /\ lock' = "upload"
          /\ UNCHANGED <<retained, throws>>
       \/ /\ Manifest \in captured /\ current[Manifest] = "none"
          /\ upload' = "sweeping" /\ lock' = "upload"
          /\ retained' = Without(<<Manifest, "pending">>)
          /\ UNCHANGED throws
    /\ UNCHANGED <<current, stored, puts, captured, cancelled, removalVars, checkVars,
                   restarts, historyVars>>

\* The pending root is deleted, or the delete throws, before or after that.
RollbackDeletes ==
    /\ upload = "uprooting"
    /\ \/ DeleteExact(Manifest, "pending") /\ UNCHANGED throws
       \/ DeleteExact(Manifest, "pending") /\ Throws
       \/ UNCHANGED <<current, stored>> /\ Throws
    /\ upload' = "uprooted"
    /\ UNCHANGED <<retained, puts, captured, cancelled, sweepVars, lock, removalVars, checkVars,
                   restarts, historyVars>>

\* Only a root that is gone lets the chunks go.
RollbackProves ==
    /\ upload = "uprooted"
    /\ \/ /\ current[Manifest] = "none"
          /\ upload' = "sweeping"
          /\ retained' = Without(<<Manifest, "pending">>)
          /\ UNCHANGED <<lock, throws>>
       \/ /\ current[Manifest] # "none"
          /\ upload' = "abandoned" /\ lock' = "free"
          /\ UNCHANGED <<retained, throws>>
       \/ /\ Throws
          /\ upload' = "abandoned" /\ lock' = "free"
          /\ UNCHANGED retained
    /\ UNCHANGED <<current, stored, puts, captured, cancelled, sweepVars, removalVars,
                   checkVars,
                   restarts, historyVars>>

\* Mutant: the delete does not name the entry that it is about.
MutSweepChunk(i, v, preserve) ==
    /\ swept' = swept \cup {i}
    /\ Delete(i)
    /\ retained' = Without(<<i, v>>)
    /\ UNCHANGED <<left, throws>>

\* One chunk of cleanupChunkedUpload: a version that was replaced is left alone, and
\* its head is released.  A failure keeps the head only if the caller asks for it.
SweepChunk(i, v, preserve) ==
    /\ swept' = swept \cup {i}
    /\ \/ /\ DeleteExact(i, v)
          /\ retained' = Without(<<i, v>>)
          /\ UNCHANGED <<left, throws>>
       \/ /\ Throws
          /\ DeleteExact(i, v) \/ UNCHANGED <<current, stored>>
          /\ left' = left \cup {i}
          /\ retained' = IF preserve THEN retained ELSE Without(<<i, v>>)

RollbackSweeps(i) ==
    /\ upload = "sweeping" /\ i \in captured \ swept
    /\ SweepChunk(i, "upload", FALSE)
    /\ UNCHANGED <<uploadVars, lock, removalVars, checkVars, restarts, historyVars>>

RollbackReturns ==
    /\ upload = "sweeping" /\ captured \cap Chunks \subseteq swept
    /\ upload' = IF left = {} THEN "rolledBack" ELSE "littered"
    /\ lock' = "free"
    /\ UNCHANGED <<storeVars, puts, captured, cancelled, sweepVars, removalVars, checkVars,
                   boundVars>>

------------------------------------------------------------------------------
(* removeById and removeFileUnlocked, under the lock of the file.          *)

\* getCompleteChunkEntryHeads: what the manifest lists.
Listed(v) ==
    CASE v = "ready" -> Chunks \X {"upload"}
      [] v = "other" -> Chunks \X {"other"}
      [] OTHER -> {}

SweepOf(v) == IF v = "pending" THEN "finding" ELSE "sweeping"

RemoveBegins ==
    /\ removal \in {"idle", "failed", "removed"} /\ Unlocked
    /\ upload # "none" /\ removals < MaxRemovals
    /\ removals' = removals + 1
    /\ swept' = {} /\ left' = {}
    /\ \/ /\ deleting # "none"
          /\ target' = deleting /\ removal' = SweepOf(deleting) /\ lock' = "removal"
       \/ /\ deleting = "none" /\ current[Manifest] # "none"
          /\ target' = current[Manifest] /\ removal' = "deleting" /\ lock' = "removal"
       \/ /\ deleting = "none" /\ current[Manifest] = "none"
          /\ target' = "none" /\ removal' = "idle"
          /\ UNCHANGED lock
    /\ UNCHANGED <<storeVars, uploadVars, deleting, found, checkVars, boundVars>>

\* The root is deleted whatever its version is now; if the call throws, the index
\* tells whether it was.
RemoveRoot ==
    /\ removal = "deleting"
    /\ \/ /\ Delete(Manifest)
          /\ UNCHANGED throws \/ Throws
          /\ rootRemoved' = TRUE
          /\ deleting' = target /\ removal' = SweepOf(target)
          /\ UNCHANGED lock
       \/ /\ Throws
          /\ removal' = "failed" /\ lock' = "free"
          /\ UNCHANGED <<current, stored, rootRemoved, deleting>>
    /\ UNCHANGED <<retained, uploadVars, sweepVars, target, found, removals, checkVars,
                   restarts,
                   overtaken>>

RemoveSweeps(h) ==
    /\ removal = "sweeping" /\ h \in Listed(target) /\ h[1] \notin swept
    /\ SweepChunk(h[1], h[2], TRUE)
    /\ UNCHANGED <<uploadVars, lock, removalVars, checkVars, restarts, historyVars>>

\* LargeFile.delete, for a root that lists no chunks: those that fetchChunks finds.
RemoveFinds ==
    /\ removal = "finding"
    /\ \/ /\ found' = found \cup {i \in Chunks : current[i] # "none"}
          /\ removal' = "clearing"
          /\ UNCHANGED <<lock, throws>>
       \/ /\ Throws
          /\ removal' = "failed" /\ lock' = "free"
          /\ UNCHANGED found
    /\ UNCHANGED <<storeVars, uploadVars, sweepVars, target, deleting, removals, checkVars,
                   restarts, historyVars>>

\* All of them are deleted at once; if one delete throws, the others go on.
RemoveClears(i) ==
    /\ i \in found
    /\ found' = found \ {i}
    /\ \/ /\ Delete(i)
          /\ UNCHANGED <<removal, lock, throws>>
       \/ /\ removal = "clearing" /\ Throws
          /\ Delete(i) \/ UNCHANGED <<current, stored>>
          /\ removal' = "failed" /\ lock' = "free"
    /\ UNCHANGED <<retained, uploadVars, sweepVars, target, deleting, removals, checkVars,
                   restarts, historyVars>>

\* Mutant: a cleanup that failed in part is not reported.
MutRemoveEnds ==
    /\ \/ removal = "sweeping" /\ {h[1] : h \in Listed(target)} \subseteq swept
       \/ removal = "clearing" /\ found = {}
    /\ lock' = "free" /\ removal' = "removed" /\ deleting' = "none"
    /\ retained' = IF removal = "clearing" THEN {} ELSE Without(<<Manifest, target>>)
    /\ UNCHANGED <<current, stored, uploadVars, sweepVars, target, found, removals, checkVars,
                   boundVars>>

\* The deletion is forgotten only if every chunk is gone.
RemoveEnds ==
    /\ \/ removal = "sweeping" /\ {h[1] : h \in Listed(target)} \subseteq swept
       \/ removal = "clearing" /\ found = {}
    /\ lock' = "free"
    /\ \/ /\ left = {}
          /\ removal' = "removed" /\ deleting' = "none"
          /\ retained' = IF removal = "clearing" THEN {} ELSE Without(<<Manifest, target>>)
       \/ /\ left # {}
          /\ removal' = "failed"
          /\ UNCHANGED <<deleting, retained>>
    /\ UNCHANGED <<current, stored, uploadVars, sweepVars, target, found, removals,
                   checkVars, boundVars>>

------------------------------------------------------------------------------
(* shouldKeepFileEntry: the pruning of a store that replicates asks whether *)
(* it may drop an entry.  Every lookup of the check is a step.              *)

\* validateCurrentChild: a chunk of a root with its name, and, if the index does not
\* vouch for the chunk, one that the manifest lists.
ValidChild(root, h, exact) ==
    IF exact THEN root = "ready" ELSE root \in {"pending", "ready"}

Verdict(keep, h) ==
    /\ check' = Idle
    /\ dropped' = IF keep THEN dropped ELSE dropped \cup ({h} \cap stored)

GoOn(at) == check' = [check EXCEPT !.at = at] /\ UNCHANGED <<dropped, retained>>

Keep(h) == Verdict(TRUE, h) /\ UNCHANGED retained

Adopt(h) == Verdict(TRUE, h) /\ retained' = retained \cup {h}

\* The entry of a put of this peer that has not ended is kept in any case.  A
\* retained entry that is not kept is released.
KeepIfAuthored(h) ==
    /\ Verdict(Authored(h[1]), h)
    /\ retained' = IF Authored(h[1]) \/ check.at = "entry" \/ check.at = "exact"
                   THEN retained
                   ELSE Without(h)

CheckBegins(h) ==
    /\ check = Idle /\ h \in stored \ dropped /\ h[2] # "other"
    /\ check' = [head |-> h, failed |-> FALSE,
                 at |-> IF h \notin retained THEN "entry"
                        ELSE IF h[1] = Manifest THEN "document" ELSE "listing"]
    /\ UNCHANGED <<storeVars, uploadVars, sweepVars, lock, removalVars, dropped, boundVars>>

\* Mutant: what the manifest lists is not asked.
MutCheckListing(h) == check.at = "listing" /\ GoOn("document")

\* The entry is retained: retainedEntryHeadStatus.
CheckListing(h) ==
    /\ check.at = "listing"
    /\ IF h \in Listed(current[Manifest]) THEN Keep(h) ELSE GoOn("document")

CheckDocument(h) ==
    /\ check.at = "document"
    /\ CASE current[h[1]] = h[2] /\ h[1] # Manifest -> GoOn("parent")
         [] current[h[1]] = h[2] /\ h[1] = Manifest -> Keep(h)
         [] current[h[1]] # h[2] -> IF check.failed THEN Keep(h) ELSE KeepIfAuthored(h)

CheckParent(h) ==
    /\ check.at = "parent"
    /\ IF check.failed \/ ValidChild(current[Manifest], h, FALSE)
       THEN Keep(h)
       ELSE KeepIfAuthored(h)

\* It is not: after a restart, or before its put has returned.
CheckEntry(h) ==
    /\ check.at = "entry"
    /\ CASE h[1] # Manifest -> GoOn(IF current[h[1]] = h[2] THEN "child" ELSE "exact")
         [] h[1] = Manifest /\ current[Manifest] = h[2] -> Adopt(h)
         [] h[1] = Manifest /\ current[Manifest] # h[2] -> KeepIfAuthored(h)

CheckChild(h) ==
    /\ check.at = "child"
    /\ IF ValidChild(current[Manifest], h, FALSE)
       THEN Adopt(h)
       ELSE Verdict(FALSE, h) /\ UNCHANGED retained

CheckExact(h) ==
    /\ check.at = "exact"
    /\ IF ValidChild(current[Manifest], h, TRUE) THEN Adopt(h) ELSE KeepIfAuthored(h)

\* A lookup throws.
CheckThrows(h) ==
    /\ Throws
    /\ CASE check.at = "listing" ->
              /\ check' = [check EXCEPT !.at = "document", !.failed = TRUE]
              /\ UNCHANGED <<dropped, retained>>
         [] check.at = "entry" ->
              BlindChecks /\ IF h[1] = Manifest THEN KeepIfAuthored(h) ELSE GoOn("exact")
         [] OTHER -> Keep(h)

CheckSteps ==
    /\ check # Idle
    /\ LET h == check.head
       IN  \/ /\ \/ CheckListing(h) \/ CheckDocument(h) \/ CheckParent(h)
                 \/ CheckEntry(h) \/ CheckChild(h) \/ CheckExact(h)
              /\ UNCHANGED throws
           \/ CheckThrows(h)
    /\ UNCHANGED <<current, stored, uploadVars, sweepVars, lock, removalVars, restarts,
                   historyVars>>

\* The entry leaves the log, and its document the index.
Prune(h) ==
    /\ h \in dropped
    /\ dropped' = dropped \ {h}
    /\ stored' = stored \ {h}
    /\ current' = IF current[h[1]] = h[2] THEN [current EXCEPT ![h[1]] = "none"] ELSE current
    /\ UNCHANGED <<retained, uploadVars, sweepVars, lock, removalVars, check, boundVars>>

------------------------------------------------------------------------------
(* Other writers, and the end of the process.                              *)

Checked(d) == check # Idle /\ check.head[1] = d

\* An entry of another writer of the file arrives, as long as there is a root that
\* it may replace or extend.
StrangerPuts(d) ==
    /\ d \in Strangers /\ current[Manifest] # "none" /\ <<d, "other">> \notin stored
    /\ Apply(d, "other")
    /\ overtaken' = IF \/ d = Manifest /\ upload = "readying"
                       \/ d \in Chunks /\ (current[Manifest] # "ready" \/ Checked(d))
                    THEN overtaken \cup {d}
                    ELSE overtaken
    /\ UNCHANGED <<retained, uploadVars, sweepVars, lock, removalVars, checkVars, throws,
                   restarts,
                   rootRemoved>>

\* Another peer has removed the file.
StrangerRemoves ==
    /\ Manifest \in Strangers /\ current[Manifest] \in {"pending", "ready"}
    /\ Delete(Manifest)
    /\ overtaken' = IF upload = "readying" THEN overtaken \cup {Manifest} ELSE overtaken
    /\ UNCHANGED <<retained, uploadVars, sweepVars, lock, removalVars, checkVars, throws,
                   restarts,
                   rootRemoved>>

\* clearFileRuntimeState: what runs is lost, the log and the index stay.
Restart ==
    /\ restarts < MaxRestarts /\ upload # "none"
    /\ restarts' = restarts + 1
    /\ retained' = {} /\ lock' = "free"
    /\ upload' = IF upload \in {"succeeded", "rolledBack", "littered", "abandoned"}
                 THEN upload
                 ELSE "lost"
    /\ puts' = [d \in Documents |-> IF InFlight(d) THEN "failed" ELSE puts[d]]
    /\ removal' = "idle" /\ target' = "none" /\ deleting' = "none" /\ found' = {}
    /\ swept' = {} /\ left' = {}
    /\ check' = Idle /\ dropped' = {}
    /\ UNCHANGED <<current, stored, captured, cancelled, removals, throws, historyVars>>

------------------------------------------------------------------------------

UploadSteps ==
    \/ PutPending \/ Cancel \/ Drained \/ CommitBegins \/ ReadyApplied \/ ReadyReturns \/ ReadyThrows
    \/ RollbackBegins \/ RollbackDeletes \/ RollbackProves \/ RollbackReturns
    \/ \E i \in Chunks : PutChunk(i) \/ RollbackSweeps(i)
    \/ \E d \in Documents : PutApplied(d) \/ PutReturns(d) \/ PutThrows(d)

RemovalSteps ==
    \/ RemoveBegins \/ RemoveRoot \/ RemoveFinds \/ RemoveEnds
    \/ \E h \in Heads : RemoveSweeps(h)
    \/ \E i \in Chunks : RemoveClears(i)

StoreSteps ==
    \/ UploadSteps \/ RemovalSteps \/ CheckSteps \/ Restart
    \/ \E h \in Heads : CheckBegins(h) \/ Prune(h)

RetentionNext ==
    \/ StoreSteps \/ StrangerRemoves
    \/ \E d \in Documents : StrangerPuts(d)

RetentionSpec == RetentionInit /\ [][RetentionNext]_retentionVars

------------------------------------------------------------------------------
RetentionTypeOK ==
    /\ current \in [Documents -> ManifestVersions \cup {"upload", "none"}]
    /\ stored \subseteq Heads /\ retained \subseteq Heads /\ dropped \subseteq Heads
    /\ puts \in [Documents -> {"none", "sent", "applied", "done", "failed"}]
    /\ captured \subseteq Documents /\ swept \subseteq Chunks /\ left \subseteq Chunks
    /\ lock \in {"free", "upload", "removal"}
    /\ \A d \in Documents : current[d] # "none" => <<d, current[d]>> \in stored

\* As long as the ready root is the current one, the entry of every chunk that it
\* lists is in the log: neither the rollback of its upload, nor a removal that was
\* called too early, nor the pruning, before and after a restart, takes one away.
\* (The lock orders the operations of this store only: what another writer puts
\* between a read and the step that relies on it is left out.)
ReadyIsComplete ==
    current[Manifest] = "ready" /\ Manifest \notin overtaken =>
        \A i \in Chunks \ overtaken : <<i, "upload">> \in stored

\* An upload that was rolled back has left none of its chunks in the index, also
\* those whose put threw after it took effect, and those that it put after the file
\* was removed.
RollbackIsComplete ==
    upload = "rolledBack" => \A i \in Chunks : current[i] # "upload"

\* A call of removeById that returns, the first or a retry, has removed the version
\* that the first call found, with every chunk of it.
RemovalIsComplete ==
    removal = "removed" =>
        /\ current[Manifest] # target
        /\ \A h \in Listed(target) : current[h[1]] # h[2]

\* What another writer has put in the place of a root or a chunk is not deleted by
\* the rollback of the upload, nor by the removal of the version it replaced.  (A
\* root without chunk heads is removed with whatever chunks are found then.)
ReplacementSurvives ==
    [][\A d \in Documents : current[d] = "other" /\ current'[d] = "none" =>
          \/ d = Manifest /\ removal = "deleting"
          \/ d \in found
          \/ d \in Chunks /\ target = "other"]_retentionVars

\* An upload whose root has been removed does not bring the file back: its commit
\* either came before the removal or fails.
RemovedStaysRemoved ==
    [][rootRemoved => current[Manifest] = "ready" \/ current'[Manifest] # "ready"]_retentionVars
=============================================================================
