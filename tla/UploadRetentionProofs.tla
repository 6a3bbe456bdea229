----------------------- MODULE UploadRetentionProofs -----------------------
(***************************************************************************)
(* Proofs about the upload and the removal of a large file, for any number *)
(* of chunks, other writers, removals, failures and restarts.              *)
(***************************************************************************)
EXTENDS UploadRetention, TLAPS

\* Where an upload, a removal and a check can be.
UploadPhases == {"none", "opening", "chunks", "committing", "readying", "readied", "succeeded",
                 "failing", "uprooting", "uprooted", "sweeping", "rolledBack", "littered",
                 "abandoned", "lost"}
RemovalPhases == {"idle", "deleting", "sweeping", "finding", "clearing", "failed", "removed"}
CheckPhases == {"idle", "entry", "document", "listing", "parent", "child", "exact"}

\* The types of the variables that RetentionTypeOK leaves out.
PhasesOK ==
    /\ upload \in UploadPhases /\ removal \in RemovalPhases
    /\ target \in ManifestVersions \cup {"none"}
    /\ deleting \in ManifestVersions \cup {"none"}
    /\ found \subseteq Chunks /\ overtaken \subseteq Documents
    /\ rootRemoved \in BOOLEAN

\* The running check.
ChecksOK ==
    /\ check \in [head : Heads \cup {NoHead}, at : CheckPhases, failed : BOOLEAN]
    /\ check # Idle => check.head \in Heads

\* The lock of the file is held by the operation that is past it.
LocksHeld ==
    /\ lock = "upload" <=>
           upload \in {"readying", "readied", "uprooting", "uprooted", "sweeping"}
    /\ lock = "removal" <=> removal \in {"deleting", "sweeping", "finding", "clearing"}

\* The puts of the upload begin and end before it goes on, and it knows the head of
\* every put that took effect.
PutsInOrder ==
    /\ upload = "none" => \A d \in Documents : puts[d] = "none"
    /\ upload = "opening" => \A i \in Chunks : puts[i] = "none"
    /\ upload = "chunks" => ~InFlight(Manifest)
    /\ upload \notin {"none", "opening", "chunks"} => PutsSettled
    /\ \A d \in Documents : puts[d] \in {"applied", "done"} => d \in captured
    /\ \A d \in captured : puts[d] \in {"applied", "done", "failed"}
    /\ \A i \in Chunks : current[i] = "upload" => i \in captured

\* Nothing of the file is there before its pending root.
RootFirst ==
    /\ upload \in {"chunks", "committing", "readying", "readied", "uprooting", "uprooted",
                   "sweeping"} => Manifest \in captured
    /\ current[Manifest] # "none" => Manifest \in captured
    /\ \A i \in Chunks : puts[i] # "none" => Manifest \in captured
    /\ removal # "idle" => Manifest \in captured

\* A ready root has all its chunks.
ReadyIsCommitted ==
    /\ \/ upload \in {"committing", "readying"}
       \/ current[Manifest] = "ready" \/ "ready" \in {target, deleting}
       => Committed
    /\ current[Manifest] = "ready" => upload # "readying"

\* The file had a root and has none any more.
Rootless == Manifest \in captured /\ current[Manifest] = "none" /\ upload # "readying"

\* Chunks are only removed after the root.
RemovalFollowsRoot ==
    /\ \/ deleting # "none" \/ found # {} \/ rootRemoved \/ upload = "sweeping"
       \/ removal \in {"sweeping", "finding", "clearing", "removed"}
       => Rootless
    /\ removal \in {"sweeping", "finding", "clearing"} => deleting = target
    /\ removal \in {"deleting", "sweeping", "finding", "clearing", "removed"} => target # "none"
    /\ removal \in {"finding", "clearing"} => target = "pending"

\* What the running cleanup is done with is gone.
SweptIsGone ==
    /\ upload \in {"uprooting", "uprooted"} \/ removal = "deleting" => swept = {}
    /\ upload = "sweeping" => \A i \in swept \ left : current[i] # "upload"
    /\ removal = "sweeping" =>
           \A h \in Listed(target) : h[1] \in swept \ left => current[h[1]] # h[2]

\* The upload knows every entry it has in the log, and the checks leave those of other
\* writers alone.
ChecksOwn ==
    /\ \A h \in stored : h[2] # "other" => h[1] \in captured
    /\ check # Idle => check.head[2] # "other" /\ check.head[1] \in captured
    /\ \A h \in dropped : h[2] # "other" /\ h[1] \in captured

\* The inductive invariant.
RetentionInv ==
    /\ RetentionTypeOK /\ PhasesOK /\ ChecksOK
    /\ LocksHeld /\ PutsInOrder /\ RootFirst /\ ReadyIsCommitted
    /\ RemovalFollowsRoot /\ SweptIsGone /\ ChecksOwn
    /\ RollbackIsComplete /\ RemovalIsComplete

\* The pending root is not the current one any more and never will be.
Past == Manifest \in captured /\ current[Manifest] # "pending" /\ upload # "readying"

\* The file will never have a ready root again that nobody has interfered with.
Doomed ==
    /\ Manifest \in captured
    /\ \/ Manifest \in overtaken
       \/ current[Manifest] \in {"none", "other"} /\ upload # "readying"

\* The entries of the chunks stay as long as the root is or may become ready.
EntriesStay ==
    /\ \A i \in Chunks \cap captured : i \in overtaken \/ Doomed \/ <<i, "upload">> \in stored
    /\ \A i \in Chunks : <<i, "upload">> \in stored /\ current[i] # "upload" =>
           i \in overtaken \/ Past
    /\ upload = "readying" /\ current[Manifest] # "pending" => Manifest \in overtaken

\* What may be dropped is an entry that no ready root needs.
DropsAreSafe ==
    /\ \A i \in Chunks : <<i, "upload">> \in dropped => i \in overtaken \/ Doomed
    /\ <<Manifest, "pending">> \in dropped => Past

\* What the running check has read of the index, and relies on, is still true.
ChecksAreSafe ==
    check # Idle =>
        /\ check.head[1] = Manifest => check.at \in {"entry", "document"}
        /\ check.head[1] # Manifest /\ check.head \in stored
           /\ check.head[1] \notin overtaken =>
               /\ check.at = "exact" => Past
               /\ check.at = "document" /\ ~check.failed
                  /\ current[check.head[1]] # "upload" => Doomed

\* With RetentionInv, what makes a ready file complete.
PruneInv == EntriesStay /\ DropsAreSafe /\ ChecksAreSafe
-----------------------------------------------------------------------------
\* Nothing is there at first.
LEMMA InitRetentionInv == RetentionInit => RetentionInv
BY RetentionAssumption
DEF RetentionInit, RetentionInv, RetentionTypeOK, PhasesOK, ChecksOK, LocksHeld, PutsInOrder, RootFirst,
    ReadyIsCommitted, RemovalFollowsRoot, SweptIsGone, ChecksOwn, RollbackIsComplete,
    RemovalIsComplete, PutsSettled, InFlight, Committed, Rootless, Idle, Documents, Manifest,
    UploadPhases, RemovalPhases, CheckPhases, Listed, Heads, ManifestVersions, NoHead

\* The parts of the types: the index and the log, sets of entries, and the rest.
StoreOK ==
    /\ current \in [Documents -> ManifestVersions \cup {"upload", "none"}]
    /\ stored \subseteq Heads
    /\ \A d \in Documents : current[d] # "none" => <<d, current[d]>> \in stored

HeadsOK == retained \subseteq Heads /\ dropped \subseteq Heads

UploadOK ==
    /\ puts \in [Documents -> {"none", "sent", "applied", "done", "failed"}]
    /\ captured \subseteq Documents /\ swept \subseteq Chunks /\ left \subseteq Chunks
    /\ lock \in {"free", "upload", "removal"}

\* The type invariant, in parts that a step needs one by one.
LEMMA TypeParts == RetentionTypeOK <=> StoreOK /\ HeadsOK /\ UploadOK
BY DEF RetentionTypeOK, StoreOK, HeadsOK, UploadOK

\* No root is a chunk: the versions of the manifest are those of a manifest.
LEMMA RootVersions == StoreOK => current[Manifest] \in ManifestVersions \cup {"none"}
<1>. SUFFICES ASSUME StoreOK PROVE current[Manifest] \in ManifestVersions \cup {"none"}
  OBVIOUS
<1>1. Manifest \in Documents /\ Manifest \notin Chunks
  BY RetentionAssumption DEF Documents
<1>2. <<Manifest, "upload">> \notin Heads
  BY <1>1 DEF Heads, ManifestVersions
<1>. QED
  BY <1>1, <1>2 DEF StoreOK

\* What the steps do to the store is to apply a version, to delete one, or to prune one.
LEMMA StoreStep == StoreOK /\ [RetentionNext]_retentionVars => StoreOK'
<1>. SUFFICES ASSUME StoreOK, [RetentionNext]_retentionVars PROVE StoreOK'
  OBVIOUS
<1>. USE RetentionAssumption DEF StoreOK, Documents, Heads, ManifestVersions, Manifest
<1>1. ASSUME NEW d \in Documents, NEW v, <<d, v>> \in Heads, Apply(d, v) PROVE StoreOK'
  BY <1>1 DEF Apply
<1>2. ASSUME NEW d \in Documents, NEW v, Delete(d) \/ DeleteExact(d, v) PROVE StoreOK'
  BY <1>2 DEF Delete, DeleteExact
<1>3. ASSUME NEW h \in Heads, Prune(h) PROVE StoreOK'
  BY <1>3 DEF Prune
<1>4. ASSUME UNCHANGED <<current, stored>> PROVE StoreOK'
  BY <1>4
<1>. HIDE DEF StoreOK
<1>5. CASE UploadSteps
  <2>1. ASSUME NEW d \in Documents, PutApplied(d) PROVE StoreOK'
    BY <2>1, <1>1 DEF PutApplied, OwnVersion
  <2>2. CASE ReadyApplied
    BY <2>2, <1>1 DEF ReadyApplied
  <2>3. CASE RollbackDeletes
    BY <2>3, <1>2, <1>4 DEF RollbackDeletes
  <2>4. ASSUME NEW i \in Chunks, RollbackSweeps(i) PROVE StoreOK'
    BY <2>4, <1>2, <1>4 DEF RollbackSweeps, SweepChunk
  <2>. QED
    BY <1>4, <1>5, <2>1, <2>2, <2>3, <2>4
    DEF UploadSteps, PutPending, Cancel, Drained, CommitBegins, ReadyReturns, ReadyThrows,
        RollbackBegins, RollbackProves, RollbackReturns, PutChunk, PutReturns, PutThrows,
        storeVars
<1>6. CASE RemovalSteps
  <2>1. CASE RemoveRoot
    BY <2>1, <1>2, <1>4 DEF RemoveRoot
  <2>2. ASSUME NEW h \in Heads, RemoveSweeps(h) PROVE StoreOK'
    BY <2>2, <1>2, <1>4 DEF RemoveSweeps, SweepChunk
  <2>3. ASSUME NEW i \in Chunks, RemoveClears(i) PROVE StoreOK'
    BY <2>3, <1>2, <1>4 DEF RemoveClears
  <2>. QED
    BY <1>4, <1>6, <2>1, <2>2, <2>3
    DEF RemovalSteps, RemoveBegins, RemoveFinds, RemoveEnds, storeVars
<1>7. CASE CheckSteps \/ Restart \/ \E h \in Heads : CheckBegins(h)
  BY <1>4, <1>7 DEF CheckSteps, Restart, CheckBegins, storeVars
<1>8. CASE StrangerRemoves
  BY <1>2, <1>8 DEF StrangerRemoves
<1>9. ASSUME NEW d \in Documents, StrangerPuts(d) PROVE StoreOK'
  BY <1>1, <1>9 DEF StrangerPuts
<1>10. CASE UNCHANGED retentionVars
  BY <1>4, <1>10 DEF retentionVars
<1>. QED
  BY <1>3, <1>5, <1>6, <1>7, <1>8, <1>9, <1>10 DEF RetentionNext, StoreSteps

\* Every step keeps the types.
LEMMA PhasesStep ==
    RetentionInv /\ [RetentionNext]_retentionVars => (HeadsOK /\ UploadOK /\ PhasesOK)'
<1>. SUFFICES ASSUME StoreOK, HeadsOK, UploadOK, PhasesOK, ChecksOK,
                     current[Manifest] \in ManifestVersions \cup {"none"},
                     [RetentionNext]_retentionVars
              PROVE  (HeadsOK /\ UploadOK /\ PhasesOK)'
  BY TypeParts, RootVersions DEF RetentionInv
<1>. USE RetentionAssumption
     DEF HeadsOK, UploadOK, PhasesOK, UploadPhases, RemovalPhases, ManifestVersions,
         storeVars, uploadVars, sweepVars, removalVars, checkVars, historyVars, boundVars,
         Without, Documents, Manifest
<1>1. CASE UploadSteps
  <2>1. CASE PutPending
    BY <2>1 DEF PutPending
  <2>2. CASE Cancel
    BY <2>2 DEF Cancel
  <2>3. CASE Drained
    BY <2>3 DEF Drained
  <2>4. CASE CommitBegins
    BY <2>4 DEF CommitBegins
  <2>5. CASE ReadyApplied
    BY <2>5 DEF ReadyApplied
  <2>6. CASE ReadyReturns
    BY <2>6 DEF ReadyReturns, ReadyRetained, Heads
  <2>7. CASE ReadyThrows
    BY <2>7 DEF ReadyThrows, ReadyRetained, Heads
  <2>8. CASE RollbackBegins
    BY <2>8 DEF RollbackBegins
  <2>9. CASE RollbackDeletes
    BY <2>9 DEF RollbackDeletes
  <2>10. CASE RollbackProves
    BY <2>10 DEF RollbackProves
  <2>11. CASE RollbackReturns
    BY <2>11 DEF RollbackReturns
  <2>12. ASSUME NEW i \in Chunks, PutChunk(i) PROVE (HeadsOK /\ UploadOK /\ PhasesOK)'
    BY <2>12 DEF PutChunk
  <2>13. ASSUME NEW i \in Chunks, RollbackSweeps(i) PROVE (HeadsOK /\ UploadOK /\ PhasesOK)'
    BY <2>13 DEF RollbackSweeps, SweepChunk
  <2>14. ASSUME NEW d \in Documents, PutApplied(d) PROVE (HeadsOK /\ UploadOK /\ PhasesOK)'
    BY <2>14 DEF PutApplied
  <2>15. ASSUME NEW d \in Documents, PutThrows(d) PROVE (HeadsOK /\ UploadOK /\ PhasesOK)'
    BY <2>15 DEF PutThrows
  <2>16. ASSUME NEW d \in Documents, PutReturns(d) PROVE (HeadsOK /\ UploadOK /\ PhasesOK)'
    BY <2>16 DEF PutReturns, OwnVersion, Heads
  <2>. QED
    BY <1>1, <2>1, <2>2, <2>3, <2>4, <2>5, <2>6, <2>7, <2>8, <2>9, <2>10, <2>11, <2>12, <2>13, <2>14, <2>15, <2>16 DEF UploadSteps
<1>2. CASE RemovalSteps
  <2>1. CASE RemoveBegins
    BY <2>1 DEF RemoveBegins, SweepOf
  <2>2. CASE RemoveRoot
    BY <2>2 DEF RemoveRoot, SweepOf
  <2>3. CASE RemoveFinds
    BY <2>3 DEF RemoveFinds
  <2>4. CASE RemoveEnds
    BY <2>4 DEF RemoveEnds
  <2>5. ASSUME NEW h \in Heads, RemoveSweeps(h) PROVE (HeadsOK /\ UploadOK /\ PhasesOK)'
    BY <2>5 DEF RemoveSweeps, SweepChunk, Listed
  <2>6. ASSUME NEW i \in Chunks, RemoveClears(i) PROVE (HeadsOK /\ UploadOK /\ PhasesOK)'
    BY <2>6 DEF RemoveClears
  <2>. QED
    BY <1>2, <2>1, <2>2, <2>3, <2>4, <2>5, <2>6 DEF RemovalSteps
<1>3. CASE CheckSteps
  <2>1. /\ dropped' \in {dropped, dropped \cup ({check.head} \cap stored)}
        /\ retained' \in {retained, retained \ {check.head}, retained \cup {check.head}}
    BY <1>3 DEF CheckSteps, CheckListing, CheckDocument, CheckParent, CheckEntry, CheckChild,
                CheckExact, CheckThrows, KeepIfAuthored, Keep, Adopt, Verdict, GoOn
  <2>2. HeadsOK'
    BY <1>3, <2>1 DEF CheckSteps, ChecksOK, StoreOK
  <2>3. UNCHANGED <<uploadVars, sweepVars, lock, removalVars, historyVars>>
    BY <1>3 DEF CheckSteps
  <2>. QED
    BY <2>2, <2>3
<1>4. CASE Restart
  BY <1>4 DEF Restart
<1>5. ASSUME NEW h \in Heads, CheckBegins(h) PROVE (HeadsOK /\ UploadOK /\ PhasesOK)'
  BY <1>5 DEF CheckBegins
<1>6. ASSUME NEW h \in Heads, Prune(h) PROVE (HeadsOK /\ UploadOK /\ PhasesOK)'
  BY <1>6 DEF Prune
<1>7. CASE StrangerRemoves
  BY <1>7 DEF StrangerRemoves
<1>8. ASSUME NEW d \in Documents, StrangerPuts(d) PROVE (HeadsOK /\ UploadOK /\ PhasesOK)'
  BY <1>8 DEF StrangerPuts
<1>9. CASE UNCHANGED retentionVars
  BY <1>9 DEF retentionVars
<1>. QED
  BY <1>1, <1>2, <1>3, <1>4, <1>5, <1>6, <1>7, <1>8, <1>9 DEF RetentionNext, StoreSteps

\* A running check is about one entry, and knows where it is.
LEMMA ChecksStep == ChecksOK /\ [RetentionNext]_retentionVars => ChecksOK'
<1>. SUFFICES ASSUME ChecksOK, [RetentionNext]_retentionVars PROVE ChecksOK'
  OBVIOUS
<1>. USE DEF ChecksOK, CheckPhases
<1>1. Idle \in [head : Heads \cup {NoHead}, at : CheckPhases, failed : BOOLEAN]
  BY DEF Idle
<1>2. CASE CheckSteps
  <2>. DEFINE h == check.head
  <2>1. check # Idle
    BY <1>2 DEF CheckSteps
  <2>2. \/ check' = Idle
        \/ \E at \in CheckPhases \ {"idle"} : check' = [check EXCEPT !.at = at]
        \/ check' = [check EXCEPT !.at = "document", !.failed = TRUE]
    BY <1>2 DEF CheckSteps, CheckListing, CheckDocument, CheckParent, CheckEntry, CheckChild,
                CheckExact, CheckThrows, KeepIfAuthored, Keep, Adopt, Verdict, GoOn
  <2>. QED
    BY <1>1, <2>1, <2>2
<1>3. ASSUME NEW h \in Heads, CheckBegins(h) PROVE ChecksOK'
  BY <1>3 DEF CheckBegins
<1>4. CASE Restart
  BY <1>1, <1>4 DEF Restart
<1>5. CASE UNCHANGED check
  BY <1>5
<1>. QED
  BY <1>2, <1>3, <1>4, <1>5
  DEF RetentionNext, StoreSteps, UploadSteps, RemovalSteps, PutPending, Cancel, Drained,
      CommitBegins, ReadyApplied, ReadyReturns, ReadyThrows, RollbackBegins, RollbackDeletes,
      RollbackProves, RollbackReturns, PutChunk, RollbackSweeps, PutApplied, PutReturns,
      PutThrows, RemoveBegins, RemoveRoot, RemoveFinds, RemoveEnds, RemoveSweeps,
      RemoveClears, Prune, StrangerRemoves, StrangerPuts, checkVars, retentionVars

\* The lock of the file passes from one operation to the next, and with the end of its
\* holder.
LEMMA LocksStep ==
    RetentionInv /\ [RetentionNext]_retentionVars => LocksHeld'
<1>. SUFFICES ASSUME LocksHeld, UploadOK, PhasesOK,
                     [RetentionNext]_retentionVars
              PROVE  LocksHeld'
  BY TypeParts, RootVersions DEF RetentionInv
<1>. USE DEF LocksHeld, UploadOK, PhasesOK, Unlocked, SweepOf, storeVars, uploadVars, sweepVars,
         removalVars, checkVars, historyVars, boundVars
<1>1. CASE PutPending
  BY <1>1 DEF PutPending
<1>2. CASE Drained
  BY <1>2 DEF Drained
<1>3. CASE CommitBegins
  BY <1>3 DEF CommitBegins
<1>4. CASE ReadyApplied
  BY <1>4 DEF ReadyApplied
<1>5. CASE ReadyReturns
  BY <1>5 DEF ReadyReturns, ReadyRetained
<1>6. CASE ReadyThrows
  BY <1>6 DEF ReadyThrows, ReadyRetained
<1>7. CASE RollbackBegins
  BY <1>7 DEF RollbackBegins, Failing
<1>8. CASE RollbackDeletes
  BY <1>8 DEF RollbackDeletes
<1>9. CASE RollbackProves
  BY <1>9 DEF RollbackProves
<1>10. CASE RollbackReturns
  BY <1>10 DEF RollbackReturns
<1>11. ASSUME NEW d \in Documents, PutReturns(d) PROVE LocksHeld'
  BY <1>11 DEF PutReturns
<1>12. CASE RemoveBegins
  BY <1>12 DEF RemoveBegins
<1>13. CASE RemoveRoot
  BY <1>13 DEF RemoveRoot
<1>14. CASE RemoveFinds
  BY <1>14 DEF RemoveFinds
<1>15. CASE RemoveEnds
  BY <1>15 DEF RemoveEnds
<1>16. ASSUME NEW i \in Chunks, RemoveClears(i) PROVE LocksHeld'
  BY <1>16 DEF RemoveClears
<1>17. CASE Restart
  BY <1>17 DEF Restart
<1>18. CASE UNCHANGED <<lock, upload, removal>>
  BY <1>18
<1>. QED
  BY <1>1, <1>2, <1>3, <1>4, <1>5, <1>6, <1>7, <1>8, <1>9, <1>10, <1>11, <1>12, <1>13,
     <1>14, <1>15, <1>16, <1>17, <1>18
  DEF RetentionNext, StoreSteps, UploadSteps, RemovalSteps, Cancel, PutChunk, RollbackSweeps,
      PutApplied, PutThrows, RemoveSweeps, CheckSteps, CheckBegins, Prune, StrangerRemoves,
      StrangerPuts, storeVars, uploadVars, sweepVars, removalVars, checkVars, historyVars,
      boundVars, retentionVars

\* The puts of the upload stay in order.
LEMMA PutsStep ==
    RetentionInv /\ [RetentionNext]_retentionVars => PutsInOrder'
<1>. SUFFICES ASSUME PutsInOrder, UploadOK, PhasesOK, StoreOK,
                     [RetentionNext]_retentionVars
              PROVE  PutsInOrder'
  BY TypeParts, RootVersions DEF RetentionInv
<1>. USE RetentionAssumption DEF PutsInOrder, UploadOK, PhasesOK, StoreOK, PutsSettled,
         InFlight, Documents, Manifest, Apply, Delete, DeleteExact, Failing, Committed,
         OwnVersion, storeVars, uploadVars, sweepVars, removalVars, checkVars, historyVars,
         boundVars
<1>1. CASE PutPending
  BY <1>1 DEF PutPending
<1>2. CASE Cancel
  BY <1>2 DEF Cancel
<1>3. CASE Drained
  BY <1>3 DEF Drained
<1>4. CASE CommitBegins
  BY <1>4 DEF CommitBegins
<1>5. CASE ReadyApplied
  BY <1>5 DEF ReadyApplied
<1>6. CASE ReadyReturns
  BY <1>6 DEF ReadyReturns, ReadyRetained
<1>7. CASE ReadyThrows
  BY <1>7 DEF ReadyThrows, ReadyRetained
<1>8. CASE RollbackBegins
  BY <1>8 DEF RollbackBegins
<1>9. CASE RollbackDeletes
  BY <1>9 DEF RollbackDeletes
<1>10. CASE RollbackProves
  BY <1>10 DEF RollbackProves
<1>11. CASE RollbackReturns
  BY <1>11 DEF RollbackReturns
<1>12. ASSUME NEW i \in Chunks, PutChunk(i) PROVE PutsInOrder'
  BY <1>12 DEF PutChunk
<1>13. ASSUME NEW d \in Documents, PutApplied(d) PROVE PutsInOrder'
  BY <1>13 DEF PutApplied
<1>14. ASSUME NEW d \in Documents, PutReturns(d) PROVE PutsInOrder'
  BY <1>14 DEF PutReturns
<1>15. ASSUME NEW d \in Documents, PutThrows(d) PROVE PutsInOrder'
  BY <1>15 DEF PutThrows
<1>16. ASSUME NEW i \in Chunks, RollbackSweeps(i) PROVE PutsInOrder'
  BY <1>16 DEF RollbackSweeps, SweepChunk
<1>17. CASE RemoveRoot
  BY <1>17 DEF RemoveRoot
<1>18. ASSUME NEW h \in Heads, RemoveSweeps(h) PROVE PutsInOrder'
  BY <1>18 DEF RemoveSweeps, SweepChunk
<1>19. ASSUME NEW i \in Chunks, RemoveClears(i) PROVE PutsInOrder'
  BY <1>19 DEF RemoveClears
<1>20. CASE Restart
  BY <1>20 DEF Restart
<1>21. ASSUME NEW h \in Heads, Prune(h) PROVE PutsInOrder'
  BY <1>21 DEF Prune
<1>22. CASE StrangerRemoves
  BY <1>22 DEF StrangerRemoves
<1>23. ASSUME NEW d \in Documents, StrangerPuts(d) PROVE PutsInOrder'
  BY <1>23 DEF StrangerPuts
<1>24. CASE UNCHANGED <<upload, puts, captured, current>>
  BY <1>24
<1>. QED
  BY <1>1, <1>2, <1>3, <1>4, <1>5, <1>6, <1>7, <1>8, <1>9, <1>10, <1>11, <1>12, <1>13,
     <1>14, <1>15, <1>16, <1>17, <1>18, <1>19, <1>20, <1>21, <1>22, <1>23, <1>24
  DEF RetentionNext, StoreSteps, UploadSteps, RemovalSteps, RemoveBegins, RemoveFinds,
      RemoveEnds, CheckSteps, CheckBegins, storeVars, uploadVars, sweepVars, removalVars,
      checkVars, historyVars, boundVars, retentionVars

\* The pending root comes before everything else.
LEMMA RootFirstStep ==
    RetentionInv /\ [RetentionNext]_retentionVars => RootFirst'
<1>. SUFFICES ASSUME StoreOK, UploadOK, PhasesOK, LocksHeld, PutsInOrder,
                     RootFirst, RemovalFollowsRoot, ReadyIsCommitted,
                     [RetentionNext]_retentionVars
              PROVE  RootFirst'
  BY TypeParts, RootVersions DEF RetentionInv
<1>. USE RetentionAssumption DEF RootFirst, RemovalFollowsRoot, Rootless, PutsInOrder, UploadOK,
         PhasesOK, StoreOK, Documents, Manifest, Apply, Delete, DeleteExact, storeVars,
         uploadVars, sweepVars, removalVars, checkVars, historyVars, boundVars
<1>1. CASE PutPending
  BY <1>1 DEF PutPending
<1>2. CASE Drained
  BY <1>2 DEF Drained
<1>3. CASE CommitBegins
  BY <1>3 DEF CommitBegins
<1>4. CASE ReadyApplied
  BY <1>4 DEF ReadyApplied
<1>5. CASE ReadyReturns
  BY <1>5 DEF ReadyReturns, ReadyRetained
<1>6. CASE ReadyThrows
  BY <1>6 DEF ReadyThrows, ReadyRetained
<1>7. CASE RollbackBegins
  BY <1>7 DEF RollbackBegins, Failing
<1>8. CASE RollbackDeletes
  BY <1>8 DEF RollbackDeletes
<1>9. CASE RollbackProves
  BY <1>9 DEF RollbackProves
<1>10. CASE RollbackReturns
  BY <1>10 DEF RollbackReturns
<1>11. ASSUME NEW i \in Chunks, PutChunk(i) PROVE RootFirst'
  BY <1>11 DEF PutChunk
<1>12. ASSUME NEW d \in Documents, PutApplied(d) PROVE RootFirst'
  BY <1>12 DEF PutApplied
<1>13. ASSUME NEW d \in Documents, PutReturns(d) PROVE RootFirst'
  BY <1>13 DEF PutReturns
<1>14. ASSUME NEW d \in Documents, PutThrows(d) PROVE RootFirst'
  BY <1>14 DEF PutThrows, InFlight
<1>15. ASSUME NEW i \in Chunks, RollbackSweeps(i) PROVE RootFirst'
  BY <1>15 DEF RollbackSweeps, SweepChunk
<1>16. CASE RemoveBegins
  BY <1>16 DEF RemoveBegins, SweepOf
<1>17. CASE RemoveRoot
  BY <1>17 DEF RemoveRoot, SweepOf
<1>18. CASE RemoveFinds
  BY <1>18 DEF RemoveFinds
<1>19. CASE RemoveEnds
  BY <1>19 DEF RemoveEnds
<1>20. ASSUME NEW h \in Heads, RemoveSweeps(h) PROVE RootFirst'
  BY <1>20 DEF RemoveSweeps, SweepChunk, Heads, Listed
<1>21. ASSUME NEW i \in Chunks, RemoveClears(i) PROVE RootFirst'
  BY <1>21 DEF RemoveClears
<1>22. CASE Restart
  BY <1>22 DEF Restart, InFlight
<1>23. ASSUME NEW h \in Heads, Prune(h) PROVE RootFirst'
  BY <1>23 DEF Prune, Heads
<1>24. CASE StrangerRemoves
  BY <1>24 DEF StrangerRemoves
<1>25. ASSUME NEW d \in Documents, StrangerPuts(d) PROVE RootFirst'
  BY <1>25 DEF StrangerPuts
<1>26. CASE UNCHANGED <<upload, puts, captured, current, removal>>
  BY <1>26
<1>. QED
  BY <1>1, <1>2, <1>3, <1>4, <1>5, <1>6, <1>7, <1>8, <1>9, <1>10, <1>11, <1>12, <1>13,
     <1>14, <1>15, <1>16, <1>17, <1>18, <1>19, <1>20, <1>21, <1>22, <1>23, <1>24, <1>25, <1>26
  DEF RetentionNext, StoreSteps, UploadSteps, RemovalSteps, Cancel, CheckSteps, CheckBegins,
      storeVars, uploadVars, sweepVars, removalVars, checkVars, historyVars, boundVars,
      retentionVars

\* No step makes a root ready, or lets a removal begin with a ready root, before every
\* chunk is put.
LEMMA ReadyStep ==
    RetentionInv /\ [RetentionNext]_retentionVars => ReadyIsCommitted'
<1>. SUFFICES ASSUME StoreOK, UploadOK, PhasesOK, LocksHeld, PutsInOrder,
                     RootFirst, RemovalFollowsRoot, ReadyIsCommitted,
                     [RetentionNext]_retentionVars
              PROVE  ReadyIsCommitted'
  BY TypeParts, RootVersions DEF RetentionInv
<1>. USE RetentionAssumption DEF ReadyIsCommitted, Committed, UploadOK, PhasesOK, StoreOK,
         Documents, Manifest, Apply, Delete, DeleteExact, storeVars, uploadVars, sweepVars,
         removalVars, checkVars, historyVars, boundVars
<1>1. CASE PutPending
  BY <1>1 DEF PutPending
<1>2. CASE Drained
  BY <1>2 DEF Drained
<1>3. CASE CommitBegins
  BY <1>3 DEF CommitBegins
<1>4. CASE ReadyApplied
  BY <1>4 DEF ReadyApplied
<1>5. CASE ReadyReturns
  BY <1>5 DEF ReadyReturns, ReadyRetained
<1>6. CASE ReadyThrows
  BY <1>6 DEF ReadyThrows, ReadyRetained
<1>7. CASE RollbackBegins
  BY <1>7 DEF RollbackBegins, Failing
<1>8. CASE RollbackDeletes
  BY <1>8 DEF RollbackDeletes
<1>9. CASE RollbackProves
  BY <1>9 DEF RollbackProves
<1>10. CASE RollbackReturns
  BY <1>10 DEF RollbackReturns
<1>11. ASSUME NEW i \in Chunks, PutChunk(i) PROVE ReadyIsCommitted'
  BY <1>11 DEF PutChunk
<1>12. ASSUME NEW d \in Documents, PutApplied(d) PROVE ReadyIsCommitted'
  BY <1>12 DEF PutApplied, OwnVersion
<1>13. ASSUME NEW d \in Documents, PutReturns(d) PROVE ReadyIsCommitted'
  BY <1>13 DEF PutReturns
<1>14. ASSUME NEW d \in Documents, PutThrows(d) PROVE ReadyIsCommitted'
  BY <1>14 DEF PutThrows, InFlight
<1>15. ASSUME NEW i \in Chunks, RollbackSweeps(i) PROVE ReadyIsCommitted'
  BY <1>15 DEF RollbackSweeps, SweepChunk
<1>16. CASE RemoveBegins
  BY <1>16 DEF RemoveBegins, SweepOf
<1>17. CASE RemoveRoot
  BY <1>17 DEF RemoveRoot
<1>18. CASE RemoveEnds
  BY <1>18 DEF RemoveEnds
<1>19. ASSUME NEW h \in Heads, RemoveSweeps(h) PROVE ReadyIsCommitted'
  BY <1>19 DEF RemoveSweeps, SweepChunk, Listed
<1>20. ASSUME NEW i \in Chunks, RemoveClears(i) PROVE ReadyIsCommitted'
  BY <1>20 DEF RemoveClears
<1>21. CASE Restart
  BY <1>21 DEF Restart, InFlight
<1>22. ASSUME NEW h \in Heads, Prune(h) PROVE ReadyIsCommitted'
  BY <1>22 DEF Prune
<1>23. CASE StrangerRemoves
  BY <1>23 DEF StrangerRemoves
<1>24. ASSUME NEW d \in Documents, StrangerPuts(d) PROVE ReadyIsCommitted'
  BY <1>24 DEF StrangerPuts
<1>25. CASE UNCHANGED <<upload, puts, current, target, deleting>>
  BY <1>25
<1>. QED
  BY <1>1, <1>2, <1>3, <1>4, <1>5, <1>6, <1>7, <1>8, <1>9, <1>10, <1>11, <1>12, <1>13,
     <1>14, <1>15, <1>16, <1>17, <1>18, <1>19, <1>20, <1>21, <1>22, <1>23, <1>24, <1>25
  DEF RetentionNext, StoreSteps, UploadSteps, RemovalSteps, Cancel, RemoveFinds, CheckSteps,
      CheckBegins, storeVars, uploadVars, sweepVars, removalVars, checkVars, historyVars,
      boundVars, retentionVars

\* The chunks are only removed once the root is.
LEMMA RemovalStep ==
    RetentionInv /\ [RetentionNext]_retentionVars => RemovalFollowsRoot'
<1>. SUFFICES ASSUME StoreOK, UploadOK, PhasesOK, LocksHeld, PutsInOrder,
                     RootFirst, RemovalFollowsRoot, ReadyIsCommitted,
                     [RetentionNext]_retentionVars
              PROVE  RemovalFollowsRoot'
  BY TypeParts, RootVersions DEF RetentionInv
<1>. USE RetentionAssumption DEF RemovalFollowsRoot, Rootless, RootFirst, PutsInOrder,
         LocksHeld, UploadOK, PhasesOK, StoreOK, Documents, Manifest, Apply, Delete,
         DeleteExact, storeVars, uploadVars, sweepVars, removalVars, checkVars, historyVars,
         boundVars
<1>1. CASE PutPending
  BY <1>1 DEF PutPending
<1>2. CASE Drained
  BY <1>2 DEF Drained
<1>3. CASE CommitBegins
  BY <1>3 DEF CommitBegins
<1>4. CASE ReadyApplied
  BY <1>4 DEF ReadyApplied
<1>5. CASE ReadyReturns
  BY <1>5 DEF ReadyReturns, ReadyRetained
<1>6. CASE ReadyThrows
  BY <1>6 DEF ReadyThrows, ReadyRetained
<1>7. CASE RollbackBegins
  BY <1>7 DEF RollbackBegins, Failing
<1>8. CASE RollbackDeletes
  BY <1>8 DEF RollbackDeletes
<1>9. CASE RollbackProves
  BY <1>9 DEF RollbackProves
<1>10. CASE RollbackReturns
  BY <1>10 DEF RollbackReturns
<1>11. ASSUME NEW d \in Documents, PutApplied(d) PROVE RemovalFollowsRoot'
  BY <1>11 DEF PutApplied, OwnVersion
<1>12. ASSUME NEW d \in Documents, PutReturns(d) PROVE RemovalFollowsRoot'
  BY <1>12 DEF PutReturns
<1>13. ASSUME NEW i \in Chunks, RollbackSweeps(i) PROVE RemovalFollowsRoot'
  BY <1>13 DEF RollbackSweeps, SweepChunk
<1>14. CASE RemoveBegins
  BY <1>14 DEF RemoveBegins, SweepOf, Unlocked
<1>15. CASE RemoveRoot
  BY <1>15 DEF RemoveRoot, SweepOf
<1>16. CASE RemoveFinds
  BY <1>16 DEF RemoveFinds
<1>17. CASE RemoveEnds
  BY <1>17 DEF RemoveEnds
<1>18. ASSUME NEW h \in Heads, RemoveSweeps(h) PROVE RemovalFollowsRoot'
  BY <1>18 DEF RemoveSweeps, SweepChunk, Listed
<1>19. ASSUME NEW i \in Chunks, RemoveClears(i) PROVE RemovalFollowsRoot'
  BY <1>19 DEF RemoveClears
<1>20. CASE Restart
  BY <1>20 DEF Restart
<1>21. ASSUME NEW h \in Heads, Prune(h) PROVE RemovalFollowsRoot'
  BY <1>21 DEF Prune
<1>22. CASE StrangerRemoves
  BY <1>22 DEF StrangerRemoves
<1>23. ASSUME NEW d \in Documents, StrangerPuts(d) PROVE RemovalFollowsRoot'
  BY <1>23 DEF StrangerPuts
<1>24. CASE UNCHANGED <<upload, captured, current, removal, target, deleting, found, rootRemoved>>
  BY <1>24
<1>. QED
  BY <1>1, <1>2, <1>3, <1>4, <1>5, <1>6, <1>7, <1>8, <1>9, <1>10, <1>11, <1>12, <1>13,
     <1>14, <1>15, <1>16, <1>17, <1>18, <1>19, <1>20, <1>21, <1>22, <1>23, <1>24
  DEF RetentionNext, StoreSteps, UploadSteps, RemovalSteps, Cancel, PutChunk, PutThrows,
      CheckSteps, CheckBegins, storeVars, uploadVars, sweepVars, removalVars, checkVars,
      historyVars, boundVars, retentionVars

\* What a manifest lists.
LEMMA ListedHeads ==
    ASSUME NEW v, NEW h
    PROVE  h \in Listed(v) <=>
               \E i \in Chunks : (v = "ready" /\ h = <<i, "upload">>)
                                 \/ (v = "other" /\ h = <<i, "other">>)
<1>1. CASE v = "ready"
  <2>1. Listed(v) = Chunks \X {"upload"} /\ v # "other"
    BY <1>1 DEF Listed
  <2>. QED
    BY <1>1, <2>1
<1>2. CASE v = "other"
  <2>1. Listed(v) = Chunks \X {"other"} /\ v # "ready"
    BY <1>2 DEF Listed
  <2>. QED
    BY <1>2, <2>1
<1>3. CASE v # "ready" /\ v # "other"
  <2>1. Listed(v) = {}
    BY <1>3, Zenon DEF Listed
  <2>. QED
    BY <1>3, <2>1
<1>. QED
  BY <1>1, <1>2, <1>3

\* What a cleanup has swept does not come back while it runs.
LEMMA SweptStep ==
    RetentionInv /\ [RetentionNext]_retentionVars => SweptIsGone'
<1>. SUFFICES ASSUME StoreOK, UploadOK, PhasesOK, LocksHeld, PutsInOrder,
                     RootFirst, RemovalFollowsRoot, ReadyIsCommitted, SweptIsGone, ChecksOK,
                     ChecksOwn, HeadsOK, RollbackIsComplete, RemovalIsComplete,
                     [RetentionNext]_retentionVars
              PROVE  SweptIsGone'
  BY TypeParts, RootVersions DEF RetentionInv
<1>. USE RetentionAssumption DEF SweptIsGone, RemovalFollowsRoot, Rootless, ReadyIsCommitted,
         PutsInOrder, LocksHeld, UploadOK, PhasesOK, StoreOK, Documents, Manifest, Apply,
         Delete, DeleteExact, storeVars, uploadVars, sweepVars, removalVars, checkVars,
         historyVars, boundVars
<1>1. CASE PutPending
  BY <1>1 DEF PutPending
<1>2. CASE Drained
  BY <1>2 DEF Drained
<1>3. CASE CommitBegins
  BY <1>3, ListedHeads DEF CommitBegins
<1>4. CASE ReadyApplied
  BY <1>4, ListedHeads DEF ReadyApplied
<1>5. CASE ReadyReturns
  BY <1>5 DEF ReadyReturns, ReadyRetained
<1>6. CASE ReadyThrows
  BY <1>6 DEF ReadyThrows, ReadyRetained
<1>7. CASE RollbackBegins
  BY <1>7, ListedHeads DEF RollbackBegins, Failing, Unlocked
<1>8. CASE RollbackDeletes
  BY <1>8, ListedHeads DEF RollbackDeletes
<1>9. CASE RollbackProves
  BY <1>9, ListedHeads DEF RollbackProves
<1>10. CASE RollbackReturns
  BY <1>10 DEF RollbackReturns
<1>11. ASSUME NEW d \in Documents, PutApplied(d) PROVE SweptIsGone'
  BY <1>11, ListedHeads DEF PutApplied, OwnVersion, Committed, InFlight, PutsSettled
<1>12. ASSUME NEW d \in Documents, PutReturns(d) PROVE SweptIsGone'
  BY <1>12 DEF PutReturns
<1>13. ASSUME NEW i \in Chunks, RollbackSweeps(i) PROVE SweptIsGone'
  BY <1>13, ListedHeads DEF RollbackSweeps, SweepChunk
<1>14. CASE RemoveBegins
  BY <1>14, ListedHeads DEF RemoveBegins, SweepOf, Unlocked
<1>15. CASE RemoveRoot
  BY <1>15, ListedHeads DEF RemoveRoot, SweepOf
<1>16. CASE RemoveFinds
  BY <1>16 DEF RemoveFinds
<1>17. CASE RemoveEnds
  BY <1>17, ListedHeads DEF RemoveEnds
<1>18. ASSUME NEW h \in Heads, RemoveSweeps(h) PROVE SweptIsGone'
  BY <1>18, ListedHeads DEF RemoveSweeps, SweepChunk
<1>19. ASSUME NEW i \in Chunks, RemoveClears(i) PROVE SweptIsGone'
  BY <1>19, ListedHeads DEF RemoveClears
<1>20. CASE Restart
  BY <1>20 DEF Restart
<1>21. ASSUME NEW h \in Heads, Prune(h) PROVE SweptIsGone'
  BY <1>21, ListedHeads DEF Prune, Heads
<1>22. CASE StrangerRemoves
  BY <1>22, ListedHeads DEF StrangerRemoves
<1>23. ASSUME NEW d \in Documents, StrangerPuts(d) PROVE SweptIsGone'
  BY <1>23, ListedHeads DEF StrangerPuts
<1>24. CASE UNCHANGED <<upload, current, removal, target, swept, left>>
  BY <1>24
<1>. QED
  BY <1>1, <1>2, <1>3, <1>4, <1>5, <1>6, <1>7, <1>8, <1>9, <1>10, <1>11, <1>12, <1>13,
     <1>14, <1>15, <1>16, <1>17, <1>18, <1>19, <1>20, <1>21, <1>22, <1>23, <1>24
  DEF RetentionNext, StoreSteps, UploadSteps, RemovalSteps, Cancel, PutChunk, PutThrows,
      CheckSteps, CheckBegins, storeVars, uploadVars, sweepVars, removalVars, checkVars,
      historyVars, boundVars, retentionVars

\* A rollback that says so has removed every chunk, and none comes back.
LEMMA RollbackStep ==
    RetentionInv /\ [RetentionNext]_retentionVars => RollbackIsComplete'
<1>. SUFFICES ASSUME StoreOK, UploadOK, PhasesOK, LocksHeld, PutsInOrder,
                     RootFirst, RemovalFollowsRoot, ReadyIsCommitted, SweptIsGone, ChecksOK,
                     ChecksOwn, HeadsOK, RollbackIsComplete, RemovalIsComplete,
                     [RetentionNext]_retentionVars
              PROVE  RollbackIsComplete'
  BY TypeParts, RootVersions DEF RetentionInv
<1>. USE RetentionAssumption DEF RollbackIsComplete, SweptIsGone, PutsInOrder, LocksHeld,
         UploadOK, PhasesOK, StoreOK, Documents, Manifest, Apply, Delete, DeleteExact,
         storeVars, uploadVars, sweepVars, removalVars, checkVars, historyVars, boundVars
<1>1. CASE PutPending
  BY <1>1 DEF PutPending
<1>2. CASE Drained
  BY <1>2 DEF Drained
<1>3. CASE CommitBegins
  BY <1>3 DEF CommitBegins
<1>4. CASE ReadyApplied
  BY <1>4 DEF ReadyApplied
<1>5. CASE ReadyReturns
  BY <1>5 DEF ReadyReturns, ReadyRetained
<1>6. CASE ReadyThrows
  BY <1>6 DEF ReadyThrows, ReadyRetained
<1>7. CASE RollbackBegins
  BY <1>7 DEF RollbackBegins, Failing, Unlocked
<1>8. CASE RollbackDeletes
  BY <1>8 DEF RollbackDeletes
<1>9. CASE RollbackProves
  BY <1>9 DEF RollbackProves
<1>10. CASE RollbackReturns
  BY <1>10 DEF RollbackReturns
<1>11. ASSUME NEW d \in Documents, PutApplied(d) PROVE RollbackIsComplete'
  BY <1>11 DEF PutApplied, OwnVersion, Committed, InFlight, PutsSettled
<1>12. ASSUME NEW d \in Documents, PutReturns(d) PROVE RollbackIsComplete'
  BY <1>12 DEF PutReturns
<1>13. ASSUME NEW i \in Chunks, RollbackSweeps(i) PROVE RollbackIsComplete'
  BY <1>13 DEF RollbackSweeps, SweepChunk
<1>14. CASE RemoveRoot
  BY <1>14 DEF RemoveRoot, SweepOf
<1>15. ASSUME NEW h \in Heads, RemoveSweeps(h) PROVE RollbackIsComplete'
  BY <1>15 DEF RemoveSweeps, SweepChunk
<1>16. ASSUME NEW i \in Chunks, RemoveClears(i) PROVE RollbackIsComplete'
  BY <1>16 DEF RemoveClears
<1>17. CASE Restart
  BY <1>17 DEF Restart
<1>18. ASSUME NEW h \in Heads, Prune(h) PROVE RollbackIsComplete'
  BY <1>18 DEF Prune, Heads
<1>19. CASE StrangerRemoves
  BY <1>19 DEF StrangerRemoves
<1>20. ASSUME NEW d \in Documents, StrangerPuts(d) PROVE RollbackIsComplete'
  BY <1>20 DEF StrangerPuts
<1>21. CASE UNCHANGED <<upload, current>>
  BY <1>21
<1>. QED
  BY <1>1, <1>2, <1>3, <1>4, <1>5, <1>6, <1>7, <1>8, <1>9, <1>10, <1>11, <1>12, <1>13,
     <1>14, <1>15, <1>16, <1>17, <1>18, <1>19, <1>20, <1>21
  DEF RetentionNext, StoreSteps, UploadSteps, RemovalSteps, Cancel, PutChunk, PutThrows,
      RemoveBegins, RemoveFinds, RemoveEnds, CheckSteps, CheckBegins, storeVars, uploadVars,
      sweepVars, removalVars, checkVars, historyVars, boundVars, retentionVars

\* A removal that says so has removed the root and what it listed, and nothing of it
\* comes back.
LEMMA RemovalCompleteStep ==
    RetentionInv /\ [RetentionNext]_retentionVars => RemovalIsComplete'
<1>. SUFFICES ASSUME StoreOK, UploadOK, PhasesOK, LocksHeld, PutsInOrder,
                     RootFirst, RemovalFollowsRoot, ReadyIsCommitted, SweptIsGone, ChecksOK,
                     ChecksOwn, HeadsOK, RollbackIsComplete, RemovalIsComplete,
                     [RetentionNext]_retentionVars
              PROVE  RemovalIsComplete'
  BY TypeParts, RootVersions DEF RetentionInv
<1>. USE RetentionAssumption DEF RemovalIsComplete, SweptIsGone, RemovalFollowsRoot, Rootless,
         ReadyIsCommitted, PutsInOrder, UploadOK, PhasesOK, StoreOK, Documents, Manifest, Apply,
         Delete, DeleteExact, storeVars, uploadVars, sweepVars, removalVars, checkVars,
         historyVars, boundVars
<1>1. CASE ReadyApplied
  BY <1>1, ListedHeads DEF ReadyApplied
<1>2. CASE RollbackDeletes
  BY <1>2, ListedHeads DEF RollbackDeletes
<1>3. ASSUME NEW d \in Documents, PutApplied(d) PROVE RemovalIsComplete'
  BY <1>3, ListedHeads DEF PutApplied, OwnVersion, Committed, InFlight, PutsSettled
<1>4. ASSUME NEW i \in Chunks, RollbackSweeps(i) PROVE RemovalIsComplete'
  BY <1>4, ListedHeads DEF RollbackSweeps, SweepChunk
<1>5. CASE RemoveBegins
  BY <1>5, ListedHeads DEF RemoveBegins, SweepOf, Unlocked
<1>6. CASE RemoveRoot
  BY <1>6, ListedHeads DEF RemoveRoot, SweepOf
<1>7. CASE RemoveFinds
  BY <1>7 DEF RemoveFinds
<1>8. CASE RemoveEnds
  BY <1>8, ListedHeads DEF RemoveEnds
<1>9. ASSUME NEW h \in Heads, RemoveSweeps(h) PROVE RemovalIsComplete'
  BY <1>9, ListedHeads DEF RemoveSweeps, SweepChunk
<1>10. ASSUME NEW i \in Chunks, RemoveClears(i) PROVE RemovalIsComplete'
  BY <1>10, ListedHeads DEF RemoveClears
<1>11. CASE Restart
  BY <1>11 DEF Restart
<1>12. ASSUME NEW h \in Heads, Prune(h) PROVE RemovalIsComplete'
  BY <1>12, ListedHeads DEF Prune, Heads
<1>13. CASE StrangerRemoves
  BY <1>13, ListedHeads DEF StrangerRemoves
<1>14. ASSUME NEW d \in Documents, StrangerPuts(d) PROVE RemovalIsComplete'
  BY <1>14, ListedHeads DEF StrangerPuts
<1>15. CASE UNCHANGED <<current, removal, target>>
  BY <1>15
<1>. QED
  BY <1>1, <1>2, <1>3, <1>4, <1>5, <1>6, <1>7, <1>8, <1>9, <1>10, <1>11, <1>12, <1>13,
     <1>14, <1>15
  DEF RetentionNext, StoreSteps, UploadSteps, RemovalSteps, PutPending, Cancel, Drained,
      CommitBegins, ReadyReturns, ReadyThrows, RollbackBegins, RollbackProves, RollbackReturns,
      PutChunk, PutReturns, PutThrows, CheckSteps, CheckBegins, storeVars, uploadVars,
      sweepVars, removalVars, checkVars, historyVars, boundVars, retentionVars

\* A check is about an entry of the upload.
LEMMA OwnStep ==
    RetentionInv /\ [RetentionNext]_retentionVars => ChecksOwn'
<1>. SUFFICES ASSUME StoreOK, UploadOK, PhasesOK, RootFirst, ChecksOK,
                     ChecksOwn, HeadsOK,
                     [RetentionNext]_retentionVars
              PROVE  ChecksOwn'
  BY TypeParts, RootVersions DEF RetentionInv
<1>. USE RetentionAssumption DEF ChecksOwn, ChecksOK, HeadsOK, RootFirst, UploadOK, PhasesOK,
         StoreOK, Documents, Manifest, Heads, Apply, Delete, DeleteExact, storeVars, uploadVars,
         sweepVars, removalVars, checkVars, historyVars, boundVars
<1>1. CASE ReadyApplied
  BY <1>1 DEF ReadyApplied
<1>2. CASE RollbackDeletes
  BY <1>2 DEF RollbackDeletes
<1>3. ASSUME NEW d \in Documents, PutApplied(d) PROVE ChecksOwn'
  BY <1>3 DEF PutApplied, OwnVersion
<1>4. ASSUME NEW i \in Chunks, RollbackSweeps(i) PROVE ChecksOwn'
  BY <1>4 DEF RollbackSweeps, SweepChunk
<1>5. CASE RemoveRoot
  BY <1>5 DEF RemoveRoot
<1>6. ASSUME NEW h \in Heads, RemoveSweeps(h) PROVE ChecksOwn'
  BY <1>6 DEF RemoveSweeps, SweepChunk
<1>7. ASSUME NEW i \in Chunks, RemoveClears(i) PROVE ChecksOwn'
  BY <1>7 DEF RemoveClears
<1>8. CASE CheckSteps
  <2>1. \/ check' = Idle
        \/ \E at \in CheckPhases : check' = [check EXCEPT !.at = at]
        \/ check' = [check EXCEPT !.at = "document", !.failed = TRUE]
    BY <1>8 DEF CheckSteps, CheckListing, CheckDocument, CheckParent, CheckEntry, CheckChild,
                CheckExact, CheckThrows, KeepIfAuthored, Keep, Adopt, Verdict, GoOn,
                CheckPhases
  <2>2. dropped' \in {dropped, dropped \cup ({check.head} \cap stored)}
    BY <1>8 DEF CheckSteps, CheckListing, CheckDocument, CheckParent, CheckEntry, CheckChild,
                CheckExact, CheckThrows, KeepIfAuthored, Keep, Adopt, Verdict, GoOn
  <2>3. check # Idle /\ UNCHANGED <<stored, captured>>
    BY <1>8 DEF CheckSteps
  <2>4. check' # Idle => check'.head = check.head
    BY <2>1
  <2>. QED
    BY <2>2, <2>3, <2>4
<1>9. ASSUME NEW h \in Heads, CheckBegins(h) PROVE ChecksOwn'
  BY <1>9 DEF CheckBegins
<1>10. CASE Restart
  BY <1>10 DEF Restart
<1>11. ASSUME NEW h \in Heads, Prune(h) PROVE ChecksOwn'
  BY <1>11 DEF Prune
<1>12. CASE StrangerRemoves
  BY <1>12 DEF StrangerRemoves
<1>13. ASSUME NEW d \in Documents, StrangerPuts(d) PROVE ChecksOwn'
  BY <1>13 DEF StrangerPuts
<1>14. CASE UNCHANGED <<captured, stored, check, dropped>>
  BY <1>14
<1>. QED
  BY <1>1, <1>2, <1>3, <1>4, <1>5, <1>6, <1>7, <1>8, <1>9, <1>10, <1>11, <1>12, <1>13,
     <1>14
  DEF RetentionNext, StoreSteps, UploadSteps, RemovalSteps, PutPending, Cancel, Drained,
      CommitBegins, ReadyReturns, ReadyThrows, RollbackBegins, RollbackProves, RollbackReturns,
      PutChunk, PutReturns, PutThrows, RemoveBegins, RemoveFinds, RemoveEnds, storeVars,
      uploadVars, sweepVars, removalVars, checkVars, historyVars, boundVars, retentionVars

\* The invariant is inductive.
LEMMA RetentionStep == RetentionInv /\ [RetentionNext]_retentionVars => RetentionInv'
<1>. SUFFICES ASSUME RetentionInv, [RetentionNext]_retentionVars PROVE RetentionInv'
  OBVIOUS
<1>1. StoreOK' /\ HeadsOK' /\ UploadOK' /\ PhasesOK' /\ ChecksOK'
  BY TypeParts, StoreStep, PhasesStep, ChecksStep DEF RetentionInv
<1>2. RetentionTypeOK'
  BY <1>1 DEF RetentionTypeOK, StoreOK, HeadsOK, UploadOK
<1>. QED
  BY <1>1, <1>2, LocksStep, PutsStep, RootFirstStep, ReadyStep, RemovalStep, SweptStep,
     RollbackStep, RemovalCompleteStep, OwnStep
  DEF RetentionInv

\* The invariant holds in every state.
THEOREM RetentionSafe == RetentionSpec => []RetentionInv
BY InitRetentionInv, RetentionStep, PTL DEF RetentionSpec

\* What other writers have put is kept by this step.
Kept ==
    \A d \in Documents : current[d] = "other" /\ current'[d] = "none" =>
        \/ d = Manifest /\ removal = "deleting"
        \/ d \in found
        \/ d \in Chunks /\ target = "other"

\* One step for every action that changes the index.
LEMMA StrangersKept ==
    RetentionInv /\ [RetentionNext]_retentionVars => Kept
<1>. SUFFICES ASSUME StoreOK, HeadsOK, ChecksOwn,
                     [RetentionNext]_retentionVars
              PROVE  Kept
  BY TypeParts, RootVersions DEF RetentionInv
<1>. USE RetentionAssumption DEF Kept, StoreOK, HeadsOK, ChecksOwn, Documents, Manifest, Heads,
         Apply, Delete, DeleteExact, storeVars, uploadVars, sweepVars, removalVars, checkVars,
         historyVars, boundVars
<1>1. CASE ReadyApplied
  BY <1>1 DEF ReadyApplied
<1>2. CASE RollbackDeletes
  BY <1>2 DEF RollbackDeletes
<1>3. ASSUME NEW d \in Documents, PutApplied(d) PROVE Kept
  BY <1>3 DEF PutApplied, OwnVersion
<1>4. ASSUME NEW i \in Chunks, RollbackSweeps(i) PROVE Kept
  BY <1>4 DEF RollbackSweeps, SweepChunk
<1>5. CASE RemoveRoot
  BY <1>5 DEF RemoveRoot
<1>6. ASSUME NEW h \in Heads, RemoveSweeps(h) PROVE Kept
  BY <1>6, ListedHeads DEF RemoveSweeps, SweepChunk
<1>7. ASSUME NEW i \in Chunks, RemoveClears(i) PROVE Kept
  BY <1>7 DEF RemoveClears
<1>8. CASE Restart
  BY <1>8 DEF Restart
<1>9. ASSUME NEW h \in Heads, Prune(h) PROVE Kept
  BY <1>9 DEF Prune
<1>10. CASE StrangerRemoves
  BY <1>10 DEF StrangerRemoves
<1>11. ASSUME NEW d \in Documents, StrangerPuts(d) PROVE Kept
  BY <1>11 DEF StrangerPuts
<1>12. CASE UNCHANGED current
  BY <1>12
<1>. QED
  BY <1>1, <1>2, <1>3, <1>4, <1>5, <1>6, <1>7, <1>8, <1>9, <1>10, <1>11, <1>12
  DEF RetentionNext, StoreSteps, UploadSteps, RemovalSteps, PutPending, Cancel, Drained,
      CommitBegins, ReadyReturns, ReadyThrows, RollbackBegins, RollbackProves, RollbackReturns,
      PutChunk, PutReturns, PutThrows, RemoveBegins, RemoveFinds, RemoveEnds, CheckSteps,
      CheckBegins, storeVars, uploadVars, sweepVars, removalVars, checkVars, historyVars,
      boundVars, retentionVars

\* The removed root does not come back in this step.
StaysRemoved == rootRemoved => current[Manifest] = "ready" \/ current'[Manifest] # "ready"

\* The ready root is put by an upload that holds the lock, and it has a pending root.
LEMMA RemovalKept ==
    RetentionInv /\ [RetentionNext]_retentionVars => StaysRemoved
<1>. SUFFICES ASSUME StoreOK, RemovalFollowsRoot,
                     [RetentionNext]_retentionVars
              PROVE  StaysRemoved
  BY TypeParts, RootVersions DEF RetentionInv
<1>. USE RetentionAssumption DEF StaysRemoved, StoreOK, RemovalFollowsRoot, Rootless, Documents,
         Manifest, Apply, Delete, DeleteExact, storeVars, uploadVars, sweepVars, removalVars,
         checkVars, historyVars, boundVars
<1>1. CASE ReadyApplied
  BY <1>1 DEF ReadyApplied
<1>2. CASE RollbackDeletes
  BY <1>2 DEF RollbackDeletes
<1>3. ASSUME NEW d \in Documents, PutApplied(d) PROVE StaysRemoved
  BY <1>3 DEF PutApplied, OwnVersion
<1>4. ASSUME NEW i \in Chunks, RollbackSweeps(i) PROVE StaysRemoved
  BY <1>4 DEF RollbackSweeps, SweepChunk
<1>5. CASE RemoveRoot
  BY <1>5 DEF RemoveRoot
<1>6. ASSUME NEW h \in Heads, RemoveSweeps(h) PROVE StaysRemoved
  BY <1>6, ListedHeads DEF RemoveSweeps, SweepChunk
<1>7. ASSUME NEW i \in Chunks, RemoveClears(i) PROVE StaysRemoved
  BY <1>7 DEF RemoveClears
<1>8. CASE Restart
  BY <1>8 DEF Restart
<1>9. ASSUME NEW h \in Heads, Prune(h) PROVE StaysRemoved
  BY <1>9 DEF Prune, Heads
<1>10. CASE StrangerRemoves
  BY <1>10 DEF StrangerRemoves
<1>11. ASSUME NEW d \in Documents, StrangerPuts(d) PROVE StaysRemoved
  BY <1>11 DEF StrangerPuts
<1>12. CASE UNCHANGED current
  BY <1>12
<1>. QED
  BY <1>1, <1>2, <1>3, <1>4, <1>5, <1>6, <1>7, <1>8, <1>9, <1>10, <1>11, <1>12
  DEF RetentionNext, StoreSteps, UploadSteps, RemovalSteps, PutPending, Cancel, Drained,
      CommitBegins, ReadyReturns, ReadyThrows, RollbackBegins, RollbackProves, RollbackReturns,
      PutChunk, PutReturns, PutThrows, RemoveBegins, RemoveFinds, RemoveEnds, CheckSteps,
      CheckBegins, storeVars, uploadVars, sweepVars, removalVars, checkVars, historyVars,
      boundVars, retentionVars


\* The types.
THEOREM RetentionTypeCorrect == RetentionSpec => []RetentionTypeOK
<1>1. RetentionInv => RetentionTypeOK
  BY DEF RetentionInv
<1>. QED
  BY <1>1, RetentionSafe, PTL

\* What another writer has put in the place of a root or of a chunk is not deleted by
\* a rollback, a removal of what it replaced, or the pruning.
THEOREM ReplacementsSurvive == RetentionSpec => ReplacementSurvives
<1>1. RetentionInv /\ [RetentionNext]_retentionVars => [Kept]_retentionVars
  BY StrangersKept
<1>. QED
  BY <1>1, RetentionSafe, PTL DEF RetentionSpec, ReplacementSurvives, Kept

\* An upload whose root has been removed does not bring the file back.
THEOREM RemovedFilesStayRemoved == RetentionSpec => RemovedStaysRemoved
<1>1. RetentionInv /\ [RetentionNext]_retentionVars => [StaysRemoved]_retentionVars
  BY RemovalKept
<1>. QED
  BY <1>1, RetentionSafe, PTL DEF RetentionSpec, RemovedStaysRemoved, StaysRemoved

\* An upload that was rolled back has left none of its chunks in the index.
THEOREM RollbacksAreComplete == RetentionSpec => []RollbackIsComplete
<1>1. RetentionInv => RollbackIsComplete
  BY DEF RetentionInv
<1>. QED
  BY <1>1, RetentionSafe, PTL

\* A removal that returns has removed the version it found, with every chunk of it.
THEOREM RemovalsAreComplete == RetentionSpec => []RemovalIsComplete
<1>1. RetentionInv => RemovalIsComplete
  BY DEF RetentionInv
<1>. QED
  BY <1>1, RetentionSafe, PTL

\* A pending root that is replaced or deleted is never put again.
LEMMA PastStep ==
    RetentionInv /\ Past /\ [RetentionNext]_retentionVars => Past'
<1>. SUFFICES ASSUME StoreOK, PutsInOrder, Past,
                     [RetentionNext]_retentionVars
              PROVE  Past'
  BY TypeParts, RootVersions DEF RetentionInv
<1>. USE RetentionAssumption DEF Past, StoreOK, PutsInOrder, Documents, Manifest, Apply, Delete,
         DeleteExact, storeVars, uploadVars, sweepVars, removalVars, checkVars, historyVars,
         boundVars
<1>1. CASE PutPending
  BY <1>1 DEF PutPending
<1>2. CASE CommitBegins
  BY <1>2 DEF CommitBegins
<1>3. CASE ReadyApplied
  BY <1>3 DEF ReadyApplied
<1>4. CASE ReadyReturns
  BY <1>4 DEF ReadyReturns, ReadyRetained
<1>5. CASE ReadyThrows
  BY <1>5 DEF ReadyThrows, ReadyRetained
<1>6. CASE RollbackBegins
  BY <1>6 DEF RollbackBegins, Failing
<1>7. CASE RollbackDeletes
  BY <1>7 DEF RollbackDeletes
<1>8. CASE RollbackProves
  BY <1>8 DEF RollbackProves
<1>9. CASE RollbackReturns
  BY <1>9 DEF RollbackReturns
<1>10. CASE Drained
  BY <1>10 DEF Drained
<1>11. ASSUME NEW d \in Documents, PutReturns(d) PROVE Past'
  BY <1>11 DEF PutReturns
<1>12. ASSUME NEW d \in Documents, PutApplied(d) PROVE Past'
  BY <1>12 DEF PutApplied, OwnVersion
<1>13. ASSUME NEW i \in Chunks, RollbackSweeps(i) PROVE Past'
  BY <1>13 DEF RollbackSweeps, SweepChunk
<1>14. CASE RemoveRoot
  BY <1>14 DEF RemoveRoot
<1>15. ASSUME NEW h \in Heads, RemoveSweeps(h) PROVE Past'
  BY <1>15, ListedHeads DEF RemoveSweeps, SweepChunk
<1>16. ASSUME NEW i \in Chunks, RemoveClears(i) PROVE Past'
  BY <1>16 DEF RemoveClears
<1>17. CASE Restart
  BY <1>17 DEF Restart
<1>18. ASSUME NEW h \in Heads, Prune(h) PROVE Past'
  BY <1>18 DEF Prune, Heads
<1>19. CASE StrangerRemoves
  BY <1>19 DEF StrangerRemoves
<1>20. ASSUME NEW d \in Documents, StrangerPuts(d) PROVE Past'
  BY <1>20 DEF StrangerPuts
<1>21. CASE UNCHANGED <<captured, current, upload>>
  BY <1>21
<1>. QED
  BY <1>1, <1>2, <1>3, <1>4, <1>5, <1>6, <1>7, <1>8, <1>9, <1>10, <1>11, <1>12, <1>13,
     <1>14, <1>15, <1>16, <1>17, <1>18, <1>19, <1>20, <1>21
  DEF RetentionNext, StoreSteps, UploadSteps, RemovalSteps, Cancel, PutChunk, PutThrows,
      RemoveBegins, RemoveFinds, RemoveEnds, CheckSteps, CheckBegins, storeVars, uploadVars,
      sweepVars, removalVars, checkVars, historyVars, boundVars, retentionVars

\* A file without a root of this upload never has one again.
LEMMA DoomedStep ==
    RetentionInv /\ Doomed /\ [RetentionNext]_retentionVars => Doomed'
<1>. SUFFICES ASSUME StoreOK, PutsInOrder, Doomed,
                     [RetentionNext]_retentionVars
              PROVE  Doomed'
  BY TypeParts, RootVersions DEF RetentionInv
<1>. USE RetentionAssumption DEF Doomed, StoreOK, PutsInOrder, Documents, Manifest, Apply,
         Delete, DeleteExact, storeVars, uploadVars, sweepVars, removalVars, checkVars,
         historyVars, boundVars
<1>1. CASE PutPending
  BY <1>1 DEF PutPending
<1>2. CASE CommitBegins
  BY <1>2 DEF CommitBegins
<1>3. CASE ReadyApplied
  BY <1>3 DEF ReadyApplied
<1>4. CASE ReadyReturns
  BY <1>4 DEF ReadyReturns, ReadyRetained
<1>5. CASE ReadyThrows
  BY <1>5 DEF ReadyThrows, ReadyRetained
<1>6. CASE RollbackBegins
  BY <1>6 DEF RollbackBegins, Failing
<1>7. CASE RollbackDeletes
  BY <1>7 DEF RollbackDeletes
<1>8. CASE RollbackProves
  BY <1>8 DEF RollbackProves
<1>9. CASE RollbackReturns
  BY <1>9 DEF RollbackReturns
<1>10. CASE Drained
  BY <1>10 DEF Drained
<1>11. ASSUME NEW d \in Documents, PutReturns(d) PROVE Doomed'
  BY <1>11 DEF PutReturns
<1>12. ASSUME NEW d \in Documents, PutApplied(d) PROVE Doomed'
  BY <1>12 DEF PutApplied, OwnVersion
<1>13. ASSUME NEW i \in Chunks, RollbackSweeps(i) PROVE Doomed'
  BY <1>13 DEF RollbackSweeps, SweepChunk
<1>14. CASE RemoveRoot
  BY <1>14 DEF RemoveRoot
<1>15. ASSUME NEW h \in Heads, RemoveSweeps(h) PROVE Doomed'
  BY <1>15, ListedHeads DEF RemoveSweeps, SweepChunk
<1>16. ASSUME NEW i \in Chunks, RemoveClears(i) PROVE Doomed'
  BY <1>16 DEF RemoveClears
<1>17. CASE Restart
  BY <1>17 DEF Restart
<1>18. ASSUME NEW h \in Heads, Prune(h) PROVE Doomed'
  BY <1>18 DEF Prune, Heads
<1>19. CASE StrangerRemoves
  BY <1>19 DEF StrangerRemoves
<1>20. ASSUME NEW d \in Documents, StrangerPuts(d) PROVE Doomed'
  BY <1>20 DEF StrangerPuts
<1>21. CASE UNCHANGED <<captured, current, upload, overtaken>>
  BY <1>21
<1>. QED
  BY <1>1, <1>2, <1>3, <1>4, <1>5, <1>6, <1>7, <1>8, <1>9, <1>10, <1>11, <1>12, <1>13,
     <1>14, <1>15, <1>16, <1>17, <1>18, <1>19, <1>20, <1>21
  DEF RetentionNext, StoreSteps, UploadSteps, RemovalSteps, Cancel, PutChunk, PutThrows,
      RemoveBegins, RemoveFinds, RemoveEnds, CheckSteps, CheckBegins, storeVars, uploadVars,
      sweepVars, removalVars, checkVars, historyVars, boundVars, retentionVars

\* The entries of the chunks stay: a delete of one follows the removal of the root, and
\* a chunk that the index does not name any more was replaced.
LEMMA EntriesStep ==
    RetentionInv /\ PruneInv /\ [RetentionNext]_retentionVars => EntriesStay'
<1>. SUFFICES ASSUME StoreOK, HeadsOK, UploadOK, PhasesOK, ChecksOK, ChecksOwn, LocksHeld,
                     PutsInOrder, RootFirst, RemovalFollowsRoot, ReadyIsCommitted,
                     EntriesStay, DropsAreSafe, ChecksAreSafe,
                     Past => Past', Doomed => Doomed',
                     [RetentionNext]_retentionVars
              PROVE  EntriesStay'
  BY TypeParts, RootVersions, PastStep, DoomedStep DEF RetentionInv, PruneInv
<1>. USE RetentionAssumption DEF EntriesStay, DropsAreSafe, StoreOK, UploadOK, PhasesOK,
         LocksHeld, PutsInOrder, RootFirst, RemovalFollowsRoot, ReadyIsCommitted, Documents,
         Manifest, Apply, Delete, DeleteExact, storeVars, uploadVars, sweepVars, removalVars,
         checkVars, historyVars, boundVars
<1>1. CASE PutPending
  BY <1>1 DEF PutPending
<1>2. CASE CommitBegins
  BY <1>2 DEF CommitBegins
<1>3. CASE ReadyApplied
  BY <1>3 DEF ReadyApplied
<1>4. CASE ReadyReturns
  BY <1>4 DEF ReadyReturns, ReadyRetained
<1>5. CASE ReadyThrows
  BY <1>5 DEF ReadyThrows, ReadyRetained
<1>6. CASE RollbackBegins
  BY <1>6 DEF RollbackBegins, Failing
<1>7. CASE RollbackDeletes
  BY <1>7 DEF RollbackDeletes
<1>8. CASE RollbackProves
  BY <1>8 DEF RollbackProves
<1>9. CASE RollbackReturns
  BY <1>9 DEF RollbackReturns
<1>10. CASE Drained
  BY <1>10 DEF Drained
<1>11. ASSUME NEW d \in Documents, PutReturns(d) PROVE EntriesStay'
  BY <1>11 DEF PutReturns
<1>12. ASSUME NEW d \in Documents, PutApplied(d) PROVE EntriesStay'
  BY <1>12 DEF PutApplied, OwnVersion
<1>13. ASSUME NEW i \in Chunks, RollbackSweeps(i) PROVE EntriesStay'
  BY <1>13 DEF RollbackSweeps, SweepChunk, Rootless, Doomed
<1>14. CASE RemoveRoot
  BY <1>14 DEF RemoveRoot
<1>15. ASSUME NEW h \in Heads, RemoveSweeps(h) PROVE EntriesStay'
  BY <1>15, ListedHeads DEF RemoveSweeps, SweepChunk, Rootless, Doomed
<1>16. ASSUME NEW i \in Chunks, RemoveClears(i) PROVE EntriesStay'
  BY <1>16 DEF RemoveClears, Rootless, Doomed
<1>17. CASE Restart
  BY <1>17 DEF Restart
<1>18. ASSUME NEW h \in Heads, Prune(h) PROVE EntriesStay'
  BY <1>18 DEF Prune, Heads, Past
<1>19. CASE StrangerRemoves
  BY <1>19 DEF StrangerRemoves
<1>20. ASSUME NEW d \in Documents, StrangerPuts(d) PROVE EntriesStay'
  BY <1>20 DEF StrangerPuts, Past
<1>21. CASE UNCHANGED <<captured, current, upload, overtaken, stored>>
  BY <1>21
<1>. QED
  BY <1>1, <1>2, <1>3, <1>4, <1>5, <1>6, <1>7, <1>8, <1>9, <1>10, <1>11, <1>12, <1>13,
     <1>14, <1>15, <1>16, <1>17, <1>18, <1>19, <1>20, <1>21
  DEF RetentionNext, StoreSteps, UploadSteps, RemovalSteps, Cancel, PutChunk, PutThrows,
      RemoveBegins, RemoveFinds, RemoveEnds, CheckSteps, CheckBegins, storeVars, uploadVars,
      sweepVars, removalVars, checkVars, historyVars, boundVars, retentionVars

\* No verdict drops an entry that a ready root needs: what the check has read is still
\* true when it decides, or some other writer came in between.
LEMMA DropsStep ==
    RetentionInv /\ PruneInv /\ ~BlindChecks
    /\ [RetentionNext]_retentionVars => DropsAreSafe'
<1>. SUFFICES ASSUME StoreOK, HeadsOK, UploadOK, PhasesOK, ChecksOK, ChecksOwn, LocksHeld,
                     PutsInOrder, RootFirst, RemovalFollowsRoot, ReadyIsCommitted,
                     current[Manifest] \in ManifestVersions \cup {"none"}, ~BlindChecks,
                     EntriesStay, DropsAreSafe, ChecksAreSafe,
                     Past => Past', Doomed => Doomed',
                     [RetentionNext]_retentionVars
              PROVE  DropsAreSafe'
  BY TypeParts, RootVersions, PastStep, DoomedStep DEF RetentionInv, PruneInv
<1>. USE RetentionAssumption DEF DropsAreSafe, Documents, Manifest, ChecksOwn, ChecksOK,
         PutsInOrder, RootFirst, EntriesStay, UploadOK, ChecksAreSafe, storeVars, uploadVars,
         sweepVars, removalVars, checkVars, historyVars, boundVars
<1>1. CASE CheckSteps
  <2>. DEFINE h == check.head
  <2>1. /\ check # Idle /\ h \in Heads /\ h[2] # "other" /\ h[1] \in captured
        /\ UNCHANGED <<current, stored, upload, puts, captured, overtaken>>
    BY <1>1 DEF CheckSteps
  <2>2. h[1] # Manifest => h[1] \in Chunks /\ h = <<h[1], "upload">>
    BY <2>1 DEF Heads
  <2>3. h[1] # Manifest /\ current[Manifest] \notin {"pending", "ready"} => Doomed
    BY <2>1, <2>2 DEF Doomed, ManifestVersions
  <2>4. dropped' \in {dropped, dropped \cup ({h} \cap stored)}
    BY <1>1 DEF CheckSteps, CheckListing, CheckDocument, CheckParent, CheckEntry, CheckChild,
                CheckExact, CheckThrows, KeepIfAuthored, Keep, Adopt, Verdict, GoOn
  <2>5. SUFFICES ASSUME dropped' # dropped, h \in stored
                 PROVE  /\ h[1] \in Chunks => h[1] \in overtaken \/ Doomed
                        /\ h = <<Manifest, "pending">> => Past
    BY <2>1, <2>4
  <2>6. ~CheckListing(h)
    BY <2>5 DEF CheckListing, Keep, Verdict, GoOn
  <2>7. ~CheckThrows(h)
    <3>. SUFFICES ASSUME CheckThrows(h) PROVE FALSE
      OBVIOUS
    <3>1. CASE check.at = "listing"
      BY <2>5, <3>1 DEF CheckThrows
    <3>2. CASE check.at = "entry"
      BY <3>2 DEF CheckThrows
    <3>3. CASE check.at \notin {"listing", "entry"}
      BY <2>5, <3>3, Zenon DEF CheckThrows, Keep, Verdict
    <3>. QED
      BY <3>1, <3>2, <3>3
  <2>8. CASE CheckDocument(h)
    <3>1. check.at = "document" /\ current[h[1]] # h[2] /\ ~check.failed /\ ~Authored(h[1])
      BY <2>5, <2>8 DEF CheckDocument, KeepIfAuthored, Keep, Verdict, GoOn
    <3>. QED
      BY <2>1, <2>2, <2>5, <3>1 DEF Authored, Past
  <2>9. CASE CheckParent(h)
    <3>1. check.at = "parent" /\ current[Manifest] \notin {"pending", "ready"}
      BY <2>5, <2>9 DEF CheckParent, KeepIfAuthored, Keep, Verdict, ValidChild
    <3>. QED
      BY <2>1, <2>3, <3>1
  <2>10. CASE CheckEntry(h)
    <3>1. h[1] = Manifest /\ current[Manifest] # h[2] /\ ~Authored(h[1])
      BY <2>5, <2>10 DEF CheckEntry, KeepIfAuthored, Adopt, Verdict, GoOn
    <3>. QED
      BY <2>1, <3>1 DEF Authored, Past
  <2>11. CASE CheckChild(h)
    <3>1. check.at = "child" /\ current[Manifest] \notin {"pending", "ready"}
      BY <2>5, <2>11 DEF CheckChild, Adopt, Verdict, ValidChild
    <3>2. h[1] # Manifest
      BY <2>1, <3>1
    <3>. QED
      BY <2>1, <2>2, <2>3, <3>1, <3>2
  <2>12. CASE CheckExact(h)
    <3>1. check.at = "exact" /\ current[Manifest] # "ready"
      BY <2>5, <2>12 DEF CheckExact, KeepIfAuthored, Adopt, Verdict, ValidChild
    <3>. QED
      BY <2>1, <2>2, <2>3, <2>5, <3>1 DEF Past
  <2>. QED
    BY <1>1, <2>6, <2>7, <2>8, <2>9, <2>10, <2>11, <2>12 DEF CheckSteps
<1>2. CASE Restart
  BY <1>2 DEF Restart
<1>3. ASSUME NEW h \in Heads, Prune(h) PROVE DropsAreSafe'
  BY <1>3 DEF Prune
<1>4. CASE StrangerRemoves
  BY <1>4 DEF StrangerRemoves
<1>5. ASSUME NEW d \in Documents, StrangerPuts(d) PROVE DropsAreSafe'
  BY <1>5 DEF StrangerPuts
<1>6. CASE UNCHANGED <<dropped, overtaken>>
  BY <1>6
<1>. QED
  BY <1>1, <1>2, <1>3, <1>4, <1>5, <1>6
  DEF RetentionNext, StoreSteps, UploadSteps, RemovalSteps, PutPending, Cancel, Drained,
      CommitBegins, ReadyApplied, ReadyReturns, ReadyThrows, RollbackBegins, RollbackDeletes,
      RollbackProves, RollbackReturns, PutChunk, RollbackSweeps, PutApplied, PutReturns,
      PutThrows, RemoveBegins, RemoveRoot, RemoveFinds, RemoveEnds, RemoveSweeps, RemoveClears,
      CheckBegins, storeVars, uploadVars, sweepVars, removalVars, checkVars, historyVars,
      boundVars, retentionVars

\* What a check has found out stays true while it goes on.
LEMMA CheckSafeStep ==
    RetentionInv /\ PruneInv /\ ~BlindChecks
    /\ [RetentionNext]_retentionVars => ChecksAreSafe'
<1>. SUFFICES ASSUME StoreOK, HeadsOK, UploadOK, PhasesOK, ChecksOK, ChecksOwn, LocksHeld,
                     PutsInOrder, RootFirst, RemovalFollowsRoot, ReadyIsCommitted,
                     current[Manifest] \in ManifestVersions \cup {"none"}, ~BlindChecks,
                     EntriesStay, DropsAreSafe, ChecksAreSafe,
                     Past => Past', Doomed => Doomed',
                     [RetentionNext]_retentionVars
              PROVE  ChecksAreSafe'
  BY TypeParts, RootVersions, PastStep, DoomedStep DEF RetentionInv, PruneInv
<1>. USE RetentionAssumption DEF ChecksAreSafe, Documents, Manifest, StoreOK, ChecksOwn,
         ChecksOK, UploadOK, PutsInOrder, RootFirst, EntriesStay, Apply, Delete, DeleteExact,
         storeVars, uploadVars, sweepVars, removalVars, checkVars, historyVars, boundVars
<1>0. check # Idle /\ check.head[1] # Manifest =>
          check.head[1] \in Chunks /\ check.head = <<check.head[1], "upload">>
  BY DEF Heads
<1>1. CASE ReadyApplied
  BY <1>1 DEF ReadyApplied
<1>2. CASE RollbackDeletes
  BY <1>2 DEF RollbackDeletes
<1>3. ASSUME NEW d \in Documents, PutApplied(d) PROVE ChecksAreSafe'
  BY <1>3 DEF PutApplied, OwnVersion
<1>4. ASSUME NEW i \in Chunks, RollbackSweeps(i) PROVE ChecksAreSafe'
  BY <1>0, <1>4 DEF RollbackSweeps, SweepChunk
<1>5. CASE RemoveRoot
  BY <1>5 DEF RemoveRoot
<1>6. ASSUME NEW h \in Heads, RemoveSweeps(h) PROVE ChecksAreSafe'
  <2>1. /\ h[1] \in Chunks \cup {Manifest}
        /\ UNCHANGED <<check, upload, puts, captured, overtaken>>
    BY <1>6 DEF RemoveSweeps, Heads
  <2>2. \/ current[h[1]] = h[2] /\ Delete(h[1])
        \/ UNCHANGED <<current, stored>>
    BY <1>6 DEF RemoveSweeps, SweepChunk
  <2>3. CASE UNCHANGED <<current, stored>>
    BY <2>1, <2>3 DEF Past, Doomed
  <2>4. CASE current[h[1]] = h[2] /\ Delete(h[1])
    BY <1>0, <2>1, <2>4
  <2>. QED
    BY <2>2, <2>3, <2>4
<1>7. ASSUME NEW i \in Chunks, RemoveClears(i) PROVE ChecksAreSafe'
  BY <1>0, <1>7 DEF RemoveClears
<1>8. CASE CheckSteps
  <2>. DEFINE h == check.head
  <2>1. /\ check # Idle /\ h \in Heads /\ h[2] # "other" /\ h[1] \in captured
        /\ UNCHANGED <<current, stored, upload, puts, captured, overtaken>>
    BY <1>8 DEF CheckSteps
  <2>2. h[1] # Manifest => h[1] \in Chunks /\ h = <<h[1], "upload">>
    BY <2>1 DEF Heads
  <2>3. h[1] # Manifest /\ current[Manifest] \notin {"pending", "ready"} => Doomed
    BY <2>1, <2>2 DEF Doomed, ManifestVersions
  <2>4. CASE CheckListing(h)
    <3>1. \/ /\ check.at = "listing" /\ h \notin Listed(current[Manifest])
             /\ check' = [check EXCEPT !.at = "document"]
          \/ check' = Idle
      BY <2>4 DEF CheckListing, Keep, Verdict, GoOn
    <3>2. check.at = "listing" /\ h \notin Listed(current[Manifest]) =>
              h[1] \in Chunks /\ current[Manifest] # "ready"
      BY <2>1, <2>2, ListedHeads
    <3>3. h[1] \in Chunks /\ current[Manifest] # "ready" /\ h \in stored
          /\ h[1] \notin overtaken /\ current[h[1]] # "upload" => Doomed
      BY <2>1, <2>2 DEF Past, Doomed, ManifestVersions
    <3>. QED
      BY <2>1, <2>2, <3>1, <3>2, <3>3
  <2>5. CASE CheckDocument(h)
    <3>1. check' = Idle \/ (h[1] # Manifest /\ check' = [check EXCEPT !.at = "parent"])
      BY <2>5 DEF CheckDocument, KeepIfAuthored, Keep, Verdict, GoOn
    <3>. QED
      BY <2>1, <3>1
  <2>6. CASE CheckParent(h) \/ CheckChild(h) \/ CheckExact(h)
    BY <2>6 DEF CheckParent, CheckChild, CheckExact, KeepIfAuthored, Adopt, Keep, Verdict
  <2>7. CASE CheckEntry(h)
    <3>1. \/ check' = Idle
          \/ /\ h[1] # Manifest
             /\ \/ check' = [check EXCEPT !.at = "child"]
                \/ current[h[1]] # h[2] /\ check' = [check EXCEPT !.at = "exact"]
      BY <2>7 DEF CheckEntry, KeepIfAuthored, Adopt, Verdict, GoOn
    <3>2. h[1] # Manifest /\ h \in stored /\ h[1] \notin overtaken /\ current[h[1]] # h[2]
          => Past
      <4>1. h[1] # Manifest => h[1] \in Chunks /\ h[2] = "upload" /\ h = <<h[1], "upload">>
        BY <2>2
      <4>. QED
        BY <4>1 DEF EntriesStay
    <3>. QED
      BY <2>1, <3>1, <3>2
  <2>8. CASE CheckThrows(h)
    <3>1. CASE check.at = "listing"
      BY <2>1, <2>8, <3>1 DEF CheckThrows
    <3>2. CASE check.at = "entry"
      BY <2>8, <3>2 DEF CheckThrows
    <3>3. CASE check.at \notin {"listing", "entry"}
      <4>1. check' = Idle
        BY <2>8, <3>3, Zenon DEF CheckThrows, Keep, Verdict
      <4>. QED
        BY <4>1
    <3>. QED
      BY <3>1, <3>2, <3>3
  <2>. QED
    BY <1>8, <2>4, <2>5, <2>6, <2>7, <2>8 DEF CheckSteps
<1>9. ASSUME NEW h \in Heads, CheckBegins(h) PROVE ChecksAreSafe'
  BY <1>9 DEF CheckBegins, Heads
<1>10. CASE Restart
  BY <1>10 DEF Restart
<1>11. ASSUME NEW h \in Heads, Prune(h) PROVE ChecksAreSafe'
  BY <1>11 DEF Prune, Heads
<1>12. CASE StrangerRemoves
  BY <1>12 DEF StrangerRemoves
<1>13. ASSUME NEW d \in Documents, StrangerPuts(d) PROVE ChecksAreSafe'
  BY <1>13 DEF StrangerPuts, Checked
<1>14. CASE UNCHANGED <<check, stored, current, overtaken>>
  BY <1>14
<1>. QED
  BY <1>1, <1>2, <1>3, <1>4, <1>5, <1>6, <1>7, <1>8, <1>9, <1>10, <1>11, <1>12, <1>13,
     <1>14
  DEF RetentionNext, StoreSteps, UploadSteps, RemovalSteps, PutPending, Cancel, Drained,
      CommitBegins, ReadyReturns, ReadyThrows, RollbackBegins, RollbackProves, RollbackReturns,
      PutChunk, PutReturns, PutThrows, RemoveBegins, RemoveFinds, RemoveEnds, storeVars,
      uploadVars, sweepVars, removalVars, checkVars, historyVars, boundVars, retentionVars

\* The three parts together.
LEMMA PruneStep ==
    RetentionInv /\ PruneInv /\ ~BlindChecks /\ [RetentionNext]_retentionVars => PruneInv'
BY EntriesStep, DropsStep, CheckSafeStep DEF PruneInv

\* No check runs at first.
LEMMA InitPruneInv == RetentionInit => PruneInv
BY DEF RetentionInit, PruneInv, EntriesStay, DropsAreSafe, ChecksAreSafe, Idle

\* A ready root that nobody interfered with is not doomed, so that no entry is missing.
LEMMA PrunedIsComplete == RetentionInv /\ PruneInv => ReadyIsComplete
BY RetentionAssumption
DEF RetentionInv, PruneInv, ReadyIsCommitted, Committed, PutsInOrder, EntriesStay, Doomed,
    ReadyIsComplete, Documents

\* As long as the ready root is the current one, the log holds the entry of every chunk
\* it lists, if the lookup of an entry that is not retained does not throw.
THEOREM ReadyFilesAreComplete ==
    ASSUME ~BlindChecks PROVE RetentionSpec => []ReadyIsComplete
<1>1. RetentionInit => PruneInv
  BY InitPruneInv
<1>2. RetentionInv /\ PruneInv /\ [RetentionNext]_retentionVars => PruneInv'
  BY PruneStep
<1>. QED
  BY <1>1, <1>2, RetentionSafe, PrunedIsComplete, PTL DEF RetentionSpec

=============================================================================
