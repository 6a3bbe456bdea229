---------------------------- MODULE FilePageProofs ----------------------------
(***************************************************************************)
(* Proofs about the parts of a file-share page, each for any number of     *)
(* files, tabs, tasks and operations.                                      *)
(***************************************************************************)
EXTENDS FileListPage, RemoteRootConfirmation, PendingReadyResolver, ReplicationRole,
        DownloadSink, SequenceFacts, TLAPS

-----------------------------------------------------------------------------
(* The browser download sink. *)

\* Before it is delivered, a file has no marker, and no cleanup takes it for one
\* that was delivered.
Undelivered ==
    \A d \in Downloads : writer[d] \in {"unused", "reserving", "open", "closing"} =>
        d \notin marker /\ \A t \in Tabs : cleanup[t][d] \notin {"expired", "orphan"}

\* A file is young while a tab reserves its entry.
Reserved ==
    \A d \in Downloads : /\ writer[d] = "unused" => d \notin file /\ age[d] = 0
                         /\ writer[d] = "reserving" => owner[d] \in Tabs /\ age[d] < CrashRecovery

\* The lease is held for as long as the browser may read the file.
Leased ==
    \A d \in Downloads :
        locks /\ writer[d] \in {"open", "closing", "delivered"} => d \in leases

\* What a cleanup has found to have expired has.
VerdictsHold ==
    \A t \in Tabs, d \in Downloads :
        /\ cleanup[t][d] \in {"expired", "orphan"} => deliveredAge[d] >= Retention
        /\ cleanup[t][d] = "crashed" => age[d] >= CrashRecovery

SinkInv ==
    SinkTypeOK /\ Undelivered /\ Reserved /\ Leased /\ VerdictsHold /\ LiveEntriesStay

\* A file that a tab has left behind: the tab does not count it as active, found no
\* marker if it takes it for crashed, and is to come back to it.
LeftBehind(d) == /\ writer[d] = "abandoned" /\ d \in file \cup marker
                 /\ locks \/ d \in marker
                 /\ owner[d] \in up
WatchInv ==
    \A d \in Downloads :
        /\ writer[d] = "abandoned" => owner[d] \in Tabs /\ d \notin activeOpfsDownloads
        /\ writer[d] = "abandoned" /\ cleanup[owner[d]][d] = "crashed" => d \notin marker
        /\ LeftBehind(d) =>
               \/ owner[d] \in timers
               \/ owner[d] \in startup /\ (cleanup[owner[d]][d] # "nothing" \/ owner[d] \in retries)


\* The verdicts, by what the directory holds.
LEMMA VerdictIs ==
    ASSUME NEW d \in Downloads
    PROVE  /\ Verdict(d) \in Verdicts
           /\ Verdict(d) \in {"expired", "orphan"} => d \in marker /\ deliveredAge[d] >= Retention
           /\ Verdict(d) = "crashed" => d \notin marker /\ d \in file /\ age[d] >= CrashRecovery
           /\ d \in file \cup marker => Verdict(d) # "nothing"
<1>1. CASE d \in file /\ d \in marker /\ deliveredAge[d] >= Retention
  <2>1. Verdict(d) = "expired"
    BY <1>1, Zenon DEF Verdict
  <2>. QED
    BY <1>1, <2>1 DEF Verdicts
<1>2. CASE d \in file /\ d \notin marker /\ age[d] >= CrashRecovery
  <2>1. Verdict(d) = "crashed"
    BY <1>2, Zenon DEF Verdict
  <2>. QED
    BY <1>2, <2>1 DEF Verdicts
<1>3. CASE /\ d \in file
           /\ ~(d \in marker /\ deliveredAge[d] >= Retention)
           /\ ~(d \notin marker /\ age[d] >= CrashRecovery)
  <2>1. Verdict(d) = "later"
    BY <1>3, Zenon DEF Verdict
  <2>. QED
    BY <1>3, <2>1 DEF Verdicts
<1>4. CASE d \notin file
  <2>1. Verdict(d) = IF d \notin marker THEN "nothing"
                     ELSE IF deliveredAge[d] >= Retention THEN "orphan" ELSE "later"
    BY <1>4, Zenon DEF Verdict
  <2>. QED
    BY <1>4, <2>1 DEF Verdicts
<1>. QED
  BY <1>1, <1>2, <1>3, <1>4

\* A cleanup that lists the directory has a verdict for each file.
LEMMA ListsIs ==
    ASSUME SinkTypeOK, NEW t \in Tabs, Lists(t)
    PROVE  /\ cleanup' \in [Tabs -> [Downloads -> Verdicts]]
           /\ \A d \in Downloads : cleanup'[t][d] = Verdict(d)
           /\ \A u \in Tabs : u # t => cleanup'[u] = cleanup[u]
BY VerdictIs DEF Lists, SinkTypeOK

\* A tab that takes a lease may list the directory.
LEMMA AcquireIs ==
    ASSUME SinkTypeOK, Reserved, NEW d \in Downloads, AcquireEntryLease(d)
    PROVE  /\ cleanup' \in [Tabs -> [Downloads -> Verdicts]]
           /\ startup' \subseteq Tabs /\ retries \subseteq startup'
           /\ \A t \in Tabs : \/ cleanup'[t] = cleanup[t] /\ (t \in startup => t \in startup')
                              \/ /\ cleanup[t] = NoCleanup /\ t \notin retries
                                 /\ \A e \in Downloads : cleanup'[t][e] = Verdict(e)
<1>1. owner[d] \in Tabs
  BY DEF AcquireEntryLease, Reserved
<1>2. CASE cleanup[owner[d]] = NoCleanup /\ owner[d] \notin retries
  <2>1. Lists(owner[d]) /\ startup' = startup \ {owner[d]}
    BY <1>2 DEF AcquireEntryLease
  <2>. QED
    BY <1>1, <1>2, <2>1, ListsIs DEF SinkTypeOK
<1>3. CASE ~(cleanup[owner[d]] = NoCleanup /\ owner[d] \notin retries)
  BY <1>3 DEF AcquireEntryLease, SinkTypeOK
<1>. QED
  BY <1>2, <1>3

\* The sink starts in a state of its invariants.
LEMMA SinkStarts == SinkInit => SinkInv /\ WatchInv
BY SinkAssumption
   DEF SinkInit, SinkInv, WatchInv, LeftBehind, SinkTypeOK, Undelivered, Reserved, Leased, VerdictsHold,
       LiveEntriesStay, NoCleanup, Verdicts, Stages, Retention

\* Getting older.
LEMMA OlderIs ==
    ASSUME NEW max \in Nat, NEW n \in 0 .. max
    PROVE  Older(n, max) \in n .. max /\ Older(n, max) <= n + 1
BY DEF Older

\* When time passes, ages go up, of what is there.
LEMMA TickIs ==
    ASSUME SinkTypeOK, Tick
    PROVE  /\ age' \in [Downloads -> 0 .. CrashRecovery]
           /\ deliveredAge' \in [Downloads -> 0 .. Retention]
           /\ \A d \in Downloads :
                  /\ age[d] <= age'[d] /\ deliveredAge[d] <= deliveredAge'[d]
                  /\ d \notin file => age'[d] = age[d]
                  /\ writer[d] = "reserving" => age'[d] < CrashRecovery
<1>1. Retention \in Nat /\ CrashRecovery \in Nat
  BY SinkAssumption DEF Retention
<1>2. ASSUME NEW d \in Downloads
      PROVE  /\ Older(age[d], CrashRecovery) \in age[d] .. CrashRecovery
             /\ Older(age[d], CrashRecovery) <= age[d] + 1
             /\ Older(deliveredAge[d], Retention) \in deliveredAge[d] .. Retention
  BY <1>1, OlderIs DEF SinkTypeOK
<1>3. ASSUME NEW d \in Downloads
      PROVE  /\ age'[d] \in age[d] .. CrashRecovery /\ age'[d] <= age[d] + 1
             /\ deliveredAge'[d] \in deliveredAge[d] .. Retention
             /\ d \notin file => age'[d] = age[d]
  BY <1>1, <1>2 DEF Tick, SinkTypeOK
<1>4. ASSUME NEW d \in Downloads, writer[d] = "reserving" PROVE age'[d] < CrashRecovery
  BY <1>1, <1>3, <1>4 DEF Tick, SinkTypeOK
<1>5. /\ age' = [d \in Downloads |-> age'[d]]
      /\ deliveredAge' = [d \in Downloads |-> deliveredAge'[d]]
  BY DEF Tick
<1>6. /\ \A d \in Downloads : age'[d] \in 0 .. CrashRecovery
      /\ \A d \in Downloads : deliveredAge'[d] \in 0 .. Retention
  BY <1>1, <1>3 DEF SinkTypeOK
<1>7. age' \in [Downloads -> 0 .. CrashRecovery] /\ deliveredAge' \in [Downloads -> 0 .. Retention]
  BY <1>5, <1>6
<1>8. \A d \in Downloads : age[d] <= age'[d] /\ deliveredAge[d] <= deliveredAge'[d]
  BY <1>1, <1>3 DEF SinkTypeOK
<1>. QED
  BY <1>3, <1>4, <1>7, <1>8

\* Every step keeps the types.
LEMMA SinkTypesStep == SinkInv /\ [SinkNext]_sinkVars => SinkTypeOK'
<1>. SUFFICES ASSUME SinkTypeOK, Undelivered, Reserved, Leased, VerdictsHold, LiveEntriesStay, [SinkNext]_sinkVars
             PROVE  SinkTypeOK'
  BY DEF SinkInv
<1>. USE SinkAssumption
         DEF SinkTypeOK, Goes, storage, Stages, Retention
<1>1. ASSUME NEW t \in Tabs, StartTab(t) PROVE SinkTypeOK'
  BY <1>1, ListsIs DEF StartTab
<1>2. ASSUME NEW t \in Tabs, EndTab(t) PROVE SinkTypeOK'
  BY <1>2 DEF EndTab, NoCleanup, Verdicts
<1>3. ASSUME NEW t \in Tabs, TimedCleanup(t) PROVE SinkTypeOK'
  BY <1>3, ListsIs DEF TimedCleanup
<1>4. ASSUME NEW t \in Tabs, NEW d \in Downloads,
             NEW f \in BOOLEAN, NEW m \in BOOLEAN, CleanEntry(t, d, f, m) PROVE SinkTypeOK'
  BY <1>4, SMTT(60) DEF CleanEntry, Verdicts
<1>5. ASSUME NEW t \in Tabs, CleanupEnds(t) PROVE SinkTypeOK'
  BY <1>5 DEF CleanupEnds
<1>6. ASSUME NEW t \in Tabs, NEW d \in Downloads, CreateWriter(t, d) PROVE SinkTypeOK'
  BY <1>6 DEF CreateWriter
<1>7. ASSUME NEW d \in Downloads, AcquireEntryLease(d) PROVE SinkTypeOK'
  BY <1>7, AcquireIs DEF AcquireEntryLease
<1>8. ASSUME NEW d \in Downloads, LeaseFails(d) PROVE SinkTypeOK'
  BY <1>8 DEF LeaseFails
<1>9. ASSUME NEW d \in Downloads, AbortWriter(d) PROVE SinkTypeOK'
  BY <1>9 DEF AbortWriter
<1>10. ASSUME NEW d \in Downloads, CloseWriter(d) PROVE SinkTypeOK'
  BY <1>10 DEF CloseWriter
<1>11. ASSUME NEW d \in Downloads, Deliver(d) PROVE SinkTypeOK'
  BY <1>11 DEF Deliver
<1>12. ASSUME NEW d \in Downloads, RemovalIsDue(d) PROVE SinkTypeOK'
  BY <1>12 DEF RemovalIsDue
<1>13. ASSUME NEW d \in Downloads, NEW f \in BOOLEAN, NEW m \in BOOLEAN, RemoveTemporaryEntry(d, f, m) PROVE SinkTypeOK'
  BY <1>13 DEF RemoveTemporaryEntry
<1>14. CASE Tick
  BY <1>14, TickIs DEF Tick
<1>15. CASE UNCHANGED <<locks, up, owner, writer, file, marker, age, deliveredAge, activeOpfsDownloads, leases, cleanup, startup, retries, timers>>
  BY <1>15
<1>. QED
  BY <1>1, <1>2, <1>3, <1>4, <1>5, <1>6, <1>7, <1>8, <1>9, <1>10, <1>11, <1>12, <1>13,
     <1>14, <1>15
    DEF SinkNext, CleanSome, RemoveSome, storage, sinkVars

\* What was not delivered has no marker, and is not taken for delivered.
LEMMA UndeliveredStep == SinkInv /\ [SinkNext]_sinkVars => Undelivered'
<1>. SUFFICES ASSUME SinkTypeOK, Undelivered, Reserved, Leased, VerdictsHold, LiveEntriesStay, [SinkNext]_sinkVars
             PROVE  Undelivered'
  BY DEF SinkInv
<1>. USE SinkAssumption
         DEF SinkTypeOK, Goes, storage, Stages, Retention, Undelivered
<1>1. ASSUME NEW t \in Tabs, StartTab(t) PROVE Undelivered'
  BY <1>1, ListsIs, VerdictIs DEF StartTab
<1>2. ASSUME NEW t \in Tabs, EndTab(t) PROVE Undelivered'
  BY <1>2 DEF EndTab, NoCleanup, Of
<1>3. ASSUME NEW t \in Tabs, TimedCleanup(t) PROVE Undelivered'
  BY <1>3, ListsIs, VerdictIs DEF TimedCleanup
<1>4. ASSUME NEW t \in Tabs, NEW d \in Downloads,
             NEW f \in BOOLEAN, NEW m \in BOOLEAN, CleanEntry(t, d, f, m) PROVE Undelivered'
  BY <1>4, SMTT(60) DEF CleanEntry
<1>5. ASSUME NEW t \in Tabs, CleanupEnds(t) PROVE Undelivered'
  BY <1>5 DEF CleanupEnds
<1>6. ASSUME NEW t \in Tabs, NEW d \in Downloads, CreateWriter(t, d) PROVE Undelivered'
  BY <1>6 DEF CreateWriter
<1>7. ASSUME NEW d \in Downloads, AcquireEntryLease(d) PROVE Undelivered'
  BY <1>7, ListsIs, VerdictIs DEF AcquireEntryLease, Reserved
<1>8. ASSUME NEW d \in Downloads, LeaseFails(d) PROVE Undelivered'
  BY <1>8 DEF LeaseFails
<1>9. ASSUME NEW d \in Downloads, AbortWriter(d) PROVE Undelivered'
  BY <1>9 DEF AbortWriter
<1>10. ASSUME NEW d \in Downloads, CloseWriter(d) PROVE Undelivered'
  BY <1>10 DEF CloseWriter
<1>11. ASSUME NEW d \in Downloads, Deliver(d) PROVE Undelivered'
  BY <1>11 DEF Deliver
<1>12. ASSUME NEW d \in Downloads, RemovalIsDue(d) PROVE Undelivered'
  BY <1>12 DEF RemovalIsDue
<1>13. ASSUME NEW d \in Downloads, NEW f \in BOOLEAN, NEW m \in BOOLEAN, RemoveTemporaryEntry(d, f, m) PROVE Undelivered'
  BY <1>13 DEF RemoveTemporaryEntry
<1>14. CASE Tick
  BY <1>14 DEF Tick
<1>15. CASE UNCHANGED <<writer, marker, cleanup>>
  BY <1>15
<1>. QED
  BY <1>1, <1>2, <1>3, <1>4, <1>5, <1>6, <1>7, <1>8, <1>9, <1>10, <1>11, <1>12, <1>13,
     <1>14, <1>15
    DEF SinkNext, CleanSome, RemoveSome, storage, sinkVars

\* An entry that is being reserved has a young file.
LEMMA ReservedStep == SinkInv /\ [SinkNext]_sinkVars => Reserved'
<1>. SUFFICES ASSUME SinkTypeOK, Undelivered, Reserved, Leased, VerdictsHold, LiveEntriesStay, [SinkNext]_sinkVars
             PROVE  Reserved'
  BY DEF SinkInv
<1>. USE SinkAssumption
         DEF SinkTypeOK, Goes, storage, Stages, Retention, Reserved
<1>1. ASSUME NEW t \in Tabs, StartTab(t) PROVE Reserved'
  BY <1>1 DEF StartTab
<1>2. ASSUME NEW t \in Tabs, EndTab(t) PROVE Reserved'
  BY <1>2 DEF EndTab, Of
<1>3. ASSUME NEW t \in Tabs, TimedCleanup(t) PROVE Reserved'
  BY <1>3 DEF TimedCleanup
<1>4. ASSUME NEW t \in Tabs, NEW d \in Downloads,
             NEW f \in BOOLEAN, NEW m \in BOOLEAN, CleanEntry(t, d, f, m) PROVE Reserved'
  BY <1>4 DEF CleanEntry
<1>5. ASSUME NEW t \in Tabs, CleanupEnds(t) PROVE Reserved'
  BY <1>5 DEF CleanupEnds
<1>6. ASSUME NEW t \in Tabs, NEW d \in Downloads, CreateWriter(t, d) PROVE Reserved'
  BY <1>6 DEF CreateWriter
<1>7. ASSUME NEW d \in Downloads, AcquireEntryLease(d) PROVE Reserved'
  BY <1>7 DEF AcquireEntryLease
<1>8. ASSUME NEW d \in Downloads, LeaseFails(d) PROVE Reserved'
  BY <1>8 DEF LeaseFails
<1>9. ASSUME NEW d \in Downloads, AbortWriter(d) PROVE Reserved'
  BY <1>9 DEF AbortWriter
<1>10. ASSUME NEW d \in Downloads, CloseWriter(d) PROVE Reserved'
  BY <1>10 DEF CloseWriter
<1>11. ASSUME NEW d \in Downloads, Deliver(d) PROVE Reserved'
  BY <1>11 DEF Deliver
<1>12. ASSUME NEW d \in Downloads, RemovalIsDue(d) PROVE Reserved'
  BY <1>12 DEF RemovalIsDue
<1>13. ASSUME NEW d \in Downloads, NEW f \in BOOLEAN, NEW m \in BOOLEAN, RemoveTemporaryEntry(d, f, m) PROVE Reserved'
  BY <1>13 DEF RemoveTemporaryEntry
<1>14. CASE Tick
  BY <1>14, TickIs DEF Tick
<1>15. CASE UNCHANGED <<writer, owner, file, age>>
  BY <1>15
<1>. QED
  BY <1>1, <1>2, <1>3, <1>4, <1>5, <1>6, <1>7, <1>8, <1>9, <1>10, <1>11, <1>12, <1>13,
     <1>14, <1>15
    DEF SinkNext, CleanSome, RemoveSome, storage, sinkVars

\* The lease is held until the file is removed or its tab has ended.
LEMMA LeasedStep == SinkInv /\ [SinkNext]_sinkVars => Leased'
<1>. SUFFICES ASSUME SinkTypeOK, Undelivered, Reserved, Leased, VerdictsHold, LiveEntriesStay, [SinkNext]_sinkVars
             PROVE  Leased'
  BY DEF SinkInv
<1>. USE SinkAssumption
         DEF SinkTypeOK, Goes, storage, Stages, Retention, Leased
<1>1. ASSUME NEW t \in Tabs, StartTab(t) PROVE Leased'
  BY <1>1 DEF StartTab
<1>2. ASSUME NEW t \in Tabs, EndTab(t) PROVE Leased'
  BY <1>2 DEF EndTab, Of
<1>3. ASSUME NEW t \in Tabs, TimedCleanup(t) PROVE Leased'
  BY <1>3 DEF TimedCleanup
<1>4. ASSUME NEW t \in Tabs, NEW d \in Downloads,
             NEW f \in BOOLEAN, NEW m \in BOOLEAN, CleanEntry(t, d, f, m) PROVE Leased'
  BY <1>4 DEF CleanEntry
<1>5. ASSUME NEW t \in Tabs, CleanupEnds(t) PROVE Leased'
  BY <1>5 DEF CleanupEnds
<1>6. ASSUME NEW t \in Tabs, NEW d \in Downloads, CreateWriter(t, d) PROVE Leased'
  BY <1>6 DEF CreateWriter
<1>7. ASSUME NEW d \in Downloads, AcquireEntryLease(d) PROVE Leased'
  BY <1>7 DEF AcquireEntryLease
<1>8. ASSUME NEW d \in Downloads, LeaseFails(d) PROVE Leased'
  BY <1>8 DEF LeaseFails
<1>9. ASSUME NEW d \in Downloads, AbortWriter(d) PROVE Leased'
  BY <1>9 DEF AbortWriter
<1>10. ASSUME NEW d \in Downloads, CloseWriter(d) PROVE Leased'
  BY <1>10 DEF CloseWriter
<1>11. ASSUME NEW d \in Downloads, Deliver(d) PROVE Leased'
  BY <1>11 DEF Deliver
<1>12. ASSUME NEW d \in Downloads, RemovalIsDue(d) PROVE Leased'
  BY <1>12 DEF RemovalIsDue
<1>13. ASSUME NEW d \in Downloads, NEW f \in BOOLEAN, NEW m \in BOOLEAN, RemoveTemporaryEntry(d, f, m) PROVE Leased'
  BY <1>13 DEF RemoveTemporaryEntry
<1>14. CASE Tick
  BY <1>14 DEF Tick
<1>15. CASE UNCHANGED <<locks, writer, leases>>
  BY <1>15
<1>. QED
  BY <1>1, <1>2, <1>3, <1>4, <1>5, <1>6, <1>7, <1>8, <1>9, <1>10, <1>11, <1>12, <1>13,
     <1>14, <1>15
    DEF SinkNext, CleanSome, RemoveSome, storage, sinkVars

\* What has expired stays expired.
LEMMA VerdictsHoldStep == SinkInv /\ [SinkNext]_sinkVars => VerdictsHold'
<1>. SUFFICES ASSUME SinkTypeOK, Undelivered, Reserved, Leased, VerdictsHold, LiveEntriesStay, [SinkNext]_sinkVars
             PROVE  VerdictsHold'
  BY DEF SinkInv
<1>. USE SinkAssumption
         DEF SinkTypeOK, Goes, storage, Stages, Retention, VerdictsHold
<1>1. ASSUME NEW t \in Tabs, StartTab(t) PROVE VerdictsHold'
  BY <1>1, ListsIs, VerdictIs DEF StartTab
<1>2. ASSUME NEW t \in Tabs, EndTab(t) PROVE VerdictsHold'
  BY <1>2 DEF EndTab, NoCleanup
<1>3. ASSUME NEW t \in Tabs, TimedCleanup(t) PROVE VerdictsHold'
  BY <1>3, ListsIs, VerdictIs DEF TimedCleanup
<1>4. ASSUME NEW t \in Tabs, NEW d \in Downloads,
             NEW f \in BOOLEAN, NEW m \in BOOLEAN, CleanEntry(t, d, f, m) PROVE VerdictsHold'
  BY <1>4, SMTT(60) DEF CleanEntry
<1>5. ASSUME NEW t \in Tabs, CleanupEnds(t) PROVE VerdictsHold'
  BY <1>5 DEF CleanupEnds
<1>6. ASSUME NEW t \in Tabs, NEW d \in Downloads, CreateWriter(t, d) PROVE VerdictsHold'
  BY <1>6 DEF CreateWriter
<1>7. ASSUME NEW d \in Downloads, AcquireEntryLease(d) PROVE VerdictsHold'
  BY <1>7, ListsIs, VerdictIs DEF AcquireEntryLease, Reserved
<1>8. ASSUME NEW d \in Downloads, LeaseFails(d) PROVE VerdictsHold'
  BY <1>8 DEF LeaseFails
<1>9. ASSUME NEW d \in Downloads, AbortWriter(d) PROVE VerdictsHold'
  BY <1>9 DEF AbortWriter
<1>10. ASSUME NEW d \in Downloads, CloseWriter(d) PROVE VerdictsHold'
  BY <1>10 DEF CloseWriter
<1>11. ASSUME NEW d \in Downloads, Deliver(d) PROVE VerdictsHold'
  BY <1>11 DEF Deliver, Undelivered
<1>12. ASSUME NEW d \in Downloads, RemovalIsDue(d) PROVE VerdictsHold'
  BY <1>12 DEF RemovalIsDue
<1>13. ASSUME NEW d \in Downloads, NEW f \in BOOLEAN, NEW m \in BOOLEAN, RemoveTemporaryEntry(d, f, m) PROVE VerdictsHold'
  BY <1>13 DEF RemoveTemporaryEntry
<1>14. CASE Tick
  BY <1>14, TickIs DEF Tick
<1>15. CASE UNCHANGED <<cleanup, age, deliveredAge>>
  BY <1>15
<1>. QED
  BY <1>1, <1>2, <1>3, <1>4, <1>5, <1>6, <1>7, <1>8, <1>9, <1>10, <1>11, <1>12, <1>13,
     <1>14, <1>15
    DEF SinkNext, CleanSome, RemoveSome, storage, sinkVars

\* No cleanup removes a file that is live.
LEMMA LiveStep == SinkInv /\ [SinkNext]_sinkVars => LiveEntriesStay'
<1>. SUFFICES ASSUME SinkTypeOK, Undelivered, Reserved, Leased, VerdictsHold, LiveEntriesStay, [SinkNext]_sinkVars
             PROVE  LiveEntriesStay'
  BY DEF SinkInv
<1>. USE SinkAssumption
         DEF SinkTypeOK, Goes, storage, Stages, Retention, LiveEntriesStay
<1>1. ASSUME NEW t \in Tabs, StartTab(t) PROVE LiveEntriesStay'
  BY <1>1 DEF StartTab
<1>2. ASSUME NEW t \in Tabs, EndTab(t) PROVE LiveEntriesStay'
  BY <1>2 DEF EndTab, Of
<1>3. ASSUME NEW t \in Tabs, TimedCleanup(t) PROVE LiveEntriesStay'
  BY <1>3 DEF TimedCleanup
<1>4. ASSUME NEW t \in Tabs, NEW d \in Downloads,
             NEW f \in BOOLEAN, NEW m \in BOOLEAN, CleanEntry(t, d, f, m) PROVE LiveEntriesStay'
  <2>. SUFFICES ASSUME NEW e \in Downloads,
                        \/ writer[e] \in {"reserving", "open", "closing"}
                        \/ writer[e] = "delivered" /\ deliveredAge[e] < Retention
                 PROVE  e \in file'
    BY <1>4 DEF CleanEntry
  <2>1. e \in file
    OBVIOUS
  <2>2. CASE e # d \/ cleanup[t][d] \in {"nothing", "later"}
    BY <1>4, <2>1, <2>2 DEF CleanEntry
  <2>3. e = d => cleanup[t][d] \notin {"expired", "orphan"}
    BY DEF Undelivered, VerdictsHold
  <2>4. CASE e = d /\ cleanup[t][d] = "crashed"
    <3>1. writer[d] # "reserving" /\ (locks => d \in leases)
      BY <2>4 DEF Reserved, VerdictsHold, Leased
    <3>2. ~MayRemove(d, cleanup[t][d])
      BY <2>4, <3>1 DEF MayRemove
    <3>. QED
      BY <1>4, <2>1, <2>4, <3>2 DEF CleanEntry
  <2>5. cleanup[t][d] \in Verdicts
    OBVIOUS
  <2>. QED
    BY <2>2, <2>3, <2>4, <2>5 DEF Verdicts
<1>5. ASSUME NEW t \in Tabs, CleanupEnds(t) PROVE LiveEntriesStay'
  BY <1>5 DEF CleanupEnds
<1>6. ASSUME NEW t \in Tabs, NEW d \in Downloads, CreateWriter(t, d) PROVE LiveEntriesStay'
  BY <1>6 DEF CreateWriter
<1>7. ASSUME NEW d \in Downloads, AcquireEntryLease(d) PROVE LiveEntriesStay'
  BY <1>7 DEF AcquireEntryLease
<1>8. ASSUME NEW d \in Downloads, LeaseFails(d) PROVE LiveEntriesStay'
  BY <1>8 DEF LeaseFails
<1>9. ASSUME NEW d \in Downloads, AbortWriter(d) PROVE LiveEntriesStay'
  BY <1>9 DEF AbortWriter
<1>10. ASSUME NEW d \in Downloads, CloseWriter(d) PROVE LiveEntriesStay'
  BY <1>10 DEF CloseWriter
<1>11. ASSUME NEW d \in Downloads, Deliver(d) PROVE LiveEntriesStay'
  BY <1>11 DEF Deliver
<1>12. ASSUME NEW d \in Downloads, RemovalIsDue(d) PROVE LiveEntriesStay'
  BY <1>12 DEF RemovalIsDue
<1>13. ASSUME NEW d \in Downloads, NEW f \in BOOLEAN, NEW m \in BOOLEAN, RemoveTemporaryEntry(d, f, m) PROVE LiveEntriesStay'
  BY <1>13 DEF RemoveTemporaryEntry
<1>14. CASE Tick
  BY <1>14, TickIs DEF Tick
<1>15. CASE UNCHANGED <<writer, deliveredAge, file>>
  BY <1>15
<1>. QED
  BY <1>1, <1>2, <1>3, <1>4, <1>5, <1>6, <1>7, <1>8, <1>9, <1>10, <1>11, <1>12, <1>13,
     <1>14, <1>15
    DEF SinkNext, CleanSome, RemoveSome, storage, sinkVars

\* Liveness of files is preserved, and so the property holds of every behaviour.
THEOREM LiveFilesAreKept == SinkSpec => [](SinkTypeOK /\ LiveEntriesStay)
<1>1. SinkInit => SinkInv
  BY SinkStarts
<1>2. SinkInv /\ [SinkNext]_sinkVars => SinkInv'
  BY SinkTypesStep, UndeliveredStep, ReservedStep, LeasedStep, VerdictsHoldStep, LiveStep DEF SinkInv
<1>3. SinkInv => SinkTypeOK /\ LiveEntriesStay
  BY DEF SinkInv
<1>. QED
  BY <1>1, <1>2, <1>3, PTL DEF SinkSpec

\* A tab that is open again comes back to what it has left behind.
LEMMA WatchStep == (SinkInv /\ WatchInv) /\ [SinkNext]_sinkVars => WatchInv'
<1>. SUFFICES ASSUME SinkTypeOK, Reserved, WatchInv, [SinkNext]_sinkVars
             PROVE  WatchInv'
  BY DEF SinkInv
<1>. USE SinkAssumption
         DEF SinkTypeOK, Goes, storage, Stages, Retention, WatchInv, LeftBehind
<1>1. ASSUME NEW t \in Tabs, StartTab(t) PROVE WatchInv'
  BY <1>1, ListsIs, VerdictIs DEF StartTab
<1>2. ASSUME NEW t \in Tabs, EndTab(t) PROVE WatchInv'
  BY <1>2 DEF EndTab, NoCleanup, Of
<1>3. ASSUME NEW t \in Tabs, TimedCleanup(t) PROVE WatchInv'
  BY <1>3, ListsIs, VerdictIs DEF TimedCleanup, NoCleanup
<1>4. ASSUME NEW t \in Tabs, NEW d \in Downloads,
             NEW f \in BOOLEAN, NEW m \in BOOLEAN, CleanEntry(t, d, f, m) PROVE WatchInv'
  BY <1>4, SMTT(60) DEF CleanEntry, MayRemove, Verdicts
<1>5. ASSUME NEW t \in Tabs, CleanupEnds(t) PROVE WatchInv'
  BY <1>5 DEF CleanupEnds, NoCleanup
<1>6. ASSUME NEW t \in Tabs, NEW d \in Downloads, CreateWriter(t, d) PROVE WatchInv'
  BY <1>6 DEF CreateWriter
<1>7. ASSUME NEW d \in Downloads, AcquireEntryLease(d) PROVE WatchInv'
  <2>. SUFFICES ASSUME NEW e \in Downloads, writer'[e] = "abandoned"
                 PROVE  /\ owner[e] \in Tabs /\ e \notin activeOpfsDownloads'
                        /\ cleanup'[owner[e]][e] = "crashed" => e \notin marker
                        /\ LeftBehind(e)' =>
                             \/ owner[e] \in timers
                             \/ /\ owner[e] \in startup'
                                /\ cleanup'[owner[e]][e] # "nothing" \/ owner[e] \in retries
    BY <1>7 DEF AcquireEntryLease
  <2>1. e # d /\ writer[e] = "abandoned" /\ owner[e] \in Tabs /\ (LeftBehind(e)' => LeftBehind(e))
    BY <1>7 DEF AcquireEntryLease
  <2>2. e \notin activeOpfsDownloads'
    BY <1>7, <2>1 DEF AcquireEntryLease
  <2>3. CASE cleanup'[owner[e]] = cleanup[owner[e]] /\ (owner[e] \in startup => owner[e] \in startup')
    BY <2>1, <2>2, <2>3
  <2>4. CASE /\ cleanup[owner[e]] = NoCleanup /\ owner[e] \notin retries
             /\ cleanup'[owner[e]][e] = Verdict(e)
    BY <2>1, <2>2, <2>4, VerdictIs DEF NoCleanup
  <2>. QED
    BY <1>7, <2>1, <2>3, <2>4, AcquireIs
<1>8. ASSUME NEW d \in Downloads, LeaseFails(d) PROVE WatchInv'
  BY <1>8 DEF LeaseFails
<1>9. ASSUME NEW d \in Downloads, AbortWriter(d) PROVE WatchInv'
  BY <1>9 DEF AbortWriter
<1>10. ASSUME NEW d \in Downloads, CloseWriter(d) PROVE WatchInv'
  BY <1>10 DEF CloseWriter
<1>11. ASSUME NEW d \in Downloads, Deliver(d) PROVE WatchInv'
  BY <1>11 DEF Deliver
<1>12. ASSUME NEW d \in Downloads, RemovalIsDue(d) PROVE WatchInv'
  BY <1>12 DEF RemovalIsDue
<1>13. ASSUME NEW d \in Downloads, NEW f \in BOOLEAN, NEW m \in BOOLEAN, RemoveTemporaryEntry(d, f, m) PROVE WatchInv'
  BY <1>13 DEF RemoveTemporaryEntry
<1>14. CASE Tick
  BY <1>14 DEF Tick
<1>15. CASE UNCHANGED <<locks, up, owner, writer, file, marker, activeOpfsDownloads, cleanup, startup, retries, timers>>
  BY <1>15
<1>. QED
  BY <1>1, <1>2, <1>3, <1>4, <1>5, <1>6, <1>7, <1>8, <1>9, <1>10, <1>11, <1>12, <1>13,
     <1>14, <1>15
    DEF SinkNext, CleanSome, RemoveSome, storage, sinkVars

\* What a tab has left behind is watched for by the tab once it is open again.
THEOREM LeftFilesAreWatched == SinkSpec => []LeftoversAreWatched
<1>1. SinkInit => SinkInv /\ WatchInv
  BY SinkStarts
<1>2. SinkInv /\ WatchInv /\ [SinkNext]_sinkVars => SinkInv' /\ WatchInv'
  BY SinkTypesStep, UndeliveredStep, ReservedStep, LeasedStep, VerdictsHoldStep, LiveStep, WatchStep
     DEF SinkInv
<1>3. SinkInv /\ WatchInv => LeftoversAreWatched
  BY DEF WatchInv, LeftBehind, LeftoversAreWatched
<1>. QED
  BY <1>1, <1>2, <1>3, PTL DEF SinkSpec

-----------------------------------------------------------------------------
(* The pending-ready resolver. *)

\* Tasks and the keys that list them, by name.
ListedExactly ==
    /\ \A t \in Tasks : Running(t) /\ ~task[t].aborted => tasks[task[t].key] = t
    /\ \A k \in Listed : /\ Running(tasks[k]) /\ ~task[tasks[k]].aborted
                         /\ task[tasks[k]].key = k
CapacityExact ==
    IsFiniteSet(Listed) /\ taskCount = Cardinality(Listed) /\ taskCount <= MaxEntries
ResolverInv == ResolverTypeOK /\ ListedExactly /\ CapacityExact

\* A resolver starts in a state of its invariant.
LEMMA ResolverStarts == ResolverInit => ResolverInv
<1>. SUFFICES ASSUME ResolverInit PROVE ResolverInv
  OBVIOUS
<1>1. NotStarted.key \in Keys
  <2>1. PICK p \in Programs, n \in Names : TRUE
    BY ResolverAssumption
  <2>2. <<p, n>> \in Keys
    BY DEF Keys
  <2>. QED
    BY <2>2 DEF NotStarted
<1>0. NotStarted \in [key : Keys, aborted : BOOLEAN,
                     stage : {"unused", "resolving", "waiting", "ended"}]
  BY <1>1 DEF NotStarted
<1>5. ResolverTypeOK
  BY <1>0 DEF ResolverInit, ResolverTypeOK
<1>2. Listed = {}
  BY DEF ResolverInit, Listed
<1>3. CapacityExact
  BY <1>2, FS_EmptySet, ResolverAssumption DEF CapacityExact, ResolverInit
<1>4. ListedExactly
  BY <1>2 DEF ListedExactly, ResolverInit, Running, NotStarted
<1>. QED
  BY <1>5, <1>3, <1>4 DEF ResolverInv

\* Ending a task takes it off the list, if it is the one that is listed.
LEMMA EndKeeps ==
    ASSUME ResolverTypeOK, ListedExactly, CapacityExact,
           NEW t \in Tasks, Running(t), End(t)
    PROVE  /\ tasks' \in [Keys -> Tasks \cup {NoTask}] /\ taskCount' \in Int
           /\ task' \in [Tasks -> [key : Keys, aborted : BOOLEAN,
                                  stage : {"unused", "resolving", "waiting", "ended"}]]
           /\ ListedExactly' /\ CapacityExact'
<1>1. task[t].key \in Keys
  BY DEF ResolverTypeOK
<1>2. CASE tasks[task[t].key] = t
  <2>1. Listed' = Listed \ {task[t].key} /\ task[t].key \in Listed
    BY <1>1, <1>2, ResolverAssumption DEF End, Listed, ResolverTypeOK
  <2>2. IsFiniteSet(Listed') /\ Cardinality(Listed') = Cardinality(Listed) - 1
    BY <2>1, FS_RemoveElement DEF CapacityExact
  <2>3. CapacityExact'
    BY <1>2, <2>2, ResolverAssumption, FS_CardinalityType DEF End, CapacityExact
  <2>4. ListedExactly'
    BY <1>1, <1>2, <2>1, ResolverAssumption DEF End, ListedExactly, Listed, Running, ResolverTypeOK
  <2>. QED
    BY <1>1, <2>3, <2>4 DEF End, ResolverTypeOK
<1>3. CASE tasks[task[t].key] # t
  <2>1. Listed' = Listed /\ taskCount' = taskCount
    BY <1>3 DEF End, Listed
  <2>2. ListedExactly'
    BY <1>1, <1>3, <2>1, ResolverAssumption DEF End, ListedExactly, Listed, Running, ResolverTypeOK
  <2>. QED
    BY <1>1, <1>3, <2>1, <2>2 DEF End, ResolverTypeOK, CapacityExact
<1>. QED
  BY <1>2, <1>3

\* Moving a task that goes on keeps what is listed.
LEMMA MoveKeeps ==
    ASSUME ResolverTypeOK, ListedExactly, CapacityExact, NEW t \in Tasks, Running(t),
           NEW s \in {"resolving", "waiting"},
           task' = [task EXCEPT ![t].stage = s], UNCHANGED <<tasks, taskCount>>
    PROVE  /\ task' \in [Tasks -> [key : Keys, aborted : BOOLEAN,
                                  stage : {"unused", "resolving", "waiting", "ended"}]]
           /\ ListedExactly' /\ CapacityExact'
BY DEF ResolverTypeOK, ListedExactly, CapacityExact, Listed, Running

\* Cancelling takes tasks off the list and tells each of them.
LEMMA CancelKeeps ==
    ASSUME ResolverInv, NEW keys \in SUBSET Keys, CancelKeys(keys)
    PROVE  ResolverInv'
<1>. USE ResolverAssumption DEF ResolverInv, CancelKeys, AbortTasks
<1>1. Listed' = Listed \ keys
  BY DEF Listed, ResolverTypeOK
<1>2. /\ IsFiniteSet(Listed') /\ Cardinality(Listed') = Cardinality(Listed) - Cardinality(Listed \cap keys)
      /\ IsFiniteSet(Listed \cap keys)
  BY <1>1, FS_Difference, FS_Intersection DEF CapacityExact
<1>3. keys \cap Listed = Listed \cap keys
  OBVIOUS
<1>4. Cardinality(Listed \cap keys) \in Nat /\ Cardinality(Listed) \in Nat
  BY <1>2, FS_CardinalityType DEF CapacityExact
<1>5. taskCount' = taskCount - Cardinality(Listed \cap keys)
  BY <1>3
<1>6. CapacityExact'
  BY <1>2, <1>4, <1>5 DEF CapacityExact
<1>7. ResolverTypeOK'
  <2>1. task' \in [Tasks -> [key : Keys, aborted : BOOLEAN,
                            stage : {"unused", "resolving", "waiting", "ended"}]]
    BY DEF ResolverTypeOK
  <2>2. tasks' \in [Keys -> Tasks \cup {NoTask}]
    BY DEF ResolverTypeOK
  <2>3. taskCount' \in Int
    BY <1>4, <1>5 DEF ResolverTypeOK
  <2>. QED
    BY <2>1, <2>2, <2>3 DEF ResolverTypeOK
<1>8. \A t \in Tasks : /\ task'[t].key = task[t].key /\ task'[t].stage = task[t].stage
                       /\ task'[t].aborted = (task[t].aborted \/ \E k \in keys : tasks[k] = t)
  BY DEF ResolverTypeOK
<1>9. ListedExactly'
  <2>1. ASSUME NEW t \in Tasks, Running(t)', ~task'[t].aborted
        PROVE  tasks'[task'[t].key] = t
    BY <1>8, <2>1 DEF ListedExactly, Running, ResolverTypeOK
  <2>2. ASSUME NEW k \in Listed'
        PROVE  Running(tasks[k])' /\ ~task'[tasks'[k]].aborted /\ task'[tasks'[k]].key = k
    <3>1. k \in Listed /\ k \notin keys /\ k \in Keys /\ tasks'[k] = tasks[k] /\ tasks[k] \in Tasks
      BY <1>1, <2>2 DEF Listed, ResolverTypeOK
    <3>2. ~\E j \in keys : tasks[j] = tasks[k]
      BY <3>1 DEF ListedExactly, Listed, ResolverTypeOK
    <3>. QED
      BY <1>8, <3>1, <3>2 DEF ListedExactly, Running
  <2>. QED
    BY <2>1, <2>2 DEF ListedExactly, Running
<1>. QED
  BY <1>6, <1>7, <1>9

\* Starting a task lists it, while there is capacity.
LEMMA StartKeeps ==
    ASSUME ResolverInv, NEW k \in Keys, NEW t \in Tasks, Start(k, t)
    PROVE  ResolverInv'
<1>. USE ResolverAssumption DEF ResolverInv
<1>1. CASE k \in active
  <2>1. Listed' = Listed \cup {k} /\ k \notin Listed
    BY <1>1 DEF Listed, Start, ResolverTypeOK
  <2>2. IsFiniteSet(Listed') /\ Cardinality(Listed') = Cardinality(Listed) + 1
    BY <2>1, FS_AddElement DEF CapacityExact
  <2>3. CapacityExact'
    BY <1>1, <2>2, FS_CardinalityType DEF CapacityExact, Start
  <2>6. task' \in [Tasks -> [key : Keys, aborted : BOOLEAN,
                            stage : {"unused", "resolving", "waiting", "ended"}]]
    <3>1. [key |-> k, stage |-> "resolving", aborted |-> FALSE]
              \in [key : Keys, aborted : BOOLEAN,
                   stage : {"unused", "resolving", "waiting", "ended"}]
      OBVIOUS
    <3>. QED
      BY <1>1, <3>1 DEF ResolverTypeOK, Start
  <2>4. ResolverTypeOK'
    BY <1>1, <2>6 DEF ResolverTypeOK, Start
  <2>5. ListedExactly'
    BY <1>1, <2>1 DEF ListedExactly, Listed, Running, Start, ResolverTypeOK
  <2>. QED
    BY <2>3, <2>4, <2>5
<1>2. CASE k \notin active
  <2>1. Listed' = Listed
    BY <1>2 DEF Start, Listed
  <2>4. task' \in [Tasks -> [key : Keys, aborted : BOOLEAN,
                            stage : {"unused", "resolving", "waiting", "ended"}]]
    <3>1. [key |-> k, stage |-> "ended", aborted |-> FALSE]
              \in [key : Keys, aborted : BOOLEAN,
                   stage : {"unused", "resolving", "waiting", "ended"}]
      OBVIOUS
    <3>. QED
      BY <1>2, <3>1 DEF ResolverTypeOK, Start
  <2>2. ResolverTypeOK'
    BY <1>2, <2>4 DEF ResolverTypeOK, Start
  <2>3. ListedExactly'
    BY <1>2, <2>1 DEF ListedExactly, Listed, Running, Start, ResolverTypeOK
  <2>. QED
    BY <1>2, <2>1, <2>2, <2>3 DEF CapacityExact, Start
<1>. QED
  BY <1>1, <1>2

\* A step of a task keeps the invariant.
LEMMA TaskStepKeeps ==
    ASSUME ResolverInv, NEW t \in Tasks, TaskStep(t)
    PROVE  ResolverInv'
<1>. USE DEF ResolverInv
<1>1. Running(t) /\ task[t].key \in Keys
  BY DEF TaskStep, Resolved, ResolveFails, Retry, Running, ResolverTypeOK
<1>2. /\ cooldowns' \subseteq Keys /\ active' \subseteq Keys
      /\ \/ End(t)
         \/ \E s \in {"resolving", "waiting"} :
                task' = [task EXCEPT ![t].stage = s] /\ UNCHANGED <<tasks, taskCount>>
  <2>1. ASSUME NEW ready \in BOOLEAN, Resolved(t, ready)
        PROVE  /\ cooldowns' \subseteq Keys /\ active' \subseteq Keys
               /\ \/ End(t)
                  \/ task' = [task EXCEPT ![t].stage = "waiting"] /\ UNCHANGED <<tasks, taskCount>>
    BY <1>1, <2>1 DEF Resolved, ResolverTypeOK
  <2>2. CASE ResolveFails(t)
    BY <1>1, <2>2 DEF ResolveFails, ResolverTypeOK
  <2>3. ASSUME NEW expired \in BOOLEAN, Retry(t, expired)
        PROVE  /\ cooldowns' \subseteq Keys /\ active' \subseteq Keys
               /\ \/ End(t)
                  \/ task' = [task EXCEPT ![t].stage = "resolving"] /\ UNCHANGED <<tasks, taskCount>>
    BY <1>1, <2>3 DEF Retry, ResolverTypeOK
  <2>. QED
    BY <2>1, <2>2, <2>3 DEF TaskStep
<1>. QED
  BY <1>1, <1>2, EndKeeps, MoveKeeps DEF ResolverTypeOK

\* Every step keeps the invariant of the resolver.
LEMMA ResolverStep == ResolverInv /\ [ResolverNext]_resolverVars => ResolverInv'
<1>. SUFFICES ASSUME ResolverInv, [ResolverNext]_resolverVars PROVE ResolverInv'
  OBVIOUS
<1>1. CASE UNCHANGED <<tasks, taskCount, task>> /\ cooldowns' \subseteq Keys /\ active' \subseteq Keys
  BY <1>1 DEF ResolverInv, ResolverTypeOK, ListedExactly, CapacityExact, Listed, Running
<1>2. CASE \E k \in Keys : ActivityChanges(k) \/ CooldownEnds(k)
  BY <1>1, <1>2 DEF ActivityChanges, CooldownEnds, ResolverInv, ResolverTypeOK
<1>3. CASE Cancel
  <2>1. \E keys \in SUBSET Keys : CancelKeys(keys)
    BY <1>3 DEF Cancel, Keys
  <2>. QED
    BY <2>1, CancelKeeps
<1>4. CASE UNCHANGED resolverVars
  BY <1>1, <1>4 DEF resolverVars, ResolverInv, ResolverTypeOK
<1>. QED
  BY <1>2, <1>3, <1>4, StartKeeps, TaskStepKeeps DEF ResolverNext

\* The tasks that are listed are those that run for the page, and their number is
\* the capacity that is in use.
THEOREM ListedTasksAreExact == ResolverSpec => [](ResolverTypeOK /\ TasksAreExact)
<1>1. ResolverInit => ResolverInv
  BY ResolverStarts
<1>2. ResolverInv /\ [ResolverNext]_resolverVars => ResolverInv'
  BY ResolverStep
<1>3. ResolverInv => ResolverTypeOK /\ TasksAreExact
  <2>. SUFFICES ASSUME ResolverInv PROVE TasksAreExact
    BY DEF ResolverInv
  <2>1. \A k \in Listed : k \in Keys /\ tasks[k] \in Tasks
    BY DEF Listed, ResolverInv, ResolverTypeOK
  <2>2. \A t \in Tasks : Running(t) /\ ~task[t].aborted => task[t].key \in Listed
    BY ResolverAssumption DEF ResolverInv, ResolverTypeOK, ListedExactly, Listed
  <2>. QED
    BY <2>1, <2>2 DEF ResolverInv, ListedExactly, CapacityExact, TasksAreExact
<1>. QED
  BY <1>1, <1>2, <1>3, PTL DEF ResolverSpec

-----------------------------------------------------------------------------
(* The replication role. *)

\* An operation of the current revision applies the current role, and none is ahead.
AppliesCurrent ==
    \A o \in RoleOperations :
        /\ operation[o].revision <= roleRevision
        /\ ~Free(o) /\ operation[o].revision = roleRevision => operation[o].applying = currentRole
ReadsFollowRole == persistChunkReads = (currentRole # Observer)
RoleInv == RoleTypeOK /\ AppliesCurrent /\ ReadsFollowRole /\ RoleSettles

\* The types, but for what the other invariant says of persistChunkReads.
RolePlainTypes ==
    /\ currentRole \in RolesOfPage /\ replicated \in RolesOfPage
    /\ owed \in BOOLEAN /\ failed \in BOOLEAN
    /\ roleRevision \in 0..MaxRevision /\ roleFailures \in 0..MaxRoleFailures
    /\ adaptive \in RoleOperations \cup {NoAdaptive}
    /\ operation \in [RoleOperations -> [awaits : {"nothing", "off", "on", "rebalance"},
                                        applying : RolesOfPage, revision : 0..MaxRevision]]

\* The types, from the two.
LEMMA RoleTypeParts ==
    /\ RolePlainTypes /\ ReadsFollowRole => RoleTypeOK
    /\ (RolePlainTypes /\ ReadsFollowRole)' => RoleTypeOK'
<1>1. /\ ReadsFollowRole => persistChunkReads \in BOOLEAN
      /\ ReadsFollowRole' => persistChunkReads' \in BOOLEAN
  BY Zenon DEF ReadsFollowRole
<1>. QED
  BY <1>1 DEF RolePlainTypes, RoleTypeOK

\* What is not an operation is of their type.
LEMMA NoOperationType ==
    NoOperation \in [awaits : {"nothing", "off", "on", "rebalance"},
                     applying : RolesOfPage, revision : 0..MaxRevision]
BY RoleAssumption DEF NoOperation, RolesOfPage

\* The role starts in a state of its invariant.
LEMMA RoleStarts == RoleInit => RoleInv
<1>. SUFFICES ASSUME RoleInit PROVE RoleInv
  OBVIOUS
<1>1. RolePlainTypes
  <2>1. /\ currentRole \in RolesOfPage /\ replicated = currentRole /\ roleRevision = 0
        /\ operation = [o \in RoleOperations |-> NoOperation]
        /\ adaptive = NoAdaptive /\ roleFailures = 0
    BY Zenon DEF RoleInit
  <2>2. owed \in BOOLEAN /\ failed \in BOOLEAN
    BY Zenon DEF RoleInit
  <2>. QED
    BY <2>1, <2>2, NoOperationType, RoleAssumption DEF RolePlainTypes
<1>2. ReadsFollowRole
  BY DEF RoleInit, ReadsFollowRole
<1>3. AppliesCurrent /\ RoleSettles
  BY DEF RoleInit, AppliesCurrent, RoleSettles, Free, NoOperation
<1>. QED
  BY <1>1, <1>2, <1>3, RoleTypeParts DEF RoleInv

\* Every step keeps the types.
LEMMA RolePlainTypesStep == RoleInv /\ [RoleNext]_roleVars => RolePlainTypes'
<1>. SUFFICES ASSUME RoleTypeOK, AppliesCurrent, ReadsFollowRole, RoleSettles, [RoleNext]_roleVars
             PROVE  RolePlainTypes'
  BY DEF RoleInv
<1>. USE RoleAssumption, NoOperationType
         DEF RoleTypeOK, RolePlainTypes, RolesOfPage, Free,  Awaits, Release, UntilCurrent
<1>1. ASSUME NEW observe \in BOOLEAN, SelectRole(observe) PROVE RolePlainTypes'
  BY <1>1 DEF SelectRole
<1>2. ASSUME NEW o \in RoleOperations, NEW r \in RolesOfPage, UpdateRole(o, r) PROVE RolePlainTypes'
  <2>1. /\ Awaits(o, "off", r, roleRevision + 1) /\ currentRole' = r /\ replicated' = replicated
        /\ roleRevision < MaxRevision /\ roleRevision' = roleRevision + 1
        /\ adaptive' = adaptive /\ roleFailures' = roleFailures
    BY <1>2, Zenon DEF UpdateRole
  <2>2. owed' \in BOOLEAN /\ failed' \in BOOLEAN
    BY <1>2, Zenon DEF UpdateRole
  <2>. QED
    BY <2>1, <2>2
<1>3. ASSUME NEW o \in RoleOperations, RefreshAdaptively(o) PROVE RolePlainTypes'
  BY <1>3 DEF RefreshAdaptively
<1>4. ASSUME NEW o \in RoleOperations, ReplicatesNothing(o) PROVE RolePlainTypes'
  BY <1>4 DEF ReplicatesNothing
<1>5. ASSUME NEW o \in RoleOperations, Replicates(o) PROVE RolePlainTypes'
  BY <1>5 DEF Replicates
<1>6. ASSUME NEW o \in RoleOperations, ReplicateFails(o) PROVE RolePlainTypes'
  BY <1>6 DEF ReplicateFails
<1>7. CASE UNCHANGED roleVars
  BY <1>7 DEF roleVars
<1>. QED
  BY <1>1, <1>2, <1>3, <1>4, <1>5, <1>6, <1>7 DEF RoleNext, RoleStep, roleVars

\* A change of the role makes every operation outdated.
LEMMA AppliesCurrentStep == RoleInv /\ [RoleNext]_roleVars => AppliesCurrent'
<1>. SUFFICES ASSUME RoleTypeOK, AppliesCurrent, ReadsFollowRole, RoleSettles, [RoleNext]_roleVars
             PROVE  AppliesCurrent'
  BY DEF RoleInv
<1>. USE RoleAssumption
         DEF RoleTypeOK, RolesOfPage, Free, NoOperation, Awaits, Release, UntilCurrent,
             AppliesCurrent
<1>1. ASSUME NEW observe \in BOOLEAN, SelectRole(observe) PROVE AppliesCurrent'
  BY <1>1 DEF SelectRole
<1>2. ASSUME NEW o \in RoleOperations, NEW r \in RolesOfPage, UpdateRole(o, r) PROVE AppliesCurrent'
  BY <1>2 DEF UpdateRole
<1>3. ASSUME NEW o \in RoleOperations, RefreshAdaptively(o) PROVE AppliesCurrent'
  BY <1>3 DEF RefreshAdaptively
<1>4. ASSUME NEW o \in RoleOperations, ReplicatesNothing(o) PROVE AppliesCurrent'
  BY <1>4 DEF ReplicatesNothing
<1>5. ASSUME NEW o \in RoleOperations, Replicates(o) PROVE AppliesCurrent'
  BY <1>5 DEF Replicates
<1>6. ASSUME NEW o \in RoleOperations, ReplicateFails(o) PROVE AppliesCurrent'
  BY <1>6 DEF ReplicateFails
<1>7. CASE UNCHANGED <<operation, roleRevision, currentRole>>
  BY <1>7
<1>. QED
  BY <1>1, <1>2, <1>3, <1>4, <1>5, <1>6, <1>7 DEF RoleNext, RoleStep, roleVars

\* Reads are kept by a replicator only.
LEMMA ReadsFollowRoleStep == RoleInv /\ [RoleNext]_roleVars => ReadsFollowRole'
<1>. SUFFICES ASSUME RoleTypeOK, AppliesCurrent, ReadsFollowRole, RoleSettles, [RoleNext]_roleVars
             PROVE  ReadsFollowRole'
  BY DEF RoleInv
<1>. USE RoleAssumption
         DEF RoleTypeOK, RolesOfPage, Free, NoOperation, Awaits, Release, UntilCurrent,
             ReadsFollowRole
<1>1. ASSUME NEW observe \in BOOLEAN, SelectRole(observe) PROVE ReadsFollowRole'
  BY <1>1 DEF SelectRole
<1>2. ASSUME NEW o \in RoleOperations, NEW r \in RolesOfPage, UpdateRole(o, r) PROVE ReadsFollowRole'
  BY <1>2 DEF UpdateRole
<1>3. ASSUME NEW o \in RoleOperations, RefreshAdaptively(o) PROVE ReadsFollowRole'
  BY <1>3 DEF RefreshAdaptively
<1>4. ASSUME NEW o \in RoleOperations, ReplicatesNothing(o) PROVE ReadsFollowRole'
  BY <1>4 DEF ReplicatesNothing
<1>5. ASSUME NEW o \in RoleOperations, Replicates(o) PROVE ReadsFollowRole'
  BY <1>5 DEF Replicates
<1>6. ASSUME NEW o \in RoleOperations, ReplicateFails(o) PROVE ReadsFollowRole'
  BY <1>6 DEF ReplicateFails
<1>7. CASE UNCHANGED <<persistChunkReads, currentRole>>
  BY <1>7
<1>. QED
  BY <1>1, <1>2, <1>3, <1>4, <1>5, <1>6, <1>7 DEF RoleNext, RoleStep, roleVars

\* The last operation to end has applied the role of now.
LEMMA RoleSettlesStep == RoleInv /\ [RoleNext]_roleVars => RoleSettles'
<1>. SUFFICES ASSUME RoleTypeOK, AppliesCurrent, ReadsFollowRole, RoleSettles, [RoleNext]_roleVars
             PROVE  RoleSettles'
  BY DEF RoleInv
<1>. USE RoleAssumption
         DEF RoleTypeOK, RolesOfPage, Free, NoOperation, Awaits, Release, UntilCurrent,
             RoleSettles, AppliesCurrent, ReadsFollowRole
<1>1. ASSUME NEW observe \in BOOLEAN, SelectRole(observe) PROVE RoleSettles'
  BY <1>1 DEF SelectRole
<1>2. ASSUME NEW o \in RoleOperations, NEW r \in RolesOfPage, UpdateRole(o, r) PROVE RoleSettles'
  BY <1>2 DEF UpdateRole
<1>3. ASSUME NEW o \in RoleOperations, RefreshAdaptively(o) PROVE RoleSettles'
  BY <1>3 DEF RefreshAdaptively
<1>4. ASSUME NEW o \in RoleOperations, ReplicatesNothing(o) PROVE RoleSettles'
  BY <1>4 DEF ReplicatesNothing
<1>5. ASSUME NEW o \in RoleOperations, Replicates(o) PROVE RoleSettles'
  BY <1>5 DEF Replicates
<1>6. ASSUME NEW o \in RoleOperations, ReplicateFails(o) PROVE RoleSettles'
  BY <1>6 DEF ReplicateFails
<1>7. CASE UNCHANGED <<operation, owed, failed, replicated, currentRole, persistChunkReads>>
  BY <1>7
<1>. QED
  BY <1>1, <1>2, <1>3, <1>4, <1>5, <1>6, <1>7 DEF RoleNext, RoleStep, roleVars

\* Whatever order its operations end in, a page that has settled replicates the role
\* that the user chose last.
THEOREM RolesSettle == RoleSpec => [](RoleTypeOK /\ RoleSettles)
<1>1. RoleInit => RoleInv
  BY RoleStarts
<1>2. RoleInv /\ [RoleNext]_roleVars => RoleInv'
  BY RolePlainTypesStep, AppliesCurrentStep, ReadsFollowRoleStep, RoleSettlesStep, RoleTypeParts
     DEF RoleInv
<1>3. RoleInv => RoleTypeOK /\ RoleSettles
  BY DEF RoleInv
<1>. QED
  BY <1>1, <1>2, <1>3, PTL DEF RoleSpec

-----------------------------------------------------------------------------
(* The list of the page.  Its invariant speaks of one file at a time: of   *)
(* its history, of what the stores have seen of that, and of what the page *)
(* believes.                                                               *)

\* The variables of the page, with the records that they hold.
ReconciliationStates ==
    [localRootIds : SUBSET Roots, remoteOnlyIds : SUBSET Roots,
     suppressedIds : [Roots -> Nat \cup {NotSuppressed}], observedVersions : [Roots -> Nat]]
Refreshes ==
    [stage : {"idle", "listing", "remote"}, source : Sources \cup {NotQueued},
     role : {"replicator", "observer"}, current : BOOLEAN, listing : [Roots -> Nat],
     localListing : [Roots -> Nat], localKnown : BOOLEAN]
Answers == [current : BOOLEAN, status : {"none", "present", "missing", "unknown"}, version : Nat]

\* What the proofs need to know of each of the variables.
HistoryShape ==
    /\ history \in [Roots -> Seq(BOOLEAN)]
    /\ localAt \in [Roots -> Nat] /\ remoteAt \in [Roots -> Nat]
PageShape ==
    /\ HistoryShape
    /\ removedAt \in [Roots -> Nat] /\ shown \subseteq Roots
    /\ state \in ReconciliationStates /\ refresh \in Refreshes
    /\ role \in {"replicator", "observer"} /\ queued \in Sources \cup {NotQueued}
    /\ flight \in [Roots -> Answers] /\ inquiry \in [Roots -> InquiryStages]

Larger(a, b) == IF a > b THEN a ELSE b
IsPut(r, v) == v > 0 => history[r][v]
IsDelete(r, v) == v > 0 => ~history[r][v]
Hides(r) == state.suppressedIds[r] # NotSuppressed

\* Stores have seen prefixes of the history, and the page remembers puts and deletes.
WithinHistory(r) ==
    /\ localAt[r] <= Len(history[r]) /\ remoteAt[r] <= Len(history[r])
    /\ state.observedVersions[r] <= Len(history[r]) /\ IsPut(r, state.observedVersions[r])
    /\ removedAt[r] <= Len(history[r]) /\ IsDelete(r, removedAt[r])

\* A file is local, known from the peers, or hidden, and what is hidden is not shown.
Apart(r) ==
    /\ r \in state.localRootIds => r \notin state.remoteOnlyIds
    /\ r \in state.localRootIds \cup state.remoteOnlyIds \cup shown => ~Hides(r)
    /\ r \in state.localRootIds \cup state.remoteOnlyIds => state.observedVersions[r] > 0
    /\ Hides(r) => /\ state.suppressedIds[r] \in 1 .. Len(history[r])
                   /\ history[r][state.suppressedIds[r]]

\* What the own store has is known by its events, and nothing newer than the stores have.
KnowsLocal(r) ==
    /\ Local[r] > 0 => r \in state.localRootIds /\ state.observedVersions[r] >= Local[r]
    /\ ~Hides(r) => state.observedVersions[r] <= Larger(Local[r], remoteAt[r])

\* What is local is not asked for.
Settled(r) == inquiry[r] \in {"none", "dropped"}
ConfirmsOthers(r) == r \in state.localRootIds => Settled(r)

\* A listing that is not out of date shows what a store has, or had before it was pruned.
ListingHolds(r) ==
    refresh.stage # "idle" /\ refresh.current =>
        /\ IsPut(r, refresh.listing[r])
        /\ refresh.stage = "remote" => refresh.listing[r] <= remoteAt[r]
        /\ refresh.stage = "listing" =>
               /\ IsPut(r, refresh.localListing[r])
               /\ refresh.listing[r] <= Larger(Local[r], remoteAt[r])
               /\ refresh.localListing[r] <= Larger(Local[r], remoteAt[r])
               /\ refresh.role = "replicator" => refresh.listing[r] = refresh.localListing[r]
               /\ refresh.localListing[r] = 0 => refresh.listing[r] <= remoteAt[r]
               /\ Local[r] > 0 => refresh.localListing[r] = Local[r]
               /\ refresh.localListing[r] > 0 => Settled(r)

\* An answer is what the peers had.  One that is not out of date is newer than a delete
\* that the page learned of from them, and than what it has seen if it says missing.
AnswerHolds(r) ==
    /\ flight[r].version <= remoteAt[r]
    /\ flight[r].status = "present" => flight[r].version > 0 /\ IsPut(r, flight[r].version)
    /\ flight[r].status = "missing" => IsDelete(r, flight[r].version)
    /\ flight[r].current /\ flight[r].status = "present" /\ Hides(r) =>
           \/ removedAt[r] <= state.suppressedIds[r] + 1
           \/ removedAt[r] <= flight[r].version
    /\ /\ flight[r].current /\ flight[r].status = "missing"
       /\ inquiry[r] = "asked" /\ r \in state.remoteOnlyIds
       => state.observedVersions[r] <= flight[r].version

\* A delete that the page knows of is hidden, or undone by what came after it.
RemovalKnown(r) ==
    /\ removedAt[r] <= Larger(localAt[r], remoteAt[r])
    /\ Hides(r) => removedAt[r] <= state.suppressedIds[r] + 1 \/ removedAt[r] <= remoteAt[r]
    /\ ~Hides(r) /\ removedAt[r] > 0 => PutSince(r, removedAt[r]) \/ Local[r] > 0

HidesDeleted(r) ==
    Hides(r) => \/ DeletedSince(r, state.suppressedIds[r])
                \/ localAt[r] \in 1 .. state.suppressedIds[r] - 1

RootInv(r) ==
    /\ WithinHistory(r) /\ Apart(r) /\ KnowsLocal(r) /\ ConfirmsOthers(r) /\ ListingHolds(r)
    /\ AnswerHolds(r) /\ RemovalKnown(r) /\ HidesDeleted(r)

\* The inductive invariant.
PageInv == PageShape /\ \A r \in Roots : RootInv(r)

\* A history that is longer than before.
Grows(q) ==
    /\ Len(history[q]) <= Len(history[q])'
    /\ \A i \in 1 .. Len(history[q]) : history'[q][i] = history[q][i]

\* The lengths of histories and the versions that stores hold are numbers.
LEMMA WorldNumbers ==
    ASSUME HistoryShape, NEW q \in Roots
    PROVE  /\ Len(history[q]) \in Nat /\ localAt[q] \in Nat /\ remoteAt[q] \in Nat
           /\ Local[q] \in Nat /\ Local[q] \in {0, localAt[q]}
           /\ Local[q] > 0 <=> localAt[q] > 0 /\ history[q][localAt[q]]
           /\ Remote[q] \in Nat /\ Remote[q] \in {0, remoteAt[q]}
           /\ Remote[q] > 0 <=> remoteAt[q] > 0 /\ history[q][remoteAt[q]]
BY DEF HistoryShape, Local, Remote, Held

\* The same of the next state.
LEMMA WorldNumbersNext ==
    ASSUME HistoryShape', NEW q \in Roots
    PROVE  /\ Len(history'[q]) \in Nat /\ localAt'[q] \in Nat /\ remoteAt'[q] \in Nat
           /\ Local'[q] \in Nat /\ Local'[q] \in {0, localAt'[q]}
           /\ Local'[q] > 0 <=> localAt'[q] > 0 /\ history'[q][localAt'[q]]
BY DEF HistoryShape, Local, Held

\* A put or a delete makes the history of its file longer by one.
LEMMA ChangeGrows ==
    ASSUME HistoryShape, NEW r \in Roots, NEW put \in BOOLEAN, Change(r, put)
    PROVE  /\ history' \in [Roots -> Seq(BOOLEAN)]
           /\ Len(history'[r]) = Len(history[r]) + 1
           /\ history'[r][Len(history'[r])] = put
           /\ \A q \in Roots : Grows(q) /\ (q # r => history'[q] = history[q])
<1>1. history' = [history EXCEPT ![r] = Append(history[r], put)]
  BY DEF Change
<1>2. history[r] \in Seq(BOOLEAN) /\ Append(history[r], put) \in Seq(BOOLEAN)
  BY DEF HistoryShape
<1>3. /\ Len(Append(history[r], put)) = Len(history[r]) + 1
      /\ Append(history[r], put)[Len(history[r]) + 1] = put
      /\ \A i \in 1 .. Len(history[r]) : Append(history[r], put)[i] = history[r][i]
  BY <1>2
<1>4. history'[r] = Append(history[r], put) /\ \A q \in Roots : q # r => history'[q] = history[q]
  BY <1>1 DEF HistoryShape
<1>. QED
  BY <1>1, <1>2, <1>3, <1>4 DEF HistoryShape, Grows

\* The number-valued parts of the shape.
LEMMA PageNumbers ==
    ASSUME PageShape, NEW q \in Roots
    PROVE  /\ state.observedVersions[q] \in Nat /\ removedAt[q] \in Nat
           /\ state.suppressedIds[q] \in Nat \cup {-1} /\ NotSuppressed = -1
           /\ flight[q].version \in Nat
           /\ refresh.listing[q] \in Nat /\ refresh.localListing[q] \in Nat
BY DEF PageShape, ReconciliationStates, Refreshes, Answers, NotSuppressed

\* A longer history has the puts and deletes that it had.
LEMMA GrowsKeeps ==
    ASSUME NEW q, Grows(q), Len(history[q]) \in Nat, Len(history'[q]) \in Nat, NEW v \in Nat
    PROVE  /\ v <= Len(history[q]) /\ v > 0 => history'[q][v] = history[q][v]
           /\ PutSince(q, v) => \E i \in v + 1 .. Len(history'[q]) : history'[q][i]
           /\ DeletedSince(q, v) => \E i \in v + 1 .. Len(history'[q]) : ~history'[q][i]
<1>1. \A i \in 1 .. Len(history[q]) : i \in 1 .. Len(history'[q]) /\ history'[q][i] = history[q][i]
  BY DEF Grows
<1>2. ASSUME NEW i \in v + 1 .. Len(history[q])
      PROVE  /\ i \in 1 .. Len(history[q]) /\ i \in v + 1 .. Len(history'[q])
             /\ history'[q][i] = history[q][i]
  BY <1>1
<1>. QED
  BY <1>1, <1>2 DEF PutSince, DeletedSince

\* Everything that the page remembers of a file is a position in its history.
LEMMA Positions ==
    ASSUME PageShape, NEW q \in Roots, RootInv(q)
    PROVE  /\ state.observedVersions[q] <= Len(history[q]) /\ removedAt[q] <= Len(history[q])
           /\ flight[q].version <= Len(history[q])
           /\ Hides(q) => state.suppressedIds[q] \in 1 .. Len(history[q])
           /\ refresh.current /\ refresh.stage # "idle" => refresh.listing[q] <= Len(history[q])
           /\ refresh.current /\ refresh.stage = "listing" =>
                  refresh.localListing[q] <= Len(history[q])
<1>1. /\ Len(history[q]) \in Nat /\ localAt[q] \in Nat /\ remoteAt[q] \in Nat
      /\ Local[q] \in Nat /\ Local[q] \in {0, localAt[q]}
  BY WorldNumbers DEF PageShape
<1>2. localAt[q] <= Len(history[q]) /\ remoteAt[q] <= Len(history[q])
  BY DEF RootInv, WithinHistory
<1>3. Larger(Local[q], remoteAt[q]) \in Nat /\ Larger(Local[q], remoteAt[q]) <= Len(history[q])
  BY <1>1, <1>2 DEF Larger
<1>4. state.observedVersions[q] <= Len(history[q]) /\ removedAt[q] <= Len(history[q])
  BY DEF RootInv, WithinHistory
<1>5. flight[q].version <= Len(history[q])
  BY <1>1, <1>2, PageNumbers DEF RootInv, AnswerHolds
<1>6. Hides(q) => state.suppressedIds[q] \in 1 .. Len(history[q])
  BY DEF RootInv, Apart
<1>7. refresh.stage \in {"idle", "listing", "remote"}
  BY DEF PageShape, Refreshes
<1>8. ASSUME refresh.current, refresh.stage = "listing"
      PROVE  refresh.listing[q] <= Len(history[q]) /\ refresh.localListing[q] <= Len(history[q])
  BY <1>1, <1>3, <1>8, PageNumbers DEF RootInv, ListingHolds
<1>9. ASSUME refresh.current, refresh.stage = "remote" PROVE refresh.listing[q] <= Len(history[q])
  BY <1>1, <1>2, <1>9, PageNumbers DEF RootInv, ListingHolds
<1>. QED
  BY <1>4, <1>5, <1>6, <1>7, <1>8, <1>9

\* What a step may do to a file of which the page learns nothing: its history may get
\* longer and its peers may learn more, and what was asked may be given up or out of
\* date.
Unlearned(q) ==
    /\ Grows(q) /\ localAt'[q] = localAt[q]
    /\ remoteAt[q] <= remoteAt'[q] /\ remoteAt'[q] <= Len(history'[q])
    /\ q \in state'.localRootIds <=> q \in state.localRootIds
    /\ q \in state'.remoteOnlyIds <=> q \in state.remoteOnlyIds
    /\ q \in shown' <=> q \in shown
    /\ state'.suppressedIds[q] = state.suppressedIds[q]
    /\ state'.observedVersions[q] = state.observedVersions[q]
    /\ removedAt'[q] = removedAt[q]
    /\ refresh' = refresh \/ refresh'.stage = "idle" \/ ~refresh'.current \/ ListingHolds(q)'
    /\ \/ flight'[q].status \in {"none", "unknown"} /\ flight'[q].version <= flight[q].version
       \/ /\ flight'[q].status = flight[q].status /\ flight'[q].version = flight[q].version
          /\ flight'[q].current => flight[q].current
          /\ inquiry'[q] = "asked" => inquiry[q] = "asked"
    /\ Settled(q) => Settled(q)'

\* Such a step keeps the invariant of the file.
LEMMA UnlearnedKeeps ==
    ASSUME PageShape, PageShape', NEW q \in Roots, RootInv(q), Unlearned(q)
    PROVE  RootInv(q)'
<1>1. HistoryShape /\ HistoryShape'
  BY DEF PageShape
<1>2. /\ Grows(q) /\ Len(history[q]) \in Nat /\ Len(history'[q]) \in Nat
      /\ Len(history[q]) <= Len(history'[q])
      /\ localAt[q] \in Nat /\ localAt'[q] = localAt[q]
      /\ remoteAt[q] \in Nat /\ remoteAt'[q] \in Nat
      /\ remoteAt[q] <= remoteAt'[q] /\ remoteAt'[q] <= Len(history'[q])
  BY <1>1, WorldNumbers, WorldNumbersNext DEF Unlearned, Grows
<1>3. Local'[q] = Local[q] /\ Local[q] \in Nat
  BY <1>1, <1>2, WorldNumbers, WorldNumbersNext DEF RootInv, WithinHistory, Grows
<1>4. /\ state.observedVersions[q] \in Nat /\ removedAt[q] \in Nat
      /\ state.suppressedIds[q] \in Nat \cup {-1} /\ NotSuppressed = -1
      /\ flight[q].version \in Nat
      /\ refresh.listing[q] \in Nat /\ refresh.localListing[q] \in Nat
  BY PageNumbers
<1>5. flight'[q].version \in Nat
  BY DEF PageShape, Answers
<1>6. WithinHistory(q)'
  <2>1. state.observedVersions[q] <= Len(history[q]) /\ removedAt[q] <= Len(history[q])
    BY Positions
  <2>2. state.observedVersions[q] > 0 => history'[q][state.observedVersions[q]]
    BY <1>2, <1>4, <2>1, GrowsKeeps DEF RootInv, WithinHistory, IsPut
  <2>4. removedAt[q] > 0 => ~history'[q][removedAt[q]]
    BY <1>2, <1>4, <2>1, GrowsKeeps DEF RootInv, WithinHistory, IsDelete
  <2>3. localAt[q] <= Len(history[q])
    BY DEF RootInv, WithinHistory
  <2>. QED
    BY <1>2, <1>4, <2>1, <2>2, <2>3, <2>4 DEF WithinHistory, IsPut, IsDelete, Unlearned
<1>7. Apart(q)'
  <2>1. Hides(q) => state.suppressedIds[q] \in 1 .. Len(history[q])
    BY Positions
  <2>2. Hides(q) => history'[q][state.suppressedIds[q]]
    BY <1>2, <1>4, <2>1, GrowsKeeps DEF RootInv, Apart
  <2>. QED
    BY <1>2, <1>4, <2>1, <2>2 DEF RootInv, Apart, Hides, Unlearned
<1>8. KnowsLocal(q)' /\ ConfirmsOthers(q)'
  BY <1>2, <1>3, <1>4 DEF RootInv, KnowsLocal, ConfirmsOthers, Larger, Hides, Unlearned
<1>9. ListingHolds(q)'
  <2>1. CASE refresh'.stage = "idle" \/ ~refresh'.current
    BY <2>1 DEF ListingHolds
  <2>2. CASE refresh' = refresh
    <3>1. refresh.current /\ refresh.stage # "idle" =>
              (refresh.listing[q] > 0 => history'[q][refresh.listing[q]])
      BY <1>2, <1>4, Positions, GrowsKeeps DEF RootInv, ListingHolds, IsPut
    <3>2. refresh.current /\ refresh.stage = "listing" =>
              (refresh.localListing[q] > 0 => history'[q][refresh.localListing[q]])
      BY <1>2, <1>4, Positions, GrowsKeeps DEF RootInv, ListingHolds, IsPut
    <3>3. Larger(Local[q], remoteAt[q]) <= Larger(Local'[q], remoteAt'[q])
      BY <1>2, <1>3 DEF Larger
    <3>4. Larger(Local[q], remoteAt[q]) \in Nat /\ Larger(Local'[q], remoteAt'[q]) \in Nat
      BY <1>2, <1>3 DEF Larger
    <3>5. Settled(q) => Settled(q)'
      BY DEF Unlearned
    <3>. QED
      BY <1>2, <1>3, <1>4, <2>2, <3>1, <3>2, <3>3, <3>4, <3>5 DEF RootInv, ListingHolds, IsPut
  <2>. QED
    BY <2>1, <2>2 DEF Unlearned
<1>10. AnswerHolds(q)'
  <2>1. /\ flight[q].status = "present" => history'[q][flight[q].version]
        /\ flight[q].status = "missing" /\ flight[q].version > 0 => ~history'[q][flight[q].version]
    BY <1>2, <1>4, Positions, GrowsKeeps DEF RootInv, AnswerHolds, IsPut, IsDelete
  <2>. QED
    BY <1>2, <1>4, <1>5, <2>1 DEF RootInv, AnswerHolds, IsPut, IsDelete, Hides, Unlearned
<1>11. RemovalKnown(q)'
  <2>1. PutSince(q, removedAt[q]) => PutSince(q, removedAt[q])'
    BY <1>2, <1>4, GrowsKeeps DEF PutSince, Unlearned
  <2>. QED
    BY <1>2, <1>3, <1>4, <2>1 DEF RootInv, RemovalKnown, Larger, Hides, Unlearned
<1>12. HidesDeleted(q)'
  <2>1. Hides(q) /\ DeletedSince(q, state.suppressedIds[q]) => DeletedSince(q, state.suppressedIds[q])'
    BY <1>2, <1>4, GrowsKeeps DEF DeletedSince, Hides, Unlearned
  <2>. QED
    BY <1>2, <2>1 DEF RootInv, HidesDeleted, Hides, Unlearned
<1>. QED
  BY <1>6, <1>7, <1>8, <1>9, <1>10, <1>11, <1>12 DEF RootInv

\* What is forgotten is not asked for, or no longer.
LEMMA ForgottenIs ==
    ASSUME NEW stage \in InquiryStages
    PROVE  Forgotten(stage) \in {"none", "dropped"}
<1>1. stage = "waiting" => Forgotten(stage) = "none"
  BY Zenon DEF Forgotten
<1>2. stage \in {"asked", "told", "again"} => Forgotten(stage) = "dropped"
  <2>1. stage \in {"asked", "told", "again"} => stage # "waiting"
    OBVIOUS
  <2>. QED
    BY <2>1, Zenon DEF Forgotten
<1>3. stage # "waiting" /\ stage \notin {"asked", "told", "again"} => Forgotten(stage) = stage
  BY Zenon DEF Forgotten
<1>. QED
  BY <1>1, <1>2, <1>3 DEF InquiryStages

\* One that is wanted is not asked for anew.
LEMMA WantedIs ==
    ASSUME NEW stage \in InquiryStages
    PROVE  Wanted(stage) \in InquiryStages /\ (Wanted(stage) = "asked" => stage = "asked")
<1>1. stage = "none" => Wanted(stage) = "waiting"
  BY Zenon DEF Wanted
<1>2. stage = "dropped" => Wanted(stage) = "again"
  <2>1. stage = "dropped" => stage # "none"
    OBVIOUS
  <2>. QED
    BY <2>1, Zenon DEF Wanted
<1>3. stage # "none" /\ stage # "dropped" => Wanted(stage) = stage
  BY Zenon DEF Wanted
<1>. QED
  BY <1>1, <1>2, <1>3 DEF InquiryStages

\* Revising, root by root.
LEMMA ReviseIs ==
    ASSUME inquiry \in [Roots -> InquiryStages], NEW forgotten, NEW wanted, Revise(forgotten, wanted)
    PROVE  /\ inquiry' \in [Roots -> InquiryStages]
           /\ \A q \in Roots :
                  /\ q \in forgotten => inquiry'[q] \in {"none", "dropped"}
                  /\ q \notin forgotten /\ q \notin wanted => inquiry'[q] = inquiry[q]
                  /\ inquiry'[q] = "asked" => q \notin forgotten /\ inquiry[q] = "asked"
<1>1. \A q \in Roots : /\ Forgotten(inquiry[q]) \in {"none", "dropped"}
                       /\ Forgotten(inquiry[q]) \in InquiryStages
                       /\ Wanted(inquiry[q]) \in InquiryStages
                       /\ Wanted(inquiry[q]) = "asked" => inquiry[q] = "asked"
  BY ForgottenIs, WantedIs DEF InquiryStages
<1>. QED
  BY <1>1 DEF Revise

\* Finishing, of one root.
LEMMA FinishIs ==
    ASSUME inquiry \in [Roots -> InquiryStages], NEW r \in Roots, NEW retry \in BOOLEAN, Finish(r, retry)
    PROVE  /\ inquiry' \in [Roots -> InquiryStages]
           /\ inquiry'[r] # "asked" /\ (Settled(r) => inquiry'[r] = "none")
           /\ \A q \in Roots : q # r => inquiry'[q] = inquiry[q]
<1>. DEFINE next == CASE inquiry[r] = "told" -> IF retry THEN "waiting" ELSE "none"
                      [] inquiry[r] = "dropped" -> "none"
                      [] inquiry[r] \in {"asked", "again"} -> "waiting"
<1>1. inquiry[r] \in {"asked", "told", "dropped", "again"} /\ inquiry' = [inquiry EXCEPT ![r] = next]
  BY DEF Finish
<1>2. next \in {"waiting", "none"} /\ (inquiry[r] = "dropped" => next = "none")
  <2>1. CASE inquiry[r] = "told"
    BY <2>1
  <2>2. CASE inquiry[r] = "dropped"
    BY <2>2
  <2>3. CASE inquiry[r] \in {"asked", "again"}
    BY <2>3
  <2>. QED
    BY <1>1, <2>1, <2>2, <2>3
<1>. HIDE DEF next
<1>. QED
  BY <1>1, <1>2 DEF InquiryStages, Settled

\* A snapshot of the own store, root by root.
LEMMA LocalSnapshotIs ==
    ASSUME NEW s \in ReconciliationStates, NEW listing \in [Roots -> Nat],
           NEW n, n = ObserveLocalRootSnapshot(s, listing)
    PROVE  /\ n \in ReconciliationStates /\ n.suppressedIds = s.suppressedIds
           /\ \A q \in Roots :
                  /\ q \in n.localRootIds <=> listing[q] > 0 /\ s.suppressedIds[q] = NotSuppressed
                  /\ q \in n.remoteOnlyIds <=>
                         /\ ~(listing[q] > 0 /\ s.suppressedIds[q] = NotSuppressed)
                         /\ \/ q \in s.remoteOnlyIds
                            \/ q \in s.localRootIds /\ s.suppressedIds[q] = NotSuppressed
                  /\ n.observedVersions[q] = IF q \in n.localRootIds THEN listing[q]
                                             ELSE s.observedVersions[q]
BY DEF ObserveLocalRootSnapshot, ReconciliationStates, In, Suppressed

\* A snapshot of the peers, root by root.
LEMMA RemoteSnapshotIs ==
    ASSUME NEW s \in ReconciliationStates, NEW listing \in [Roots -> Nat],
           NEW n, n = ObserveRemoteRootSnapshot(s, listing)
    PROVE  /\ n \in ReconciliationStates /\ n.suppressedIds = s.suppressedIds
           /\ n.localRootIds = s.localRootIds
           /\ \A q \in Roots :
                  /\ q \in n.remoteOnlyIds <=>
                         /\ q \notin s.localRootIds
                         /\ \/ q \in s.remoteOnlyIds
                            \/ listing[q] > 0 /\ s.suppressedIds[q] = NotSuppressed
                  /\ n.observedVersions[q] =
                         IF /\ listing[q] > 0 /\ s.suppressedIds[q] = NotSuppressed
                            /\ listing[q] > s.observedVersions[q]
                         THEN listing[q] ELSE s.observedVersions[q]
BY DEF ObserveRemoteRootSnapshot, RemoteVisible, ReconciliationStates, In, Suppressed

\* Listings are of positions.
LEMMA ListingsAre ==
    ASSUME HistoryShape, NEW from \in SUBSET Roots
    PROVE  /\ Local \in [Roots -> Nat] /\ Remote \in [Roots -> Nat]
           /\ Heard(Remote, from) \in [Roots -> Nat]
           /\ Newest(Local, Heard(Remote, from)) \in [Roots -> Nat]
           /\ \A q \in Roots :
                  /\ Heard(Remote, from)[q] \in {0, Remote[q]}
                  /\ Newest(Local, Heard(Remote, from))[q] =
                         Larger(Local[q], Heard(Remote, from)[q])
<1>1. Local \in [Roots -> Nat] /\ Remote \in [Roots -> Nat]
  BY DEF HistoryShape, Local, Remote, Held
<1>2. /\ Heard(Remote, from) \in [Roots -> Nat]
      /\ \A q \in Roots : Heard(Remote, from)[q] \in {0, Remote[q]}
  BY <1>1 DEF Heard
<1>. QED
  BY <1>1, <1>2 DEF Newest, Larger

\* What becomes out of date.
LEMMA OutdateIs ==
    ASSUME PageShape, Outdate
    PROVE  /\ refresh' \in Refreshes /\ ~refresh'.current
           /\ flight' \in [Roots -> Answers]
           /\ \A q \in Roots : /\ flight'[q].status = flight[q].status
                               /\ flight'[q].version = flight[q].version
                               /\ ~flight'[q].current
BY DEF Outdate, PageShape, Refreshes, Answers

\* An addition, root by root.
LEMMA RecordAdditionIs ==
    ASSUME NEW s \in ReconciliationStates, NEW r \in Roots, NEW version \in Nat,
           NEW n, n = RecordAddition(s, r, version)
    PROVE  /\ n \in ReconciliationStates
           /\ r \in n.localRootIds /\ r \notin n.remoteOnlyIds
           /\ n.suppressedIds[r] = NotSuppressed /\ n.observedVersions[r] = version
           /\ \A q \in Roots : q # r =>
                  /\ q \in n.localRootIds <=> q \in s.localRootIds
                  /\ q \in n.remoteOnlyIds <=> q \in s.remoteOnlyIds
                  /\ n.suppressedIds[q] = s.suppressedIds[q]
                  /\ n.observedVersions[q] = s.observedVersions[q]
BY DEF RecordAddition, ReconciliationStates

\* A removal, root by root.
LEMMA RecordRemovalIs ==
    ASSUME NEW s \in ReconciliationStates, NEW r \in Roots, NEW version \in Nat,
           NEW n, n = RecordRemoval(s, r, version)
    PROVE  /\ n \in ReconciliationStates
           /\ r \notin n.localRootIds /\ r \notin n.remoteOnlyIds
           /\ n.suppressedIds[r] = n.observedVersions[r]
           /\ n.observedVersions[r] = IF version # Unversioned THEN version ELSE s.observedVersions[r]
           /\ \A q \in Roots : q # r =>
                  /\ q \in n.localRootIds <=> q \in s.localRootIds
                  /\ q \in n.remoteOnlyIds <=> q \in s.remoteOnlyIds
                  /\ n.suppressedIds[q] = s.suppressedIds[q]
                  /\ n.observedVersions[q] = s.observedVersions[q]
BY DEF RecordRemoval, ReconciliationStates

\* A local store that goes on in the history of r.
LocalMoves(r, to) ==
    /\ HistoryShape' /\ \A q \in Roots : Grows(q)
    /\ to \in Nat /\ localAt[r] < to /\ to <= Len(history'[r])
    /\ Local[r] > 0 => to = localAt[r] + 1
    /\ localAt' = [localAt EXCEPT ![r] = to] /\ remoteAt' = remoteAt
    /\ UNCHANGED <<role, queued>>

\* The store has come to a put of r, and has told the page.
LEMMA AdditionKeeps ==
    ASSUME PageInv, NEW r \in Roots, NEW to, LocalMoves(r, to), HandleChange(r, to), history'[r][to]
    PROVE  PageInv'
<1>1. PageShape /\ HistoryShape /\ HistoryShape' /\ to \in Nat /\ \A q \in Roots : RootInv(q)
  BY DEF PageInv, PageShape, LocalMoves
<1>2. /\ Outdate /\ Revise({r}, {}) /\ state' = RecordAddition(state, r, to)
      /\ shown' = shown \cup {r} /\ removedAt' = removedAt
  BY DEF HandleChange
<1>3. /\ state' \in ReconciliationStates
      /\ r \in state'.localRootIds /\ r \notin state'.remoteOnlyIds
      /\ state'.suppressedIds[r] = NotSuppressed /\ state'.observedVersions[r] = to
      /\ \A q \in Roots : q # r =>
             /\ q \in state'.localRootIds <=> q \in state.localRootIds
             /\ q \in state'.remoteOnlyIds <=> q \in state.remoteOnlyIds
             /\ state'.suppressedIds[q] = state.suppressedIds[q]
             /\ state'.observedVersions[q] = state.observedVersions[q]
  <2>1. state \in ReconciliationStates
    BY <1>1 DEF PageShape
  <2>. QED
    BY <1>1, <1>2, <2>1, RecordAdditionIs
<1>4. /\ inquiry' \in [Roots -> InquiryStages]
      /\ inquiry'[r] \in {"none", "dropped"}
      /\ \A q \in Roots : q # r => inquiry'[q] = inquiry[q]
  BY <1>1, <1>2, ReviseIs DEF PageShape
<1>5. PageShape'
  BY <1>1, <1>2, <1>3, <1>4, OutdateIs DEF PageShape, LocalMoves
<1>6. ASSUME NEW q \in Roots, q # r PROVE RootInv(q)'
  <2>1. Unlearned(q)
    <3>1. Grows(q) /\ localAt'[q] = localAt[q] /\ remoteAt'[q] = remoteAt[q]
      BY <1>1, <1>6 DEF LocalMoves, HistoryShape
    <3>2. remoteAt[q] <= Len(history'[q]) /\ remoteAt[q] \in Nat
      BY <1>1, <3>1, WorldNumbers, WorldNumbersNext DEF Grows, RootInv, WithinHistory
    <3>. QED
      BY <1>1, <1>2, <1>3, <1>4, <1>6, <3>1, <3>2, OutdateIs DEF Unlearned, Settled
  <2>. QED
    BY <1>1, <1>5, <2>1, UnlearnedKeeps
<1>7. RootInv(r)'
  <2>1. /\ Grows(r) /\ Len(history[r]) \in Nat /\ Len(history'[r]) \in Nat
        /\ Len(history[r]) <= Len(history'[r])
        /\ localAt[r] \in Nat /\ localAt'[r] = to /\ localAt[r] < to /\ to <= Len(history'[r])
        /\ remoteAt[r] \in Nat /\ remoteAt'[r] = remoteAt[r] /\ remoteAt[r] <= Len(history[r])
    BY <1>1, WorldNumbers, WorldNumbersNext DEF Grows, LocalMoves, HistoryShape, RootInv, WithinHistory
  <2>2. Local'[r] = to /\ to > 0
    BY <1>1, <2>1, WorldNumbersNext
  <2>3. /\ removedAt[r] \in Nat /\ removedAt'[r] = removedAt[r] /\ removedAt[r] <= Len(history[r])
        /\ NotSuppressed = -1 /\ flight[r].version \in Nat
        /\ flight[r].version <= Len(history[r])
    BY <1>1, <1>2, PageNumbers, Positions
  <2>4. removedAt[r] > 0 => ~history'[r][removedAt[r]]
    BY <1>1, <2>1, <2>3, GrowsKeeps DEF RootInv, WithinHistory, IsDelete
  <2>5. WithinHistory(r)'
    BY <1>3, <2>1, <2>3, <2>4 DEF WithinHistory, IsPut, IsDelete
  <2>10. Apart(r)' /\ HidesDeleted(r)'
    BY <1>3, <2>2, <2>3 DEF Apart, HidesDeleted, Hides
  <2>11. KnowsLocal(r)'
    BY <1>1, <1>3, <2>1, <2>2 DEF KnowsLocal, Larger
  <2>6. Apart(r)' /\ KnowsLocal(r)' /\ ConfirmsOthers(r)' /\ HidesDeleted(r)'
    BY <1>4, <2>10, <2>11 DEF ConfirmsOthers, Settled
  <2>7. ListingHolds(r)'
    BY <1>1, <1>2, OutdateIs DEF ListingHolds
  <2>8. AnswerHolds(r)'
    <3>1. /\ flight[r].status = "present" => history'[r][flight[r].version]
          /\ flight[r].status = "missing" /\ flight[r].version > 0 => ~history'[r][flight[r].version]
      BY <1>1, <2>1, <2>3, GrowsKeeps DEF RootInv, AnswerHolds, IsPut, IsDelete
    <3>. QED
      BY <1>1, <1>2, <2>1, <2>3, <3>1, OutdateIs DEF RootInv, AnswerHolds, IsPut, IsDelete
  <2>9. RemovalKnown(r)'
    BY <1>1, <1>3, <2>1, <2>2, <2>3 DEF RootInv, RemovalKnown, Hides, Larger
  <2>. QED
    BY <2>5, <2>6, <2>7, <2>8, <2>9 DEF RootInv
<1>. QED
  BY <1>5, <1>6, <1>7 DEF PageInv

\* The store has come to a delete of r.
LEMMA RemovalKeeps ==
    ASSUME PageInv, NEW r \in Roots, NEW to, LocalMoves(r, to), HandleChange(r, to), ~history'[r][to]
    PROVE  PageInv'
<1>1. PageShape /\ HistoryShape /\ HistoryShape' /\ to \in Nat /\ \A q \in Roots : RootInv(q)
  BY DEF PageInv, PageShape, LocalMoves
<1>2. \A q \in Roots : q # r =>
          /\ Grows(q) /\ localAt'[q] = localAt[q] /\ remoteAt'[q] = remoteAt[q]
          /\ remoteAt[q] <= Len(history'[q]) /\ remoteAt[q] \in Nat
  <2>. SUFFICES ASSUME NEW q \in Roots, q # r
                PROVE  /\ Grows(q) /\ localAt'[q] = localAt[q] /\ remoteAt'[q] = remoteAt[q]
                       /\ remoteAt[q] <= Len(history'[q]) /\ remoteAt[q] \in Nat
    OBVIOUS
  <2>1. Grows(q) /\ localAt'[q] = localAt[q] /\ remoteAt'[q] = remoteAt[q]
    BY <1>1 DEF LocalMoves, HistoryShape
  <2>. QED
    BY <1>1, <2>1, WorldNumbers, WorldNumbersNext DEF Grows, RootInv, WithinHistory
<1>3. /\ Grows(r) /\ Len(history[r]) \in Nat /\ Len(history'[r]) \in Nat
      /\ Len(history[r]) <= Len(history'[r])
      /\ localAt[r] \in Nat /\ localAt'[r] = to /\ localAt[r] < to /\ to <= Len(history'[r])
      /\ remoteAt[r] \in Nat /\ remoteAt'[r] = remoteAt[r] /\ remoteAt[r] <= Len(history[r])
      /\ localAt[r] <= Len(history[r])
  BY <1>1, WorldNumbers, WorldNumbersNext DEF Grows, LocalMoves, HistoryShape, RootInv, WithinHistory
<1>4. Local'[r] = 0 /\ Local[r] \in Nat
  BY <1>1, <1>3, WorldNumbers, WorldNumbersNext
<1>5. /\ removedAt[r] \in Nat /\ removedAt[r] <= Len(history[r])
      /\ NotSuppressed = -1 /\ flight[r].version \in Nat
      /\ flight[r].version <= Len(history[r])
      /\ state.observedVersions[r] \in Nat /\ state.observedVersions[r] <= Len(history[r])
      /\ state.suppressedIds[r] \in Nat \cup {-1}
      /\ Hides(r) => state.suppressedIds[r] \in 1 .. Len(history[r])
      /\ refresh.listing[r] \in Nat /\ refresh.localListing[r] \in Nat
  BY <1>1, PageNumbers, Positions
<1>6. /\ state.observedVersions[r] > 0 => history'[r][state.observedVersions[r]]
      /\ Hides(r) => history'[r][state.suppressedIds[r]]
  <2>1. state.observedVersions[r] > 0 => history'[r][state.observedVersions[r]]
    BY <1>1, <1>3, <1>5, GrowsKeeps DEF RootInv, WithinHistory, IsPut
  <2>2. Hides(r) => history'[r][state.suppressedIds[r]]
    BY <1>1, <1>3, <1>5, GrowsKeeps DEF RootInv, Apart
  <2>. QED
    BY <2>1, <2>2
<1>7. removedAt[r] > 0 => ~history'[r][removedAt[r]]
  BY <1>1, <1>3, <1>5, GrowsKeeps DEF RootInv, WithinHistory, IsDelete
<1>8. /\ flight[r].status = "present" => flight[r].version > 0 /\ history'[r][flight[r].version]
      /\ flight[r].status = "missing" /\ flight[r].version > 0 => ~history'[r][flight[r].version]
  BY <1>1, <1>3, <1>5, GrowsKeeps DEF RootInv, AnswerHolds, IsPut, IsDelete
<1>9. CASE Local[r] = 0
  <2>1. UNCHANGED <<shown, state, refresh, flight, removedAt, inquiry>>
    BY <1>9, <1>1, WorldNumbers DEF HandleChange, Local, Held
  <2>2. PageShape'
    BY <1>1, <2>1 DEF PageShape, LocalMoves
  <2>3. ASSUME NEW q \in Roots, q # r PROVE RootInv(q)'
    BY <1>1, <1>2, <2>1, <2>2, <2>3, UnlearnedKeeps DEF Unlearned, Settled
  <2>4. WithinHistory(r)' /\ Apart(r)'
    BY <1>1, <1>3, <1>5, <1>6, <1>7, <2>1
       DEF RootInv, WithinHistory, Apart, IsPut, IsDelete, Hides
  <2>5. KnowsLocal(r)' /\ ConfirmsOthers(r)'
    BY <1>1, <1>3, <1>4, <1>5, <1>9, <2>1
       DEF RootInv, KnowsLocal, ConfirmsOthers, Hides, Settled, Larger
  <2>6. ListingHolds(r)'
    <3>1. refresh.current /\ refresh.stage # "idle" =>
              (refresh.listing[r] > 0 => history'[r][refresh.listing[r]])
      BY <1>1, <1>3, <1>5, Positions, GrowsKeeps DEF RootInv, ListingHolds, IsPut
    <3>2. refresh.current /\ refresh.stage = "listing" =>
              (refresh.localListing[r] > 0 => history'[r][refresh.localListing[r]])
      BY <1>1, <1>3, <1>5, Positions, GrowsKeeps DEF RootInv, ListingHolds, IsPut
    <3>3. Larger(Local'[r], remoteAt'[r]) = Larger(Local[r], remoteAt[r])
      BY <1>3, <1>4, <1>9
    <3>. QED
      BY <1>1, <1>3, <1>4, <1>9, <2>1, <3>1, <3>2, <3>3 DEF RootInv, ListingHolds, IsPut, Settled
  <2>7. AnswerHolds(r)'
    BY <1>1, <1>3, <1>8, <2>1 DEF RootInv, AnswerHolds, IsPut, IsDelete, Hides
  <2>8. RemovalKnown(r)'
    <3>1. PutSince(r, removedAt[r]) => PutSince(r, removedAt[r])'
      BY <1>3, <1>5, <2>1, GrowsKeeps DEF PutSince
    <3>2. removedAt[r] <= Larger(localAt'[r], remoteAt'[r])
      BY <1>1, <1>3, <1>5 DEF RootInv, RemovalKnown, Larger
    <3>. QED
      BY <1>1, <1>3, <1>9, <2>1, <3>1, <3>2 DEF RootInv, RemovalKnown, Hides
  <2>9. HidesDeleted(r)'
    <3>. SUFFICES ASSUME Hides(r)
                  PROVE  \/ \E i \in state.suppressedIds[r] + 1 .. Len(history'[r]) : ~history'[r][i]
                         \/ to \in 1 .. state.suppressedIds[r] - 1
      BY <1>3, <2>1 DEF HidesDeleted, Hides, DeletedSince
    <3>1. CASE DeletedSince(r, state.suppressedIds[r])
      BY <1>3, <1>5, <3>1, GrowsKeeps
    <3>2. CASE ~DeletedSince(r, state.suppressedIds[r])
      <4>1. to # state.suppressedIds[r] /\ state.suppressedIds[r] \in Nat
        BY <1>5, <1>6
      <4>2. CASE to > state.suppressedIds[r]
        <5>1. to \in state.suppressedIds[r] + 1 .. Len(history'[r])
          BY <1>1, <1>3, <4>1, <4>2
        <5>. QED
          BY <5>1
      <4>3. CASE to < state.suppressedIds[r]
        BY <1>1, <1>3, <4>1, <4>3
      <4>. QED
        BY <1>1, <4>1, <4>2, <4>3
    <3>. QED
      BY <3>1, <3>2
  <2>10. RootInv(r)'
    BY <2>4, <2>5, <2>6, <2>7, <2>8, <2>9 DEF RootInv
  <2>. QED
    BY <2>2, <2>3, <2>10 DEF PageInv
<1>10. CASE Local[r] > 0
  <2>1. /\ Outdate /\ Revise({r}, {})
        /\ \E version \in {Local[r], Unversioned} : state' = RecordRemoval(state, r, version)
        /\ shown' = shown \ {r} /\ removedAt' = [removedAt EXCEPT ![r] = to]
    BY <1>10, <1>1, WorldNumbers DEF HandleChange, Local, Held
  <2>2. PICK version \in {Local[r], Unversioned} : state' = RecordRemoval(state, r, version)
    BY <2>1
  <2>3. state \in ReconciliationStates /\ version \in Nat
    BY <1>1, <1>4 DEF PageShape, Unversioned
  <2>4. /\ state' \in ReconciliationStates
        /\ r \notin state'.localRootIds /\ r \notin state'.remoteOnlyIds
        /\ state'.suppressedIds[r] = state'.observedVersions[r]
        /\ state'.observedVersions[r] = IF version # Unversioned THEN version
                                        ELSE state.observedVersions[r]
        /\ \A q \in Roots : q # r =>
               /\ q \in state'.localRootIds <=> q \in state.localRootIds
               /\ q \in state'.remoteOnlyIds <=> q \in state.remoteOnlyIds
               /\ state'.suppressedIds[q] = state.suppressedIds[q]
               /\ state'.observedVersions[q] = state.observedVersions[q]
    BY <2>2, <2>3, RecordRemovalIs
  <2>5. /\ inquiry' \in [Roots -> InquiryStages]
        /\ \A q \in Roots : q # r => inquiry'[q] = inquiry[q]
    BY <1>1, <2>1, ReviseIs DEF PageShape
  <2>6. /\ removedAt' \in [Roots -> Nat] /\ removedAt'[r] = to
        /\ \A q \in Roots : q # r => removedAt'[q] = removedAt[q]
    BY <1>1, <2>1 DEF PageShape
  <2>7. PageShape'
    BY <1>1, <2>1, <2>4, <2>5, <2>6, OutdateIs DEF PageShape, LocalMoves
  <2>8. ASSUME NEW q \in Roots, q # r PROVE RootInv(q)'
    <3>1. Unlearned(q)
      BY <1>1, <1>2, <2>1, <2>4, <2>5, <2>6, <2>8, OutdateIs DEF Unlearned, Settled
    <3>. QED
      BY <1>1, <2>7, <3>1, UnlearnedKeeps
  <2>9. RootInv(r)'
    <3>. DEFINE known == state'.observedVersions[r]
    <3>1. to = localAt[r] + 1 /\ Local[r] = localAt[r] /\ history[r][localAt[r]]
      BY <1>1, <1>10, WorldNumbers DEF LocalMoves
    <3>2. state.observedVersions[r] >= localAt[r]
      BY <1>1, <1>10, <3>1 DEF RootInv, KnowsLocal
    <3>3. /\ known = localAt[r] \/ known = state.observedVersions[r]
          /\ known \in Nat /\ known >= localAt[r] /\ localAt[r] > 0
      BY <1>3, <1>5, <1>10, <2>4, <3>1, <3>2
    <3>4. history'[r][localAt[r]]
      BY <1>3, <3>1, <3>3, GrowsKeeps
    <3>5. known <= Len(history[r]) /\ history'[r][known] /\ known # to
      BY <1>3, <1>5, <1>6, <3>3, <3>4
    <3>6. known = state'.suppressedIds[r] /\ known = state'.observedVersions[r]
      BY <2>4
    <3>. HIDE DEF known
    <3>7. WithinHistory(r)' /\ Apart(r)'
      BY <1>3, <1>5, <2>1, <2>4, <2>6, <3>3, <3>5, <3>6
         DEF WithinHistory, Apart, IsPut, IsDelete, Hides
    <3>8. KnowsLocal(r)' /\ ConfirmsOthers(r)'
      BY <1>4, <1>5, <2>4, <3>3, <3>6 DEF KnowsLocal, ConfirmsOthers, Hides
    <3>9. ListingHolds(r)'
      BY <1>1, <2>1, OutdateIs DEF ListingHolds
    <3>10. AnswerHolds(r)'
      BY <1>1, <1>3, <1>8, <2>1, OutdateIs DEF RootInv, AnswerHolds, IsPut, IsDelete
    <3>11. RemovalKnown(r)'
      BY <1>3, <1>5, <2>6, <3>1, <3>3, <3>6 DEF RemovalKnown, Hides, Larger
    <3>12. HidesDeleted(r)'
      <4>1. CASE known = localAt[r]
        <5>1. to \in known + 1 .. Len(history'[r])
          BY <1>3, <3>1, <4>1
        <5>. QED
          BY <5>1, <3>6 DEF HidesDeleted, DeletedSince
      <4>2. CASE known > localAt[r]
        <5>1. to \in 1 .. known - 1
          BY <1>3, <3>1, <3>3, <3>5, <4>2
        <5>. QED
          BY <1>3, <5>1, <3>6 DEF HidesDeleted
      <4>. QED
        BY <1>3, <3>3, <4>1, <4>2
    <3>. QED
      BY <3>7, <3>8, <3>9, <3>10, <3>11, <3>12 DEF RootInv
  <2>. QED
    BY <2>7, <2>8, <2>9 DEF PageInv
<1>. QED
  BY <1>4, <1>9, <1>10

\* The steps of the world.
LEMMA WorldSteps ==
    ASSUME PageInv, NEW r \in Roots,
           \/ \E put \in BOOLEAN : ChangeElsewhere(r, put) \/ ChangeHere(r, put)
           \/ RemoteCatchesUp(r) \/ LocalCatchesUp(r)
    PROVE  PageInv'
<1>1. PageShape /\ HistoryShape /\ \A q \in Roots : RootInv(q)
  BY DEF PageInv, PageShape
<1>2. \A q \in Roots : /\ localAt[q] \in Nat /\ remoteAt[q] \in Nat /\ Len(history[q]) \in Nat
                       /\ localAt[q] <= Len(history[q]) /\ remoteAt[q] <= Len(history[q])
                       /\ Local[q] \in {0, localAt[q]}
  BY <1>1, WorldNumbers DEF RootInv, WithinHistory
<1>3. ASSUME UNCHANGED <<shown, state, refresh, flight, removedAt, inquiry, localAt, role, queued>>,
             HistoryShape',
             \A q \in Roots : /\ Grows(q) /\ remoteAt[q] <= remoteAt'[q]
                              /\ remoteAt'[q] <= Len(history'[q])
      PROVE  PageInv'
  <2>1. PageShape'
    BY <1>1, <1>3 DEF PageShape
  <2>2. ASSUME NEW q \in Roots PROVE RootInv(q)'
    BY <1>1, <1>3, <2>1, UnlearnedKeeps DEF Unlearned, Settled
  <2>. QED
    BY <2>1, <2>2 DEF PageInv
<1>4. ASSUME NEW to, LocalMoves(r, to), HandleChange(r, to) PROVE PageInv'
  BY <1>4, AdditionKeeps, RemovalKeeps
<1>5. ASSUME UNCHANGED history PROVE \A q \in Roots : Grows(q)
  BY <1>2, <1>5 DEF Grows
<1>6. ASSUME NEW put \in BOOLEAN, ChangeElsewhere(r, put) PROVE PageInv'
  <2>1. /\ Change(r, put) /\ remoteAt' = [remoteAt EXCEPT ![r] = Len(history'[r])]
        /\ UNCHANGED <<shown, state, refresh, flight, removedAt, inquiry, localAt, role, queued>>
    BY <1>6 DEF ChangeElsewhere
  <2>2. /\ history' \in [Roots -> Seq(BOOLEAN)] /\ Len(history'[r]) = Len(history[r]) + 1
        /\ \A q \in Roots : Grows(q) /\ (q # r => history'[q] = history[q])
    BY <1>1, <2>1, ChangeGrows
  <2>5. PICK n \in Nat : n = Len(history'[r])
    BY <1>2, <2>2
  <2>3. HistoryShape'
    BY <1>1, <2>1, <2>2, <2>5 DEF HistoryShape
  <2>4. \A q \in Roots : remoteAt[q] <= remoteAt'[q] /\ remoteAt'[q] <= Len(history'[q])
    BY <1>1, <1>2, <2>1, <2>2 DEF HistoryShape
  <2>. QED
    BY <1>3, <2>1, <2>2, <2>3, <2>4
<1>7. ASSUME NEW put \in BOOLEAN, ChangeHere(r, put) PROVE PageInv'
  <2>1. /\ Change(r, put) /\ localAt[r] = Len(history[r])
        /\ localAt' = [localAt EXCEPT ![r] = Len(history'[r])]
        /\ HandleChange(r, Len(history'[r]))
        /\ UNCHANGED <<remoteAt, role, queued>>
    BY <1>7 DEF ChangeHere
  <2>2. /\ history' \in [Roots -> Seq(BOOLEAN)] /\ Len(history'[r]) = Len(history[r]) + 1
        /\ \A q \in Roots : Grows(q)
    BY <1>1, <2>1, ChangeGrows
  <2>5. PICK n \in Nat : n = Len(history'[r])
    BY <1>2, <2>2
  <2>3. HistoryShape'
    BY <1>1, <2>1, <2>2, <2>5 DEF HistoryShape
  <2>4. LocalMoves(r, n) /\ HandleChange(r, n)
    BY <1>2, <2>1, <2>2, <2>3, <2>5 DEF LocalMoves
  <2>. QED
    BY <1>4, <2>4
<1>8. ASSUME RemoteCatchesUp(r) PROVE PageInv'
  <2>1. /\ UNCHANGED <<shown, state, refresh, flight, removedAt, inquiry, localAt, role, queued>>
        /\ UNCHANGED history /\ remoteAt' = [remoteAt EXCEPT ![r] = Len(history[r])]
    BY <1>8 DEF RemoteCatchesUp
  <2>2. HistoryShape'
    BY <1>1, <1>2, <2>1 DEF HistoryShape
  <2>3. \A q \in Roots : remoteAt[q] <= remoteAt'[q] /\ remoteAt'[q] <= Len(history'[q])
    BY <1>1, <1>2, <2>1 DEF HistoryShape
  <2>. QED
    BY <1>3, <1>5, <2>1, <2>2, <2>3
<1>9. ASSUME LocalCatchesUp(r) PROVE PageInv'
  <2>1. PICK to \in localAt[r] + 1 .. Len(history[r]) :
            /\ Local[r] > 0 => to = localAt[r] + 1
            /\ localAt' = [localAt EXCEPT ![r] = to] /\ UNCHANGED history
            /\ HandleChange(r, to)
    BY <1>9 DEF LocalCatchesUp
  <2>2. UNCHANGED <<remoteAt, role, queued>>
    BY <1>9 DEF LocalCatchesUp
  <2>3. to \in Nat /\ localAt[r] < to /\ to <= Len(history[r])
    BY <1>2
  <2>4. HistoryShape'
    BY <1>1, <2>1, <2>2, <2>3 DEF HistoryShape
  <2>5. LocalMoves(r, to)
    BY <1>5, <2>1, <2>2, <2>3, <2>4 DEF LocalMoves
  <2>. QED
    BY <1>4, <2>1, <2>5
<1>. QED
  BY <1>6, <1>7, <1>8, <1>9

\* A local store that prunes a file still knows it from its peers.
LEMMA PruneKeeps == ASSUME PageInv, NEW r \in Roots, Prune(r) PROVE PageInv'
<1>1. PageShape /\ HistoryShape /\ \A q \in Roots : RootInv(q)
  BY DEF PageInv, PageShape
<1>2. /\ Local[r] > 0 /\ remoteAt[r] = localAt[r] /\ localAt' = [localAt EXCEPT ![r] = 0]
      /\ UNCHANGED <<history, remoteAt, role, queued, shown, state, refresh, flight,
                     removedAt, inquiry>>
  BY <1>1 DEF Prune, Local
<1>3. PageShape' /\ HistoryShape'
  BY <1>1, <1>2 DEF PageShape, HistoryShape
<1>4. \A q \in Roots : /\ localAt[q] \in Nat /\ remoteAt[q] \in Nat /\ Len(history[q]) \in Nat
                       /\ localAt[q] <= Len(history[q]) /\ remoteAt[q] <= Len(history[q])
  BY <1>1, WorldNumbers DEF RootInv, WithinHistory
<1>5. ASSUME NEW q \in Roots, q # r PROVE RootInv(q)'
  <2>1. Unlearned(q)
    BY <1>1, <1>2, <1>4, <1>5 DEF Unlearned, Settled, Grows, HistoryShape
  <2>. QED
    BY <1>1, <1>3, <2>1, UnlearnedKeeps
<1>6. RootInv(r)'
  <2>1. /\ localAt'[r] = 0 /\ Local'[r] = 0 /\ Local[r] = localAt[r] /\ remoteAt[r] = localAt[r]
        /\ history[r][localAt[r]] /\ localAt[r] > 0
    BY <1>1, <1>2, <1>3, WorldNumbers, WorldNumbersNext DEF HistoryShape
  <2>2. Larger(Local[r], remoteAt[r]) = remoteAt[r] /\ Larger(Local'[r], remoteAt'[r]) = remoteAt[r]
        /\ Larger(localAt[r], remoteAt[r]) = remoteAt[r]
        /\ Larger(localAt'[r], remoteAt'[r]) = remoteAt[r]
    BY <1>2, <1>4, <2>1 DEF Larger
  <2>3. /\ state.observedVersions[r] \in Nat /\ removedAt[r] \in Nat
        /\ refresh.listing[r] \in Nat /\ refresh.localListing[r] \in Nat
    BY <1>1, PageNumbers
  <2>4. ~Hides(r)
    BY <1>1, <2>1 DEF RootInv, KnowsLocal, Apart
  <2>5. WithinHistory(r)' /\ Apart(r)'
    BY <1>1, <1>2, <1>4, <2>1 DEF RootInv, WithinHistory, Apart, IsPut, IsDelete, Hides
  <2>6. KnowsLocal(r)' /\ ConfirmsOthers(r)'
    BY <1>1, <1>2, <2>1, <2>2 DEF RootInv, KnowsLocal, ConfirmsOthers, Hides, Settled
  <2>7. ListingHolds(r)'
    BY <1>1, <1>2, <2>1, <2>2 DEF RootInv, ListingHolds, IsPut, Settled
  <2>8. AnswerHolds(r)'
    BY <1>1, <1>2 DEF RootInv, AnswerHolds, IsPut, IsDelete, Hides
  <2>9. RemovalKnown(r)'
    <3>1. removedAt[r] <= remoteAt[r]
      BY <1>1, <2>2 DEF RootInv, RemovalKnown
    <3>2. removedAt[r] > 0 => localAt[r] \in removedAt[r] + 1 .. Len(history[r])
      BY <1>1, <1>4, <2>1, <2>3, <3>1 DEF RootInv, WithinHistory, IsDelete
    <3>3. removedAt[r] > 0 => PutSince(r, removedAt[r])'
      BY <1>2, <2>1, <3>2 DEF PutSince
    <3>. QED
      BY <1>2, <2>2, <2>4, <3>1, <3>3 DEF RemovalKnown, Hides
  <2>10. HidesDeleted(r)'
    BY <1>2, <2>4 DEF HidesDeleted, Hides
  <2>. QED
    BY <2>5, <2>6, <2>7, <2>8, <2>9, <2>10 DEF RootInv
<1>. QED
  BY <1>3, <1>5, <1>6 DEF PageInv

\* Steps that leave the world and what the page believes alone.
Quiet == UNCHANGED <<history, localAt, remoteAt, shown, state, removedAt>>

\* Where the page learns nothing, its invariant stays.
LEMMA QuietKeeps ==
    ASSUME PageInv, PageShape', Quiet,
           \A q \in Roots :
               /\ refresh' = refresh \/ refresh'.stage = "idle" \/ ~refresh'.current \/ ListingHolds(q)'
               /\ \/ flight'[q].status \in {"none", "unknown"} /\ flight'[q].version <= flight[q].version
                  \/ /\ flight'[q].status = flight[q].status /\ flight'[q].version = flight[q].version
                     /\ flight'[q].current => flight[q].current
                     /\ inquiry'[q] = "asked" => inquiry[q] = "asked"
               /\ Settled(q) => Settled(q)'
    PROVE  PageInv'
<1>1. ASSUME NEW q \in Roots PROVE RootInv(q)'
  <2>1. PageShape /\ HistoryShape /\ RootInv(q)
    BY DEF PageInv, PageShape
  <2>2. remoteAt[q] <= Len(history[q]) /\ Len(history[q]) \in Nat /\ remoteAt[q] \in Nat
    BY <2>1, WorldNumbers DEF RootInv, WithinHistory
  <2>3. Unlearned(q)
    BY <2>2 DEF Unlearned, Quiet, Grows
  <2>. QED
    BY <2>1, <2>3, UnlearnedKeeps
<1>. QED
  BY <1>1 DEF PageInv

\* A source that is queued is one.
LEMMA CoalescedIs ==
    ASSUME NEW source \in Sources, queued \in Sources \cup {NotQueued}
    PROVE  Coalesced(source) \in Sources \cup {NotQueued}
BY DEF Coalesced, Sources

\* What may be the matter of the page itself.
LEMMA OwnSteps ==
    ASSUME PageInv, \/ RequestRefresh("refresh") \/ RequestRefresh("join") \/ ChangeRole
                    \/ ListingFails \/ AskPeers
                    \/ \E r \in Roots : ReadyRootArrives(r) \/ FinishInquiry(r)
    PROVE  PageInv'
<1>1. PageShape
  BY DEF PageInv
<1>2. \A q \in Roots : flight[q].version \in Nat
  BY <1>1, PageNumbers
<1>3. ASSUME NEW source \in {"refresh", "join"}, RequestRefresh(source) PROVE PageInv'
  <2>1. source \in Sources
    BY DEF Sources, Immediate
  <2>2. PageShape' /\ Quiet /\ UNCHANGED <<refresh, flight, inquiry>>
    BY <1>1, <1>3, <2>1, CoalescedIs DEF RequestRefresh, PageShape, HistoryShape, Quiet, world
  <2>. QED
    BY <2>2, QuietKeeps DEF Settled
<1>4. ASSUME ChangeRole PROVE PageInv'
  <2>1. "role-change" \in Sources
    BY DEF Sources, Immediate
  <2>2. PageShape' /\ Quiet /\ UNCHANGED <<refresh, flight, inquiry>>
    BY <1>1, <1>4, <2>1, CoalescedIs DEF ChangeRole, PageShape, HistoryShape, Quiet, world
  <2>. QED
    BY <2>2, QuietKeeps DEF Settled
<1>5. Idle \in Refreshes /\ Idle.stage = "idle"
  BY DEF Idle, Refreshes
<1>6. ASSUME ListingFails PROVE PageInv'
  <2>1. PageShape' /\ Quiet /\ UNCHANGED <<flight, inquiry>> /\ refresh' = Idle
    BY <1>1, <1>5, <1>6 DEF ListingFails, PageShape, HistoryShape, Quiet, world
  <2>. QED
    BY <1>5, <2>1, QuietKeeps DEF Settled
<1>7. ASSUME AskPeers PROVE PageInv'
  <2>1. /\ Quiet /\ UNCHANGED <<refresh, role, queued>>
        /\ inquiry' = [r \in Roots |-> IF r \in Waiting THEN "asked" ELSE inquiry[r]]
        /\ flight' = [r \in Roots |-> IF r \in Waiting
                                      THEN [NoAnswer EXCEPT !.current = (r \in context)]
                                      ELSE flight[r]]
    BY <1>7 DEF AskPeers, Ask, Quiet, world
  <2>2. \A r \in Roots : /\ [NoAnswer EXCEPT !.current = (r \in context)] \in Answers
                         /\ [NoAnswer EXCEPT !.current = (r \in context)].status = "none"
                         /\ [NoAnswer EXCEPT !.current = (r \in context)].version = 0
    <3>1. \A b \in BOOLEAN : /\ [NoAnswer EXCEPT !.current = b] \in Answers
                             /\ [NoAnswer EXCEPT !.current = b].status = "none"
                             /\ [NoAnswer EXCEPT !.current = b].version = 0
      BY DEF NoAnswer, Answers
    <3>2. ASSUME NEW r \in Roots
          PROVE  [NoAnswer EXCEPT !.current = (r \in context)]
                     \in {[NoAnswer EXCEPT !.current = b] : b \in BOOLEAN}
      <4>1. CASE r \in context
        <5>1. (r \in context) = TRUE
          BY <4>1
        <5>. QED
          BY <5>1, Zenon
      <4>2. CASE r \notin context
        <5>1. (r \in context) = FALSE
          BY <4>2
        <5>. QED
          BY <5>1, Zenon
      <4>. QED
        BY <4>1, <4>2, Zenon
    <3>. QED
      BY <3>1, <3>2, Zenon
  <2>3. PageShape'
    BY <1>1, <2>1, <2>2 DEF PageShape, HistoryShape, Quiet, InquiryStages
  <2>4. \A q \in Roots : Settled(q) => q \notin Waiting
    BY DEF Settled, Waiting
  <2>. QED
    BY <1>2, <2>1, <2>2, <2>3, <2>4, QuietKeeps DEF Settled
<1>8. ASSUME NEW r \in Roots, ReadyRootArrives(r) PROVE PageInv'
  <2>1. Quiet /\ Outdate /\ UNCHANGED <<role, queued, inquiry>>
    BY <1>8 DEF ReadyRootArrives, Quiet, world
  <2>2. PageShape'
    BY <1>1, <2>1, OutdateIs DEF PageShape, HistoryShape, Quiet
  <2>. QED
    BY <1>1, <2>1, <2>2, OutdateIs, QuietKeeps DEF Settled
<1>9. ASSUME NEW r \in Roots, FinishInquiry(r) PROVE PageInv'
  <2>1. /\ Quiet /\ Finish(r, flight[r].status = "unknown")
        /\ flight' = [flight EXCEPT ![r] = NoAnswer]
        /\ UNCHANGED <<refresh, role, queued>>
    BY <1>9 DEF FinishInquiry, Quiet, world
  <2>2. NoAnswer \in Answers /\ NoAnswer.status = "none" /\ NoAnswer.version = 0
    BY DEF NoAnswer, Answers
  <2>3. PICK retry \in BOOLEAN : Finish(r, retry)
    BY <2>1
  <2>4. /\ inquiry' \in [Roots -> InquiryStages]
        /\ Settled(r) => inquiry'[r] = "none"
        /\ \A q \in Roots : q # r => inquiry'[q] = inquiry[q]
    BY <1>1, <2>3, FinishIs DEF PageShape
  <2>5. PageShape'
    BY <1>1, <2>1, <2>2, <2>4 DEF PageShape, HistoryShape, Quiet
  <2>6. ASSUME NEW q \in Roots
        PROVE  /\ \/ flight'[q].status = "none" /\ flight'[q].version = 0
                  \/ flight'[q] = flight[q] /\ inquiry'[q] = inquiry[q]
               /\ Settled(q) => Settled(q)'
    BY <1>1, <2>1, <2>2, <2>4 DEF PageShape, Settled
  <2>. QED
    BY <1>2, <2>1, <2>5, <2>6, QuietKeeps
<1>. QED
  BY <1>3, <1>4, <1>6, <1>7, <1>8, <1>9


\* The peers answer what they have: it is no older than what the page knows of.
LEMMA AnswerKeeps ==
    ASSUME PageInv, NEW r \in Roots, NEW heard \in BOOLEAN, PeersAnswer(r, heard)
    PROVE  PageInv'
<1>1. PageShape /\ HistoryShape /\ \A q \in Roots : RootInv(q)
  BY DEF PageInv, PageShape
<1>2. /\ Quiet /\ UNCHANGED <<refresh, role, queued, inquiry>>
      /\ flight[r].status = "none"
      /\ flight' = [flight EXCEPT ![r] =
             [@ EXCEPT !.status = IF ~heard THEN "unknown"
                                  ELSE IF Remote[r] > 0 THEN "present" ELSE "missing",
                       !.version = IF heard THEN remoteAt[r] ELSE 0]]
  BY <1>1 DEF PeersAnswer, Quiet, world
<1>3. \A q \in Roots : /\ localAt[q] \in Nat /\ remoteAt[q] \in Nat /\ Len(history[q]) \in Nat
                       /\ localAt[q] <= Len(history[q]) /\ remoteAt[q] <= Len(history[q])
  BY <1>1, WorldNumbers DEF RootInv, WithinHistory
<1>4. /\ flight' \in [Roots -> Answers] /\ \A q \in Roots : q # r => flight'[q] = flight[q]
      /\ flight'[r].version = IF heard THEN remoteAt[r] ELSE 0
      /\ flight'[r].status = IF ~heard THEN "unknown"
                             ELSE IF Remote[r] > 0 THEN "present" ELSE "missing"
  BY <1>1, <1>2, <1>3 DEF PageShape, Answers
<1>5. PageShape'
  BY <1>1, <1>2, <1>4 DEF PageShape, HistoryShape, Quiet
<1>6. ASSUME NEW q \in Roots, q # r PROVE RootInv(q)'
  <2>1. Unlearned(q)
    BY <1>2, <1>3, <1>4, <1>6 DEF Unlearned, Quiet, Grows, Settled
  <2>. QED
    BY <1>1, <1>5, <2>1, UnlearnedKeeps
<1>7. RootInv(r)'
  <2>1. UNCHANGED <<history, localAt, remoteAt, shown, state, removedAt, refresh, inquiry>>
    BY <1>2 DEF Quiet
  <2>2. WithinHistory(r)' /\ Apart(r)' /\ KnowsLocal(r)' /\ ConfirmsOthers(r)'
    BY <1>1, <2>1 DEF RootInv, WithinHistory, Apart, KnowsLocal, ConfirmsOthers, IsPut, IsDelete,
                      Hides, Settled, Local, Held
  <2>3. ListingHolds(r)' /\ RemovalKnown(r)' /\ HidesDeleted(r)'
    BY <1>1, <2>1 DEF RootInv, ListingHolds, RemovalKnown, HidesDeleted, IsPut, Hides, Settled,
                      Local, Held, PutSince, DeletedSince
  <2>4. AnswerHolds(r)'
    <3>1. flight'[r].version <= remoteAt'[r]
      BY <1>3, <1>4, <2>1
    <3>2. flight'[r].status = "present" => /\ flight'[r].version = remoteAt[r] /\ remoteAt[r] > 0
                                           /\ history[r][remoteAt[r]]
      BY <1>1, <1>4, WorldNumbers
    <3>3. flight'[r].status = "missing" => /\ flight'[r].version = remoteAt[r]
                                           /\ remoteAt[r] > 0 => ~history[r][remoteAt[r]]
      BY <1>1, <1>4, WorldNumbers
    <3>4. Hides(r) => removedAt[r] <= state.suppressedIds[r] + 1 \/ removedAt[r] <= remoteAt[r]
      BY <1>1 DEF RootInv, RemovalKnown
    <3>5. r \in state.remoteOnlyIds => state.observedVersions[r] <= remoteAt[r]
      <4>. SUFFICES ASSUME r \in state.remoteOnlyIds
                    PROVE  state.observedVersions[r] <= remoteAt[r]
        OBVIOUS
      <4>1. ~Hides(r) /\ r \notin state.localRootIds
        BY <1>1 DEF RootInv, Apart
      <4>2. Local[r] = 0
        BY <1>1, <4>1, WorldNumbers DEF RootInv, KnowsLocal
      <4>. QED
        BY <1>1, <1>3, <4>1, <4>2 DEF RootInv, KnowsLocal, Larger
    <3>. QED
      BY <2>1, <3>1, <3>2, <3>3, <3>4, <3>5 DEF AnswerHolds, IsPut, IsDelete, Hides
  <2>. QED
    BY <2>2, <2>3, <2>4 DEF RootInv
<1>. QED
  BY <1>5, <1>6, <1>7 DEF PageInv

\* The page is told the answer to what it asked for, about a file that it does not have.
LEMMA TellKeeps == ASSUME PageInv, NEW r \in Roots, TellPage(r) PROVE PageInv'
<1>1. PageShape /\ HistoryShape /\ \A q \in Roots : RootInv(q)
  BY DEF PageInv, PageShape
<1>. DEFINE v == flight[r].version
<1>2. /\ UNCHANGED <<history, remoteAt, localAt, refresh, role, queued>>
      /\ inquiry[r] = "asked" /\ inquiry' = [inquiry EXCEPT ![r] = "told"]
  BY DEF TellPage, Tell, world
<1>3. /\ inquiry' \in [Roots -> InquiryStages] /\ inquiry'[r] = "told" /\ ~Settled(r)
      /\ \A q \in Roots : q # r => inquiry'[q] = inquiry[q]
  BY <1>1, <1>2 DEF PageShape, InquiryStages, Settled
<1>4. \A q \in Roots : /\ localAt[q] \in Nat /\ remoteAt[q] \in Nat /\ Len(history[q]) \in Nat
                       /\ localAt[q] <= Len(history[q]) /\ remoteAt[q] <= Len(history[q])
  BY <1>1, WorldNumbers DEF RootInv, WithinHistory
<1>5. r \notin state.localRootIds /\ Local[r] = 0 /\ Local'[r] = 0
  <2>1. r \notin state.localRootIds
    BY <1>1, <1>3 DEF RootInv, ConfirmsOthers
  <2>2. Local[r] = 0
    BY <1>1, <2>1, WorldNumbers DEF RootInv, KnowsLocal
  <2>. QED
    BY <1>2, <2>1, <2>2 DEF Local, Held
<1>6. /\ state.observedVersions[r] \in Nat /\ removedAt[r] \in Nat /\ v \in Nat
      /\ state.suppressedIds[r] \in Nat \cup {-1} /\ NotSuppressed = -1
      /\ refresh.listing[r] \in Nat /\ refresh.localListing[r] \in Nat
      /\ v <= remoteAt[r]
  BY <1>1, PageNumbers DEF RootInv, AnswerHolds
<1>7. ASSUME NEW status \in {"present", "missing", "unknown"}, Applied(r, status)
      PROVE  /\ flight' \in [Roots -> Answers] /\ flight'[r].status = status
             /\ flight'[r].version = v /\ flight'[r].current = flight[r].current
             /\ \A q \in Roots : q # r => flight'[q] = flight[q]
  BY <1>1, <1>7 DEF Applied, PageShape, Answers
<1>8. ListingHolds(r)'
  <2>1. refresh.stage = "listing" /\ refresh.current => refresh.localListing[r] = 0
    BY <1>1, <1>3, <1>6 DEF RootInv, ListingHolds
  <2>. QED
    BY <1>1, <1>2, <1>5, <1>6, <2>1 DEF RootInv, ListingHolds, IsPut
<1>9. ASSUME state' = state, shown' = shown, removedAt' = removedAt,
             NEW status \in {"missing", "unknown"}, Applied(r, status),
             status = "missing" => flight[r].status = "missing"
      PROVE  PageInv'
  <2>1. PageShape' /\ Quiet
    BY <1>1, <1>2, <1>3, <1>7, <1>9 DEF PageShape, HistoryShape, Quiet
  <2>2. ASSUME NEW q \in Roots
        PROVE  /\ \/ flight'[q].status = "unknown" /\ flight'[q].version <= flight[q].version
                  \/ /\ flight'[q].status = flight[q].status /\ flight'[q].version = flight[q].version
                     /\ flight'[q].current => flight[q].current
                     /\ inquiry'[q] = "asked" => inquiry[q] = "asked"
               /\ Settled(q) => Settled(q)'
    <3>1. CASE q = r
      BY <1>3, <1>6, <1>7, <1>9, <3>1
    <3>2. CASE q # r
      BY <1>3, <1>7, <1>9, <3>2 DEF Settled
    <3>. QED
      BY <3>1, <3>2
  <2>. QED
    BY <1>2, <2>1, <2>2, QuietKeeps
<1>10. ASSUME PageShape', RootInv(r)', NEW status \in {"present", "missing"}, Applied(r, status),
              \A q \in Roots : q # r =>
                  /\ q \in state'.localRootIds <=> q \in state.localRootIds
                  /\ q \in state'.remoteOnlyIds <=> q \in state.remoteOnlyIds
                  /\ q \in shown' <=> q \in shown
                  /\ state'.suppressedIds[q] = state.suppressedIds[q]
                  /\ state'.observedVersions[q] = state.observedVersions[q]
                  /\ removedAt'[q] = removedAt[q]
       PROVE  PageInv'
  <2>1. ASSUME NEW q \in Roots, q # r PROVE RootInv(q)'
    <3>1. Unlearned(q)
      BY <1>2, <1>3, <1>4, <1>7, <1>10, <2>1 DEF Unlearned, Grows, Settled
    <3>. QED
      BY <1>1, <1>10, <3>1, UnlearnedKeeps
  <2>. QED
    BY <1>10, <2>1 DEF PageInv
<1>11. ASSUME TellPresent(r), flight[r].current,
              state.suppressedIds[r] = NotSuppressed \/ Supersedes(v, state.suppressedIds[r])
       PROVE  PageInv'
  <2>1. /\ flight[r].status = "present" /\ Applied(r, "present") /\ removedAt' = removedAt
        /\ state' = [state EXCEPT
                        !.suppressedIds[r] = NotSuppressed,
                        !.observedVersions[r] = v,
                        !.remoteOnlyIds = IF r \in state.localRootIds THEN @ \ {r} ELSE @ \cup {r}]
        /\ shown' = shown \cup {r}
    BY <1>11 DEF TellPresent
  <2>2. v > 0 /\ history[r][v]
    BY <1>1, <2>1 DEF RootInv, AnswerHolds, IsPut
  <2>3. state.suppressedIds \in [Roots -> Nat \cup {NotSuppressed}]
        /\ state.observedVersions \in [Roots -> Nat] /\ state \in ReconciliationStates
    BY <1>1 DEF PageShape, ReconciliationStates
  <2>4. /\ state' \in ReconciliationStates
        /\ state'.localRootIds = state.localRootIds
        /\ state'.remoteOnlyIds = state.remoteOnlyIds \cup {r}
        /\ state'.suppressedIds = [state.suppressedIds EXCEPT ![r] = NotSuppressed]
        /\ state'.observedVersions = [state.observedVersions EXCEPT ![r] = v]
    BY <1>5, <1>6, <2>1, <2>3 DEF ReconciliationStates
  <2>5. PageShape'
    BY <1>1, <1>2, <1>3, <1>7, <2>1, <2>4 DEF PageShape, HistoryShape
  <2>6. state'.suppressedIds[r] = NotSuppressed /\ state'.observedVersions[r] = v
    BY <2>3, <2>4
  <2>7. WithinHistory(r)'
    BY <1>1, <1>2, <1>4, <1>6, <2>1, <2>2, <2>6 DEF RootInv, WithinHistory, IsPut, IsDelete
  <2>8. Apart(r)' /\ KnowsLocal(r)' /\ ConfirmsOthers(r)' /\ HidesDeleted(r)'
    <3>1. Apart(r)' /\ HidesDeleted(r)'
      BY <1>5, <2>2, <2>4, <2>6 DEF Apart, HidesDeleted, Hides
    <3>2. KnowsLocal(r)'
      BY <1>2, <1>4, <1>5, <1>6, <2>2, <2>6 DEF KnowsLocal, Larger
    <3>. QED
      BY <1>5, <2>4, <3>1, <3>2 DEF ConfirmsOthers
  <2>9. AnswerHolds(r)'
    BY <1>1, <1>2, <1>3, <1>6, <1>7, <2>1, <2>2, <2>6 DEF AnswerHolds, IsPut, IsDelete, Hides
  <2>10. RemovalKnown(r)'
    <3>1. removedAt'[r] <= Larger(localAt'[r], remoteAt'[r])
      BY <1>1, <1>2, <2>1 DEF RootInv, RemovalKnown, Larger
    <3>2. removedAt[r] > 0 => PutSince(r, removedAt[r]) \/ Local[r] > 0
      <4>1. CASE ~Hides(r)
        BY <1>1, <4>1 DEF RootInv, RemovalKnown
      <4>2. CASE Hides(r)
        <5>2. removedAt[r] <= state.suppressedIds[r] + 1 \/ removedAt[r] <= v
          BY <1>1, <1>11, <2>1, <4>2 DEF RootInv, AnswerHolds
        <5>3. v > state.suppressedIds[r]
          BY <1>11, <4>2 DEF Supersedes, Hides
        <5>4. removedAt[r] <= v
          BY <1>6, <5>2, <5>3
        <5>5. removedAt[r] > 0 => ~history[r][removedAt[r]]
          BY <1>1 DEF RootInv, WithinHistory, IsDelete
        <5>6. removedAt[r] > 0 => v \in removedAt[r] + 1 .. Len(history[r])
          BY <1>4, <1>6, <2>2, <5>4, <5>5
        <5>. QED
          BY <2>2, <5>6 DEF PutSince
      <4>. QED
        BY <4>1, <4>2
    <3>. QED
      BY <1>2, <1>5, <2>1, <2>6, <3>1, <3>2 DEF RemovalKnown, Hides, PutSince
  <2>11. RootInv(r)'
    BY <1>8, <2>7, <2>8, <2>9, <2>10 DEF RootInv
  <2>12. \A q \in Roots : q # r =>
             /\ q \in state'.localRootIds <=> q \in state.localRootIds
             /\ q \in state'.remoteOnlyIds <=> q \in state.remoteOnlyIds
             /\ q \in shown' <=> q \in shown
             /\ state'.suppressedIds[q] = state.suppressedIds[q]
             /\ state'.observedVersions[q] = state.observedVersions[q]
             /\ removedAt'[q] = removedAt[q]
    BY <2>1, <2>3, <2>4
  <2>. QED
    BY <1>10, <2>1, <2>5, <2>11, <2>12
<1>12. ASSUME TellMissing(r), r \in state.remoteOnlyIds, flight[r].current PROVE PageInv'
  <2>1. /\ flight[r].status = "missing" /\ Applied(r, "missing")
        /\ state' = [state EXCEPT !.remoteOnlyIds = @ \ {r},
                                  !.suppressedIds[r] = state.observedVersions[r]]
        /\ shown' = shown \ {r} /\ removedAt' = [removedAt EXCEPT ![r] = v]
    BY <1>12 DEF TellMissing
  <2>2. /\ state.observedVersions[r] > 0 /\ history[r][state.observedVersions[r]]
        /\ state.observedVersions[r] <= v
    BY <1>1, <1>2, <1>6, <1>12, <2>1 DEF RootInv, Apart, WithinHistory, AnswerHolds, IsPut
  <2>3. v > state.observedVersions[r] /\ v > 0 /\ ~history[r][v]
    <3>1. v > 0 /\ ~history[r][v]
      BY <1>1, <1>6, <2>1, <2>2 DEF RootInv, AnswerHolds, IsDelete
    <3>. QED
      BY <1>6, <2>2, <3>1
  <2>4. state.suppressedIds \in [Roots -> Nat \cup {NotSuppressed}]
        /\ state.observedVersions \in [Roots -> Nat] /\ state \in ReconciliationStates
    BY <1>1 DEF PageShape, ReconciliationStates
  <2>5. /\ state' \in ReconciliationStates
        /\ state'.localRootIds = state.localRootIds
        /\ state'.remoteOnlyIds = state.remoteOnlyIds \ {r}
        /\ state'.suppressedIds = [state.suppressedIds EXCEPT ![r] = state.observedVersions[r]]
        /\ state'.observedVersions = state.observedVersions
    BY <1>6, <2>1, <2>4 DEF ReconciliationStates
  <2>6. /\ removedAt' \in [Roots -> Nat] /\ removedAt'[r] = v
        /\ \A q \in Roots : q # r => removedAt'[q] = removedAt[q]
    BY <1>1, <1>6, <2>1 DEF PageShape
  <2>7. PageShape'
    BY <1>1, <1>2, <1>3, <1>7, <2>1, <2>5, <2>6 DEF PageShape, HistoryShape
  <2>8. state'.suppressedIds[r] = state.observedVersions[r]
    BY <2>4, <2>5
  <2>9. WithinHistory(r)'
    BY <1>1, <1>2, <1>4, <1>6, <2>3, <2>5, <2>6 DEF RootInv, WithinHistory, IsPut, IsDelete
  <2>10. state.observedVersions[r] \in 1 .. Len(history[r])
    BY <1>4, <1>6, <2>2
  <2>11. Apart(r)'
    BY <1>2, <1>5, <2>1, <2>2, <2>5, <2>8, <2>10 DEF Apart, Hides
  <2>12. KnowsLocal(r)' /\ ConfirmsOthers(r)'
    BY <1>5, <1>6, <2>5, <2>8 DEF KnowsLocal, ConfirmsOthers, Hides
  <2>13. AnswerHolds(r)'
    BY <1>2, <1>3, <1>6, <1>7, <2>1, <2>3 DEF AnswerHolds, IsPut, IsDelete
  <2>14. RemovalKnown(r)'
    BY <1>2, <1>4, <1>6, <2>6, <2>8 DEF RemovalKnown, Hides, Larger
  <2>15. HidesDeleted(r)'
    <3>1. v \in state.observedVersions[r] + 1 .. Len(history[r])
      BY <1>4, <1>6, <2>3
    <3>. QED
      BY <1>2, <2>3, <2>8, <3>1 DEF HidesDeleted, DeletedSince
  <2>16. RootInv(r)'
    BY <1>8, <2>9, <2>11, <2>12, <2>13, <2>14, <2>15 DEF RootInv
  <2>17. \A q \in Roots : q # r =>
             /\ q \in state'.localRootIds <=> q \in state.localRootIds
             /\ q \in state'.remoteOnlyIds <=> q \in state.remoteOnlyIds
             /\ q \in shown' <=> q \in shown
             /\ state'.suppressedIds[q] = state.suppressedIds[q]
             /\ state'.observedVersions[q] = state.observedVersions[q]
             /\ removedAt'[q] = removedAt[q]
    BY <2>1, <2>4, <2>5, <2>6
  <2>. QED
    BY <1>10, <2>1, <2>7, <2>16, <2>17
<1>13. CASE ~(flight[r].current /\ flight[r].status # "unknown")
  <2>1. /\ Applied(r, "unknown")
        /\ state' = state /\ shown' = shown /\ removedAt' = removedAt
    BY <1>13, Zenon DEF TellPage
  <2>. QED
    BY <1>9, <2>1
<1>14. CASE flight[r].current /\ TellPresent(r)
  <2>1. CASE state.suppressedIds[r] = NotSuppressed \/ Supersedes(v, state.suppressedIds[r])
    BY <1>11, <1>14, <2>1
  <2>2. CASE ~(state.suppressedIds[r] = NotSuppressed \/ Supersedes(v, state.suppressedIds[r]))
    <3>1. /\ Applied(r, "unknown")
          /\ state' = state /\ shown' = shown /\ removedAt' = removedAt
      BY <1>14, <2>2 DEF TellPresent
    <3>. QED
      BY <1>9, <3>1
  <2>. QED
    BY <2>1, <2>2
<1>15. CASE flight[r].current /\ TellMissing(r)
  BY <1>9, <1>12, <1>15 DEF TellMissing
<1>. QED
  BY <1>13, <1>14, <1>15 DEF TellPage

\* A refresh begins with what the stores have.
LEMMA RefreshKeeps == ASSUME PageInv, StartRefresh PROVE PageInv'
<1>1. PageShape /\ HistoryShape /\ \A q \in Roots : RootInv(q)
  BY DEF PageInv, PageShape
<1>2. PICK from \in SUBSET Roots, known \in BOOLEAN :
          refresh' = [stage |-> "listing", source |-> queued, role |-> role,
                      current |-> TRUE, localListing |-> Local,
                      localKnown |-> known \/ role = "replicator",
                      listing |-> IF role = "replicator" THEN Local
                                  ELSE Newest(Local, Heard(Remote, from))]
  BY DEF StartRefresh
<1>3. Quiet /\ UNCHANGED <<role, flight, inquiry>> /\ queued' = NotQueued
  BY DEF StartRefresh, Quiet, world
<1>4. /\ Local \in [Roots -> Nat] /\ Newest(Local, Heard(Remote, from)) \in [Roots -> Nat]
      /\ \A q \in Roots :
             /\ Heard(Remote, from)[q] \in {0, Remote[q]}
             /\ Newest(Local, Heard(Remote, from))[q] = Larger(Local[q], Heard(Remote, from)[q])
  BY <1>1, ListingsAre
<1>5. PICK localKnown \in BOOLEAN : localKnown = (known \/ role = "replicator")
  BY Zenon
<1>6. refresh' \in Refreshes
  <2>1. role \in {"replicator", "observer"} /\ queued \in Sources \cup {NotQueued}
    BY <1>1 DEF PageShape
  <2>2. (IF role = "replicator" THEN Local ELSE Newest(Local, Heard(Remote, from)))
            \in [Roots -> Nat]
    BY <1>4
  <2>. QED
    BY <1>2, <1>4, <1>5, <2>1, <2>2 DEF Refreshes
<1>7. PageShape'
  BY <1>1, <1>3, <1>6 DEF PageShape, HistoryShape, Quiet
<1>8. ASSUME NEW q \in Roots PROVE ListingHolds(q)'
  <2>1. /\ refresh'.stage = "listing" /\ refresh'.role = role
        /\ refresh'.localListing[q] = Local[q]
        /\ role = "replicator" => refresh'.listing[q] = Local[q]
        /\ role # "replicator" => refresh'.listing[q] = Larger(Local[q], Heard(Remote, from)[q])
    BY <1>2, <1>4
  <2>2. /\ Local[q] \in Nat /\ remoteAt[q] \in Nat
        /\ Local[q] \in {0, localAt[q]}
        /\ Local[q] > 0 => history[q][Local[q]]
        /\ Remote[q] \in {0, remoteAt[q]} /\ (Remote[q] > 0 => history[q][Remote[q]])
    BY <1>1, WorldNumbers
  <2>3. PICK heard \in {0, Remote[q]} : heard = Heard(Remote, from)[q]
    BY <1>4
  <2>4. /\ heard \in Nat /\ heard <= remoteAt[q] /\ (heard > 0 => history[q][heard])
        /\ Larger(Local[q], heard) \in {Local[q], heard}
        /\ Larger(Local[q], heard) <= Larger(Local[q], remoteAt[q])
        /\ Local[q] <= Larger(Local[q], remoteAt[q])
        /\ Local[q] = 0 => Larger(Local[q], heard) <= remoteAt[q]
    BY <2>2, <2>3 DEF Larger
  <2>5. /\ refresh'.listing[q] \in {Local[q], heard}
        /\ refresh'.listing[q] <= Larger(Local[q], remoteAt[q])
        /\ Local[q] = 0 => refresh'.listing[q] <= remoteAt[q]
    BY <2>1, <2>2, <2>3, <2>4
  <2>6. Local[q] > 0 => Settled(q)
    BY <1>1 DEF RootInv, KnowsLocal, ConfirmsOthers
  <2>7. Local'[q] = Local[q] /\ remoteAt'[q] = remoteAt[q] /\ history' = history
    BY <1>3 DEF Quiet, Local, Held
  <2>8. refresh'.listing[q] > 0 => history[q][refresh'.listing[q]]
    BY <2>2, <2>4, <2>5
  <2>. QED
    BY <1>3, <2>1, <2>2, <2>4, <2>5, <2>6, <2>7, <2>8 DEF ListingHolds, IsPut, Settled
<1>9. ASSUME NEW q \in Roots
      PROVE  /\ flight'[q].status = flight[q].status /\ flight'[q].version = flight[q].version
             /\ flight'[q].current => flight[q].current
             /\ inquiry'[q] = "asked" => inquiry[q] = "asked"
             /\ Settled(q) => Settled(q)'
  BY <1>3 DEF Settled
<1>. QED
  BY <1>3, <1>7, <1>8, <1>9, QuietKeeps

\* What the page may believe of a file when its inquiry is at some stage.
StateHolds(s, stage, q) ==
    /\ s.observedVersions[q] <= Len(history[q]) /\ IsPut(q, s.observedVersions[q])
    /\ q \in s.localRootIds => q \notin s.remoteOnlyIds /\ stage \in {"none", "dropped"}
    /\ q \in s.localRootIds \cup s.remoteOnlyIds =>
           s.suppressedIds[q] = NotSuppressed /\ s.observedVersions[q] > 0
    /\ Local[q] > 0 => q \in s.localRootIds /\ s.observedVersions[q] >= Local[q]
    /\ s.suppressedIds[q] = NotSuppressed =>
           s.observedVersions[q] <= Larger(Local[q], remoteAt[q])
    /\ /\ flight[q].current /\ flight[q].status = "missing"
       /\ stage = "asked" /\ q \in s.remoteOnlyIds
       => s.observedVersions[q] <= flight[q].version

\* The invariant says that of the page.
LEMMA BelievesOfState == ASSUME NEW q \in Roots, RootInv(q) PROVE StateHolds(state, inquiry[q], q)
BY DEF RootInv, StateHolds, WithinHistory, Apart, KnowsLocal, ConfirmsOthers, AnswerHolds, Hides,
       Settled

\* A listing of the own store says what is local, of files that are not asked for.
LEMMA LocalSnapshotKeeps ==
    ASSUME NEW q \in Roots, NEW stage, NEW s \in ReconciliationStates,
           NEW listing \in [Roots -> Nat], NEW n, n = ObserveLocalRootSnapshot(s, listing),
           StateHolds(s, stage, q), Local[q] \in Nat,
           Larger(Local[q], remoteAt[q]) \in Nat, Larger(Local[q], remoteAt[q]) <= Len(history[q]),
           Len(history[q]) \in Nat, IsPut(q, listing[q]),
           listing[q] <= Larger(Local[q], remoteAt[q]), Local[q] > 0 => listing[q] = Local[q],
           listing[q] > 0 => stage \in {"none", "dropped"}
    PROVE  StateHolds(n, stage, q)
<1>1. /\ n.suppressedIds = s.suppressedIds
      /\ q \in n.localRootIds <=> listing[q] > 0 /\ s.suppressedIds[q] = NotSuppressed
      /\ q \in n.remoteOnlyIds <=>
             /\ ~(listing[q] > 0 /\ s.suppressedIds[q] = NotSuppressed)
             /\ \/ q \in s.remoteOnlyIds
                \/ q \in s.localRootIds /\ s.suppressedIds[q] = NotSuppressed
      /\ n.observedVersions[q] = IF q \in n.localRootIds THEN listing[q] ELSE s.observedVersions[q]
  BY LocalSnapshotIs
<1>2. listing[q] \in Nat /\ s.observedVersions[q] \in Nat
  BY DEF ReconciliationStates
<1>3. CASE q \in n.localRootIds
  BY <1>1, <1>2, <1>3 DEF StateHolds
<1>4. CASE q \notin n.localRootIds
  <2>1. Local[q] = 0
    BY <1>1, <1>4 DEF StateHolds
  <2>2. n.observedVersions[q] = s.observedVersions[q]
    BY <1>1, <1>4
  <2>3. /\ q \in n.remoteOnlyIds => q \in s.remoteOnlyIds \cup s.localRootIds
        /\ q \in n.remoteOnlyIds /\ stage = "asked" => q \in s.remoteOnlyIds
    BY <1>1 DEF StateHolds
  <2>. QED
    BY <1>1, <1>2, <1>4, <2>1, <2>2, <2>3 DEF StateHolds
<1>. QED
  BY <1>3, <1>4

\* A listing of the peers says what else there is, and what is to be confirmed.
LEMMA RemoteSnapshotKeeps ==
    ASSUME inquiry \in [Roots -> InquiryStages], NEW q \in Roots, NEW s \in ReconciliationStates,
           NEW listing \in [Roots -> Nat], NEW n, n = ObserveRemoteRootSnapshot(s, listing),
           Revise(RemoteVisible(s, listing), ConfirmationIds(s, listing)),
           StateHolds(s, inquiry[q], q), Local[q] \in Nat,
           Larger(Local[q], remoteAt[q]) \in Nat, Larger(Local[q], remoteAt[q]) <= Len(history[q]),
           Len(history[q]) \in Nat, IsPut(q, listing[q]),
           listing[q] <= Larger(Local[q], remoteAt[q])
    PROVE  StateHolds(n, inquiry'[q], q)
<1>1. /\ n.suppressedIds = s.suppressedIds /\ n.localRootIds = s.localRootIds
      /\ q \in n.remoteOnlyIds <=>
             /\ q \notin s.localRootIds
             /\ \/ q \in s.remoteOnlyIds
                \/ listing[q] > 0 /\ s.suppressedIds[q] = NotSuppressed
      /\ n.observedVersions[q] =
             IF /\ listing[q] > 0 /\ s.suppressedIds[q] = NotSuppressed
                /\ listing[q] > s.observedVersions[q]
             THEN listing[q] ELSE s.observedVersions[q]
  BY RemoteSnapshotIs
<1>2. listing[q] \in Nat /\ s.observedVersions[q] \in Nat
  BY DEF ReconciliationStates
<1>3. PICK forgotten, wanted : /\ forgotten = RemoteVisible(s, listing)
                               /\ wanted = ConfirmationIds(s, listing)
                               /\ Revise(forgotten, wanted)
  OBVIOUS
<1>4. /\ q \in forgotten <=> listing[q] > 0 /\ s.suppressedIds[q] = NotSuppressed
      /\ q \in wanted <=> \/ q \in s.remoteOnlyIds /\ listing[q] = 0
                          \/ s.suppressedIds[q] # NotSuppressed /\ listing[q] > 0
  BY <1>2, <1>3 DEF RemoteVisible, ConfirmationIds, In, Suppressed
<1>5. /\ q \in forgotten => inquiry'[q] \in {"none", "dropped"}
      /\ q \notin forgotten /\ q \notin wanted => inquiry'[q] = inquiry[q]
      /\ inquiry'[q] = "asked" => q \notin forgotten /\ inquiry[q] = "asked"
  BY <1>3, ReviseIs
<1>6. q \in n.localRootIds => q \notin n.remoteOnlyIds /\ inquiry'[q] \in {"none", "dropped"}
  <2>. SUFFICES ASSUME q \in s.localRootIds PROVE inquiry'[q] \in {"none", "dropped"}
    BY <1>1
  <2>1. q \notin s.remoteOnlyIds /\ s.suppressedIds[q] = NotSuppressed
        /\ inquiry[q] \in {"none", "dropped"}
    BY DEF StateHolds
  <2>. QED
    BY <1>4, <1>5, <2>1
<1>7. /\ n.observedVersions[q] \in {listing[q], s.observedVersions[q]}
      /\ n.observedVersions[q] >= s.observedVersions[q]
      /\ listing[q] <= Len(history[q])
  BY <1>1, <1>2
<1>8. /\ n.observedVersions[q] <= Len(history[q]) /\ IsPut(q, n.observedVersions[q])
      /\ s.suppressedIds[q] = NotSuppressed =>
             n.observedVersions[q] <= Larger(Local[q], remoteAt[q])
  BY <1>7 DEF StateHolds
<1>9. q \in n.localRootIds \cup n.remoteOnlyIds =>
          n.suppressedIds[q] = NotSuppressed /\ n.observedVersions[q] > 0
  BY <1>1, <1>2 DEF StateHolds
<1>10. /\ flight[q].current /\ flight[q].status = "missing"
       /\ inquiry'[q] = "asked" /\ q \in n.remoteOnlyIds
       => n.observedVersions[q] <= flight[q].version
  <2>. SUFFICES ASSUME flight[q].current, flight[q].status = "missing",
                       inquiry'[q] = "asked", q \in n.remoteOnlyIds
                PROVE  n.observedVersions[q] <= flight[q].version
    OBVIOUS
  <2>1. q \notin forgotten /\ inquiry[q] = "asked"
    BY <1>5
  <2>2. q \in s.remoteOnlyIds /\ n.observedVersions[q] = s.observedVersions[q]
    BY <1>1, <1>4, <2>1
  <2>. QED
    BY <2>1, <2>2 DEF StateHolds
<1>11. Local[q] > 0 => q \in n.localRootIds /\ n.observedVersions[q] >= Local[q]
  BY <1>1, <1>2, <1>7 DEF StateHolds
<1>. QED
  BY <1>1, <1>6, <1>8, <1>9, <1>10, <1>11 DEF StateHolds

\* A page that has learned of its stores what it may believe, and has hidden nothing.
LEMMA LearnedKeeps ==
    ASSUME PageShape, PageShape', NEW q \in Roots, RootInv(q),
           UNCHANGED <<history, localAt, remoteAt, flight, removedAt>>,
           state'.suppressedIds = state.suppressedIds,
           q \in shown' => q \in shown \/ ~Hides(q),
           StateHolds(state', inquiry'[q], q), ListingHolds(q)'
    PROVE  RootInv(q)'
<1>1. /\ history' = history /\ localAt' = localAt /\ remoteAt' = remoteAt
      /\ flight' = flight /\ removedAt' = removedAt /\ Local'[q] = Local[q]
  BY DEF Local, Held
<1>2. WithinHistory(q)'
  BY <1>1 DEF RootInv, WithinHistory, StateHolds, IsPut, IsDelete
<1>3. Apart(q)'
  BY <1>1 DEF RootInv, Apart, StateHolds, Hides
<1>4. KnowsLocal(q)' /\ ConfirmsOthers(q)'
  BY <1>1 DEF KnowsLocal, ConfirmsOthers, StateHolds, Hides, Settled
<1>5. AnswerHolds(q)'
  BY <1>1 DEF RootInv, AnswerHolds, StateHolds, IsPut, IsDelete, Hides
<1>6. RemovalKnown(q)' /\ HidesDeleted(q)'
  BY <1>1 DEF RootInv, RemovalKnown, HidesDeleted, Hides, PutSince, DeletedSince
<1>. QED
  BY <1>2, <1>3, <1>4, <1>5, <1>6 DEF RootInv

\* A listing that arrives when it is out of date is dropped, and asked for again.
LEMMA StaleKeeps ==
    ASSUME PageInv, StaleListing, UNCHANGED <<world, role, flight, removedAt>>
    PROVE  PageInv'
<1>1. PageShape /\ "stale-root-revision" \in Sources /\ Idle \in Refreshes /\ Idle.stage = "idle"
  BY DEF PageInv, Sources, Idle, Refreshes
<1>2. /\ Quiet /\ UNCHANGED <<role, flight, inquiry>> /\ refresh' = Idle
      /\ queued' = Coalesced("stale-root-revision")
  BY DEF StaleListing, Quiet, NothingToConfirm, world
<1>3. PageShape'
  BY <1>1, <1>2, CoalescedIs DEF PageShape, HistoryShape, Quiet
<1>. QED
  BY <1>1, <1>2, <1>3, QuietKeeps DEF Settled

\* A step of a refresh whose listing is in time, by which the page believes s of its
\* stores.
Believes(s, added) ==
    /\ state' = s /\ s \in ReconciliationStates /\ s.suppressedIds = state.suppressedIds
    /\ shown' = shown \cup added /\ added \subseteq {q \in Roots : ~Hides(q)}
    /\ inquiry' \in [Roots -> InquiryStages]
    /\ \A q \in Roots : StateHolds(s, inquiry'[q], q)

\* What the peers have when they are listed.
LEMMA HeardHolds ==
    ASSUME HistoryShape, NEW from \in SUBSET Roots, NEW q \in Roots
    PROVE  /\ Heard(Remote, from)[q] <= remoteAt[q]
           /\ IsPut(q, Heard(Remote, from)[q])
<1>1. PICK v : v = Heard(Remote, from)[q]
  OBVIOUS
<1>2. v \in {0, Remote[q]}
  BY <1>1, ListingsAre
<1>3. /\ remoteAt[q] \in Nat /\ Remote[q] \in {0, remoteAt[q]}
      /\ Remote[q] > 0 => history[q][remoteAt[q]]
  BY WorldNumbers
<1>4. v <= remoteAt[q] /\ (v > 0 => v = remoteAt[q] /\ Remote[q] > 0)
  BY <1>2, <1>3
<1>. QED
  BY <1>1, <1>3, <1>4 DEF IsPut

\* It keeps the invariant if the peers are listed next, or nothing is.
LEMMA BelievesKeeps ==
    ASSUME PageInv, NEW s, NEW added, Believes(s, added),
           UNCHANGED <<world, role, flight, removedAt, queued>>,
           \/ refresh' = Idle
           \/ \E from \in SUBSET Roots :
                  refresh' = [refresh EXCEPT !.stage = "remote", !.listing = Heard(Remote, from)]
    PROVE  PageInv'
<1>1. PageShape /\ HistoryShape /\ \A q \in Roots : RootInv(q)
  BY DEF PageInv, PageShape
<1>2. /\ history' = history /\ localAt' = localAt /\ remoteAt' = remoteAt
      /\ UNCHANGED <<role, flight, removedAt, queued>>
  BY DEF world
<1>3. refresh' \in Refreshes /\ \A q \in Roots : ListingHolds(q)'
  <2>1. CASE refresh' = Idle
    BY <2>1 DEF Idle, Refreshes, ListingHolds
  <2>2. ASSUME NEW from \in SUBSET Roots,
               refresh' = [refresh EXCEPT !.stage = "remote", !.listing = Heard(Remote, from)]
        PROVE  refresh' \in Refreshes /\ \A q \in Roots : ListingHolds(q)'
    <3>1. Heard(Remote, from) \in [Roots -> Nat]
      BY <1>1, ListingsAre
    <3>2. refresh \in Refreshes
      BY <1>1 DEF PageShape
    <3>3. refresh' \in Refreshes /\ refresh'.stage = "remote"
          /\ refresh'.listing = Heard(Remote, from)
      BY <2>2, <3>1, <3>2 DEF Refreshes
    <3>4. ASSUME NEW q \in Roots PROVE ListingHolds(q)'
      <4>1. /\ refresh'.listing[q] <= remoteAt[q]
            /\ refresh'.listing[q] > 0 => history[q][refresh'.listing[q]]
        BY <1>1, <3>3, HeardHolds DEF IsPut
      <4>. QED
        BY <1>2, <3>3, <4>1 DEF ListingHolds, IsPut
    <3>. QED
      BY <3>3, <3>4
  <2>. QED
    BY <2>1, <2>2
<1>4. PageShape'
  BY <1>1, <1>2, <1>3 DEF PageShape, HistoryShape, Believes
<1>5. ASSUME NEW q \in Roots PROVE RootInv(q)'
  <2>1. q \in shown' => q \in shown \/ ~Hides(q)
    BY DEF Believes
  <2>2. state'.suppressedIds = state.suppressedIds /\ StateHolds(state', inquiry'[q], q)
    BY DEF Believes
  <2>. QED
    BY <1>1, <1>2, <1>3, <1>4, <2>1, <2>2, LearnedKeeps
<1>. QED
  BY <1>4, <1>5 DEF PageInv

\* What the page believes of itself, and what it is listing.
LEMMA ListedIs ==
    ASSUME PageInv, NEW q \in Roots
    PROVE  /\ StateHolds(state, inquiry[q], q)
           /\ Local[q] \in Nat /\ Len(history[q]) \in Nat
           /\ Larger(Local[q], remoteAt[q]) \in Nat
           /\ Larger(Local[q], remoteAt[q]) <= Len(history[q])
           /\ refresh.current /\ refresh.stage = "listing" =>
                  /\ IsPut(q, refresh.listing[q]) /\ IsPut(q, refresh.localListing[q])
                  /\ refresh.listing[q] <= Larger(Local[q], remoteAt[q])
                  /\ refresh.localListing[q] <= Larger(Local[q], remoteAt[q])
                  /\ Local[q] > 0 => refresh.localListing[q] = Local[q]
                  /\ refresh.localListing[q] > 0 => inquiry[q] \in {"none", "dropped"}
                  /\ refresh.role = "replicator" => refresh.listing[q] = refresh.localListing[q]
           /\ refresh.current /\ refresh.stage = "remote" =>
                  /\ IsPut(q, refresh.listing[q])
                  /\ refresh.listing[q] <= Larger(Local[q], remoteAt[q])
<1>1. PageShape /\ HistoryShape /\ RootInv(q)
  BY DEF PageInv, PageShape
<1>2. /\ localAt[q] \in Nat /\ remoteAt[q] \in Nat /\ Len(history[q]) \in Nat
      /\ localAt[q] <= Len(history[q]) /\ remoteAt[q] <= Len(history[q])
      /\ Local[q] \in Nat /\ Local[q] \in {0, localAt[q]}
  BY <1>1, WorldNumbers DEF RootInv, WithinHistory
<1>3. /\ Larger(Local[q], remoteAt[q]) \in Nat
      /\ Larger(Local[q], remoteAt[q]) <= Len(history[q])
      /\ remoteAt[q] <= Larger(Local[q], remoteAt[q])
  BY <1>2 DEF Larger
<1>4. refresh.listing[q] \in Nat
  BY <1>1, PageNumbers
<1>5. StateHolds(state, inquiry[q], q)
  BY <1>1, BelievesOfState
<1>6. ASSUME refresh.current, refresh.stage = "listing"
      PROVE  /\ IsPut(q, refresh.listing[q]) /\ IsPut(q, refresh.localListing[q])
             /\ refresh.listing[q] <= Larger(Local[q], remoteAt[q])
             /\ refresh.localListing[q] <= Larger(Local[q], remoteAt[q])
             /\ Local[q] > 0 => refresh.localListing[q] = Local[q]
             /\ refresh.localListing[q] > 0 => inquiry[q] \in {"none", "dropped"}
             /\ refresh.role = "replicator" => refresh.listing[q] = refresh.localListing[q]
  BY <1>1, <1>6 DEF RootInv, ListingHolds, Settled
<1>7. ASSUME refresh.current, refresh.stage = "remote"
      PROVE  /\ IsPut(q, refresh.listing[q])
             /\ refresh.listing[q] <= Larger(Local[q], remoteAt[q])
  BY <1>1, <1>2, <1>3, <1>4, <1>7 DEF RootInv, ListingHolds
<1>. QED
  BY <1>2, <1>3, <1>5, <1>6, <1>7

\* The page reconciles with a listing of its peers, from a state that it may believe.
LEMMA MergeBelieves ==
    ASSUME PageInv, NEW s \in ReconciliationStates, s.suppressedIds = state.suppressedIds,
           NEW listing \in [Roots -> Nat], NEW mayRun, MergeRemote(s, listing, mayRun),
           \A q \in Roots : /\ StateHolds(s, inquiry[q], q) /\ IsPut(q, listing[q])
                            /\ listing[q] <= Larger(Local[q], remoteAt[q])
    PROVE  Believes(ObserveRemoteRootSnapshot(s, listing), RemoteVisible(s, listing))
<1>1. /\ state' = ObserveRemoteRootSnapshot(s, listing)
      /\ shown' = shown \cup RemoteVisible(s, listing)
      /\ Revise(RemoteVisible(s, listing), ConfirmationIds(s, listing))
  BY DEF MergeRemote, Confirm
<1>2. PICK n : n = ObserveRemoteRootSnapshot(s, listing)
  OBVIOUS
<1>3. inquiry \in [Roots -> InquiryStages]
  BY DEF PageInv, PageShape
<1>4. n \in ReconciliationStates /\ n.suppressedIds = state.suppressedIds
  BY <1>2, RemoteSnapshotIs
<1>5. RemoteVisible(s, listing) \subseteq {q \in Roots : ~Hides(q)}
  BY DEF RemoteVisible, In, Suppressed, Hides
<1>6. inquiry' \in [Roots -> InquiryStages]
  <2>1. PICK forgotten, wanted : Revise(forgotten, wanted)
    BY <1>1
  <2>. QED
    BY <1>3, <2>1, ReviseIs
<1>7. ASSUME NEW q \in Roots PROVE StateHolds(n, inquiry'[q], q)
  BY <1>1, <1>2, <1>3, ListedIs, RemoteSnapshotKeeps
<1>. QED
  BY <1>1, <1>2, <1>4, <1>5, <1>6, <1>7 DEF Believes

\* The page has its own store's listing, and perhaps one of its peers with it.
LEMMA ListingKeeps == ASSUME PageInv, ListingArrives PROVE PageInv'
<1>1. PageShape
  BY DEF PageInv
<1>2. CASE StaleListing
  BY <1>2, StaleKeeps DEF ListingArrives
<1>3. CASE ~StaleListing
  <2>1. /\ refresh.stage = "listing" /\ refresh.current
        /\ UNCHANGED <<world, role, flight, removedAt, queued>>
    BY <1>3 DEF ListingArrives
  <2>2. \/ refresh' = Idle
        \/ \E from \in SUBSET Roots :
               refresh' = [refresh EXCEPT !.stage = "remote", !.listing = Heard(Remote, from)]
    BY <1>3 DEF ListingArrives
  <2>3. /\ state \in ReconciliationStates /\ inquiry \in [Roots -> InquiryStages]
        /\ refresh.listing \in [Roots -> Nat] /\ refresh.localListing \in [Roots -> Nat]
    BY <1>1 DEF PageShape, Refreshes
  <2>4. In(refresh.listing) \ Suppressed(state) \subseteq {q \in Roots : ~Hides(q)}
    BY DEF In, Suppressed, Hides
  <2>5. PICK own : own = ObserveLocalRootSnapshot(state, refresh.localListing)
    OBVIOUS
  <2>6. /\ own \in ReconciliationStates /\ own.suppressedIds = state.suppressedIds
        /\ \A q \in Roots : StateHolds(own, inquiry[q], q)
    <3>1. own \in ReconciliationStates /\ own.suppressedIds = state.suppressedIds
      BY <2>3, <2>5, LocalSnapshotIs
    <3>2. ASSUME NEW q \in Roots PROVE StateHolds(own, inquiry[q], q)
      BY <2>1, <2>3, <2>5, ListedIs, LocalSnapshotKeeps
    <3>. QED
      BY <3>1, <3>2
  <2>7. CASE refresh.role = "replicator"
    <3>1. /\ state' = ObserveLocalRootSnapshot(state, refresh.listing)
          /\ shown' = shown \cup (In(refresh.listing) \ Suppressed(state))
          /\ inquiry' = inquiry
      BY <1>3, <2>7, Zenon DEF ListingArrives, NothingToConfirm
    <3>2. \A q \in Roots : refresh.listing[q] = refresh.localListing[q]
      BY <2>1, <2>7, ListedIs
    <3>3. refresh.listing = refresh.localListing
      BY <2>3, <3>2
    <3>4. Believes(own, In(refresh.listing) \ Suppressed(state))
      BY <2>3, <2>4, <2>5, <2>6, <3>1, <3>3 DEF Believes
    <3>. QED
      BY <2>1, <2>2, <3>4, BelievesKeeps
  <2>8. CASE refresh.role # "replicator" /\ ~refresh.localKnown
    <3>1. /\ state' = state /\ inquiry' = inquiry
          /\ shown' = shown \cup (In(refresh.listing) \ Suppressed(state))
      BY <1>3, <2>8, Zenon DEF ListingArrives, NothingToConfirm
    <3>2. \A q \in Roots : StateHolds(state, inquiry[q], q)
      BY ListedIs
    <3>3. Believes(state, In(refresh.listing) \ Suppressed(state))
      BY <2>3, <2>4, <3>1, <3>2 DEF Believes
    <3>. QED
      BY <2>1, <2>2, <3>3, BelievesKeeps
  <2>9. CASE refresh.role # "replicator" /\ refresh.localKnown
    <3>1. MergeRemote(own, refresh.listing, TRUE)
      BY <1>3, <2>5, <2>9, Zenon DEF ListingArrives
    <3>2. Believes(ObserveRemoteRootSnapshot(own, refresh.listing), RemoteVisible(own, refresh.listing))
      BY <2>1, <2>3, <2>6, <3>1, ListedIs, MergeBelieves
    <3>. QED
      BY <2>1, <2>2, <3>2, BelievesKeeps
  <2>. QED
    BY <2>7, <2>8, <2>9
<1>. QED
  BY <1>2, <1>3

\* The listing of the peers follows.
LEMMA RemoteListingKeeps == ASSUME PageInv, RemoteListingArrives PROVE PageInv'
<1>1. CASE StaleListing
  BY <1>1, StaleKeeps DEF RemoteListingArrives
<1>2. CASE ~StaleListing
  <2>1. /\ refresh.stage = "remote" /\ refresh.current /\ refresh' = Idle
        /\ MergeRemote(state, refresh.listing, TRUE)
        /\ UNCHANGED <<world, role, flight, removedAt, queued>>
    BY <1>2 DEF RemoteListingArrives
  <2>2. state \in ReconciliationStates /\ refresh.listing \in [Roots -> Nat]
    BY DEF PageInv, PageShape, Refreshes
  <2>3. Believes(ObserveRemoteRootSnapshot(state, refresh.listing), RemoteVisible(state, refresh.listing))
    BY <2>1, <2>2, ListedIs, MergeBelieves
  <2>. QED
    BY <2>1, <2>3, BelievesKeeps
<1>. QED
  BY <1>1, <1>2

\* A page starts with no file, and believes nothing.
LEMMA PageStarts == PageInit => PageInv
<1>. SUFFICES ASSUME PageInit PROVE PageInv
  OBVIOUS
<1>1. /\ history = [r \in Roots |-> <<>>]
      /\ remoteAt = [r \in Roots |-> 0] /\ localAt = [r \in Roots |-> 0]
      /\ role = "replicator" /\ shown = {} /\ refresh = Idle /\ queued = "initial-open"
      /\ state = [localRootIds |-> {}, remoteOnlyIds |-> {},
                  suppressedIds |-> [r \in Roots |-> NotSuppressed],
                  observedVersions |-> [r \in Roots |-> 0]]
      /\ flight = [r \in Roots |-> NoAnswer] /\ removedAt = [r \in Roots |-> 0]
      /\ inquiry = [r \in Roots |-> "none"]
  BY DEF PageInit, InquiryInit
<1>2. HistoryShape
  BY <1>1 DEF HistoryShape
<1>3. state \in ReconciliationStates
  BY <1>1 DEF ReconciliationStates
<1>4. Idle \in Refreshes /\ NoAnswer \in Answers /\ "initial-open" \in Sources
  BY DEF Idle, Refreshes, NoAnswer, Answers, Sources, Immediate
<1>5. PageShape
  BY <1>1, <1>2, <1>3, <1>4 DEF PageShape, InquiryStages
<1>6. ASSUME NEW r \in Roots PROVE RootInv(r)
  <2>1. /\ Len(history[r]) = 0 /\ localAt[r] = 0 /\ remoteAt[r] = 0 /\ removedAt[r] = 0
        /\ state.observedVersions[r] = 0 /\ state.suppressedIds[r] = NotSuppressed
        /\ r \notin state.localRootIds /\ r \notin state.remoteOnlyIds /\ r \notin shown
        /\ flight[r].version = 0 /\ flight[r].status = "none" /\ refresh.stage = "idle"
    BY <1>1 DEF NoAnswer, Idle
  <2>2. Local[r] = 0
    BY <1>2, <2>1, WorldNumbers
  <2>3. WithinHistory(r) /\ Apart(r) /\ KnowsLocal(r) /\ ConfirmsOthers(r)
    BY <2>1, <2>2 DEF WithinHistory, Apart, KnowsLocal, ConfirmsOthers, IsPut, IsDelete, Hides, Larger
  <2>4. ListingHolds(r) /\ AnswerHolds(r) /\ RemovalKnown(r) /\ HidesDeleted(r)
    BY <2>1, <2>2 DEF ListingHolds, AnswerHolds, RemovalKnown, HidesDeleted, Hides, Larger
  <2>. QED
    BY <2>3, <2>4 DEF RootInv
<1>. QED
  BY <1>5, <1>6 DEF PageInv

\* Every step keeps the invariant.
LEMMA PageStep == ASSUME PageInv, [PageNext]_pageVars PROVE PageInv'
<1>1. CASE UNCHANGED pageVars
  <2>1. PageShape' /\ Quiet /\ UNCHANGED <<refresh, flight, inquiry>>
    BY <1>1 DEF pageVars, PageInv, PageShape, HistoryShape, Quiet
  <2>. QED
    BY <2>1, QuietKeeps DEF Settled
<1>2. ASSUME NEW r \in Roots,
             \/ \E put \in BOOLEAN : ChangeElsewhere(r, put) \/ ChangeHere(r, put)
             \/ RemoteCatchesUp(r) \/ LocalCatchesUp(r)
      PROVE  PageInv'
  BY <1>2, WorldSteps
<1>3. ASSUME NEW r \in Roots, Prune(r) \/ TellPage(r) \/ \E heard \in BOOLEAN : PeersAnswer(r, heard)
      PROVE  PageInv'
  BY <1>3, PruneKeeps, TellKeeps, AnswerKeeps
<1>4. CASE \/ RequestRefresh("refresh") \/ RequestRefresh("join") \/ ChangeRole
           \/ ListingFails \/ AskPeers
           \/ \E r \in Roots : ReadyRootArrives(r) \/ FinishInquiry(r)
  BY <1>4, OwnSteps
<1>5. CASE StartRefresh
  BY <1>5, RefreshKeeps
<1>6. CASE ListingArrives
  BY <1>6, ListingKeeps
<1>7. CASE RemoteListingArrives
  BY <1>7, RemoteListingKeeps
<1>. QED
  BY <1>1, <1>2, <1>3, <1>4, <1>5, <1>6, <1>7 DEF PageNext

\* The invariant holds in every state of a page.
LEMMA PageInvariant == PageSpec => []PageInv
<1>1. PageInv /\ [PageNext]_pageVars => PageInv'
  BY PageStep
<1>. QED
  BY PageStarts, <1>1, PTL DEF PageSpec

\* A file that the page knows to be gone is listed only if it was put again since, or
\* is in the own store, whatever listings, answers and events were under way.
THEOREM NoGhosts == PageSpec => []NoGhost
<1>1. PageInv => NoGhost
  <2>. SUFFICES ASSUME PageInv, NEW r \in shown, removedAt[r] > 0
                PROVE  PutSince(r, removedAt[r]) \/ Local[r] > 0
    BY DEF NoGhost
  <2>1. r \in Roots /\ RootInv(r)
    BY DEF PageInv, PageShape
  <2>. QED
    BY <2>1 DEF RootInv, Apart, RemovalKnown
<1>. QED
  BY <1>1, PageInvariant, PTL

\* What the page hides was deleted after the version that it remembers of it, except
\* where the own store has yet to get there.
THEOREM HiddenFilesWereDeleted == PageSpec => []HiddenWasDeleted
<1>1. PageInv => HiddenWasDeleted
  BY DEF PageInv, RootInv, HiddenWasDeleted, HidesDeleted, Hides, Suppressed
<1>. QED
  BY <1>1, PageInvariant, PTL

-----------------------------------------------------------------------------
(* What the page lists, and the types of its variables.                    *)

\* A listing of the own store is part of the one that it was made with, and what the
\* page believes to be there is listed.
Nests(r) == refresh.stage = "listing" /\ refresh.localListing[r] > 0 => refresh.listing[r] > 0
IsListed(r) == r \in state.localRootIds \cup state.remoteOnlyIds => r \in shown

ListInv == \A r \in Roots : Nests(r) /\ IsListed(r)

\* A step in which the page learns nothing about files.
LEMMA UnlistedKeeps ==
    ASSUME ListInv, UNCHANGED <<state, shown>>,
           \/ UNCHANGED refresh
           \/ refresh'.stage # "listing"
           \/ \A r \in Roots : Nests(r)'
    PROVE  ListInv'
BY DEF ListInv, Nests, IsListed

LEMMA OutdateNests == ASSUME PageShape, ListInv, Outdate, NEW r \in Roots PROVE Nests(r)'
<1>1. refresh' = [refresh EXCEPT !.current = FALSE]
  BY DEF Outdate
<1>2. /\ refresh'.stage = refresh.stage /\ refresh'.listing = refresh.listing
      /\ refresh'.localListing = refresh.localListing
  BY <1>1 DEF PageShape, Refreshes
<1>. QED
  BY <1>2 DEF ListInv, Nests

\* An event of the own store adds its file to the list or takes it out.
LEMMA ChangeLists ==
    ASSUME PageInv, ListInv, NEW r \in Roots, NEW to \in Nat, to > 0, HandleChange(r, to)
    PROVE  ListInv'
<1>1. PageShape /\ state \in ReconciliationStates
  BY DEF PageInv, PageShape
<1>2. CASE UNCHANGED <<shown, state, refresh>>
  BY <1>2, UnlistedKeeps
<1>3. ASSUME Outdate, state' = RecordAddition(state, r, to), shown' = shown \cup {r} PROVE ListInv'
  <2>1. ASSUME NEW q \in Roots PROVE IsListed(q)'
    BY <1>1, <1>3, RecordAdditionIs DEF ListInv, IsListed
  <2>. QED
    BY <1>1, <1>3, <2>1, OutdateNests DEF ListInv
<1>4. ASSUME Outdate, NEW version \in Nat, state' = RecordRemoval(state, r, version),
             shown' = shown \ {r}
      PROVE  ListInv'
  <2>1. ASSUME NEW q \in Roots PROVE IsListed(q)'
    BY <1>1, <1>4, RecordRemovalIs DEF ListInv, IsListed
  <2>. QED
    BY <1>1, <1>4, <2>1, OutdateNests DEF ListInv
<1>5. Held(r, localAt[r]) \in Nat /\ Unversioned \in Nat
  BY <1>1 DEF Held, Unversioned, PageShape, HistoryShape
<1>. QED
  BY <1>2, <1>3, <1>4, <1>5 DEF HandleChange

\* What a listing of the peers adds to the state it adds to the list.
LEMMA MergeLists ==
    ASSUME ListInv, NEW s \in ReconciliationStates, NEW listing \in [Roots -> Nat], NEW mayRun,
           MergeRemote(s, listing, mayRun),
           \A r \in s.localRootIds \cup s.remoteOnlyIds :
               r \in shown \/ r \in RemoteVisible(s, listing),
           refresh'.stage # "listing"
    PROVE  ListInv'
<1>1. /\ state' = ObserveRemoteRootSnapshot(s, listing)
      /\ shown' = shown \cup RemoteVisible(s, listing)
  BY DEF MergeRemote
<1>2. ASSUME NEW r \in Roots PROVE IsListed(r)'
  <2>1. state'.localRootIds = s.localRootIds
        /\ (r \in state'.remoteOnlyIds => r \in s.remoteOnlyIds \/ r \in RemoteVisible(s, listing))
    BY <1>1, RemoteSnapshotIs DEF RemoteVisible, In, Suppressed
  <2>. QED
    BY <1>1, <2>1 DEF IsListed
<1>. QED
  BY <1>2 DEF ListInv, Nests

LEMMA ListingLists == ASSUME PageInv, ListInv, ListingArrives PROVE ListInv'
<1>1. Idle.stage = "idle"
  BY DEF Idle
<1>2. CASE StaleListing
  BY <1>1, <1>2, UnlistedKeeps DEF StaleListing
<1>3. CASE ~StaleListing
  <2>1. /\ refresh.stage = "listing" /\ refresh \in Refreshes /\ state \in ReconciliationStates
        /\ refresh.listing \in [Roots -> Nat] /\ refresh.localListing \in [Roots -> Nat]
    BY <1>3 DEF ListingArrives, PageInv, PageShape, Refreshes
  <2>2. refresh'.stage # "listing"
    <3>1. \/ refresh' = Idle
          \/ \E from \in SUBSET Roots :
                 refresh' = [refresh EXCEPT !.stage = "remote", !.listing = Heard(Remote, from)]
      BY <1>3 DEF ListingArrives
    <3>. QED
      BY <1>1, <2>1, <3>1 DEF Refreshes
  <2>3. CASE refresh.role = "replicator"
    <3>1. /\ state' = ObserveLocalRootSnapshot(state, refresh.listing)
          /\ shown' = shown \cup (In(refresh.listing) \ Suppressed(state))
      BY <1>3, <2>3, Zenon DEF ListingArrives
    <3>2. ASSUME NEW r \in Roots PROVE IsListed(r)'
      <4>1. /\ r \in state'.localRootIds => r \in In(refresh.listing) \ Suppressed(state)
            /\ r \in state'.remoteOnlyIds => r \in state.remoteOnlyIds \cup state.localRootIds
        BY <2>1, <3>1, LocalSnapshotIs DEF In, Suppressed
      <4>. QED
        BY <3>1, <4>1 DEF ListInv, IsListed
    <3>. QED
      BY <2>2, <3>2 DEF ListInv, Nests
  <2>4. CASE refresh.role # "replicator" /\ ~refresh.localKnown
    <3>1. /\ state' = state
          /\ shown' = shown \cup (In(refresh.listing) \ Suppressed(state))
      BY <1>3, <2>4, Zenon DEF ListingArrives
    <3>. QED
      BY <2>2, <3>1 DEF ListInv, Nests, IsListed
  <2>5. CASE refresh.role # "replicator" /\ refresh.localKnown
    <3>1. PICK own : own = ObserveLocalRootSnapshot(state, refresh.localListing)
      OBVIOUS
    <3>2. MergeRemote(own, refresh.listing, TRUE)
      BY <1>3, <2>5, <3>1, Zenon DEF ListingArrives
    <3>3. own \in ReconciliationStates /\ own.suppressedIds = state.suppressedIds
      BY <2>1, <3>1, LocalSnapshotIs
    <3>4. own.localRootIds \cup own.remoteOnlyIds \subseteq Roots
      BY <3>3 DEF ReconciliationStates
    <3>5. ASSUME NEW r \in own.localRootIds \cup own.remoteOnlyIds
          PROVE  r \in shown \/ r \in RemoteVisible(own, refresh.listing)
      <4>1. r \in Roots
        BY <3>4
      <4>2. CASE r \in own.localRootIds
        <5>1. refresh.localListing[r] > 0 /\ own.suppressedIds[r] = NotSuppressed
          BY <2>1, <3>1, <3>3, <4>1, <4>2, LocalSnapshotIs
        <5>. QED
          BY <2>1, <4>1, <5>1 DEF ListInv, Nests, RemoteVisible, In, Suppressed
      <4>3. CASE r \in own.remoteOnlyIds
        <5>1. r \in state.remoteOnlyIds \cup state.localRootIds
          BY <2>1, <3>1, <4>1, <4>3, LocalSnapshotIs
        <5>. QED
          BY <4>1, <5>1 DEF ListInv, IsListed
      <4>. QED
        BY <4>2, <4>3
    <3>. QED
      BY <2>1, <2>2, <3>2, <3>3, <3>5, MergeLists
  <2>. QED
    BY <2>3, <2>4, <2>5
<1>. QED
  BY <1>2, <1>3

LEMMA RemoteListingLists == ASSUME PageInv, ListInv, RemoteListingArrives PROVE ListInv'
<1>1. Idle.stage = "idle"
  BY DEF Idle
<1>2. CASE StaleListing
  BY <1>1, <1>2, UnlistedKeeps DEF StaleListing
<1>3. CASE ~StaleListing
  <2>1. refresh' = Idle /\ MergeRemote(state, refresh.listing, TRUE)
    BY <1>3 DEF RemoteListingArrives
  <2>2. state \in ReconciliationStates /\ refresh.listing \in [Roots -> Nat]
    BY DEF PageInv, PageShape, Refreshes
  <2>3. \A r \in state.localRootIds \cup state.remoteOnlyIds : r \in shown
    BY <2>2 DEF ListInv, IsListed, ReconciliationStates
  <2>. QED
    BY <1>1, <2>1, <2>2, <2>3, MergeLists
<1>. QED
  BY <1>2, <1>3

LEMMA TellLists == ASSUME PageInv, ListInv, NEW r \in Roots, TellPage(r) PROVE ListInv'
<1>1. refresh' = refresh /\ state \in ReconciliationStates
  BY DEF TellPage, PageInv, PageShape
<1>2. CASE UNCHANGED <<state, shown>>
  BY <1>1, <1>2, UnlistedKeeps
<1>3. CASE TellPresent(r)
  <2>1. CASE shown' = shown \cup {r} /\ \E observed, suppressed :
                 state' = [state EXCEPT !.suppressedIds = suppressed,
                              !.observedVersions = observed,
                              !.remoteOnlyIds = IF r \in state.localRootIds THEN @ \ {r}
                                                ELSE @ \cup {r}]
    <3>1. /\ state'.localRootIds = state.localRootIds
          /\ state'.remoteOnlyIds \subseteq state.remoteOnlyIds \cup {r}
      BY <1>1, <2>1 DEF ReconciliationStates
    <3>. QED
      BY <1>1, <2>1, <3>1 DEF ListInv, Nests, IsListed
  <2>2. UNCHANGED <<state, shown>>
        \/ /\ shown' = shown \cup {r}
           /\ state' = [state EXCEPT
                  !.suppressedIds = [state.suppressedIds EXCEPT ![r] = NotSuppressed],
                  !.observedVersions = [state.observedVersions EXCEPT ![r] = flight[r].version],
                  !.remoteOnlyIds = IF r \in state.localRootIds THEN @ \ {r} ELSE @ \cup {r}]
    BY <1>3, Zenon DEF TellPresent
  <2>. QED
    BY <1>2, <2>1, <2>2
<1>4. CASE TellMissing(r)
  <2>1. CASE shown' = shown \ {r} /\ r \in state.remoteOnlyIds /\ \E suppressed :
                 state' = [state EXCEPT !.remoteOnlyIds = @ \ {r}, !.suppressedIds = suppressed]
    <3>1. /\ state'.localRootIds = state.localRootIds
          /\ state'.remoteOnlyIds = state.remoteOnlyIds \ {r}
      BY <1>1, <2>1 DEF ReconciliationStates
    <3>2. r \notin state.localRootIds
      BY <2>1 DEF PageInv, RootInv, Apart
    <3>. QED
      BY <1>1, <2>1, <3>1, <3>2 DEF ListInv, Nests, IsListed
  <2>2. UNCHANGED <<state, shown>>
        \/ /\ shown' = shown \ {r} /\ r \in state.remoteOnlyIds
           /\ state' = [state EXCEPT !.remoteOnlyIds = @ \ {r},
                  !.suppressedIds = [state.suppressedIds EXCEPT ![r] = state.observedVersions[r]]]
    BY <1>4, Zenon DEF TellMissing
  <2>. QED
    BY <1>2, <2>1, <2>2
<1>. QED
  BY <1>2, <1>3, <1>4 DEF TellPage

LEMMA RefreshLists == ASSUME PageInv, ListInv, StartRefresh PROVE ListInv'
<1>1. PICK from \in SUBSET Roots :
          /\ refresh'.localListing = Local
          /\ refresh'.listing = IF role = "replicator" THEN Local
                                ELSE Newest(Local, Heard(Remote, from))
  BY DEF StartRefresh
<1>2. HistoryShape /\ UNCHANGED <<state, shown>>
  BY DEF PageInv, PageShape, StartRefresh
<1>3. ASSUME NEW r \in Roots PROVE Nests(r)'
  <2>1. /\ Newest(Local, Heard(Remote, from))[r] = Larger(Local[r], Heard(Remote, from)[r])
        /\ Heard(Remote, from)[r] \in {0, Remote[r]}
        /\ Local[r] \in Nat /\ Remote[r] \in Nat
    BY <1>2, ListingsAre, WorldNumbers
  <2>2. Local[r] > 0 => Newest(Local, Heard(Remote, from))[r] > 0
    BY <2>1 DEF Larger
  <2>. QED
    BY <1>1, <2>2 DEF Nests
<1>. QED
  BY <1>2, <1>3, UnlistedKeeps

LEMMA ListStep == ASSUME PageInv, ListInv, [PageNext]_pageVars PROVE ListInv'
<1>1. PageShape /\ Idle.stage = "idle"
  BY DEF PageInv, Idle
<1>2. ASSUME NEW r \in Roots,
             \/ \E put \in BOOLEAN : ChangeElsewhere(r, put)
             \/ RemoteCatchesUp(r) \/ Prune(r) \/ FinishInquiry(r)
             \/ \E heard \in BOOLEAN : PeersAnswer(r, heard)
      PROVE  UNCHANGED <<state, shown, refresh>>
  BY <1>2 DEF ChangeElsewhere, RemoteCatchesUp, Prune, FinishInquiry, PeersAnswer
<1>3. RequestRefresh("refresh") \/ RequestRefresh("join") \/ ChangeRole \/ AskPeers
      => UNCHANGED <<state, shown, refresh>>
  BY DEF RequestRefresh, ChangeRole, AskPeers
<1>4. ASSUME NEW r \in Roots, NEW put \in BOOLEAN, ChangeHere(r, put) PROVE ListInv'
  <2>1. PICK to \in Nat : to = Len(history'[r]) /\ to > 0
    BY <1>1, <1>4, ChangeGrows DEF ChangeHere, PageShape, HistoryShape
  <2>. QED
    BY <1>4, <2>1, ChangeLists DEF ChangeHere
<1>5. ASSUME NEW r \in Roots, LocalCatchesUp(r) PROVE ListInv'
  <2>1. PICK to \in localAt[r] + 1 .. Len(history[r]) : HandleChange(r, to)
    BY <1>5 DEF LocalCatchesUp
  <2>2. to \in Nat /\ to > 0
    BY <1>1, WorldNumbers DEF PageShape
  <2>. QED
    BY <2>1, <2>2, ChangeLists
<1>6. ASSUME NEW r \in Roots, ReadyRootArrives(r) PROVE ListInv'
  BY <1>1, <1>6, OutdateNests, UnlistedKeeps DEF ReadyRootArrives
<1>7. CASE ListingFails
  BY <1>1, <1>7, UnlistedKeeps DEF ListingFails
<1>8. UNCHANGED pageVars => UNCHANGED <<state, shown, refresh>>
  BY DEF pageVars
<1>9. ASSUME UNCHANGED <<state, shown, refresh>> PROVE ListInv'
  BY <1>9, UnlistedKeeps
<1>. QED
  BY <1>2, <1>3, <1>4, <1>5, <1>6, <1>7, <1>8, <1>9, TellLists, RefreshLists, ListingLists,
     RemoteListingLists
  DEF PageNext

LEMMA ListStarts == PageInit => ListInv
<1>1. ASSUME PageInit, NEW r \in Roots PROVE Nests(r) /\ IsListed(r)
  <2>1. refresh.stage = "idle"
    BY <1>1 DEF PageInit, Idle
  <2>2. state.localRootIds = {} /\ state.remoteOnlyIds = {}
    BY <1>1 DEF PageInit
  <2>. QED
    BY <2>1, <2>2 DEF Nests, IsListed
<1>. QED
  BY <1>1 DEF ListInv

LEMMA ListIsKnown == ASSUME PageInv, ListInv PROVE KnownIsListed
<1>1. state.localRootIds \cup state.remoteOnlyIds \subseteq Roots
  BY DEF PageInv, PageShape, ReconciliationStates
<1>2. ASSUME NEW r \in In(Local) PROVE r \in Roots /\ r \in state.localRootIds
  BY DEF In, PageInv, RootInv, KnowsLocal
<1>. QED
  BY <1>1, <1>2 DEF ListInv, IsListed, KnownIsListed

\* The bounds of the model, and the variables that the invariant does not speak of.
Bounded ==
    /\ \A r \in Roots : Len(history[r]) <= MaxChanges
    /\ interruptions \in 0..MaxInterruptions /\ run \in BOOLEAN /\ context \subseteq Roots

LEMMA BoundedStarts == PageInit => Bounded
<1>. SUFFICES ASSUME PageInit PROVE Bounded
  OBVIOUS
<1>1. \A r \in Roots : Len(history[r]) = 0
  BY DEF PageInit
<1>2. interruptions = 0 /\ context = {}
  BY DEF PageInit
<1>3. run \in BOOLEAN
  BY Zenon DEF PageInit
<1>. QED
  BY <1>1, <1>2, <1>3, FileListAssumption DEF Bounded

\* Nothing is confirmed but files.
LEMMA ConfirmedAreRoots ==
    ASSUME PageInv, Bounded, NEW s \in ReconciliationStates, NEW listing \in [Roots -> Nat],
           MergeRemote(s, listing, TRUE)
    PROVE  run' \in BOOLEAN /\ context' \subseteq Roots
<1>1. ConfirmationIds(s, listing) \subseteq Roots /\ Waiting \subseteq Roots
  BY DEF ConfirmationIds, ReconciliationStates, Suppressed, Waiting
<1>2. context' = ((context \cup Waiting) \ RemoteVisible(s, listing))
                     \cup ConfirmationIds(s, listing)
  BY DEF MergeRemote, Confirm
<1>3. run' \in BOOLEAN
  <2>1. \E allowed \in {TRUE, FALSE} : run' = (run \/ allowed)
    BY Zenon DEF MergeRemote, Confirm
  <2>. QED
    BY <2>1, Zenon
<1>. QED
  BY <1>1, <1>2, <1>3 DEF Bounded

LEMMA BoundedStep == ASSUME PageInv, Bounded, [PageNext]_pageVars PROVE Bounded'
<1>1. PageShape /\ \A r \in Roots : Len(history[r]) \in Nat
  BY WorldNumbers DEF PageInv, PageShape
<1>2. ASSUME UNCHANGED <<history, interruptions, run>>, context' \subseteq Roots PROVE Bounded'
  BY <1>2 DEF Bounded
<1>3. ASSUME NEW r \in Roots, NEW put \in BOOLEAN, Change(r, put),
             UNCHANGED <<interruptions, run>>, context' \in {context, {}}
      PROVE  Bounded'
  <2>1. /\ Len(history'[r]) = Len(history[r]) + 1
        /\ \A q \in Roots : q # r => history'[q] = history[q]
    BY <1>1, <1>3, ChangeGrows DEF PageShape
  <2>2. Len(history[r]) < MaxChanges /\ MaxChanges \in Nat
    BY <1>3, FileListAssumption DEF Change, CanChange
  <2>3. \A q \in Roots : Len(history'[q]) <= MaxChanges
    BY <1>1, <2>1, <2>2 DEF Bounded
  <2>. QED
    BY <1>3, <2>3 DEF Bounded
<1>4. ASSUME NEW r \in Roots, NEW to, HandleChange(r, to) PROVE context' \in {context, {}}
  BY <1>4 DEF HandleChange
<1>5. ASSUME NEW r \in Roots,
             \/ \E put \in BOOLEAN : ChangeElsewhere(r, put) \/ ChangeHere(r, put)
             \/ RemoteCatchesUp(r) \/ LocalCatchesUp(r) \/ Prune(r)
      PROVE  Bounded'
  <2>1. CASE \E put \in BOOLEAN : ChangeElsewhere(r, put) \/ ChangeHere(r, put)
    BY <1>3, <1>4, <2>1 DEF ChangeElsewhere, ChangeHere
  <2>2. CASE RemoteCatchesUp(r) \/ Prune(r)
    BY <1>2, <2>2 DEF RemoteCatchesUp, Prune, Bounded
  <2>3. CASE LocalCatchesUp(r)
    BY <1>2, <1>4, <2>3 DEF LocalCatchesUp, Bounded
  <2>. QED
    BY <1>5, <2>1, <2>2, <2>3
<1>6. ASSUME NEW r \in Roots,
             TellPage(r) \/ FinishInquiry(r) \/ \E heard \in BOOLEAN : PeersAnswer(r, heard)
      PROVE  Bounded'
  <2>1. UNCHANGED <<history, interruptions, run>>
    BY <1>6 DEF TellPage, FinishInquiry, PeersAnswer, world
  <2>2. context' \subseteq context
    BY <1>6 DEF TellPage, FinishInquiry, PeersAnswer
  <2>. QED
    BY <1>2, <2>1, <2>2 DEF Bounded
<1>7. ASSUME UNCHANGED <<history, context>>, interruptions' \in 0..MaxInterruptions,
             run' \in BOOLEAN
      PROVE  Bounded'
  BY <1>7 DEF Bounded
<1>8. ASSUME interruptions < MaxInterruptions, interruptions' = interruptions + 1
      PROVE  interruptions' \in 0..MaxInterruptions
  BY <1>8, FileListAssumption DEF Bounded
<1>9. CASE RequestRefresh("refresh") \/ RequestRefresh("join") \/ StartRefresh \/ ListingFails
  BY <1>2, <1>9 DEF RequestRefresh, StartRefresh, ListingFails, world, Bounded
<1>10. CASE ChangeRole
  <2>1. run' \in BOOLEAN
    BY <1>10, Zenon DEF ChangeRole, Bounded
  <2>. QED
    BY <1>7, <1>8, <1>10, <2>1 DEF ChangeRole, world
<1>11. ASSUME NEW r \in Roots, ReadyRootArrives(r) PROVE Bounded'
  <2>1. UNCHANGED <<history, run>> /\ context' = {}
    BY <1>11 DEF ReadyRootArrives, world
  <2>. QED
    BY <1>8, <1>11, <2>1 DEF ReadyRootArrives, Bounded
<1>12. CASE AskPeers
  <2>1. run' \in BOOLEAN
    BY <1>12, Zenon DEF AskPeers
  <2>2. UNCHANGED <<history, context, interruptions>>
    BY <1>12 DEF AskPeers, world
  <2>. QED
    BY <1>7, <2>1, <2>2 DEF Bounded
<1>13. /\ state \in ReconciliationStates /\ refresh.listing \in [Roots -> Nat]
       /\ refresh.localListing \in [Roots -> Nat]
  BY <1>1 DEF PageShape, Refreshes
<1>14. ASSUME UNCHANGED <<history, interruptions>>,
              \/ NothingToConfirm
              \/ \E s \in ReconciliationStates : MergeRemote(s, refresh.listing, TRUE)
       PROVE  Bounded'
  <2>1. CASE NothingToConfirm
    BY <1>2, <1>14, <2>1 DEF NothingToConfirm, Bounded
  <2>2. ASSUME NEW s \in ReconciliationStates, MergeRemote(s, refresh.listing, TRUE)
        PROVE  Bounded'
    BY <1>13, <1>14, <2>2, ConfirmedAreRoots DEF Bounded
  <2>. QED
    BY <1>14, <2>1, <2>2
<1>15. CASE ListingArrives
  <2>1. PICK own : own = ObserveLocalRootSnapshot(state, refresh.localListing)
    OBVIOUS
  <2>2. own \in ReconciliationStates
    BY <1>13, <2>1, LocalSnapshotIs
  <2>3. NothingToConfirm \/ MergeRemote(own, refresh.listing, TRUE)
    BY <1>15, <2>1, Zenon DEF ListingArrives, StaleListing
  <2>. QED
    BY <1>14, <1>15, <2>2, <2>3 DEF ListingArrives, world
<1>16. CASE RemoteListingArrives
  <2>1. NothingToConfirm \/ MergeRemote(state, refresh.listing, TRUE)
    BY <1>16, Zenon DEF RemoteListingArrives, StaleListing
  <2>. QED
    BY <1>13, <1>14, <1>16, <2>1 DEF RemoteListingArrives, world
<1>17. CASE UNCHANGED pageVars
  BY <1>2, <1>17 DEF pageVars, Bounded
<1>. QED
  BY <1>5, <1>6, <1>9, <1>10, <1>11, <1>12, <1>15, <1>16, <1>17 DEF PageNext

LEMMA PageTypesAre == ASSUME PageInv, Bounded PROVE PageTypeOK
<1>1. PageShape /\ HistoryShape /\ MaxChanges \in Nat
  BY FileListAssumption DEF PageInv, PageShape
<1>2. ASSUME NEW r \in Roots
      PROVE  /\ history[r] \in UNION {[1..n -> BOOLEAN] : n \in Changes}
             /\ remoteAt[r] \in Changes /\ localAt[r] \in Changes /\ removedAt[r] \in Changes
             /\ state.suppressedIds[r] \in Changes \cup {NotSuppressed}
             /\ state.observedVersions[r] \in Changes
  <2>1. /\ Len(history[r]) \in Nat /\ Len(history[r]) <= MaxChanges
        /\ history[r] \in [1..Len(history[r]) -> BOOLEAN]
    BY <1>1 DEF HistoryShape, Bounded
  <2>2. WithinHistory(r) /\ Apart(r)
    BY DEF PageInv, RootInv
  <2>3. /\ localAt[r] \in Nat /\ remoteAt[r] \in Nat /\ removedAt[r] \in Nat
        /\ state.observedVersions[r] \in Nat /\ state.suppressedIds[r] \in Nat \cup {-1}
        /\ NotSuppressed = -1
    BY <1>1, PageNumbers, WorldNumbers
  <2>4. /\ remoteAt[r] \in Changes /\ localAt[r] \in Changes /\ removedAt[r] \in Changes
        /\ state.observedVersions[r] \in Changes
    BY <1>1, <2>1, <2>2, <2>3 DEF WithinHistory, Changes
  <2>5. state.suppressedIds[r] \in Changes \cup {NotSuppressed}
    BY <1>1, <2>1, <2>2, <2>3 DEF Apart, Hides, Changes
  <2>6. Len(history[r]) \in Changes
    BY <1>1, <2>1 DEF Changes
  <2>. QED
    BY <2>1, <2>4, <2>5, <2>6
<1>3. /\ history \in [Roots -> UNION {[1..n -> BOOLEAN] : n \in Changes}]
      /\ remoteAt \in [Roots -> Changes] /\ localAt \in [Roots -> Changes]
      /\ removedAt \in [Roots -> Changes]
  BY <1>1, <1>2 DEF PageShape, HistoryShape
<1>4. /\ state.suppressedIds \in [Roots -> Changes \cup {NotSuppressed}]
      /\ state.observedVersions \in [Roots -> Changes]
      /\ state.localRootIds \subseteq Roots /\ state.remoteOnlyIds \subseteq Roots
  BY <1>1, <1>2 DEF PageShape, ReconciliationStates
<1>5. /\ role \in {"replicator", "observer"} /\ shown \subseteq Roots
      /\ refresh.stage \in {"idle", "listing", "remote"}
      /\ queued \in Sources \cup {NotQueued} /\ inquiry \in [Roots -> InquiryStages]
      /\ \A r \in Roots : flight[r].status \in {"none", "present", "missing", "unknown"}
  BY <1>1 DEF PageShape, Refreshes, Answers
<1>. QED
  BY <1>3, <1>4, <1>5, Zenon DEF PageTypeOK, Bounded

\* Whatever listings, answers and events were under way, a page lists every file that its
\* own store has, and every file that it believes to be at its store or its peers.
THEOREM KnownFilesAreListed == PageSpec => [](PageTypeOK /\ KnownIsListed)
<1>1. PageInit => ListInv /\ Bounded
  BY ListStarts, BoundedStarts
<1>2. PageInv /\ ListInv /\ Bounded /\ [PageNext]_pageVars => ListInv' /\ Bounded'
  BY ListStep, BoundedStep
<1>3. PageInv /\ ListInv /\ Bounded => PageTypeOK /\ KnownIsListed
  BY PageTypesAre, ListIsKnown
<1>. QED
  BY <1>1, <1>2, <1>3, PageInvariant, PTL DEF PageSpec

-----------------------------------------------------------------------------
(* The confirmations of single files.                                      *)

\* The variables of the scheduler.
Entries == [id : Ids, version : Nat, stage : {"taken", "asked", "told"}, retry : BOOLEAN]
Places == [epoch : Nat \cup {-1}, version : Nat \cup {-1}]
DrainStages == {"none", "loop", "batch", "ending"}
ConfirmationShape ==
    /\ queue \in Seq(Ids) /\ IsInjective(queue)
    /\ deferred \in SUBSET Ids /\ contexts \in SUBSET Ids
    /\ inFlight \in [Ids -> Places] /\ versions \in [Ids -> Nat]
    /\ epoch \in Epochs /\ requestedRuns \in Nat /\ drainPromise \in Nat \cup {-1}
    /\ drain \in [Epochs -> DrainStages] /\ batch \in [Epochs -> Seq(Entries)]

\* A batch is run by a drain that has begun, and what was asked for by the drain of now.
Drained ==
    /\ \A e \in Epochs : drain[e] # "batch" => batch[e] = <<>>
    /\ \A e \in Epochs : e > epoch => drain[e] = "none"
    /\ drainPromise = -1 => drain[epoch] = "none" /\ requestedRuns = 0
    /\ drainPromise # -1 => drainPromise = epoch /\ drain[epoch] # "none"

\* The entries of the batch of now and the flights are the same, one for each file.
Flights ==
    /\ \A i, j \in DOMAIN batch[epoch] : batch[epoch][i].id = batch[epoch][j].id => i = j
    /\ \A i \in DOMAIN batch[epoch] :
           inFlight[batch[epoch][i].id] = [epoch |-> epoch, version |-> batch[epoch][i].version]
    /\ \A r \in Ids : inFlight[r] # NoFlight =>
           /\ inFlight[r].epoch = epoch /\ inFlight[r].version \in Nat
           /\ inFlight[r].version <= versions[r]
           /\ \E i \in DOMAIN batch[epoch] : batch[epoch][i].id = r

\* What is queued is not in flight, what is deferred waits for a flight that is of no
\* use, and what has a context is queued, deferred or in a flight that is of use.
Pending ==
    /\ \A r \in ToSet(queue) : inFlight[r] = NoFlight
    /\ \A r \in deferred : inFlight[r] # NoFlight /\ inFlight[r].version # versions[r]
    /\ \A r \in Ids : r \in contexts <=>
           \/ r \in ToSet(queue) \/ r \in deferred
           \/ inFlight[r] # NoFlight /\ inFlight[r].version = versions[r]

\* The inductive invariant.
ConfirmationInv == ConfirmationShape /\ Drained /\ Flights /\ Pending

\* Epochs are numbers.
LEMMA EpochsAre ==
    /\ Epochs \subseteq Nat /\ 0 \in Epochs /\ -1 \notin Epochs
    /\ \A e \in Epochs : \A n \in Nat : n <= e => n \in Epochs
BY ConfirmationAssumption DEF Epochs

\* The place of a flight that is none.
LEMMA NoFlightIs == NoFlight \in Places /\ \A p \in Places : p.epoch \in Nat => p # NoFlight
BY DEF NoFlight, Places

\* The inquiry that a file stands for.
LEMMA InquiryIs ==
    ASSUME ConfirmationInv, NEW r \in Ids
    PROVE  /\ r \in ToSet(queue) => InquiryOf(r) = "waiting"
           /\ r \notin ToSet(queue) /\ inFlight[r] = NoFlight => InquiryOf(r) = "none"
           /\ inFlight[r] # NoFlight =>
                  /\ r \notin ToSet(queue)
                  /\ inFlight[r].version = versions[r] =>
                         InquiryOf(r) = IF ToldNow(r) THEN "told" ELSE "asked"
                  /\ inFlight[r].version # versions[r] =>
                         InquiryOf(r) = IF r \in deferred THEN "again" ELSE "dropped"
<1>1. r \in ToSet(queue) => InquiryOf(r) = "waiting"
  BY DEF InquiryOf
<1>2. r \notin ToSet(queue) /\ inFlight[r] = NoFlight => InquiryOf(r) = "none"
  BY DEF InquiryOf
<1>3. ASSUME inFlight[r] # NoFlight
      PROVE  /\ r \notin ToSet(queue)
             /\ OutOfDate({r}) = {} <=> inFlight[r].version = versions[r]
  <2>1. r \notin ToSet(queue)
    BY <1>3 DEF ConfirmationInv, Pending
  <2>2. inFlight[r] \in Places /\ inFlight[r].epoch = epoch
    BY <1>3 DEF ConfirmationInv, ConfirmationShape, Flights
  <2>3. inFlight[r] = [epoch |-> epoch, version |-> versions[r]] <=> inFlight[r].version = versions[r]
    BY <2>2 DEF Places
  <2>4. OutOfDate({r}) = {} <=> inFlight[r] = [epoch |-> epoch, version |-> versions[r]]
    BY <1>3 DEF OutOfDate, InFlight
  <2>. QED
    BY <2>1, <2>3, <2>4
<1>4. inFlight[r] # NoFlight /\ inFlight[r].version = versions[r] =>
          InquiryOf(r) = IF ToldNow(r) THEN "told" ELSE "asked"
  BY <1>3, Zenon DEF InquiryOf
<1>5. inFlight[r] # NoFlight /\ inFlight[r].version # versions[r] =>
          InquiryOf(r) = IF r \in deferred THEN "again" ELSE "dropped"
  BY <1>3, Zenon DEF InquiryOf
<1>. QED
  BY <1>1, <1>2, <1>3, <1>4, <1>5

\* The same of the next state.
LEMMA InquiryIsNext ==
    ASSUME ConfirmationInv', NEW r \in Ids
    PROVE  /\ r \in ToSet(queue') => InquiryOf(r)' = "waiting"
           /\ r \notin ToSet(queue') /\ inFlight'[r] = NoFlight => InquiryOf(r)' = "none"
           /\ inFlight'[r] # NoFlight =>
                  /\ r \notin ToSet(queue')
                  /\ inFlight'[r].version = versions'[r] =>
                         InquiryOf(r)' = IF ToldNow(r)' THEN "told" ELSE "asked"
                  /\ inFlight'[r].version # versions'[r] =>
                         InquiryOf(r)' = IF r \in deferred' THEN "again" ELSE "dropped"
<1>1. r \in ToSet(queue') => InquiryOf(r)' = "waiting"
  BY DEF InquiryOf
<1>2. r \notin ToSet(queue') /\ inFlight'[r] = NoFlight => InquiryOf(r)' = "none"
  BY DEF InquiryOf
<1>3. ASSUME inFlight'[r] # NoFlight
      PROVE  /\ r \notin ToSet(queue')
             /\ OutOfDate({r})' = {} <=> inFlight'[r].version = versions'[r]
  <2>1. r \notin ToSet(queue')
    BY <1>3 DEF ConfirmationInv, Pending
  <2>2. inFlight'[r] \in Places /\ inFlight'[r].epoch = epoch'
    BY <1>3 DEF ConfirmationInv, ConfirmationShape, Flights
  <2>3. inFlight'[r] = [epoch |-> epoch', version |-> versions'[r]]
            <=> inFlight'[r].version = versions'[r]
    BY <2>2 DEF Places
  <2>4. OutOfDate({r})' = {} <=> inFlight'[r] = [epoch |-> epoch', version |-> versions'[r]]
    BY <1>3 DEF OutOfDate, InFlight
  <2>. QED
    BY <2>1, <2>3, <2>4
<1>4. inFlight'[r] # NoFlight /\ inFlight'[r].version = versions'[r] =>
          InquiryOf(r)' = IF ToldNow(r)' THEN "told" ELSE "asked"
  BY <1>3, Zenon DEF InquiryOf
<1>5. inFlight'[r] # NoFlight /\ inFlight'[r].version # versions'[r] =>
          InquiryOf(r)' = IF r \in deferred' THEN "again" ELSE "dropped"
  BY <1>3, Zenon DEF InquiryOf
<1>. QED
  BY <1>1, <1>2, <1>3, <1>4, <1>5

\* The scheduler starts with nothing.
LEMMA ConfirmationStarts == ConfirmationInit => ConfirmationInv
<1>. SUFFICES ASSUME ConfirmationInit PROVE ConfirmationInv
  OBVIOUS
<1>1. ConfirmationShape
  BY EpochsAre, NoFlightIs DEF ConfirmationInit, ConfirmationShape, DrainStages, IsInjective
<1>2. Drained
  BY EpochsAre DEF ConfirmationInit, Drained
<1>3. batch[epoch] = <<>> /\ ToSet(queue) = {} /\ \A r \in Ids : inFlight[r] = NoFlight
  BY EpochsAre DEF ConfirmationInit, ToSet
<1>4. Flights /\ Pending
  BY <1>3 DEF Flights, Pending, ConfirmationInit
<1>. QED
  BY <1>1, <1>2, <1>4 DEF ConfirmationInv

\* When an answer was told to the page for its file as it is now.
LEMMA ToldNowIs ==
    ASSUME NEW r
    PROVE  /\ ToldNow(r) <=> \E i \in DOMAIN batch[epoch] :
                  /\ batch[epoch][i].stage = "told" /\ batch[epoch][i].id = r
                  /\ batch[epoch][i].version = versions[r]
           /\ ToldNow(r)' <=> \E i \in DOMAIN batch'[epoch'] :
                  /\ batch'[epoch'][i].stage = "told" /\ batch'[epoch'][i].id = r
                  /\ batch'[epoch'][i].version = versions'[r]
BY DEF ToldNow, At

\* A step that leaves the queue, the flights and what they are for as they were.
LEMMA SameBooks ==
    ASSUME ConfirmationInv, ConfirmationShape', Drained',
           UNCHANGED <<queue, deferred, inFlight, contexts, versions, epoch>>,
           DOMAIN batch'[epoch] = DOMAIN batch[epoch],
           \A i \in DOMAIN batch[epoch] : /\ batch'[epoch][i].id = batch[epoch][i].id
                                          /\ batch'[epoch][i].version = batch[epoch][i].version
    PROVE  ConfirmationInv'
<1>1. Flights'
  <2>1. /\ \A i, j \in DOMAIN batch[epoch] : batch[epoch][i].id = batch[epoch][j].id => i = j
        /\ \A i \in DOMAIN batch[epoch] :
               inFlight[batch[epoch][i].id] = [epoch |-> epoch, version |-> batch[epoch][i].version]
        /\ \A r \in Ids : inFlight[r] # NoFlight =>
               /\ inFlight[r].epoch = epoch /\ inFlight[r].version \in Nat
               /\ inFlight[r].version <= versions[r]
               /\ \E i \in DOMAIN batch[epoch] : batch[epoch][i].id = r
    BY DEF ConfirmationInv, Flights
  <2>2. \A i, j \in DOMAIN batch'[epoch] : batch'[epoch][i].id = batch'[epoch][j].id => i = j
    BY <2>1
  <2>3. \A i \in DOMAIN batch'[epoch] :
            inFlight[batch'[epoch][i].id] = [epoch |-> epoch, version |-> batch'[epoch][i].version]
    BY <2>1
  <2>4. \A r \in Ids : inFlight[r] # NoFlight => \E i \in DOMAIN batch'[epoch] : batch'[epoch][i].id = r
    BY <2>1
  <2>. QED
    BY <2>1, <2>2, <2>3, <2>4 DEF Flights
<1>2. Pending'
  BY DEF ConfirmationInv, Pending
<1>. QED
  BY <1>1, <1>2 DEF ConfirmationInv

\* Such a step is none to those who wait, if nothing is told by it.
LEMMA SameInquiries ==
    ASSUME UNCHANGED <<queue, deferred, inFlight, versions, epoch>>,
           DOMAIN batch'[epoch] = DOMAIN batch[epoch],
           \A i \in DOMAIN batch[epoch] : /\ batch'[epoch][i].id = batch[epoch][i].id
                                          /\ batch'[epoch][i].version = batch[epoch][i].version
                                          /\ batch'[epoch][i].stage = "told"
                                                 <=> batch[epoch][i].stage = "told"
    PROVE  \A r \in Ids : InquiryOf(r)' = InquiryOf(r)
<1>. SUFFICES ASSUME NEW r \in Ids PROVE InquiryOf(r)' = InquiryOf(r)
  OBVIOUS
<1>1. ToldNow(r)' <=> ToldNow(r)
  BY ToldNowIs
<1>2. OutOfDate({r})' = OutOfDate({r})
  BY DEF OutOfDate, InFlight
<1>3. ToldNow(r)' = ToldNow(r)
  <2>1. CASE ToldNow(r)
    BY <1>1, <2>1 DEF ToldNow
  <2>2. CASE ~ToldNow(r)
    BY <1>1, <2>2 DEF ToldNow
  <2>. QED
    BY <2>1, <2>2
<1>. QED
  BY <1>1, <1>2, Zenon DEF InquiryOf

\* The steps that only move a drain, or let a worker take an entry.
LEMMA DrainMoves ==
    ASSUME ConfirmationInv, NEW e \in Epochs,
           TakeEntry(e) \/ BatchEnds(e) \/ LoopEnds(e) \/ DrainEnds(e)
    PROVE  ConfirmationInv' /\ \A r \in Ids : InquiryOf(r)' = InquiryOf(r)
<1>1. ConfirmationShape /\ Drained
  BY DEF ConfirmationInv
<1>2. epoch \in Epochs /\ e \in Nat /\ epoch \in Nat /\ -1 \notin Epochs
  BY <1>1, EpochsAre DEF ConfirmationShape
<1>3. CASE TakeEntry(e)
  <2>. DEFINE i == Min(At(e, {"taken"}))
  <2>1. /\ e = epoch /\ drain[e] = "batch" /\ At(e, {"taken"}) # {}
        /\ batch' = [batch EXCEPT ![e][i].stage = "asked"]
        /\ UNCHANGED <<queue, deferred, inFlight, contexts, versions, epoch, requestedRuns,
                       drainPromise, drain>>
    BY <1>3 DEF TakeEntry
  <2>2. batch[e] \in Seq(Entries) /\ DOMAIN batch[e] \subseteq Nat
    BY <1>1 DEF ConfirmationShape
  <2>3. At(e, {"taken"}) \subseteq Nat
    BY <2>2 DEF At
  <2>4. i \in At(e, {"taken"})
    BY <2>1, <2>3, MinIs
  <2>. HIDE DEF i
  <2>5. i \in DOMAIN batch[e] /\ batch[e][i].stage = "taken" /\ batch[e][i] \in Entries
    BY <2>2, <2>4 DEF At
  <2>6. PICK asked : asked = [batch[e][i] EXCEPT !.stage = "asked"]
    OBVIOUS
  <2>7. /\ asked \in Entries /\ asked.id = batch[e][i].id /\ asked.version = batch[e][i].version
        /\ asked.stage = "asked"
    BY <2>5, <2>6 DEF Entries
  <2>8. batch' = [batch EXCEPT ![e] = [batch[e] EXCEPT ![i] = asked]]
    BY <1>1, <2>1, <2>6 DEF ConfirmationShape
  <2>9. batch'[e] = [batch[e] EXCEPT ![i] = asked]
    BY <1>1, <2>8 DEF ConfirmationShape
  <2>10. batch'[e] \in Seq(Entries) /\ DOMAIN batch'[e] = DOMAIN batch[e]
    BY <2>2, <2>5, <2>7, <2>9
  <2>11. ConfirmationShape'
    BY <1>1, <2>1, <2>8, <2>9, <2>10 DEF ConfirmationShape
  <2>12. Drained'
    BY <1>1, <2>1, <2>8 DEF Drained, ConfirmationShape
  <2>13. \A j \in DOMAIN batch[epoch] : /\ batch'[epoch][j].id = batch[epoch][j].id
                                        /\ batch'[epoch][j].version = batch[epoch][j].version
                                        /\ batch'[epoch][j].stage = "told"
                                               <=> batch[epoch][j].stage = "told"
    BY <2>1, <2>5, <2>7, <2>9
  <2>. QED
    BY <2>1, <2>10, <2>11, <2>12, <2>13, SameBooks, SameInquiries
<1>4. CASE BatchEnds(e)
  <2>1. /\ drain[e] = "batch" /\ At(e, {"asked", "told"}) = {}
        /\ At(e, {"taken"}) = {} \/ e # epoch
        /\ batch' = [batch EXCEPT ![e] = <<>>] /\ drain' = [drain EXCEPT ![e] = "loop"]
        /\ UNCHANGED <<queue, deferred, inFlight, contexts, versions, epoch, requestedRuns,
                       drainPromise>>
    BY <1>4 DEF BatchEnds
  <2>2. ASSUME e = epoch PROVE batch[e] = <<>>
    <3>1. batch[e] \in Seq(Entries)
      BY <1>1 DEF ConfirmationShape
    <3>2. ASSUME NEW i \in DOMAIN batch[e] PROVE FALSE
      <4>1. batch[e][i] \in Entries
        BY <3>1, <3>2
      <4>2. batch[e][i].stage \in {"taken", "asked", "told"}
        BY <4>1 DEF Entries
      <4>. QED
        BY <2>1, <2>2, <3>2, <4>2 DEF At
    <3>3. Len(batch[e]) \in Nat /\ DOMAIN batch[e] = 1 .. Len(batch[e])
      BY <3>1
    <3>4. Len(batch[e]) = 0
      BY <3>2, <3>3
    <3>. QED
      BY <3>1, <3>4, EmptySeq
  <2>3. batch'[epoch] = batch[epoch]
    BY <1>1, <1>2, <2>1, <2>2 DEF ConfirmationShape
  <2>4. ConfirmationShape' /\ Drained'
    BY <1>1, <2>1 DEF ConfirmationShape, Drained, DrainStages
  <2>. QED
    BY <2>1, <2>3, <2>4, SameBooks, SameInquiries
<1>5. CASE LoopEnds(e)
  <2>1. /\ drain[e] = "loop" /\ drain' = [drain EXCEPT ![e] = "ending"]
        /\ UNCHANGED <<queue, deferred, inFlight, contexts, versions, epoch, requestedRuns,
                       drainPromise, batch>>
    BY <1>5 DEF LoopEnds
  <2>2. ConfirmationShape' /\ Drained'
    BY <1>1, <2>1 DEF ConfirmationShape, Drained, DrainStages
  <2>. QED
    BY <2>1, <2>2, SameBooks, SameInquiries
<1>6. CASE DrainEnds(e)
  <2>. DEFINE again == drainPromise = e /\ requestedRuns > 0
  <2>1. /\ drain[e] = "ending"
        /\ drain' = [drain EXCEPT ![e] = IF again THEN "loop" ELSE "none"]
        /\ drainPromise' = IF drainPromise = e /\ ~again THEN -1 ELSE drainPromise
        /\ UNCHANGED <<queue, deferred, inFlight, contexts, versions, epoch, requestedRuns, batch>>
    BY <1>6 DEF DrainEnds
  <2>2. ConfirmationShape'
    BY <1>1, <2>1 DEF ConfirmationShape, DrainStages
  <2>3. e <= epoch
    BY <1>1, <1>2, <2>1 DEF Drained
  <2>4. Drained'
    <3>1. \A f \in Epochs : drain'[f] # "batch" => batch'[f] = <<>>
      BY <1>1, <2>1 DEF ConfirmationShape, Drained
    <3>2. \A f \in Epochs : f > epoch => drain'[f] = "none"
      BY <1>1, <1>2, <2>1, <2>3 DEF ConfirmationShape, Drained
    <3>3. drainPromise' = -1 => drain'[epoch] = "none" /\ requestedRuns = 0
      BY <1>1, <1>2, <2>1 DEF ConfirmationShape, Drained
    <3>4. drainPromise' # -1 => drainPromise' = epoch /\ drain'[epoch] # "none"
      BY <1>1, <1>2, <2>1 DEF ConfirmationShape, Drained
    <3>. QED
      BY <2>1, <3>1, <3>2, <3>3, <3>4 DEF Drained
  <2>. QED
    BY <2>1, <2>2, <2>4, SameBooks, SameInquiries
<1>. QED
  BY <1>3, <1>4, <1>5, <1>6

\* What an entry of a batch is.
LEMMA EntryIs ==
    ASSUME ConfirmationShape, NEW e \in Epochs, NEW i \in DOMAIN batch[e]
    PROVE  /\ batch[e] \in Seq(Entries) /\ i \in 1 .. Len(batch[e]) /\ Len(batch[e]) \in Nat
           /\ batch[e] # <<>>
           /\ batch[e][i].id \in Ids /\ batch[e][i].version \in Nat
           /\ batch[e][i].retry \in BOOLEAN
<1>1. batch[e] \in Seq(Entries)
  BY DEF ConfirmationShape
<1>2. batch[e][i] \in Entries /\ i \in 1 .. Len(batch[e]) /\ Len(batch[e]) \in Nat
  BY <1>1
<1>3. batch[e] # <<>>
  BY <1>1, <1>2
<1>. QED
  BY <1>1, <1>2, <1>3 DEF Entries

\* An answer to a batch from before a reset settles nothing.
LEMMA SettlesLate ==
    ASSUME ConfirmationInv, NEW e \in Epochs, e # epoch, NEW i \in DOMAIN batch[e],
           NEW retry, Settle(e, i, retry),
           versions' = versions, epoch' = epoch, requestedRuns' = requestedRuns,
           drainPromise' = drainPromise, drain' = drain
    PROVE  ConfirmationInv' /\ \A x \in Ids : InquiryOf(x)' = InquiryOf(x)
<1>1. ConfirmationShape /\ Drained /\ epoch \in Epochs
  BY DEF ConfirmationInv, ConfirmationShape
<1>. DEFINE r == batch[e][i].id
            v == batch[e][i].version
<1>2. /\ r \in Ids /\ v \in Nat /\ batch[e] \in Seq(Entries) /\ i \in 1 .. Len(batch[e])
      /\ batch[e] # <<>>
  BY <1>1, EntryIs
<1>3. inFlight[r] # [epoch |-> e, version |-> v]
  <2>1. inFlight[r].epoch # e
    BY <1>2, EpochsAre DEF ConfirmationInv, Flights, NoFlight
  <2>. QED
    BY <2>1
<1>4. /\ batch' = [batch EXCEPT ![e] = RemoveAt(@, i)]
      /\ inFlight' = inFlight /\ deferred' = deferred /\ queue' = queue /\ contexts' = contexts
  BY <1>3 DEF Settle
<1>. HIDE DEF r, v
<1>5. RemoveAt(batch[e], i) \in Seq(Entries)
  BY <1>2, RemoveAtElements
<1>6. ConfirmationShape'
  BY <1>1, <1>4, <1>5 DEF ConfirmationShape
<1>7. Drained'
  BY <1>1, <1>2, <1>4 DEF Drained, ConfirmationShape
<1>8. batch'[epoch] = batch[epoch]
  BY <1>1, <1>4 DEF ConfirmationShape
<1>. QED
  BY <1>4, <1>6, <1>7, <1>8, SameBooks, SameInquiries

\* What settling an entry of the batch of now does: its file is no longer in flight,
\* and queued again if there was no answer or its answer is of no use any more.
Released(r, v, retry, next) ==
    /\ inFlight' = [inFlight EXCEPT ![r] = NoFlight]
    /\ deferred' = deferred \ {r}
    /\ queue' = IF (v = versions[r] /\ retry) \/ r \in deferred THEN Append(queue, r) ELSE queue
    /\ contexts' = IF v = versions[r] /\ ~retry THEN contexts \ {r} ELSE contexts
    /\ batch' = [batch EXCEPT ![epoch] = next]

LEMMA SettlingIs ==
    ASSUME ConfirmationInv, NEW i \in DOMAIN batch[epoch],
           NEW retry, Settle(epoch, i, retry),
           NEW r, r = batch[epoch][i].id, NEW v, v = batch[epoch][i].version
    PROVE  /\ r \in Ids /\ v \in Nat
           /\ inFlight[r] = [epoch |-> epoch, version |-> v] /\ inFlight[r] # NoFlight
           /\ r \notin ToSet(queue)
           /\ r \in deferred => v # versions[r]
           /\ r \in contexts <=> r \in deferred \/ v = versions[r]
           /\ Released(r, v, retry, RemoveAt(batch[epoch], i))
<1>1. ConfirmationShape /\ epoch \in Epochs /\ epoch \in Nat
  BY EpochsAre DEF ConfirmationInv, ConfirmationShape
<1>2. r \in Ids /\ v \in Nat
  BY <1>1, EntryIs
<1>3. inFlight[r] = [epoch |-> epoch, version |-> v]
  BY DEF ConfirmationInv, Flights
<1>4. inFlight[r] # NoFlight /\ inFlight[r].version = v
  BY <1>1, <1>3 DEF NoFlight
<1>5. r \notin ToSet(queue)
  BY <1>4 DEF ConfirmationInv, Pending
<1>6. r \in deferred => v # versions[r]
  BY <1>4 DEF ConfirmationInv, Pending
<1>7. r \in contexts <=> r \in deferred \/ v = versions[r]
  BY <1>2, <1>4, <1>5 DEF ConfirmationInv, Pending
<1>8. inFlight' = [inFlight EXCEPT ![r] = NoFlight] /\ deferred' = deferred \ {r}
  BY <1>3 DEF Settle
<1>9. queue' = IF (v = versions[r] /\ retry) \/ r \in deferred THEN Append(queue, r) ELSE queue
  BY <1>3, <1>5, Zenon DEF Settle
<1>10. contexts' = IF v = versions[r] /\ ~retry THEN contexts \ {r} ELSE contexts
  <2>1. contexts' = IF v = versions[r] /\ ~retry /\ r \notin deferred THEN contexts \ {r} ELSE contexts
    BY <1>3, Zenon DEF Settle
  <2>. QED
    BY <1>6, <2>1
<1>11. batch' = [batch EXCEPT ![epoch] = RemoveAt(batch[epoch], i)]
  BY DEF Settle
<1>. QED
  BY <1>2, <1>3, <1>4, <1>5, <1>6, <1>7, <1>8, <1>9, <1>10, <1>11 DEF Released

\* Such a step keeps the books, and changes what its file stands for only.
LEMMA SettlesNow ==
    ASSUME ConfirmationInv, NEW i \in DOMAIN batch[epoch],
           NEW retry, Settle(epoch, i, retry),
           versions' = versions, epoch' = epoch, requestedRuns' = requestedRuns,
           drainPromise' = drainPromise, drain' = drain,
           NEW r, r = batch[epoch][i].id, NEW v, v = batch[epoch][i].version
    PROVE  /\ ConfirmationInv'
           /\ r \in ToSet(queue') <=> (v = versions[r] /\ retry) \/ r \in deferred
           /\ \A x \in Ids \ {r} : InquiryOf(x)' = InquiryOf(x)
<1>1. /\ ConfirmationShape /\ Drained /\ Flights /\ Pending /\ epoch \in Epochs
  BY DEF ConfirmationInv, ConfirmationShape
<1>2. /\ r \in Ids /\ v \in Nat
      /\ inFlight[r] = [epoch |-> epoch, version |-> v] /\ inFlight[r] # NoFlight
      /\ r \notin ToSet(queue)
      /\ r \in deferred => v # versions[r]
      /\ r \in contexts <=> r \in deferred \/ v = versions[r]
      /\ Released(r, v, retry, RemoveAt(batch[epoch], i))
  BY SettlingIs
<1>3. /\ batch[epoch] \in Seq(Entries) /\ i \in 1 .. Len(batch[epoch]) /\ batch[epoch] # <<>>
  BY <1>1, EntryIs
<1>4. PICK next : next = RemoveAt(batch[epoch], i)
  OBVIOUS
<1>5. /\ next \in Seq(Entries)
      /\ \A j \in DOMAIN next : \E k \in DOMAIN batch[epoch] : k # i /\ next[j] = batch[epoch][k]
      /\ \A k \in DOMAIN batch[epoch] : k # i => \E j \in DOMAIN next : next[j] = batch[epoch][k]
      /\ \A j1, j2 \in DOMAIN next : j1 # j2 =>
             \E k1, k2 \in DOMAIN batch[epoch] :
                 k1 # k2 /\ next[j1] = batch[epoch][k1] /\ next[j2] = batch[epoch][k2]
  <2>1. next \in Seq(Entries) /\ Others(next, batch[epoch], i)
    BY <1>3, <1>4, RemoveAtOthers
  <2>. QED
    BY <2>1, Zenon DEF Others
<1>6. /\ inFlight' = [inFlight EXCEPT ![r] = NoFlight] /\ deferred' = deferred \ {r}
      /\ batch' = [batch EXCEPT ![epoch] = next]
  BY <1>2, <1>4 DEF Released
<1>7. batch'[epoch] = next
  BY <1>1, <1>6 DEF ConfirmationShape
<1>8. PICK again : again = ((v = versions[r] /\ retry) \/ r \in deferred)
  OBVIOUS
<1>9. queue' = IF again THEN Append(queue, r) ELSE queue
  BY <1>2, <1>8, Zenon DEF Released
<1>10. /\ queue \in Seq(Ids) /\ IsInjective(queue)
  BY <1>1 DEF ConfirmationShape
<1>11. /\ queue' \in Seq(Ids) /\ IsInjective(queue')
       /\ ToSet(queue') = IF again THEN ToSet(queue) \cup {r} ELSE ToSet(queue)
  <2>1. CASE again
    BY <1>2, <1>9, <1>10, <2>1, AppendElements
  <2>2. CASE ~again
    BY <1>9, <1>10, <2>2
  <2>. QED
    BY <2>1, <2>2
<1>12. contexts' = IF v = versions[r] /\ ~retry THEN contexts \ {r} ELSE contexts
  BY <1>2, Zenon DEF Released
<1>13. /\ inFlight'[r] = NoFlight /\ \A x \in Ids \ {r} : inFlight'[x] = inFlight[x]
  BY <1>1, <1>2, <1>6 DEF ConfirmationShape
<1>14. ConfirmationShape'
  <2>1. /\ deferred' \in SUBSET Ids /\ contexts' \in SUBSET Ids
    BY <1>1, <1>6, <1>12 DEF ConfirmationShape
  <2>2. inFlight' \in [Ids -> Places]
    BY <1>1, <1>6, NoFlightIs DEF ConfirmationShape
  <2>3. batch' \in [Epochs -> Seq(Entries)]
    BY <1>1, <1>5, <1>6 DEF ConfirmationShape
  <2>. QED
    BY <1>1, <1>11, <2>1, <2>2, <2>3 DEF ConfirmationShape
<1>15. Drained'
  BY <1>1, <1>3, <1>6 DEF Drained, ConfirmationShape
<1>16. \A k \in DOMAIN batch[epoch] : k # i => batch[epoch][k].id # r
  BY <1>1 DEF Flights
<1>17. \A j \in DOMAIN next : next[j].id # r
  BY <1>5, <1>16
<1>18. \A j \in DOMAIN next : next[j].id \in Ids
  <2>1. \A k \in DOMAIN batch[epoch] : batch[epoch][k].id \in Ids
    BY <1>1, EntryIs
  <2>. QED
    BY <1>5, <2>1
<1>19. Flights'
  <2>1. \A j1, j2 \in DOMAIN next : next[j1].id = next[j2].id => j1 = j2
    BY <1>1, <1>5 DEF Flights
  <2>2. ASSUME NEW j \in DOMAIN next
        PROVE  inFlight'[next[j].id] = [epoch |-> epoch, version |-> next[j].version]
    <3>1. PICK k \in DOMAIN batch[epoch] : k # i /\ next[j] = batch[epoch][k]
      BY <1>5
    <3>2. inFlight[next[j].id] = [epoch |-> epoch, version |-> next[j].version]
      BY <1>1, <3>1 DEF Flights
    <3>. QED
      BY <1>13, <1>17, <1>18, <3>2
  <2>3. ASSUME NEW x \in Ids, inFlight'[x] # NoFlight
        PROVE  /\ inFlight'[x].epoch = epoch /\ inFlight'[x].version \in Nat
               /\ inFlight'[x].version <= versions[x]
               /\ \E j \in DOMAIN next : next[j].id = x
    <3>1. x # r /\ inFlight'[x] = inFlight[x]
      BY <1>13, <2>3
    <3>2. /\ inFlight[x].epoch = epoch /\ inFlight[x].version \in Nat
          /\ inFlight[x].version <= versions[x]
          /\ \E k \in DOMAIN batch[epoch] : batch[epoch][k].id = x
      BY <1>1, <2>3, <3>1 DEF Flights
    <3>3. \E j \in DOMAIN next : next[j].id = x
      <4>1. PICK k \in DOMAIN batch[epoch] : batch[epoch][k].id = x
        BY <3>2
      <4>2. k # i
        BY <3>1, <4>1
      <4>. QED
        BY <1>5, <4>1, <4>2
    <3>. QED
      BY <3>1, <3>2, <3>3
  <2>. QED
    BY <1>7, <2>1, <2>2, <2>3 DEF Flights
<1>20. Pending'
  <2>1. \A x \in ToSet(queue') : inFlight'[x] = NoFlight
    <3>1. \A x \in ToSet(queue) : x \in Ids /\ inFlight[x] = NoFlight
      BY <1>1, <1>10 DEF Pending, ToSet
    <3>. QED
      BY <1>11, <1>13, <3>1
  <2>2. \A x \in deferred' : inFlight'[x] # NoFlight /\ inFlight'[x].version # versions[x]
    BY <1>1, <1>6, <1>13 DEF Pending, ConfirmationShape
  <2>3. ASSUME NEW x \in Ids
        PROVE  x \in contexts' <=>
                   \/ x \in ToSet(queue') \/ x \in deferred'
                   \/ inFlight'[x] # NoFlight /\ inFlight'[x].version = versions[x]
    <3>1. CASE x = r
      <4>1. x \in contexts' <=> r \in contexts /\ ~(v = versions[r] /\ ~retry)
        BY <1>12, <3>1
      <4>2. x \in ToSet(queue') <=> again
        BY <1>2, <1>11, <3>1
      <4>3. x \in contexts' <=> again
        BY <1>2, <1>8, <4>1
      <4>. QED
        BY <1>6, <1>13, <3>1, <4>2, <4>3
    <3>2. CASE x # r
      <4>1. /\ x \in contexts' <=> x \in contexts
            /\ x \in ToSet(queue') <=> x \in ToSet(queue)
            /\ x \in deferred' <=> x \in deferred
            /\ inFlight'[x] = inFlight[x]
        BY <1>6, <1>11, <1>12, <1>13, <3>2
      <4>. QED
        BY <1>1, <4>1 DEF Pending
    <3>. QED
      BY <3>1, <3>2
  <2>. QED
    BY <2>1, <2>2, <2>3 DEF Pending
<1>21. ConfirmationInv'
  BY <1>14, <1>15, <1>19, <1>20 DEF ConfirmationInv
<1>22. r \in ToSet(queue') <=> (v = versions[r] /\ retry) \/ r \in deferred
  BY <1>2, <1>8, <1>11
<1>23. ASSUME NEW x \in Ids \ {r} PROVE InquiryOf(x)' = InquiryOf(x)
  <2>1. /\ x \in ToSet(queue') <=> x \in ToSet(queue)
        /\ x \in deferred' <=> x \in deferred
        /\ inFlight'[x] = inFlight[x]
    BY <1>6, <1>11, <1>13
  <2>2. ToldNow(x)' <=> ToldNow(x)
    <3>1. ToldNow(x) <=> \E j \in DOMAIN batch[epoch] :
              /\ batch[epoch][j].stage = "told" /\ batch[epoch][j].id = x
              /\ batch[epoch][j].version = versions[x]
      BY ToldNowIs
    <3>2. ToldNow(x)' <=> \E j \in DOMAIN next :
              /\ next[j].stage = "told" /\ next[j].id = x /\ next[j].version = versions[x]
      BY <1>7, ToldNowIs
    <3>. QED
      BY <1>5, <3>1, <3>2
  <2>. QED
    BY <1>21, <2>1, <2>2, InquiryIs, InquiryIsNext
<1>. QED
  BY <1>21, <1>22, <1>23

\* What the page sees of the scheduler, as the abstraction has it.
LEMMA InquiryNow ==
    /\ \A r \in Ids : [x \in Ids |-> InquiryOf(x)][r] = InquiryOf(r)
    /\ [x \in Ids |-> InquiryOf(x)]' = [x \in Ids |-> InquiryOf(x)']
OBVIOUS

\* A file whose answer came, or whose question failed, is asked for no more, unless there is
\* something to ask again.
LEMMA FinishingIs ==
    ASSUME NEW r \in Ids, NEW retry \in BOOLEAN,
           InquiryOf(r) \in {"asked", "told", "dropped", "again"},
           InquiryOf(r) = "told" => InquiryOf(r)' = IF retry THEN "waiting" ELSE "none",
           InquiryOf(r) = "dropped" => InquiryOf(r)' = "none",
           InquiryOf(r) \in {"asked", "again"} => InquiryOf(r)' = "waiting",
           \A x \in Ids \ {r} : InquiryOf(x)' = InquiryOf(x)
    PROVE  Inquiry!Finish(r, retry)
<1>. DEFINE now == [x \in Ids |-> InquiryOf(x)]
            next == CASE now[r] = "told" -> IF retry THEN "waiting" ELSE "none"
                      [] now[r] = "dropped" -> "none"
                      [] now[r] \in {"asked", "again"} -> "waiting"
<1>1. now[r] = InquiryOf(r)
  OBVIOUS
<1>2. next = InquiryOf(r)'
  <2>1. PICK n : n = InquiryOf(r)'
    OBVIOUS
  <2>2. next = n
    <3>1. CASE InquiryOf(r) = "told"
      BY <1>1, <2>1, <3>1
    <3>2. CASE InquiryOf(r) = "dropped"
      BY <1>1, <2>1, <3>2
    <3>3. CASE InquiryOf(r) \in {"asked", "again"}
      BY <1>1, <2>1, <3>3
    <3>. QED
      BY <3>1, <3>2, <3>3
  <2>. QED
    BY <2>1, <2>2
<1>. HIDE DEF next
<1>3. [x \in Ids |-> InquiryOf(x)'] = [now EXCEPT ![r] = next]
  BY <1>2
<1>4. now' = [now EXCEPT ![r] = next]
  BY <1>3, InquiryNow, Zenon
<1>. QED
  BY <1>1, <1>4, Zenon DEF Inquiry!Finish, next

\* The finally of a worker, for an entry that was asked for and not told, or told.
LEMMA Finishes ==
    ASSUME ConfirmationInv, NEW i \in DOMAIN batch[epoch],
           NEW retry \in BOOLEAN, Settle(epoch, i, retry),
           versions' = versions, epoch' = epoch, requestedRuns' = requestedRuns,
           drainPromise' = drainPromise, drain' = drain,
           \/ batch[epoch][i].stage = "told"
           \/ /\ batch[epoch][i].stage = "asked"
              /\ batch[epoch][i].version = versions[batch[epoch][i].id] => retry = TRUE
    PROVE  ConfirmationInv' /\ Inquiry!Finish(batch[epoch][i].id, retry)
<1>1. PICK r, v, s : /\ r = batch[epoch][i].id /\ v = batch[epoch][i].version
                     /\ s = batch[epoch][i].stage
  OBVIOUS
<1>2. /\ r \in Ids /\ v \in Nat
      /\ inFlight[r] = [epoch |-> epoch, version |-> v] /\ inFlight[r] # NoFlight
      /\ r \notin ToSet(queue)
      /\ r \in deferred => v # versions[r]
      /\ Released(r, v, retry, RemoveAt(batch[epoch], i))
  BY <1>1, SettlingIs
<1>3. /\ ConfirmationInv'
      /\ r \in ToSet(queue') <=> (v = versions[r] /\ retry) \/ r \in deferred
      /\ \A x \in Ids \ {r} : InquiryOf(x)' = InquiryOf(x)
  BY <1>1, SettlesNow
<1>4. inFlight'[r] = NoFlight
  BY <1>2 DEF Released, ConfirmationInv, ConfirmationShape
<1>5. /\ r \in ToSet(queue') => InquiryOf(r)' = "waiting"
      /\ r \notin ToSet(queue') => InquiryOf(r)' = "none"
  BY <1>2, <1>3, <1>4, InquiryIsNext
<1>6. CASE v = versions[r]
  <2>1. InquiryOf(r) = IF ToldNow(r) THEN "told" ELSE "asked"
    BY <1>2, <1>6, InquiryIs
  <2>2. ToldNow(r) <=> s = "told"
    <3>1. \A j \in DOMAIN batch[epoch] : batch[epoch][j].id = r => j = i
      BY <1>1 DEF ConfirmationInv, Flights
    <3>2. ToldNow(r) <=> \E j \in DOMAIN batch[epoch] :
              /\ batch[epoch][j].stage = "told" /\ batch[epoch][j].id = r
              /\ batch[epoch][j].version = versions[r]
      BY ToldNowIs
    <3>3. /\ i \in DOMAIN batch[epoch] /\ batch[epoch][i].id = r
          /\ batch[epoch][i].version = versions[r] /\ batch[epoch][i].stage = s
      BY <1>1, <1>6
    <3>. QED
      BY <3>1, <3>2, <3>3, Zenon
  <2>3. CASE s = "told"
    <3>1. InquiryOf(r) = "told" /\ (r \in ToSet(queue') <=> retry)
      BY <1>2, <1>3, <1>6, <2>1, <2>2, <2>3
    <3>2. InquiryOf(r)' = IF retry THEN "waiting" ELSE "none"
      BY <1>5, <3>1
    <3>. QED
      BY <1>1, <1>2, <1>3, <3>1, <3>2, FinishingIs
  <2>4. CASE s # "told"
    <3>1. InquiryOf(r) = "asked"
      BY <2>1, <2>2, <2>4
    <3>2. InquiryOf(r)' = "waiting"
      BY <1>1, <1>3, <1>5, <1>6, <2>4
    <3>. QED
      BY <1>1, <1>2, <1>3, <3>1, <3>2, FinishingIs
  <2>. QED
    BY <2>3, <2>4
<1>7. CASE v # versions[r]
  <2>1. InquiryOf(r) = IF r \in deferred THEN "again" ELSE "dropped"
    BY <1>2, <1>7, InquiryIs
  <2>2. InquiryOf(r)' = IF r \in deferred THEN "waiting" ELSE "none"
    BY <1>3, <1>5, <1>7
  <2>3. CASE r \in deferred
    BY <1>1, <1>2, <1>3, <2>1, <2>2, <2>3, FinishingIs
  <2>4. CASE r \notin deferred
    BY <1>1, <1>2, <1>3, <2>1, <2>2, <2>4, FinishingIs
  <2>. QED
    BY <2>3, <2>4
<1>. QED
  BY <1>6, <1>7

\* An answer that is told.
LEMMA Tells ==
    ASSUME ConfirmationInv, NEW i \in DOMAIN batch[epoch], NEW retry \in BOOLEAN,
           batch[epoch][i].stage = "asked",
           batch[epoch][i].version = versions[batch[epoch][i].id],
           batch' = [batch EXCEPT ![epoch][i] = [@ EXCEPT !.stage = "told", !.retry = retry]],
           inFlight' = inFlight, deferred' = deferred, queue' = queue, contexts' = contexts,
           versions' = versions, epoch' = epoch, requestedRuns' = requestedRuns,
           drainPromise' = drainPromise, drain' = drain
    PROVE  ConfirmationInv' /\ Inquiry!Tell(batch[epoch][i].id)
<1>1. /\ ConfirmationShape /\ Drained /\ Flights /\ Pending /\ epoch \in Epochs
  BY DEF ConfirmationInv, ConfirmationShape
<1>2. /\ batch[epoch] \in Seq(Entries) /\ i \in 1 .. Len(batch[epoch]) /\ batch[epoch] # <<>>
      /\ batch[epoch][i] \in Entries
  BY <1>1, EntryIs
<1>3. PICK r : r = batch[epoch][i].id
  OBVIOUS
<1>4. PICK told : told = [batch[epoch][i] EXCEPT !.stage = "told", !.retry = retry]
  OBVIOUS
<1>5. /\ told \in Entries /\ told.id = batch[epoch][i].id /\ told.version = batch[epoch][i].version
      /\ told.stage = "told"
  BY <1>2, <1>4 DEF Entries
<1>6. batch' = [batch EXCEPT ![epoch] = [batch[epoch] EXCEPT ![i] = told]]
  BY <1>1, <1>4 DEF ConfirmationShape
<1>7. batch'[epoch] = [batch[epoch] EXCEPT ![i] = told]
  BY <1>1, <1>6 DEF ConfirmationShape
<1>8. batch'[epoch] \in Seq(Entries) /\ DOMAIN batch'[epoch] = DOMAIN batch[epoch]
  BY <1>2, <1>5, <1>7
<1>9. ConfirmationShape'
  BY <1>1, <1>6, <1>7, <1>8 DEF ConfirmationShape
<1>10. Drained'
  BY <1>1, <1>2, <1>6 DEF Drained, ConfirmationShape
<1>11. \A j \in DOMAIN batch[epoch] : /\ batch'[epoch][j].id = batch[epoch][j].id
                                      /\ batch'[epoch][j].version = batch[epoch][j].version
                                      /\ j # i => batch'[epoch][j].stage = batch[epoch][j].stage
  BY <1>2, <1>5, <1>7
<1>12. ConfirmationInv'
  BY <1>8, <1>9, <1>10, <1>11, SameBooks
<1>13. r \in Ids
  BY <1>1, <1>3, EntryIs
<1>14. \A j \in DOMAIN batch[epoch] : batch[epoch][j].id = r => j = i
  BY <1>1, <1>3 DEF Flights
<1>15. inFlight[r] # NoFlight /\ inFlight[r].version = versions[r]
  <2>1. inFlight[r] = [epoch |-> epoch, version |-> versions[r]]
    BY <1>1, <1>3 DEF Flights
  <2>2. epoch # -1
    BY <1>1, EpochsAre
  <2>. QED
    BY <2>1, <2>2 DEF NoFlight
<1>16. ~ToldNow(r)
  BY <1>14, ToldNowIs
<1>17. ToldNow(r)'
  <2>1. /\ i \in DOMAIN batch'[epoch'] /\ batch'[epoch'][i].stage = "told"
        /\ batch'[epoch'][i].id = r /\ batch'[epoch'][i].version = versions'[r]
    BY <1>2, <1>3, <1>5, <1>7, <1>8
  <2>. QED
    BY <2>1, ToldNowIs
<1>18. InquiryOf(r) = "asked" /\ InquiryOf(r)' = "told"
  BY <1>12, <1>13, <1>15, <1>16, <1>17, InquiryIs, InquiryIsNext
<1>19. ASSUME NEW x \in Ids \ {r} PROVE InquiryOf(x)' = InquiryOf(x)
  <2>1. ToldNow(x)' <=> ToldNow(x)
    <3>1. ToldNow(x) <=> \E j \in DOMAIN batch[epoch] :
              /\ batch[epoch][j].stage = "told" /\ batch[epoch][j].id = x
              /\ batch[epoch][j].version = versions[x]
      BY ToldNowIs
    <3>2. ToldNow(x)' <=> \E j \in DOMAIN batch[epoch] :
              /\ batch'[epoch][j].stage = "told" /\ batch[epoch][j].id = x
              /\ batch[epoch][j].version = versions[x]
      BY <1>8, <1>11, ToldNowIs
    <3>3. \A j \in DOMAIN batch[epoch] :
              batch[epoch][j].id = x => batch'[epoch][j].stage = batch[epoch][j].stage
      BY <1>3, <1>11
    <3>. QED
      BY <3>1, <3>2, <3>3
  <2>. QED
    BY <1>12, <2>1, InquiryIs, InquiryIsNext
<1>20. Inquiry!Tell(r)
  <2>. DEFINE now == [x \in Ids |-> InquiryOf(x)]
  <2>1. now[r] = "asked" /\ now' = [x \in Ids |-> InquiryOf(x)']
    BY <1>13, <1>18, InquiryNow
  <2>2. [x \in Ids |-> InquiryOf(x)'] = [now EXCEPT ![r] = "told"]
    BY <1>13, <1>18, <1>19
  <2>. QED
    BY <2>1, <2>2, Zenon DEF Inquiry!Tell
<1>. QED
  BY <1>3, <1>12, <1>20

\* A step that leaves the batches and flights is none to what was told.
LEMMA StillTold ==
    ASSUME batch' = batch, epoch' = epoch, NEW x, versions'[x] = versions[x]
    PROVE  ToldNow(x)' <=> ToldNow(x)
BY ToldNowIs

\* Wanting and forgetting, by the stage of a file.
LEMMA WishesAre ==
    /\ Inquiry!Wanted("none") = "waiting" /\ Inquiry!Wanted("waiting") = "waiting"
    /\ Inquiry!Wanted("asked") = "asked" /\ Inquiry!Wanted("told") = "told"
    /\ Inquiry!Wanted("dropped") = "again" /\ Inquiry!Wanted("again") = "again"
    /\ Inquiry!Forgotten("none") = "none" /\ Inquiry!Forgotten("waiting") = "none"
    /\ Inquiry!Forgotten("asked") = "dropped" /\ Inquiry!Forgotten("told") = "dropped"
    /\ Inquiry!Forgotten("dropped") = "dropped" /\ Inquiry!Forgotten("again") = "dropped"
<1>1. Inquiry!Wanted("none") = "waiting"
  BY Zenon DEF Inquiry!Wanted
<1>2. Inquiry!Wanted("dropped") = "again"
  BY Zenon DEF Inquiry!Wanted
<1>3. ASSUME NEW s \in {"waiting", "asked", "told", "again"} PROVE Inquiry!Wanted(s) = s
  <2>1. s # "none" /\ s # "dropped"
    OBVIOUS
  <2>. QED
    BY <2>1, Zenon DEF Inquiry!Wanted
<1>4. Inquiry!Forgotten("waiting") = "none"
  BY Zenon DEF Inquiry!Forgotten
<1>5. ASSUME NEW s \in {"asked", "told", "again"} PROVE Inquiry!Forgotten(s) = "dropped"
  <2>1. s # "waiting"
    OBVIOUS
  <2>. QED
    BY <1>5, <2>1, Zenon DEF Inquiry!Forgotten
<1>6. ASSUME NEW s \in {"none", "dropped"} PROVE Inquiry!Forgotten(s) = s
  <2>1. s # "waiting" /\ s \notin {"asked", "told", "again"}
    OBVIOUS
  <2>. QED
    BY <2>1, Zenon DEF Inquiry!Forgotten
<1>. QED
  BY <1>1, <1>2, <1>3, <1>4, <1>5, <1>6

\* The stages of a file.
LEMMA InquiryStagesAre ==
    ASSUME NEW r
    PROVE  InquiryOf(r) \in {"none", "waiting", "asked", "told", "dropped", "again"}
<1>1. r \in ToSet(queue) => InquiryOf(r) = "waiting"
  BY Zenon DEF InquiryOf
<1>2. r \notin ToSet(queue) /\ inFlight[r] = NoFlight => InquiryOf(r) = "none"
  BY Zenon DEF InquiryOf
<1>3. r \notin ToSet(queue) /\ inFlight[r] # NoFlight /\ OutOfDate({r}) = {} =>
          InquiryOf(r) = "told" \/ InquiryOf(r) = "asked"
  BY Zenon DEF InquiryOf
<1>4. r \notin ToSet(queue) /\ inFlight[r] # NoFlight /\ OutOfDate({r}) # {} =>
          InquiryOf(r) = "again" \/ InquiryOf(r) = "dropped"
  BY Zenon DEF InquiryOf
<1>. QED
  BY <1>1, <1>2, <1>3, <1>4

\* Forgetting a file.
LEMMA Forgets ==
    ASSUME ConfirmationInv, NEW r \in Ids, ForgetRoot(r)
    PROVE  ConfirmationInv' /\ Inquiry!Revise({r}, {})
<1>1. /\ ConfirmationShape /\ Drained /\ Flights /\ Pending /\ epoch \in Epochs
  BY DEF ConfirmationInv, ConfirmationShape
<1>2. /\ versions' = [versions EXCEPT ![r] = @ + 1]
      /\ contexts' = contexts \ {r} /\ deferred' = deferred \ {r} /\ queue' = Without(queue, r)
      /\ inFlight' = inFlight /\ epoch' = epoch /\ requestedRuns' = requestedRuns
      /\ drainPromise' = drainPromise /\ drain' = drain /\ batch' = batch
  BY DEF ForgetRoot
<1>3. /\ queue \in Seq(Ids) /\ IsInjective(queue)
  BY <1>1 DEF ConfirmationShape
<1>4. /\ queue' \in Seq(Ids) /\ IsInjective(queue') /\ ToSet(queue') = ToSet(queue) \ {r}
  BY <1>2, <1>3, WithoutElements
<1>5. /\ versions'[r] = versions[r] + 1 /\ versions[r] \in Nat
      /\ \A x \in Ids \ {r} : versions'[x] = versions[x]
  BY <1>1, <1>2 DEF ConfirmationShape
<1>6. ConfirmationShape'
  BY <1>1, <1>2, <1>4 DEF ConfirmationShape
<1>7. Drained'
  BY <1>1, <1>2 DEF Drained
<1>8. inFlight[r] # NoFlight => inFlight[r].version # versions'[r]
  BY <1>1, <1>5 DEF Flights
<1>9. Flights'
  <2>1. \A x \in Ids : inFlight[x] # NoFlight => inFlight[x].version <= versions'[x]
    <3>1. ASSUME NEW x \in Ids, inFlight[x] # NoFlight PROVE inFlight[x].version <= versions'[x]
      <4>1. inFlight[x].version \in Nat /\ inFlight[x].version <= versions[x]
        BY <1>1, <3>1 DEF Flights
      <4>. QED
        BY <1>5, <4>1
    <3>. QED
      BY <3>1
  <2>. QED
    BY <1>1, <1>2, <2>1 DEF Flights
<1>10. Pending'
  <2>1. \A x \in ToSet(queue') : inFlight'[x] = NoFlight
    BY <1>1, <1>2, <1>4 DEF Pending
  <2>2. \A x \in deferred' : inFlight'[x] # NoFlight /\ inFlight'[x].version # versions'[x]
    <3>1. \A x \in deferred' : x \in deferred /\ x \in Ids \ {r}
      BY <1>1, <1>2 DEF ConfirmationShape
    <3>. QED
      BY <1>1, <1>2, <1>5, <3>1 DEF Pending
  <2>3. ASSUME NEW x \in Ids
        PROVE  x \in contexts' <=>
                   \/ x \in ToSet(queue') \/ x \in deferred'
                   \/ inFlight'[x] # NoFlight /\ inFlight'[x].version = versions'[x]
    <3>1. CASE x = r
      BY <1>2, <1>4, <1>8, <3>1
    <3>2. CASE x # r
      <4>1. /\ x \in contexts' <=> x \in contexts
            /\ x \in ToSet(queue') <=> x \in ToSet(queue)
            /\ x \in deferred' <=> x \in deferred
            /\ inFlight'[x] = inFlight[x] /\ versions'[x] = versions[x]
        BY <1>2, <1>4, <1>5, <3>2
      <4>. QED
        BY <1>1, <4>1 DEF Pending
    <3>. QED
      BY <3>1, <3>2
  <2>. QED
    BY <2>1, <2>2, <2>3 DEF Pending
<1>11. ConfirmationInv'
  BY <1>6, <1>7, <1>9, <1>10 DEF ConfirmationInv
<1>12. ASSUME NEW x \in Ids \ {r} PROVE InquiryOf(x)' = InquiryOf(x)
  <2>1. /\ x \in ToSet(queue') <=> x \in ToSet(queue)
        /\ x \in deferred' <=> x \in deferred
        /\ inFlight'[x] = inFlight[x] /\ versions'[x] = versions[x]
    BY <1>2, <1>4, <1>5
  <2>2. ToldNow(x)' <=> ToldNow(x)
    BY <1>2, <2>1, StillTold
  <2>. QED
    BY <1>11, <2>1, <2>2, InquiryIs, InquiryIsNext
<1>13. InquiryOf(r)' = Inquiry!Forgotten(InquiryOf(r))
  <2>1. CASE inFlight[r] = NoFlight
    <3>1. InquiryOf(r)' = "none"
      BY <1>2, <1>4, <1>11, <2>1, InquiryIsNext
    <3>2. InquiryOf(r) = "waiting" \/ InquiryOf(r) = "none"
      BY <2>1, InquiryIs
    <3>. QED
      BY <3>1, <3>2, WishesAre
  <2>2. CASE inFlight[r] # NoFlight
    <3>1. InquiryOf(r)' = "dropped"
      BY <1>2, <1>8, <1>11, <2>2, InquiryIsNext
    <3>2. InquiryOf(r) \in {"told", "asked", "again", "dropped"}
      BY <2>2, InquiryIs
    <3>. QED
      BY <3>1, <3>2, WishesAre
  <2>. QED
    BY <2>1, <2>2
<1>14. Inquiry!Revise({r}, {})
  <2>. DEFINE now == [x \in Ids |-> InquiryOf(x)]
  <2>1. \A x \in Ids : InquiryOf(x)' = IF x \in {r} THEN Inquiry!Forgotten(now[x])
                                       ELSE IF x \in {} THEN Inquiry!Wanted(now[x]) ELSE now[x]
    BY <1>12, <1>13
  <2>2. now' = [x \in Ids |-> InquiryOf(x)']
    BY InquiryNow
  <2>3. [x \in Ids |-> InquiryOf(x)'] =
            [x \in Ids |-> IF x \in {r} THEN Inquiry!Forgotten(now[x])
                           ELSE IF x \in {} THEN Inquiry!Wanted(now[x]) ELSE now[x]]
    BY <2>1
  <2>. QED
    BY <2>2, <2>3, Zenon DEF Inquiry!Revise
<1>. QED
  BY <1>11, <1>14

\* A reset leaves nothing but the drains and batches of before.
LEMMA Resets ==
    ASSUME ConfirmationInv, Reset
    PROVE  ConfirmationInv' /\ Inquiry!ForgetAll
<1>1. /\ ConfirmationShape /\ Drained /\ epoch \in Epochs /\ epoch \in Nat
  BY EpochsAre DEF ConfirmationInv, ConfirmationShape
<1>2. /\ epoch' = epoch + 1 /\ epoch < MaxEpoch /\ requestedRuns' = 0 /\ drainPromise' = -1
      /\ queue' = <<>> /\ deferred' = {} /\ contexts' = {}
      /\ inFlight' = [r \in Ids |-> NoFlight] /\ versions' = [r \in Ids |-> 0]
      /\ drain' = drain /\ batch' = batch
  BY DEF Reset
<1>3. epoch' \in Epochs /\ epoch' > epoch /\ \A e \in Epochs : e > epoch' => e > epoch
  BY <1>1, <1>2, ConfirmationAssumption DEF Epochs
<1>4. ToSet(queue') = {} /\ queue' \in Seq(Ids) /\ IsInjective(queue')
  BY <1>2 DEF ToSet, IsInjective
<1>5. ConfirmationShape'
  BY <1>1, <1>2, <1>3, <1>4, NoFlightIs DEF ConfirmationShape
<1>6. drain[epoch'] = "none" /\ batch[epoch'] = <<>>
  BY <1>1, <1>3 DEF Drained
<1>7. Drained'
  BY <1>1, <1>2, <1>3, <1>6 DEF Drained
<1>8. Flights' /\ Pending'
  BY <1>2, <1>4, <1>6 DEF Flights, Pending
<1>9. ConfirmationInv'
  BY <1>5, <1>7, <1>8 DEF ConfirmationInv
<1>10. \A x \in Ids : InquiryOf(x)' = "none"
  BY <1>2, <1>4, <1>9, InquiryIsNext
<1>11. Inquiry!ForgetAll
  <2>1. [x \in Ids |-> InquiryOf(x)'] = [x \in Ids |-> "none"]
    BY <1>10
  <2>. QED
    BY <2>1, InquiryNow, Zenon DEF Inquiry!ForgetAll
<1>. QED
  BY <1>9, <1>11

\* What scheduling one file does to the books.
LEMMA SchedulesOne ==
    ASSUME ConfirmationInv, NEW r \in Ids,
           contexts' = contexts \cup {r}, Enqueue({r} \ ToSet(queue)),
           inFlight' = inFlight, versions' = versions, epoch' = epoch, batch' = batch
    PROVE  /\ queue' \in Seq(Ids) /\ IsInjective(queue')
           /\ ToSet(queue') = IF inFlight[r] = NoFlight THEN ToSet(queue) \cup {r} ELSE ToSet(queue)
           /\ deferred' = IF inFlight[r] # NoFlight /\ inFlight[r].version # versions[r]
                          THEN deferred \cup {r} ELSE deferred
<1>1. /\ queue \in Seq(Ids) /\ IsInjective(queue)
  BY DEF ConfirmationInv, ConfirmationShape
<1>2. CASE r \in ToSet(queue)
  <2>1. {r} \ ToSet(queue) = {}
    BY <1>2
  <2>2. InFlight({}) = {} /\ OutOfDate({}) = {}
    BY DEF InFlight, OutOfDate
  <2>3. queue' = queue \o SetToSeq({}) /\ deferred' = deferred
    <3>1. queue' = queue \o SetToSeq({} \ InFlight({})) /\ deferred' = deferred \cup OutOfDate({})
      BY <2>1, Zenon DEF Enqueue
    <3>2. {} \ InFlight({}) = {}
      OBVIOUS
    <3>. QED
      BY <2>2, <3>1, <3>2
  <2>4. queue' = queue
    BY <1>1, <2>3, SetToSeqSmall
  <2>5. inFlight[r] = NoFlight
    BY <1>2 DEF ConfirmationInv, Pending
  <2>. QED
    BY <1>1, <1>2, <2>3, <2>4, <2>5
<1>3. CASE r \notin ToSet(queue)
  <2>1. {r} \ ToSet(queue) = {r}
    BY <1>3
  <2>2. queue' = queue \o SetToSeq({r} \ InFlight({r})) /\ deferred' = deferred \cup OutOfDate({r})
    BY <2>1, Zenon DEF Enqueue
  <2>3. CASE inFlight[r] = NoFlight
    <3>1. InFlight({r}) = {} /\ OutOfDate({r}) = {} /\ {r} \ InFlight({r}) = {r}
      BY <2>3 DEF InFlight, OutOfDate
    <3>2. queue' = queue \o <<r>> /\ deferred' = deferred
      BY <2>2, <3>1, SetToSeqSmall
    <3>3. queue' = Append(queue, r)
      BY <1>1, <3>2
    <3>4. queue' \in Seq(Ids) /\ IsInjective(queue') /\ ToSet(queue') = ToSet(queue) \cup {r}
      BY <1>1, <1>3, <3>3, AppendElements
    <3>. QED
      BY <2>3, <3>2, <3>4
  <2>4. CASE inFlight[r] # NoFlight
    <3>1. InFlight({r}) = {r} /\ {r} \ InFlight({r}) = {}
      BY <2>4 DEF InFlight
    <3>2. inFlight[r] \in Places /\ inFlight[r].epoch = epoch
      BY <2>4 DEF ConfirmationInv, ConfirmationShape, Flights
    <3>3. inFlight[r] = [epoch |-> epoch, version |-> versions[r]]
              <=> inFlight[r].version = versions[r]
      BY <3>2 DEF Places
    <3>4. OutOfDate({r}) = IF inFlight[r].version # versions[r] THEN {r} ELSE {}
      BY <3>1, <3>3 DEF OutOfDate
    <3>5. queue' = queue
      <4>1. queue' = queue \o SetToSeq({})
        BY <2>2, <3>1, Zenon
      <4>. QED
        BY <1>1, <4>1, SetToSeqSmall
    <3>. QED
      BY <1>1, <2>2, <2>4, <3>4, <3>5
  <2>. QED
    BY <2>3, <2>4
<1>. QED
  BY <1>2, <1>3

\* A schedule of one file keeps the books, and wants the file.
LEMMA Wants ==
    ASSUME ConfirmationInv, Drained', NEW r \in Ids,
           contexts' = contexts \cup {r}, Enqueue({r} \ ToSet(queue)),
           inFlight' = inFlight, versions' = versions, epoch' = epoch, batch' = batch,
           requestedRuns' \in Nat, drainPromise' \in Nat \cup {-1}, drain' \in [Epochs -> DrainStages]
    PROVE  ConfirmationInv' /\ Inquiry!Revise({}, {r})
<1>1. /\ ConfirmationShape /\ Flights /\ Pending
  BY DEF ConfirmationInv
<1>2. /\ queue' \in Seq(Ids) /\ IsInjective(queue')
      /\ ToSet(queue') = IF inFlight[r] = NoFlight THEN ToSet(queue) \cup {r} ELSE ToSet(queue)
      /\ deferred' = IF inFlight[r] # NoFlight /\ inFlight[r].version # versions[r]
                     THEN deferred \cup {r} ELSE deferred
  BY SchedulesOne
<1>3. ConfirmationShape'
  <2>1. deferred' \in SUBSET Ids /\ contexts' \in SUBSET Ids
    BY <1>1, <1>2 DEF ConfirmationShape
  <2>. QED
    BY <1>1, <1>2, <2>1 DEF ConfirmationShape
<1>4. Flights'
  BY <1>1 DEF Flights
<1>5. Pending'
  <2>1. \A x \in ToSet(queue') : inFlight'[x] = NoFlight
    BY <1>1, <1>2 DEF Pending
  <2>2. \A x \in deferred' : inFlight'[x] # NoFlight /\ inFlight'[x].version # versions'[x]
    BY <1>1, <1>2 DEF Pending
  <2>3. ASSUME NEW x \in Ids
        PROVE  x \in contexts' <=>
                   \/ x \in ToSet(queue') \/ x \in deferred'
                   \/ inFlight'[x] # NoFlight /\ inFlight'[x].version = versions'[x]
    <3>1. CASE x = r
      BY <1>2, <3>1
    <3>2. CASE x # r
      <4>1. /\ x \in contexts' <=> x \in contexts
            /\ x \in ToSet(queue') <=> x \in ToSet(queue)
            /\ x \in deferred' <=> x \in deferred
        BY <1>2, <3>2
      <4>. QED
        BY <1>1, <4>1 DEF Pending
    <3>. QED
      BY <3>1, <3>2
  <2>. QED
    BY <2>1, <2>2, <2>3 DEF Pending
<1>6. ConfirmationInv'
  BY <1>3, <1>4, <1>5 DEF ConfirmationInv
<1>7. ASSUME NEW x \in Ids \ {r} PROVE InquiryOf(x)' = InquiryOf(x)
  <2>1. /\ x \in ToSet(queue') <=> x \in ToSet(queue)
        /\ x \in deferred' <=> x \in deferred
        /\ inFlight'[x] = inFlight[x] /\ versions'[x] = versions[x]
    BY <1>2
  <2>2. ToldNow(x)' <=> ToldNow(x)
    BY StillTold
  <2>. QED
    BY <1>6, <2>1, <2>2, InquiryIs, InquiryIsNext
<1>8. InquiryOf(r)' = Inquiry!Wanted(InquiryOf(r))
  <2>1. CASE inFlight[r] = NoFlight
    <3>1. InquiryOf(r)' = "waiting"
      BY <1>2, <1>6, <2>1, InquiryIsNext
    <3>2. InquiryOf(r) = "waiting" \/ InquiryOf(r) = "none"
      BY <2>1, InquiryIs
    <3>. QED
      BY <3>1, <3>2, WishesAre
  <2>2. CASE inFlight[r] # NoFlight /\ inFlight[r].version = versions[r]
    <3>1. ToldNow(r)' <=> ToldNow(r)
      BY StillTold
    <3>2. InquiryOf(r)' = InquiryOf(r) /\ InquiryOf(r) \in {"told", "asked"}
      BY <1>6, <2>2, <3>1, InquiryIs, InquiryIsNext
    <3>. QED
      BY <3>2, WishesAre
  <2>3. CASE inFlight[r] # NoFlight /\ inFlight[r].version # versions[r]
    <3>1. InquiryOf(r)' = "again"
      BY <1>2, <1>6, <2>3, InquiryIsNext
    <3>2. InquiryOf(r) \in {"again", "dropped"}
      BY <2>3, InquiryIs
    <3>. QED
      BY <3>1, <3>2, WishesAre
  <2>. QED
    BY <2>1, <2>2, <2>3
<1>9. Inquiry!Revise({}, {r})
  <2>. DEFINE now == [x \in Ids |-> InquiryOf(x)]
  <2>1. \A x \in Ids : InquiryOf(x)' = IF x \in {} THEN Inquiry!Forgotten(now[x])
                                       ELSE IF x \in {r} THEN Inquiry!Wanted(now[x]) ELSE now[x]
    BY <1>7, <1>8
  <2>2. now' = [x \in Ids |-> InquiryOf(x)']
    BY InquiryNow
  <2>3. [x \in Ids |-> InquiryOf(x)'] =
            [x \in Ids |-> IF x \in {} THEN Inquiry!Forgotten(now[x])
                           ELSE IF x \in {r} THEN Inquiry!Wanted(now[x]) ELSE now[x]]
    BY <2>1
  <2>. QED
    BY <2>2, <2>3, Zenon DEF Inquiry!Revise
<1>. QED
  BY <1>6, <1>9

\* A schedule, of one file or of none, with or without a run.
LEMMA Schedules ==
    ASSUME ConfirmationInv, NEW ids \in {{}} \cup {{r} : r \in Ids}, NEW asked, Schedule(ids, asked)
    PROVE  /\ ConfirmationInv'
           /\ (\A x \in Ids : InquiryOf(x)' = InquiryOf(x)) \/ Inquiry!Revise({}, ids)
<1>1. /\ ConfirmationShape /\ Drained /\ epoch \in Epochs /\ epoch \in Nat
  BY EpochsAre DEF ConfirmationInv, ConfirmationShape
<1>2. /\ contexts' = contexts \cup ids /\ Enqueue(ids \ ToSet(queue))
      /\ inFlight' = inFlight /\ versions' = versions /\ epoch' = epoch /\ batch' = batch
  BY DEF Schedule
<1>3. /\ requestedRuns' \in Nat /\ drainPromise' \in Nat \cup {-1}
      /\ drain' \in [Epochs -> DrainStages] /\ Drained'
  <2>1. CASE asked
    <3>1. requestedRuns' = requestedRuns + 1 /\ EnsureDrain
      BY <2>1 DEF Schedule
    <3>2. CASE drainPromise # -1
      <4>1. drainPromise' = drainPromise /\ drain' = drain
        BY <3>1, <3>2 DEF EnsureDrain
      <4>. QED
        BY <1>1, <1>2, <3>1, <3>2, <4>1 DEF ConfirmationShape, Drained
    <3>3. CASE drainPromise = -1
      <4>1. drainPromise' = epoch /\ drain' = [drain EXCEPT ![epoch] = "loop"]
        BY <3>1, <3>3 DEF EnsureDrain
      <4>2. drain' \in [Epochs -> DrainStages] /\ requestedRuns' \in Nat
        BY <1>1, <3>1, <4>1 DEF ConfirmationShape, DrainStages
      <4>3. Drained'
        BY <1>1, <1>2, <3>3, <4>1 DEF ConfirmationShape, Drained
      <4>. QED
        BY <1>1, <4>1, <4>2, <4>3
    <3>. QED
      BY <3>2, <3>3
  <2>2. CASE ~asked
    <3>1. requestedRuns' = requestedRuns /\ drainPromise' = drainPromise /\ drain' = drain
      BY <2>2 DEF Schedule
    <3>. QED
      BY <1>1, <1>2, <3>1 DEF ConfirmationShape, Drained
  <2>. QED
    BY <2>1, <2>2
<1>4. CASE ids = {}
  <2>1. InFlight({}) = {} /\ OutOfDate({}) = {}
    BY DEF InFlight, OutOfDate
  <2>2. ids \ ToSet(queue) = {} /\ {} \ InFlight({}) = {}
    BY <1>4
  <2>3. queue' = queue \o SetToSeq({}) /\ deferred' = deferred \cup {}
    BY <1>2, <2>1, <2>2, Zenon DEF Enqueue
  <2>4. queue' = queue /\ deferred' = deferred /\ contexts' = contexts
    BY <1>1, <1>2, <1>4, <2>3, SetToSeqSmall DEF ConfirmationShape
  <2>5. ConfirmationShape'
    BY <1>1, <1>2, <1>3, <2>4 DEF ConfirmationShape
  <2>. QED
    BY <1>2, <1>3, <2>4, <2>5, SameBooks, SameInquiries
<1>5. ASSUME NEW r \in Ids, ids = {r} PROVE ConfirmationInv' /\ Inquiry!Revise({}, ids)
  <2>1. contexts' = contexts \cup {r} /\ Enqueue({r} \ ToSet(queue))
    BY <1>2, <1>5
  <2>2. ConfirmationInv' /\ Inquiry!Revise({}, {r})
    BY <1>2, <1>3, <2>1, Wants
  <2>. QED
    BY <1>5, <2>2
<1>. QED
  BY <1>4, <1>5

\* A batch takes what is first in the queue: its filter lets all of it pass.
LEMMA BatchTakes ==
    ASSUME ConfirmationInv, drain[epoch] = "loop"
    PROVE  LET taken == OnlyOf(Candidates, {r \in contexts : inFlight[r] = NoFlight})
               rest == SubSeq(queue, Len(Candidates) + 1, Len(queue))
           IN  /\ taken \in Seq(Ids) /\ IsInjective(taken)
               /\ rest \in Seq(Ids) /\ IsInjective(rest)
               /\ ToSet(taken) \cup ToSet(rest) = ToSet(queue)
               /\ ToSet(taken) \cap ToSet(rest) = {}
<1>. DEFINE m == Min({Len(queue), MaxCandidates})
            S == {r \in contexts : inFlight[r] = NoFlight}
            rest == SubSeq(queue, Len(Candidates) + 1, Len(queue))
<1>1. queue \in Seq(Ids) /\ IsInjective(queue) /\ Len(queue) \in Nat
  BY DEF ConfirmationInv, ConfirmationShape
<1>2. m \in 0 .. Len(queue)
  <2>1. {Len(queue), MaxCandidates} \subseteq Nat /\ {Len(queue), MaxCandidates} # {}
    BY <1>1, ConfirmationAssumption
  <2>2. m \in {Len(queue), MaxCandidates} /\ m <= Len(queue)
    BY <2>1, MinIs
  <2>. QED
    BY <1>1, <2>1, <2>2
<1>. HIDE DEF m
<1>3. Candidates = SubSeq(queue, 1, m)
  BY DEF Candidates, m
<1>4. /\ Candidates \in Seq(Ids) /\ IsInjective(Candidates) /\ Len(Candidates) = m
      /\ SubSeq(queue, m + 1, Len(queue)) \in Seq(Ids)
      /\ IsInjective(SubSeq(queue, m + 1, Len(queue)))
      /\ ToSet(Candidates) \cup ToSet(SubSeq(queue, m + 1, Len(queue))) = ToSet(queue)
      /\ ToSet(Candidates) \cap ToSet(SubSeq(queue, m + 1, Len(queue))) = {}
  BY <1>1, <1>2, <1>3, PartsAre
<1>5. ToSet(queue) \subseteq S
  <2>1. \A r \in ToSet(queue) : r \in Ids
    BY <1>1 DEF ToSet
  <2>. QED
    BY <2>1 DEF ConfirmationInv, Pending
<1>. HIDE DEF S
<1>6. Candidates \in Seq(S)
  <2>1. \A i \in 1 .. Len(Candidates) : Candidates[i] \in ToSet(Candidates)
    BY <1>4 DEF ToSet
  <2>2. \A i \in 1 .. Len(Candidates) : Candidates[i] \in S
    BY <1>4, <1>5, <2>1
  <2>. QED
    BY <1>4, <2>2
<1>7. OnlyOf(Candidates, S) = Candidates
  BY <1>6, OnlyOfAll
<1>. QED
  BY <1>4, <1>7 DEF S

\* A batch that begins.
LEMMA Begins ==
    ASSUME ConfirmationInv, NEW e \in Epochs, RunBatch(e)
    PROVE  ConfirmationInv' /\ \E roots \in SUBSET Ids : Inquiry!Ask(roots)
<1>1. /\ ConfirmationShape /\ Drained /\ Flights /\ Pending /\ epoch \in Epochs /\ epoch \in Nat
  BY EpochsAre DEF ConfirmationInv, ConfirmationShape
<1>2. e = epoch /\ drain[epoch] = "loop" /\ requestedRuns > 0
  BY DEF RunBatch
<1>3. PICK taken : taken = OnlyOf(Candidates, {r \in contexts : inFlight[r] = NoFlight})
  OBVIOUS
<1>4. PICK rest : rest = SubSeq(queue, Len(Candidates) + 1, Len(queue))
  OBVIOUS
<1>5. /\ taken \in Seq(Ids) /\ IsInjective(taken) /\ rest \in Seq(Ids) /\ IsInjective(rest)
      /\ ToSet(taken) \cup ToSet(rest) = ToSet(queue) /\ ToSet(taken) \cap ToSet(rest) = {}
  BY <1>2, <1>3, <1>4, BatchTakes
<1>6. PICK entries : entries = [i \in DOMAIN taken |->
                         [id |-> taken[i], version |-> versions[taken[i]],
                          stage |-> "taken", retry |-> FALSE]]
  OBVIOUS
<1>7. /\ requestedRuns' = requestedRuns - 1 /\ queue' = rest
      /\ inFlight' = [r \in Ids |-> IF r \in ToSet(taken)
                          THEN [epoch |-> epoch, version |-> versions[r]] ELSE inFlight[r]]
      /\ batch' = [batch EXCEPT ![epoch] = entries]
      /\ drain' = [drain EXCEPT ![epoch] = "batch"]
      /\ deferred' = deferred /\ contexts' = contexts /\ versions' = versions
      /\ epoch' = epoch /\ drainPromise' = drainPromise
  BY <1>2, <1>3, <1>4, <1>6 DEF RunBatch
<1>8. /\ DOMAIN entries = DOMAIN taken /\ entries \in Seq(Entries)
      /\ \A i \in DOMAIN taken : /\ taken[i] \in Ids /\ taken[i] \in ToSet(taken)
                                 /\ entries[i].id = taken[i] /\ entries[i].stage = "taken"
                                 /\ entries[i].version = versions[taken[i]]
  <2>1. \A i \in DOMAIN taken : taken[i] \in Ids /\ taken[i] \in ToSet(taken)
    BY <1>5 DEF ToSet
  <2>2. \A i \in DOMAIN taken : entries[i] \in Entries
    BY <1>1, <1>6, <2>1 DEF ConfirmationShape, Entries
  <2>3. DOMAIN taken = 1 .. Len(taken) /\ Len(taken) \in Nat /\ DOMAIN entries = DOMAIN taken
    BY <1>5, <1>6
  <2>4. entries \in [1 .. Len(taken) -> Entries]
    BY <1>6, <2>2, <2>3
  <2>5. entries \in Seq(Entries)
    BY <2>3, <2>4
  <2>. QED
    BY <1>6, <2>1, <2>3, <2>5
<1>9. batch'[epoch] = entries
  BY <1>1, <1>7 DEF ConfirmationShape
<1>10. \A r \in Ids : inFlight[r] = NoFlight
  <2>1. batch[epoch] = <<>>
    BY <1>1, <1>2 DEF Drained
  <2>. QED
    BY <1>1, <2>1 DEF Flights
<1>11. deferred = {}
  BY <1>1, <1>10 DEF Pending, ConfirmationShape
<1>12. ASSUME NEW r \in Ids
       PROVE  /\ r \in ToSet(taken) => /\ inFlight'[r] = [epoch |-> epoch, version |-> versions[r]]
                                       /\ inFlight'[r] # NoFlight /\ inFlight'[r].version = versions[r]
                                       /\ inFlight'[r].epoch = epoch
              /\ r \notin ToSet(taken) => inFlight'[r] = NoFlight
  BY <1>1, <1>7, <1>10 DEF NoFlight
<1>13. ConfirmationShape'
  <2>1. inFlight' \in [Ids -> Places]
    <3>1. ASSUME NEW r \in Ids PROVE inFlight'[r] \in Places
      <4>1. [epoch |-> epoch, version |-> versions[r]] \in Places
        BY <1>1 DEF ConfirmationShape, Places
      <4>. QED
        BY <1>12, <4>1, NoFlightIs
    <3>. QED
      BY <1>7, <3>1
  <2>2. requestedRuns' \in Nat
    BY <1>1, <1>2, <1>7 DEF ConfirmationShape
  <2>. QED
    BY <1>1, <1>5, <1>7, <1>8, <2>1, <2>2 DEF ConfirmationShape, DrainStages
<1>14. Drained'
  BY <1>1, <1>2, <1>7 DEF ConfirmationShape, Drained
<1>15. Flights'
  <2>1. \A i, j \in DOMAIN entries : entries[i].id = entries[j].id => i = j
    BY <1>5, <1>8 DEF IsInjective
  <2>2. \A i \in DOMAIN entries :
            inFlight'[entries[i].id] = [epoch |-> epoch, version |-> entries[i].version]
    BY <1>8, <1>12
  <2>3. ASSUME NEW r \in Ids, inFlight'[r] # NoFlight
        PROVE  /\ inFlight'[r].epoch = epoch /\ inFlight'[r].version \in Nat
               /\ inFlight'[r].version <= versions[r]
               /\ \E i \in DOMAIN entries : entries[i].id = r
    <3>1. r \in ToSet(taken) /\ versions[r] \in Nat
      BY <1>1, <1>12, <2>3 DEF ConfirmationShape
    <3>2. \E i \in DOMAIN taken : taken[i] = r
      BY <3>1 DEF ToSet
    <3>3. \E i \in DOMAIN entries : entries[i].id = r
      BY <1>8, <3>2
    <3>4. /\ inFlight'[r].epoch = epoch /\ inFlight'[r].version \in Nat
          /\ inFlight'[r].version <= versions[r]
      <4>1. inFlight'[r].epoch = epoch /\ inFlight'[r].version = versions[r]
        BY <1>12, <3>1, Zenon
      <4>2. PICK n \in Nat : versions[r] = n
        BY <3>1
      <4>. QED
        BY <4>1, <4>2
    <3>. QED
      BY <3>3, <3>4
  <2>. QED
    BY <1>7, <1>9, <2>1, <2>2, <2>3 DEF Flights
<1>16. Pending'
  <2>1. \A x \in ToSet(queue') : inFlight'[x] = NoFlight
    <3>1. \A x \in ToSet(rest) : x \in Ids /\ x \notin ToSet(taken)
      BY <1>5 DEF ToSet
    <3>. QED
      BY <1>7, <1>12, <3>1
  <2>2. ASSUME NEW x \in Ids
        PROVE  x \in contexts' <=>
                   \/ x \in ToSet(queue') \/ x \in deferred'
                   \/ inFlight'[x] # NoFlight /\ inFlight'[x].version = versions'[x]
    <3>1. x \in contexts <=> x \in ToSet(queue)
      BY <1>1, <1>10, <1>11 DEF Pending
    <3>. QED
      BY <1>5, <1>7, <1>11, <1>12, <3>1
  <2>. QED
    BY <1>7, <1>11, <2>1, <2>2 DEF Pending
<1>17. ConfirmationInv'
  BY <1>13, <1>14, <1>15, <1>16 DEF ConfirmationInv
<1>18. \A x \in Ids : ~ToldNow(x)'
  BY <1>7, <1>8, <1>9, ToldNowIs
<1>19. ASSUME NEW x \in Ids
       PROVE  /\ x \in ToSet(taken) => InquiryOf(x) = "waiting" /\ InquiryOf(x)' = "asked"
              /\ x \notin ToSet(taken) => InquiryOf(x)' = InquiryOf(x)
  <2>1. CASE x \in ToSet(taken)
    <3>1. InquiryOf(x) = "waiting"
      BY <1>5, <2>1, InquiryIs
    <3>2. InquiryOf(x)' = "asked"
      BY <1>7, <1>12, <1>17, <1>18, <2>1, InquiryIsNext
    <3>. QED
      BY <2>1, <3>1, <3>2
  <2>2. CASE x \in ToSet(rest)
    <3>1. InquiryOf(x) = "waiting" /\ InquiryOf(x)' = "waiting"
      BY <1>5, <1>7, <1>17, <2>2, InquiryIs, InquiryIsNext
    <3>. QED
      BY <1>5, <2>2, <3>1
  <2>3. CASE x \notin ToSet(queue)
    <3>1. InquiryOf(x) = "none"
      BY <1>10, <2>3, InquiryIs
    <3>2. InquiryOf(x)' = "none"
      BY <1>5, <1>7, <1>12, <1>17, <2>3, InquiryIsNext
    <3>. QED
      BY <1>5, <2>3, <3>1, <3>2
  <2>. QED
    BY <1>5, <2>1, <2>2, <2>3
<1>20. Inquiry!Ask(ToSet(taken))
  <2>. DEFINE now == [x \in Ids |-> InquiryOf(x)]
  <2>1. \A x \in ToSet(taken) : x \in Ids
    BY <1>5 DEF ToSet
  <2>2. \A x \in ToSet(taken) : now[x] = "waiting"
    BY <1>19, <2>1
  <2>3. now' = [x \in Ids |-> InquiryOf(x)']
    BY InquiryNow
  <2>4. [x \in Ids |-> InquiryOf(x)'] =
            [x \in Ids |-> IF x \in ToSet(taken) THEN "asked" ELSE now[x]]
    BY <1>19
  <2>. QED
    BY <2>2, <2>3, <2>4, Zenon DEF Inquiry!Ask
<1>21. ToSet(taken) \in SUBSET Ids
  BY <1>5 DEF ToSet
<1>. QED
  BY <1>17, <1>20, <1>21

\* What the page sees of a step.
InquirySteps == Inquiry!InquiryNext \/ UNCHANGED [x \in Ids |-> InquiryOf(x)]

\* Every step keeps the books, and is one that the page may see or none to it.
LEMMA ConfirmationStep ==
    ConfirmationInv /\ [ConfirmationNext]_confirmationVars => ConfirmationInv' /\ InquirySteps
<1>. SUFFICES ASSUME ConfirmationInv, [ConfirmationNext]_confirmationVars
              PROVE  ConfirmationInv' /\ InquirySteps
  OBVIOUS
<1>1. ASSUME \A x \in Ids : InquiryOf(x)' = InquiryOf(x) PROVE InquirySteps
  <2>1. [x \in Ids |-> InquiryOf(x)'] = [x \in Ids |-> InquiryOf(x)]
    BY <1>1
  <2>. QED
    BY <2>1, InquiryNow, Zenon DEF InquirySteps
<1>2. ASSUME NEW ids \in {{}} \cup {{r} : r \in Ids}, NEW asked \in BOOLEAN, Schedule(ids, asked)
      PROVE  ConfirmationInv' /\ InquirySteps
  <2>1. /\ ConfirmationInv'
        /\ (\A x \in Ids : InquiryOf(x)' = InquiryOf(x)) \/ Inquiry!Revise({}, ids)
    BY <1>2, Schedules
  <2>2. ids \in SUBSET Ids
    OBVIOUS
  <2>3. Inquiry!Revise({}, ids) => InquirySteps
    BY <2>2, Zenon DEF InquirySteps, Inquiry!InquiryNext
  <2>. QED
    BY <1>1, <2>1, <2>3
<1>3. ASSUME NEW r \in Ids, ForgetRoot(r) PROVE ConfirmationInv' /\ InquirySteps
  BY <1>3, Forgets, Zenon DEF InquirySteps, Inquiry!InquiryNext
<1>4. CASE Reset
  BY <1>4, Resets, Zenon DEF InquirySteps, Inquiry!InquiryNext
<1>5. ASSUME NEW e \in Epochs, RunBatch(e) PROVE ConfirmationInv' /\ InquirySteps
  BY <1>5, Begins, Zenon DEF InquirySteps, Inquiry!InquiryNext
<1>6. ASSUME NEW e \in Epochs, TakeEntry(e) \/ BatchEnds(e) \/ LoopEnds(e) \/ DrainEnds(e)
      PROVE  ConfirmationInv' /\ InquirySteps
  BY <1>1, <1>6, DrainMoves
<1>7. ASSUME NEW e \in Epochs, NEW i \in DOMAIN batch[e], Answer(e, i) \/ AnswerFails(e, i) \/ Told(e, i)
      PROVE  ConfirmationInv' /\ InquirySteps
  <2>1. /\ versions' = versions /\ epoch' = epoch /\ requestedRuns' = requestedRuns
        /\ drainPromise' = drainPromise /\ drain' = drain
    BY <1>7 DEF Answer, AnswerFails, Told
  <2>2. batch[e][i].id \in Ids /\ batch[e][i].retry \in BOOLEAN
    BY EntryIs DEF ConfirmationInv
  <2>3. ASSUME e # epoch, NEW retry \in BOOLEAN, Settle(e, i, retry)
        PROVE  ConfirmationInv' /\ InquirySteps
    BY <1>1, <2>1, <2>3, SettlesLate
  <2>4. ASSUME e = epoch, NEW retry \in BOOLEAN, Settle(e, i, retry),
               \/ batch[e][i].stage = "told"
               \/ /\ batch[e][i].stage = "asked"
                  /\ batch[e][i].version = versions[batch[e][i].id] => retry = TRUE
        PROVE  ConfirmationInv' /\ InquirySteps
    <3>1. ConfirmationInv' /\ Inquiry!Finish(batch[epoch][i].id, retry)
      BY <2>1, <2>4, Finishes
    <3>2. batch[epoch][i].id \in Ids
      BY <2>2, <2>4
    <3>. QED
      BY <3>1, <3>2, Zenon DEF InquirySteps, Inquiry!InquiryNext
  <2>5. CASE Answer(e, i)
    <3>1. batch[e][i].stage = "asked"
      BY <2>5 DEF Answer
    <3>2. CASE e = epoch /\ batch[e][i].version = versions[batch[e][i].id]
      <4>1. PICK retry \in BOOLEAN :
                batch' = [batch EXCEPT ![e][i] = [@ EXCEPT !.stage = "told", !.retry = retry]]
        BY <2>5, <3>2, Zenon DEF Answer
      <4>2. inFlight' = inFlight /\ deferred' = deferred /\ queue' = queue /\ contexts' = contexts
        BY <2>5, <3>2 DEF Answer
      <4>3. ConfirmationInv' /\ Inquiry!Tell(batch[epoch][i].id)
        BY <2>1, <3>1, <3>2, <4>1, <4>2, Tells
      <4>4. batch[epoch][i].id \in Ids
        BY <2>2, <3>2
      <4>. QED
        BY <4>3, <4>4, Zenon DEF InquirySteps, Inquiry!InquiryNext
    <3>3. CASE ~(e = epoch /\ batch[e][i].version = versions[batch[e][i].id])
      <4>1. Settle(e, i, FALSE)
        BY <2>5, <3>3, Zenon DEF Answer
      <4>. QED
        BY <2>3, <2>4, <3>1, <3>3, <4>1
    <3>. QED
      BY <3>2, <3>3
  <2>6. CASE AnswerFails(e, i)
    <3>1. batch[e][i].stage = "asked" /\ Settle(e, i, TRUE)
      BY <2>6 DEF AnswerFails
    <3>. QED
      BY <2>3, <2>4, <3>1
  <2>7. CASE Told(e, i)
    <3>1. batch[e][i].stage = "told" /\ Settle(e, i, batch[e][i].retry)
      BY <2>7 DEF Told
    <3>. QED
      BY <2>2, <2>3, <2>4, <3>1
  <2>. QED
    BY <1>7, <2>5, <2>6, <2>7
<1>8. CASE UNCHANGED confirmationVars
  <2>1. /\ queue' = queue /\ deferred' = deferred /\ inFlight' = inFlight /\ contexts' = contexts
        /\ versions' = versions /\ epoch' = epoch /\ requestedRuns' = requestedRuns
        /\ drainPromise' = drainPromise /\ drain' = drain /\ batch' = batch
    BY <1>8 DEF confirmationVars
  <2>2. ConfirmationShape' /\ Drained'
    BY <2>1 DEF ConfirmationInv, ConfirmationShape, Drained
  <2>. QED
    BY <1>1, <2>1, <2>2, SameBooks, SameInquiries
<1>. QED
  BY <1>2, <1>3, <1>4, <1>5, <1>6, <1>7, <1>8
  DEF ConfirmationNext, DrainStep, FlightStep

\* What was scheduled is pending while the books are in order.
LEMMA BooksAreKept == ConfirmationInv => WantedIsPending
<1>. SUFFICES ASSUME ConfirmationInv PROVE WantedIsPending
  OBVIOUS
<1>1. ASSUME NEW r \in Ids
      PROVE  r \in contexts <=> InquiryOf(r) \in {"waiting", "asked", "told", "again"}
  <2>1. r \in contexts <=> \/ r \in ToSet(queue) \/ r \in deferred
                           \/ inFlight[r] # NoFlight /\ inFlight[r].version = versions[r]
    BY DEF ConfirmationInv, Pending
  <2>2. r \in deferred => inFlight[r] # NoFlight /\ inFlight[r].version # versions[r]
    BY DEF ConfirmationInv, Pending
  <2>. QED
    BY <2>1, <2>2, InquiryIs
<1>2. contexts \subseteq Ids
  BY DEF ConfirmationInv, ConfirmationShape
<1>3. contexts = {r \in Ids : InquiryOf(r) \in {"waiting", "asked", "told", "again"}}
  BY <1>1, <1>2
<1>4. requestedRuns > 0 => drainPromise = epoch /\ drain[epoch] # "none"
  <2>1. requestedRuns > 0 => requestedRuns # 0
    BY DEF ConfirmationInv, ConfirmationShape
  <2>. QED
    BY <2>1 DEF ConfirmationInv, Drained
<1>. QED
  BY <1>3, <1>4 DEF WantedIsPending

\* schedule, forget, reset, the drains and the answers of createRemoteRootConfirmationScheduler
\* lose no request and leave none over, and a run that was asked for has a drain.
THEOREM WantedFilesArePending == ConfirmationSpec => []WantedIsPending
<1>1. ConfirmationInv /\ [ConfirmationNext]_confirmationVars => ConfirmationInv'
  BY ConfirmationStep
<1>. QED
  BY <1>1, ConfirmationStarts, BooksAreKept, PTL DEF ConfirmationSpec

\* The scheduler, with its epochs, versions, batches and late answers, keeps the promises
\* of Inquiries: one inquiry at a time for each file, and no answer for what was forgotten.
THEOREM ConfirmationsImplementInquiries == ConfirmationSpec => ConfirmationsAreInquiries
<1>1. ConfirmationInit => Inquiry!InquiryInit
  <2>. SUFFICES ASSUME ConfirmationInit PROVE Inquiry!InquiryInit
    OBVIOUS
  <2>1. ConfirmationInv /\ ToSet(queue) = {} /\ \A r \in Ids : inFlight[r] = NoFlight
    BY ConfirmationStarts DEF ConfirmationInit, ToSet
  <2>2. \A r \in Ids : InquiryOf(r) = "none"
    BY <2>1, InquiryIs
  <2>3. [r \in Ids |-> InquiryOf(r)] = [r \in Ids |-> "none"]
    BY <2>2
  <2>. QED
    BY <2>3, Zenon DEF Inquiry!InquiryInit
<1>2. ConfirmationInv /\ [ConfirmationNext]_confirmationVars
          => ConfirmationInv' /\ [Inquiry!InquiryNext]_[r \in Ids |-> InquiryOf(r)]
  BY ConfirmationStep, Zenon DEF InquirySteps
<1>. QED
  BY <1>1, <1>2, ConfirmationStarts, PTL
  DEF ConfirmationSpec, ConfirmationsAreInquiries, Inquiry!InquirySpec
=============================================================================
