----------------------------- MODULE DownloadSink -----------------------------
(***************************************************************************)
(* Downloads through origin-private files (download-sink.ts): the writer   *)
(* of a tab, the marker of what was delivered, and the cleanup that every  *)
(* tab runs over the files of all tabs, some of which may have ended.      *)
(*                                                                         *)
(* Time is kept as the age of a file and of its delivery, in steps of the  *)
(* delivered retention, up to the crash-recovery window.  A cleanup lists  *)
(* the files and decides what has expired in one step, and then goes       *)
(* through them one by one.                                                *)
(***************************************************************************)
EXTENDS Integers

CONSTANTS
    Tabs, Downloads,    \* bound: each download is started once
    CrashRecovery       \* crashRecoveryMs, in units of deliveredRetentionMs

ASSUME SinkAssumption == CrashRecovery \in Nat \ {0, 1}

VARIABLES
    locks,              \* the browser has entry locks (navigator.locks)
    up,                 \* the tabs that are open
    owner,              \* owner[d]: the tab of d
    writer,             \* writer[d]: the stage of its writer
    file, marker,       \* the names in the directory: data, and delivered
    age, deliveredAge,  \* of a file and of its delivery, in time steps
    activeOpfsDownloads,   \* of all tabs
    leases,             \* the downloads whose lock is held
    cleanup,            \* cleanup[t][d]: what the cleanup of t is to do with d
    startup,            \* the tabs whose cleanup schedules another one if it has to
    retries,            \* those among them that have to
    timers              \* the tabs that have a cleanup scheduled

sinkVars == <<locks, up, owner, writer, file, marker, age, deliveredAge,
              activeOpfsDownloads, leases, cleanup, startup, retries, timers>>
storage == <<file, marker>>

Retention == 1
Nobody == "nobody"
Verdicts == {"nothing", "later", "expired", "crashed", "orphan"}
NoCleanup == [d \in Downloads |-> "nothing"]
Stages == {"unused", "reserving", "open", "closing", "delivered", "removing", "retry",
           "done", "abandoned"}

SinkInit ==
    /\ locks \in BOOLEAN
    /\ up = {}
    /\ owner = [d \in Downloads |-> Nobody]
    /\ writer = [d \in Downloads |-> "unused"]
    /\ file = {} /\ marker = {}
    /\ age = [d \in Downloads |-> 0] /\ deliveredAge = [d \in Downloads |-> 0]
    /\ activeOpfsDownloads = {} /\ leases = {}
    /\ cleanup = [t \in Tabs |-> NoCleanup]
    /\ startup = {} /\ retries = {} /\ timers = {}

SinkTypeOK ==
    /\ locks \in BOOLEAN /\ up \subseteq Tabs
    /\ owner \in [Downloads -> Tabs \cup {Nobody}]
    /\ writer \in [Downloads -> Stages]
    /\ file \subseteq Downloads /\ marker \subseteq Downloads
    /\ age \in [Downloads -> 0..CrashRecovery]
    /\ deliveredAge \in [Downloads -> 0..Retention]
    /\ activeOpfsDownloads \subseteq Downloads /\ leases \subseteq Downloads
    /\ cleanup \in [Tabs -> [Downloads -> Verdicts]]
    /\ startup \subseteq Tabs /\ retries \subseteq startup /\ timers \subseteq Tabs

Goes(d, stage) == writer' = [writer EXCEPT ![d] = stage]

-----------------------------------------------------------------------------
(* Cleaning up. *)

\* What cleanupStaleOpfsDownloads finds: the delivered ones expire soon, the others
\* only after the crash-recovery window; a marker may be left without its file.
Verdict(d) ==
    IF d \in file
    THEN CASE d \in marker /\ deliveredAge[d] >= Retention -> "expired"
           [] d \notin marker /\ age[d] >= CrashRecovery -> "crashed"
           [] OTHER -> "later"
    ELSE IF d \notin marker THEN "nothing"
    ELSE IF deliveredAge[d] >= Retention THEN "orphan" ELSE "later"

Lists(t) == cleanup' = [cleanup EXCEPT ![t] = [d \in Downloads |-> Verdict(d)]]

\* cleanupOpfsDownloadsOnStartup, when a tab opens and then by its timer.
StartTab(t) ==
    /\ t \notin up /\ up' = up \cup {t}
    /\ Lists(t) /\ startup' = startup \cup {t}
    /\ UNCHANGED <<locks, owner, writer, storage, age, deliveredAge, activeOpfsDownloads,
                   leases, retries, timers>>

TimedCleanup(t) ==
    /\ t \in timers /\ cleanup[t] = NoCleanup
    /\ timers' = timers \ {t} /\ Lists(t) /\ startup' = startup \cup {t}
    /\ UNCHANGED <<locks, up, owner, writer, storage, age, deliveredAge,
                   activeOpfsDownloads, leases, retries>>

\* Nobody has the entry's lock, or nobody needs one: without locks a file that was
\* not delivered is left alone.
MutMayRemove(d, verdict) == locks \/ verdict # "crashed"

MayRemove(d, verdict) == IF locks THEN d \notin leases ELSE verdict # "crashed"

\* The next name of a cleanup; removing its file or its marker may fail.
MutCleanEntry(t, d, fileGone, markerGone) ==
    LET own == d \in activeOpfsDownloads /\ owner[d] = t
        due == cleanup[t][d] # "later" /\ ~own
        removes == due /\ (cleanup[t][d] # "orphan" => MayRemove(d, cleanup[t][d]))
    IN
    /\ t \in up /\ cleanup[t][d] # "nothing"
    /\ cleanup' = [cleanup EXCEPT ![t][d] = "nothing"]
    /\ IF removes
       THEN /\ file' = IF fileGone THEN file \ {d} ELSE file
            /\ marker' = IF fileGone /\ markerGone THEN marker \ {d} ELSE marker
       ELSE fileGone /\ markerGone /\ UNCHANGED storage
    /\ retries' =
           IF t \notin startup \/ removes \/ (due /\ ~removes /\ ~locks)
           THEN retries ELSE retries \cup {t}
    /\ UNCHANGED <<locks, up, owner, writer, age, deliveredAge, activeOpfsDownloads,
                   leases, startup, timers>>

CleanEntry(t, d, fileGone, markerGone) ==
    LET own == d \in activeOpfsDownloads /\ owner[d] = t
        due == cleanup[t][d] # "later" /\ ~own
        removes == due /\ (cleanup[t][d] # "orphan" => MayRemove(d, cleanup[t][d]))
    IN
    /\ t \in up /\ cleanup[t][d] # "nothing"
    /\ cleanup' = [cleanup EXCEPT ![t][d] = "nothing"]
    /\ IF removes
       THEN /\ file' = IF fileGone THEN file \ {d} ELSE file
            /\ marker' = IF fileGone /\ markerGone THEN marker \ {d} ELSE marker
       ELSE fileGone /\ markerGone /\ UNCHANGED storage
    /\ retries' =
           IF t \notin startup \/ (removes /\ fileGone /\ markerGone) \/ (due /\ ~removes /\ ~locks)
           THEN retries ELSE retries \cup {t}
    /\ UNCHANGED <<locks, up, owner, writer, age, deliveredAge, activeOpfsDownloads,
                   leases, startup, timers>>

\* A cleanup that left something behind is run again later.
CleanupEnds(t) ==
    /\ t \in retries /\ cleanup[t] = NoCleanup
    /\ retries' = retries \ {t} /\ timers' = timers \cup {t}
    /\ UNCHANGED <<locks, up, owner, writer, storage, age, deliveredAge,
                   activeOpfsDownloads, leases, cleanup, startup>>

-----------------------------------------------------------------------------
(* Writing. *)

\* createOpfsDownloadWriter creates the file; when it cannot be written it tries to
\* take it away.
CreateWriter(t, d) ==
    /\ t \in up /\ writer[d] = "unused"
    /\ owner' = [owner EXCEPT ![d] = t]
    /\ \/ Goes(d, "reserving") /\ file' = file \cup {d}
       \/ Goes(d, "done") /\ file' \in {file, file \cup {d}}
    /\ UNCHANGED <<locks, up, marker, age, deliveredAge, activeOpfsDownloads, leases,
                   cleanup, retries, startup, timers>>

\* It has the lease (if there are any), and cleans up what others left.
AcquireEntryLease(d) ==
    LET t == owner[d]
    IN
    /\ writer[d] = "reserving" /\ Goes(d, "open")
    /\ activeOpfsDownloads' = activeOpfsDownloads \cup {d}
    /\ leases' = IF locks THEN leases \cup {d} ELSE leases
    /\ IF cleanup[t] = NoCleanup /\ t \notin retries
       THEN Lists(t) /\ startup' = startup \ {t}
       ELSE UNCHANGED <<cleanup, startup>>
    /\ UNCHANGED <<locks, up, owner, storage, age, deliveredAge, retries, timers>>

LeaseFails(d) ==
    /\ writer[d] = "reserving" /\ Goes(d, "done")
    /\ file' \in {file, file \ {d}}
    /\ UNCHANGED <<locks, up, owner, marker, age, deliveredAge, activeOpfsDownloads,
                   leases, cleanup, retries, startup, timers>>

\* abort, or close with a wrong size: the file is to be removed.
AbortWriter(d) ==
    /\ writer[d] \in {"open", "closing"} /\ Goes(d, "removing")
    /\ UNCHANGED <<locks, up, owner, storage, age, deliveredAge, activeOpfsDownloads,
                   leases, cleanup, retries, startup, timers>>

CloseWriter(d) ==
    /\ writer[d] = "open" /\ Goes(d, "closing")
    /\ UNCHANGED <<locks, up, owner, storage, age, deliveredAge, activeOpfsDownloads,
                   leases, cleanup, retries, startup, timers>>

\* The rest of close: the marker, if it can be made, and the handover to the browser.
Deliver(d) ==
    /\ writer[d] = "closing" /\ Goes(d, "delivered")
    /\ deliveredAge' = [deliveredAge EXCEPT ![d] = 0]
    /\ marker' \in {marker, marker \cup {d}}
    /\ UNCHANGED <<locks, up, owner, file, age, activeOpfsDownloads, leases, cleanup,
                   retries, startup, timers>>

\* The timer of the retention, or of a retry.
RemovalIsDue(d) ==
    /\ \/ writer[d] = "delivered" /\ deliveredAge[d] >= Retention
       \/ writer[d] = "retry"
    /\ Goes(d, "removing")
    /\ UNCHANGED <<locks, up, owner, storage, age, deliveredAge, activeOpfsDownloads,
                   leases, cleanup, retries, startup, timers>>

\* removeTemporaryEntry: the lease goes whatever comes of it.
RemoveTemporaryEntry(d, fileGone, markerGone) ==
    /\ writer[d] = "removing"
    /\ file' = IF fileGone THEN file \ {d} ELSE file
    /\ marker' = IF markerGone THEN marker \ {d} ELSE marker
    /\ Goes(d, IF fileGone /\ markerGone THEN "done" ELSE "retry")
    /\ activeOpfsDownloads' = activeOpfsDownloads \ {d}
    /\ leases' = leases \ {d}
    /\ UNCHANGED <<locks, up, owner, age, deliveredAge, cleanup, retries, startup, timers>>

-----------------------------------------------------------------------------
Of(t) == {d \in Downloads : owner[d] = t}

\* A tab is closed or crashes: its memory is lost and the browser frees its locks.
EndTab(t) ==
    /\ t \in up /\ up' = up \ {t}
    /\ writer' = [d \in Downloads |-> IF d \in Of(t) /\ writer[d] # "done"
                                      THEN "abandoned" ELSE writer[d]]
    /\ activeOpfsDownloads' = activeOpfsDownloads \ Of(t)
    /\ leases' = leases \ Of(t)
    /\ cleanup' = [cleanup EXCEPT ![t] = NoCleanup]
    /\ startup' = startup \ {t} /\ retries' = retries \ {t} /\ timers' = timers \ {t}
    /\ UNCHANGED <<locks, owner, storage, age, deliveredAge>>

\* Reserving an entry does not take as long as the crash-recovery window.
Older(n, max) == IF n < max THEN n + 1 ELSE max
Tick ==
    /\ \A d \in Downloads : writer[d] = "reserving" => age[d] < CrashRecovery - 1
    /\ age' = [d \in Downloads |->
           IF d \in file THEN Older(age[d], CrashRecovery) ELSE age[d]]
    /\ deliveredAge' = [d \in Downloads |->
           IF d \in marker \/ writer[d] = "delivered"
           THEN Older(deliveredAge[d], Retention) ELSE deliveredAge[d]]
    /\ <<age, deliveredAge>>' # <<age, deliveredAge>>
    /\ UNCHANGED <<locks, up, owner, writer, storage, activeOpfsDownloads, leases,
                   cleanup, retries, startup, timers>>

CleanSome(t) == \E d \in Downloads, f, m \in BOOLEAN : CleanEntry(t, d, f, m)
RemoveSome(d) == \E f, m \in BOOLEAN : RemoveTemporaryEntry(d, f, m)

SinkNext ==
    \/ \E t \in Tabs : \/ StartTab(t) \/ EndTab(t) \/ TimedCleanup(t)
                       \/ CleanSome(t) \/ CleanupEnds(t)
                       \/ \E d \in Downloads : CreateWriter(t, d)
    \/ \E d \in Downloads : \/ AcquireEntryLease(d) \/ LeaseFails(d) \/ AbortWriter(d) \/ CloseWriter(d)
                            \/ Deliver(d) \/ RemovalIsDue(d) \/ RemoveSome(d)
    \/ Tick

SinkSpec == SinkInit /\ [][SinkNext]_sinkVars

-----------------------------------------------------------------------------
\* A file that is being written, or that the browser may still be reading, is not
\* removed by the cleanup of any tab, whatever other tabs have crashed, and whether
\* or not the browser has locks.
LiveEntriesStay ==
    \A d \in Downloads :
        \/ writer[d] \in {"reserving", "open", "closing"}
        \/ writer[d] = "delivered" /\ deliveredAge[d] < Retention
        => d \in file

\* What a tab that ended has left behind is waited for once it is open again: its
\* cleanup has yet to come to it, or one is or will be scheduled, until nothing is
\* left.  (Without locks, a file without a marker is kept.)
LeftoversAreWatched ==
    \A d \in Downloads :
        /\ writer[d] = "abandoned" /\ d \in file \cup marker
        /\ locks \/ d \in marker
        /\ owner[d] \in up
        => cleanup[owner[d]][d] # "nothing" \/ owner[d] \in retries \cup timers
=============================================================================
