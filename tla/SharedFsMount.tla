--------------------------- MODULE SharedFsMount ---------------------------
(***************************************************************************)
(* The mount backend (packages/shared-fs/library/src/mount-backend.ts):    *)
(* files of a SharedFileSystem opened through the operating system.  An    *)
(* open handle has the whole content in a buffer and saves it with         *)
(* writeFile on flush, fsync and release.                                  *)
(*                                                                         *)
(* The clients of a peer use the same mount.  Each has at most one handle, *)
(* opened for writing; a handle for reading changes nothing.  The kernel   *)
(* sends the writes to a handle and its flushes independently of each      *)
(* other: a write may come while the handle is being saved.  A truncate of *)
(* a handle is a write; one of a path is an open, a write and a release.   *)
(***************************************************************************)
EXTENDS SharedFileSystem

CONSTANTS
    Opens,      \* what clients may open: [path, create, truncate]
    Empty       \* the content of an empty file

ASSUME MountAssumption ==
    /\ Empty \in Contents
    /\ \A o \in Opens : /\ IsSequence(o.path) /\ (o.path # <<>> => Last(o.path) \in Names)
                         /\ {o.create, o.truncate} \subseteq BOOLEAN

VARIABLES
    handle,     \* handle[c]: the handle that c has open
    saves       \* history: what was saved by handles, see PutSavedVersion

mountVars == <<vars, handle, saves>>

\* base and baseContent are baseVersionIds and baseContentHash.  opened,
\* seen and saved are history: the versions that were heads when the file was
\* opened, or None for a new file; of these the ones the client got, or was
\* free to get as conflicts; and the versions that the handle has saved.
Closed == [phase |-> "closed", path |-> <<>>, create |-> FALSE, truncate |-> FALSE,
           content |-> Empty, dirty |-> FALSE, base |-> None, baseContent |-> None,
           opened |-> None, seen |-> {}, saved |-> {}]

MountInit ==
    /\ Init
    /\ handle = [c \in Clients |-> Closed]
    /\ saves = {}

IsOpen(c) == handle[c].phase \in {"open", "releasing"}

\* The call of c is a save of its handle.
IsSave(c) == IsOpen(c) /\ op[c].call = "write"

SetHandle(c, h) == handle' = [handle EXCEPT ![c] = h]

-----------------------------------------------------------------------------
(* open: first the entry of the path (findEntry), then the content.        *)

OpenPath(c, o) ==
    LET p == PeerOf[c]
        n == ResolvePath(p, o.path)
        exists == n # None /\ Shown(p, n)
        new == [Closed EXCEPT !.phase = "opening", !.path = o.path,
                              !.create = o.create, !.truncate = o.truncate]
    IN
    /\ handle[c] = Closed /\ op[c] = Idle /\ calls < MaxCalls
    /\ ~IsDirectory(p, n)
    /\ SetHandle(c, IF exists
                    THEN [new EXCEPT !.base = Heads(p, n), !.opened = Heads(p, n),
                                     !.baseContent = versions[Visible(p, n)].content]
                    ELSE new)
    /\ calls' = calls + 1
    /\ UNCHANGED <<documents, op, saves>>

\* readFile returns nothing when the path shows no file any more.
LoadContent(c) ==
    LET p == PeerOf[c]
        h == handle[c]
        n == ResolvePath(p, h.path)
        absent == n = None \/ IsDirectory(p, n) \/ Visible(p, n) = None
        loaded == [h EXCEPT !.phase = "open",
                            !.dirty = h.truncate \/ (h.create /\ h.base = None)]
    IN
    /\ h.phase = "opening"
    /\ \/ /\ h.truncate \/ h.base = None \/ absent
          /\ SetHandle(c, [loaded EXCEPT !.seen = IF h.base = None THEN {} ELSE h.base])
       \/ /\ ~h.truncate /\ h.base # None /\ ~absent
          /\ \E available \in Available(p) :
                LET v == ReadVersion(p, n, available)
                IN SetHandle(c,
                     IF v = None THEN Closed
                     ELSE [loaded EXCEPT !.content = versions[v].content,
                                         !.seen = (h.base \ {Max(h.base)}) \cup {v}])
    /\ UNCHANGED <<vars, saves>>

WriteHandle(c, content) ==
    /\ handle[c].phase = "open"
    /\ SetHandle(c, [handle[c] EXCEPT !.content = content, !.dirty = TRUE])
    /\ UNCHANGED <<vars, saves>>

-----------------------------------------------------------------------------
(* commit                                                                  *)

\* A save that would change nothing is none.
NothingToSave(h) ==
    h.baseContent = h.content /\ (h.base = None \/ Cardinality(h.base) <= 1)

\* Of a save that fails, the handle is dirty again; release gives it up.
AfterFailure(h) == IF h.phase = "releasing" THEN Closed ELSE [h EXCEPT !.dirty = TRUE]

\* writeFile fails: there is a directory at the path, or none to put it in.
Unwritable(c) ==
    LET p == PeerOf[c]
    IN \/ IsDirectory(p, ResolvePath(p, handle[c].path))
       \/ ResolveParent(p, handle[c].path) = None

\* The handle is clean from here on, so that a write during the save makes it
\* dirty again.
MutCommit(c) ==
    LET h == handle[c]
        clean == [h EXCEPT !.dirty = FALSE]
    IN
    /\ IsOpen(c) /\ h.dirty /\ op[c] = Idle
    /\ \/ NothingToSave(h) /\ SetHandle(c, clean) /\ UNCHANGED vars
       \/ /\ ~NothingToSave(h)
          /\ SetHandle(c, clean)
          /\ WriteFile(c, h.path, h.content, None)
    /\ UNCHANGED saves

Commit(c) ==
    LET h == handle[c]
        clean == [h EXCEPT !.dirty = FALSE]
    IN
    /\ IsOpen(c) /\ h.dirty /\ op[c] = Idle
    /\ \/ NothingToSave(h) /\ SetHandle(c, clean) /\ UNCHANGED vars
       \/ /\ ~NothingToSave(h)
          /\ SetHandle(c, clean)
          /\ WriteFile(c, h.path, h.content, h.base)
       \/ ~NothingToSave(h) /\ Unwritable(c) /\ SetHandle(c, AfterFailure(h)) /\ UNCHANGED vars
    /\ UNCHANGED saves

\* The buffer that is being saved is the one that writes go to, unless they
\* made it grow: the heads are read, then the bytes.
SaveReadsHeads(c) ==
    /\ IsSave(c)
    /\ \E content \in {op[c].content, handle[c].content} : ReadHeadsFor(c, content)
    /\ UNCHANGED <<handle, saves>>

\* A chunk that was written to since its hash was taken is refused.
ChunkRefused(c) ==
    /\ IsSave(c)
    /\ op[c].phase = "chunks"
    /\ op[c].content # handle[c].content
    /\ op[c].content \notin chunks[PeerOf[c]]
    /\ Fail(c)
    /\ SetHandle(c, AfterFailure(handle[c]))
    /\ UNCHANGED <<documents, saves>>

PutSavedVersion(c) ==
    LET h == handle[c]
    IN
    /\ IsSave(c)
    /\ PutVersion(c)
    /\ saves' = saves \cup {[version |-> Len(versions'), opened |-> h.opened,
                             seen |-> h.seen, earlier |-> h.saved]}
    /\ SetHandle(c, [h EXCEPT !.saved = @ \cup {Len(versions')}])

MutCleanAfterwards(c) ==
    LET h == handle[c]
    IN
    /\ IsSave(c)
    /\ Return(c)
    /\ SetHandle(c, IF h.phase = "releasing" THEN Closed
                    ELSE [h EXCEPT !.base = {op[c].result}, !.dirty = FALSE,
                                   !.baseContent = versions[op[c].result].content])
    /\ UNCHANGED saves

SaveReturns(c) ==
    LET h == handle[c]
    IN
    /\ IsSave(c)
    /\ Return(c)
    /\ SetHandle(c, IF h.phase = "releasing" THEN Closed
                    ELSE [h EXCEPT !.base = {op[c].result},
                                   !.baseContent = versions[op[c].result].content])
    /\ UNCHANGED saves

\* release saves what is left to save and drops the handle, saved or not.
Release(c) ==
    /\ handle[c].phase = "open"
    /\ SetHandle(c, [handle[c] EXCEPT !.phase = "releasing"])
    /\ UNCHANGED <<vars, saves>>

Released(c) ==
    /\ handle[c].phase = "releasing" /\ ~handle[c].dirty /\ op[c] = Idle
    /\ SetHandle(c, Closed)
    /\ UNCHANGED <<vars, saves>>

-----------------------------------------------------------------------------
(* Calls of the clients that are not about a handle.                       *)

\* The handles of the mount follow a rename, once it has returned.
Retarget(h, from, to) ==
    IF IsPrefix(from, h.path)
    THEN [h EXCEPT !.path = to \o SubSeq(@, Len(from) + 1, Len(@))]
    ELSE h

ReturnCall(c) ==
    /\ ~IsSave(c)
    /\ Return(c)
    /\ handle' = IF op[c].call # "rename" THEN handle
                 ELSE [d \in Clients |->
                         IF PeerOf[d] = PeerOf[c] /\ IsOpen(d)
                         THEN Retarget(handle[d], op[c].from, op[c].path)
                         ELSE handle[d]]
    /\ UNCHANGED saves

StepOfCall(c) ==
    /\ IF IsSave(c) THEN PutChunks(c) \/ PutRecord(c) ELSE Step(c)
    /\ UNCHANGED <<handle, saves>>

CallWithoutHandle(c) ==
    /\ handle[c] = Closed
    /\ Call(c)
    /\ UNCHANGED <<handle, saves>>

CrashMount(p) ==
    /\ Crash(p)
    /\ handle' = [c \in Clients |-> IF PeerOf[c] = p THEN Closed ELSE handle[c]]
    /\ UNCHANGED saves

MountNext ==
    \/ \E c \in Clients :
        \/ \E o \in Opens : OpenPath(c, o)
        \/ \E x \in Contents : WriteHandle(c, x)
        \/ LoadContent(c) \/ Commit(c) \/ Release(c) \/ Released(c)
        \/ SaveReadsHeads(c) \/ ChunkRefused(c) \/ PutSavedVersion(c) \/ SaveReturns(c)
        \/ CallWithoutHandle(c) \/ StepOfCall(c) \/ ReturnCall(c)
    \/ \E p \in Peers :
        \/ Deliver(p) /\ UNCHANGED <<handle, saves>>
        \/ CrashMount(p)

MountSpec == MountInit /\ [][MountNext]_mountVars

-----------------------------------------------------------------------------

HandleType(h) ==
    /\ h.phase \in {"closed", "opening", "open", "releasing"}
    /\ {h.create, h.truncate, h.dirty} \subseteq BOOLEAN
    /\ h.content \in Contents /\ h.baseContent \in Contents \cup {None}
    /\ h.base = None \/ h.base \in (SUBSET DOMAIN versions) \ {{}}
    /\ (h.base = None) = (h.baseContent = None)

\* The type invariant of the mount; a handle that knows what it was opened
\* from knows both the heads and the content.
MountTypeOK ==
    /\ TypeOK
    /\ \A c \in Clients : HandleType(handle[c])
    /\ \A s \in saves : s.version \in DOMAIN versions

\* v and what it replaces, directly or not.
History(v) ==
    LET back[i \in 0..Len(versions)] ==
          IF i = 0 THEN {v} ELSE UNION {versions[w].parents \cup {w} : w \in back[i - 1]}
    IN back[Len(versions)]

\* "Mounted saves record the head versions the handle was opened from so
\* concurrent remote edits become conflicts": a save from a handle that was
\* opened on a file replaces nothing but what showed when it was opened, what
\* that had replaced, and its own earlier saves.
RemoteEditsBecomeConflicts ==
    \A s \in saves : s.opened # None =>
        History(s.version) \ {s.version} \subseteq
            UNION {History(v) : v \in s.opened \cup s.earlier}

\* "Writes landing during the commit mark the handle dirty again instead of
\* being lost": the buffer of a clean handle that has saved something is what
\* it saved, however writes and saves overlapped.
LastWriteIsSaved ==
    \A c \in Clients, s \in saves :
        /\ handle[c].phase = "open" /\ ~handle[c].dirty /\ op[c] = Idle
        /\ s.version \in handle[c].saved /\ handle[c].base = {s.version}
        => versions[s.version].content = handle[c].content

\* "Concurrent versions are never overwritten silently": a save replaces only
\* what its client could know.
NothingOverwrittenSilently ==
    \A s \in saves :
        versions[s.version].parents \subseteq
            UNION {History(v) : v \in s.seen \cup s.earlier}

\* Saves of a file that was opened are versions of that file, wherever it is
\* renamed to meanwhile ("rename updates open handles").
SavesStayWithFile ==
    \A s \in saves : s.opened # None =>
        \A v \in s.opened : versions[v].node = versions[s.version].node
=============================================================================
