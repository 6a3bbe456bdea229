-------------------------- MODULE SharedFileSystem --------------------------
(***************************************************************************)
(* The shared filesystem (packages/shared-fs/library/src/index.ts): a tree *)
(* of directories and files kept as documents that every peer holds a      *)
(* replica of.  There are four kinds of documents:                         *)
(*   records   one per node (directory or file): where it is, and whether  *)
(*             it is deleted.  A record is put again to change it, and the *)
(*             last one put wins on every peer.  log is every record put,  *)
(*             in that order, and recs[p][n] is the one that p has of n.   *)
(*   versions  of a file, each naming the versions it replaces; a delete   *)
(*             marker is a version whose content is Deleted.               *)
(*   chunks    the bytes of contents, found by their hash.                 *)
(* Peers exchange documents one by one in any order.                       *)
(*                                                                         *)
(* Every call is a sequence of steps with an await between them, so that   *)
(* other calls and deliveries happen in between.  The walk along one path  *)
(* is one step.                                                            *)
(*                                                                         *)
(* Node and version numbers grow in the order of creation and stand for    *)
(* createdAt with the id that breaks ties; log positions for the clocks    *)
(* by which the document store picks the last record.  For concurrent      *)
(* steps any order of either is a behaviour of the model.  A content is    *)
(* one chunk.  Left out: signatures and trust, sizes, and labels.          *)
(***************************************************************************)
EXTENDS Integers, SequenceUtils, FiniteSetsExt

CONSTANTS
    Peers,
    Clients,    \* whoever calls the library, one call at a time
    PeerOf,     \* the peer that each client runs on
    SeedDirectories, SeedFiles,   \* what exists at first, as places (see below)
    Original,   \* the content of the files among them
    Requests,   \* the calls that clients may make
    Contents,
    Deleted,    \* the content of a delete marker
    None,       \* undefined
    MaxCalls    \* bound: calls made in all

Root == 0
Kinds == {"directory", "file"}
Seed == SeedDirectories \o SeedFiles
MaxNodes == Len(Seed) + MaxCalls
NodeIds == 1..MaxNodes

\* The names that there are, and the places that a node can have.
Names == {Last(r.path) : r \in Requests}
         \cup {Last(r.to) : r \in {x \in Requests : x.call = "rename"}}
         \cup {Seed[n].name : n \in DOMAIN Seed}
PlaceType == [node : NodeIds, kind : Kinds, parent : {Root} \cup NodeIds, name : Names]

ASSUME SharedFsAssumption ==
    /\ PeerOf \in [Clients -> Peers]
    /\ IsSequence(SeedDirectories) /\ IsSequence(SeedFiles)
    /\ \A n \in DOMAIN Seed : Seed[n].node = n /\ Seed[n] \in PlaceType
    /\ Original \in Contents
    /\ Deleted \notin Contents
    /\ None \notin Peers \cup Contents \cup {Deleted}
    /\ None \notin {Root} \cup NodeIds \cup PlaceType
    /\ \A r \in Requests :
          /\ IsSequence(r.path)
          /\ r.call = "rename" => IsSequence(r.to)
          /\ r.call = "write" => r.content \in Contents
    /\ MaxCalls \in Nat

VARIABLES
    log,        \* the records put: a place, whether it is deleted, and by whom
    versions,   \* the versions put
    nodes,      \* number of nodes created
    recs,       \* recs[p][n]: position in log of the record of n at p, or 0
    held,       \* held[p]: the versions that p holds
    chunks,     \* chunks[p]: the contents whose chunk p holds
    op,         \* op[c]: the call that c is in
    calls       \* number of calls made

documents == <<log, versions, nodes, recs, held, chunks>>
vars == <<documents, op, calls>>

Phases == {"idle", "heads", "chunks", "version", "record", "children",
           "destination", "remove", "done"}

\* op[c].at is the place whose record the call puts in the end, and then the
\* place to move after what was in the way is removed.
Idle == [phase |-> "idle", call |-> "none", path |-> <<>>, from |-> <<>>, at |-> None,
         content |-> Deleted, base |-> None, parents |-> {}, deleted |-> FALSE,
         then |-> None, result |-> None]

Place(n, kind, parent, name) ==
    [node |-> n, kind |-> kind, parent |-> parent, name |-> name]

Init ==
    /\ log = [n \in DOMAIN Seed |-> [at |-> Seed[n], deleted |-> FALSE, by |-> None]]
    /\ versions = [i \in DOMAIN SeedFiles |->
          [node |-> SeedFiles[i].node, parents |-> {}, content |-> Original,
           by |-> None, copied |-> FALSE]]
    /\ nodes = Len(Seed)
    /\ recs = [p \in Peers |-> [n \in NodeIds |-> IF n <= Len(Seed) THEN n ELSE 0]]
    /\ held = [p \in Peers |-> DOMAIN versions]
    /\ chunks = [p \in Peers |-> IF SeedFiles = <<>> THEN {} ELSE {Original}]
    /\ op = [c \in Clients |-> Idle]
    /\ calls = 0

-----------------------------------------------------------------------------
(* What a peer sees.                                                       *)

PlaceOf(p, n) == log[recs[p][n]].at

Live(p) == {n \in NodeIds : recs[p][n] # 0 /\ ~log[recs[p][n]].deleted}

\* Of several live nodes with the same name in a directory, the oldest shows.
ChildByName(p, parent, name) ==
    LET found == {n \in Live(p) : PlaceOf(p, n).parent = parent
                               /\ PlaceOf(p, n).name = name}
    IN IF found = {} THEN None ELSE Min(found)

IsDirectory(p, n) ==
    \/ n = Root
    \/ n # None /\ PlaceOf(p, n).kind = "directory"

ResolvePath(p, path) ==
    LET at[i \in 0..Len(path)] ==
          IF i = 0 THEN Root
          ELSE IF IsDirectory(p, at[i - 1]) THEN ChildByName(p, at[i - 1], path[i])
          ELSE None
    IN at[Len(path)]

\* The directory that path is in, or None when there is no such directory.
ResolveParent(p, path) ==
    LET d == ResolvePath(p, Front(path))
    IN IF IsDirectory(p, d) THEN d ELSE None

HeadDocuments(p, n) == {v \in held[p] : versions[v].node = n}

Heads(p, n) ==
    LET docs == HeadDocuments(p, n)
    IN {v \in docs : \A w \in docs : v \notin versions[w].parents}

\* The version that shows, None when there is none or it is a delete marker.
Visible(p, n) ==
    LET heads == Heads(p, n)
    IN IF heads = {} \/ versions[Max(heads)].content = Deleted
       THEN None
       ELSE Max(heads)

\* stat and list show directories, and files that have a visible version.
Shown(p, n) == IsDirectory(p, n) \/ Visible(p, n) # None

List(p, d) ==
    LET names == {PlaceOf(p, n).name : n \in {m \in Live(p) : PlaceOf(p, m).parent = d}}
    IN {n \in {ChildByName(p, d, name) : name \in names} : Shown(p, n)}

\* The versions that readFile tries, in order: the visible one and then,
\* breadth first, the versions that those tried replace.
ReadCandidates(p, n) ==
    LET older(v) == {w \in versions[v].parents :
                        w \in held[p] /\ versions[w].content # Deleted}
        queue[i \in 0..Len(versions)] ==
          IF i = 0 THEN <<Visible(p, n)>>
          ELSE LET q == queue[i - 1]
               IN IF i > Len(q) THEN q
                  ELSE q \o Descending(older(q[i]) \ Range(q))
    IN IF Visible(p, n) = None THEN <<>> ELSE queue[Len(versions)]

\* The version whose content readFile returns when it can get the chunks of
\* the contents in available; None when it fails.
ReadVersion(p, n, available) ==
    LET tried == ReadCandidates(p, n)
        complete == {i \in DOMAIN tried : versions[tried[i]].content \in available}
    IN IF complete = {} THEN None ELSE tried[Min(complete)]

\* Chunks come from the peer's replica, or else from another peer, which may
\* be asked in vain (fetchChunk).
Available(p) ==
    {chunks[p] \cup fetched : fetched \in SUBSET UNION {chunks[q] : q \in Peers}}

\* n is the directory d or below it; the walk up ends at a node whose record
\* is not there (isWithinSubtree).
MutWithinSubtree(p, n, d) == n = d

WithinSubtree(p, n, d) ==
    LET up[i \in 0..MaxNodes] ==
          IF i = 0 THEN n
          ELSE IF up[i - 1] \in {None, Root} \/ recs[p][up[i - 1]] = 0 THEN None
          ELSE PlaceOf(p, up[i - 1]).parent
    IN \E i \in 0..MaxNodes : up[i] = d

-----------------------------------------------------------------------------
(* Calls.  A call that fails before it has changed anything is left out,   *)
(* so is one that finds nothing to do.                                     *)

Begin(c, call) ==
    /\ op[c] = Idle
    /\ calls < MaxCalls
    /\ op' = [op EXCEPT ![c] = call]
    /\ calls' = calls + 1

Continue(c, call) ==
    /\ op' = [op EXCEPT ![c] = call]
    /\ UNCHANGED calls

\* The call ends with an error.
Fail(c) == Continue(c, Idle)

\* writeFile: base is None, or the versions the caller says it replaces.
WriteFile(c, path, content, base) ==
    LET p == PeerOf[c]
        existing == ResolvePath(p, path)
        parent == ResolveParent(p, path)
        node == IF existing = None THEN nodes + 1 ELSE existing
    IN
    /\ path # <<>> /\ parent # None
    /\ ~IsDirectory(p, existing)
    /\ node \in NodeIds
    /\ Begin(c, [Idle EXCEPT !.phase = "heads", !.call = "write", !.path = path,
                             !.at = Place(node, "file", parent, Last(path)),
                             !.content = content, !.base = base])
    /\ nodes' = IF existing = None THEN node ELSE nodes
    /\ UNCHANGED <<log, versions, recs, held, chunks>>

\* mkdir
MakeDirectory(c, path) ==
    LET p == PeerOf[c]
        parent == ResolveParent(p, path)
    IN
    /\ path # <<>> /\ parent # None
    /\ ResolvePath(p, path) = None
    /\ nodes + 1 \in NodeIds
    /\ Begin(c, [Idle EXCEPT !.phase = "record", !.call = "mkdir", !.path = path,
                             !.at = Place(nodes + 1, "directory", parent, Last(path))])
    /\ nodes' = nodes + 1
    /\ UNCHANGED <<log, versions, recs, held, chunks>>

\* What rm does to the node n, as a step of call: a file gets a delete marker
\* first, a directory must be empty.
MutRemoval(p, n, call) ==
    [call EXCEPT !.phase = IF IsDirectory(p, n) THEN "children" ELSE "record",
                 !.at = PlaceOf(p, n), !.content = Deleted, !.deleted = TRUE]

Removal(p, n, call) ==
    [call EXCEPT !.phase = IF IsDirectory(p, n) THEN "children" ELSE "heads",
                 !.at = PlaceOf(p, n), !.content = Deleted, !.deleted = TRUE]

RemovePath(c, path) ==
    LET p == PeerOf[c]
        n == ResolvePath(p, path)
    IN
    /\ n \notin {None, Root}
    /\ Begin(c, Removal(p, n, [Idle EXCEPT !.call = "remove", !.path = path]))
    /\ UNCHANGED documents

\* rename resolves the source; CheckDestination is the rest of its checks.
Rename(c, from, to) ==
    LET n == ResolvePath(PeerOf[c], from)
    IN
    /\ from # to /\ to # <<>>
    /\ n \notin {None, Root}
    /\ Begin(c, [Idle EXCEPT !.phase = "destination", !.call = "rename",
                             !.path = to, !.from = from, !.at = PlaceOf(PeerOf[c], n)])
    /\ UNCHANGED documents

\* resolveConflict: the caller picks one of the versions of the file.
ResolveConflict(c, path) ==
    LET p == PeerOf[c]
        n == ResolvePath(p, path)
    IN
    /\ n # None /\ ~IsDirectory(p, n)
    /\ \E v \in HeadDocuments(p, n) :
          /\ versions[v].content # Deleted
          /\ Begin(c, [Idle EXCEPT !.phase = "heads", !.call = "resolve",
                                   !.path = path, !.at = PlaceOf(p, n),
                                   !.content = versions[v].content])
    /\ UNCHANGED documents

\* The guards of Begin come first: they fail most often.
Call(c) ==
    /\ op[c] = Idle /\ calls < MaxCalls
    /\ \E r \in Requests :
          \/ r.call = "write" /\ WriteFile(c, r.path, r.content, None)
          \/ r.call = "mkdir" /\ MakeDirectory(c, r.path)
          \/ r.call = "remove" /\ RemovePath(c, r.path)
          \/ r.call = "rename" /\ Rename(c, r.path, r.to)
          \/ r.call = "resolve" /\ ResolveConflict(c, r.path)

-----------------------------------------------------------------------------
(* The steps of a call.                                                    *)

\* The new version replaces the heads, or what the caller says.  Saving what
\* is there already is no change, unless the caller named what it replaces.
\* A write reads the bytes it was given only now: they are content.
ReadHeadsFor(c, content) ==
    LET o == [op[c] EXCEPT !.content = content]
        heads == Heads(PeerOf[c], o.at.node)
        same == \E v \in heads : heads = {v} /\ versions[v].content = o.content
    IN
    /\ o.phase = "heads"
    /\ IF o.call = "write" /\ o.base = None /\ same
       THEN Continue(c, [o EXCEPT !.phase = "done", !.result = Max(heads)])
       ELSE Continue(c,
              [o EXCEPT !.phase = IF o.call = "write" THEN "chunks" ELSE "version",
                        !.parents = IF o.base = None THEN heads ELSE o.base])
    /\ UNCHANGED documents

ReadHeads(c) == ReadHeadsFor(c, op[c].content)

\* A chunk that is stored already, by whatever peer, is not put again.
MutPutChunks(c) ==
    /\ op[c].phase = "chunks"
    /\ chunks' = IF \E q \in Peers : op[c].content \in chunks[q] THEN chunks
                 ELSE [chunks EXCEPT ![PeerOf[c]] = @ \cup {op[c].content}]
    /\ Continue(c, [op[c] EXCEPT !.phase = "version"])
    /\ UNCHANGED <<log, versions, nodes, recs, held>>

PutChunks(c) ==
    /\ op[c].phase = "chunks"
    /\ chunks' = [chunks EXCEPT ![PeerOf[c]] = @ \cup {op[c].content}]
    /\ Continue(c, [op[c] EXCEPT !.phase = "version"])
    /\ UNCHANGED <<log, versions, nodes, recs, held>>

PutVersion(c) ==
    LET o == op[c]
        v == Len(versions) + 1
    IN
    /\ o.phase = "version"
    /\ versions' = Append(versions,
          [node |-> o.at.node, parents |-> o.parents, content |-> o.content,
           by |-> PeerOf[c], copied |-> o.call = "resolve"])
    /\ held' = [held EXCEPT ![PeerOf[c]] = @ \cup {v}]
    /\ Continue(c, [o EXCEPT !.phase = "record", !.result = v])
    /\ UNCHANGED <<log, nodes, recs, chunks>>

\* The record goes last.  A rename that had to make way continues with the
\* record of what it moves.
PutRecord(c) ==
    LET o == op[c]
    IN
    /\ o.phase = "record"
    /\ log' = Append(log, [at |-> o.at, deleted |-> o.deleted, by |-> PeerOf[c]])
    /\ recs' = [recs EXCEPT ![PeerOf[c]][o.at.node] = Len(log) + 1]
    /\ Continue(c, IF o.then = None
                   THEN [o EXCEPT !.phase = "done"]
                   ELSE [o EXCEPT !.at = o.then, !.then = None, !.deleted = FALSE])
    /\ UNCHANGED <<versions, nodes, held, chunks>>

\* rm of a directory lists the path, which is resolved again.
ListChildren(c) ==
    LET o == op[c]
        p == PeerOf[c]
        d == ResolvePath(p, o.path)
    IN
    /\ o.phase = "children"
    /\ IF IsDirectory(p, d) /\ List(p, d) = {}
       THEN Continue(c, [o EXCEPT !.phase = "record"])
       ELSE Fail(c)
    /\ UNCHANGED documents

CheckDestination(c) ==
    LET o == op[c]
        p == PeerOf[c]
        d == ResolvePath(p, o.path)
        parent == ResolveParent(p, o.path)
        target == Place(o.at.node, o.at.kind, parent, Last(o.path))
    IN
    /\ o.phase = "destination"
    /\ IF d = o.at.node
       THEN Continue(c, [o EXCEPT !.phase = "done"])
       ELSE IF \/ d # None /\ "directory" \in {o.at.kind, PlaceOf(p, d).kind}
               \/ parent = None
               \/ o.at.kind = "directory" /\ WithinSubtree(p, parent, o.at.node)
       THEN Fail(c)
       ELSE Continue(c, [o EXCEPT !.phase = IF d = None THEN "record" ELSE "remove",
                                  !.at = target])
    /\ UNCHANGED documents

\* rename calls rm for its destination, which resolves the path again.
RemoveDestination(c) ==
    LET o == op[c]
        p == PeerOf[c]
        n == ResolvePath(p, o.path)
    IN
    /\ o.phase = "remove"
    /\ Continue(c, IF n = Root THEN Idle
                   ELSE IF n = None THEN [o EXCEPT !.phase = "record"]
                   ELSE Removal(p, n, [o EXCEPT !.then = o.at]))
    /\ UNCHANGED documents

Return(c) ==
    /\ op[c].phase = "done"
    /\ Continue(c, Idle)
    /\ UNCHANGED documents

Step(c) ==
    \/ ReadHeads(c) \/ PutChunks(c) \/ PutVersion(c) \/ PutRecord(c)
    \/ ListChildren(c) \/ CheckDestination(c) \/ RemoveDestination(c)

-----------------------------------------------------------------------------
(* The document store, as the filesystem uses it.                          *)

\* The last record put wins; one that comes after a later one is dropped.
MutDeliverRecord(p) ==
    \E i \in DOMAIN log :
        /\ recs[p][log[i].at.node] # i
        /\ recs' = [recs EXCEPT ![p][log[i].at.node] = i]
        /\ UNCHANGED <<log, versions, nodes, held, chunks, op, calls>>

DeliverRecord(p) ==
    \E i \in DOMAIN log :
        /\ recs[p][log[i].at.node] < i
        /\ recs' = [recs EXCEPT ![p][log[i].at.node] = i]
        /\ UNCHANGED <<log, versions, nodes, held, chunks, op, calls>>

DeliverVersion(p) ==
    \E v \in DOMAIN versions \ held[p] :
        /\ held' = [held EXCEPT ![p] = @ \cup {v}]
        /\ UNCHANGED <<log, versions, nodes, recs, chunks, op, calls>>

DeliverChunk(p) ==
    \E x \in UNION {chunks[q] : q \in Peers} \ chunks[p] :
        /\ chunks' = [chunks EXCEPT ![p] = @ \cup {x}]
        /\ UNCHANGED <<log, versions, nodes, recs, held, op, calls>>

Deliver(p) == DeliverRecord(p) \/ DeliverVersion(p) \/ DeliverChunk(p)

\* A peer stops and starts again: what it has put stays, its calls are gone.
Crash(p) ==
    /\ \E c \in Clients : PeerOf[c] = p /\ op[c] # Idle
    /\ op' = [c \in Clients |-> IF PeerOf[c] = p THEN Idle ELSE op[c]]
    /\ UNCHANGED <<documents, calls>>

Next ==
    \/ \E c \in Clients : Call(c) \/ Step(c) \/ Return(c)
    \/ \E p \in Peers : Deliver(p) \/ Crash(p)

Spec == Init /\ [][Next]_vars

\* Calls go on while their peer is up, and peers are connected in the end.
FairSpec ==
    /\ Spec
    /\ \A c \in Clients : WF_vars(Step(c) \/ Return(c))
    /\ \A p \in Peers : WF_vars(Deliver(p))
-----------------------------------------------------------------------------

VersionType(v) ==
    /\ v.node \in NodeIds /\ v.parents \subseteq DOMAIN versions
    /\ v.content \in Contents \cup {Deleted}
    /\ v.by \in Peers \cup {None} /\ v.copied \in BOOLEAN

CallType(o) ==
    /\ o.phase \in Phases
    /\ o.at \in PlaceType \cup {None} /\ o.then \in PlaceType \cup {None}
    /\ o.content \in Contents \cup {Deleted} /\ o.deleted \in BOOLEAN
    /\ o.parents \subseteq DOMAIN versions
    /\ o.base = None \/ o.base \subseteq DOMAIN versions
    /\ o.result \in DOMAIN versions \cup {None}
    /\ (o.at = None) = (o.phase = "idle")

\* The type invariant: the documents of each peer are documents that were put.
TypeOK ==
    /\ \A i \in DOMAIN log : /\ log[i].at \in PlaceType /\ log[i].deleted \in BOOLEAN
                             /\ log[i].by \in Peers \cup {None}
    /\ \A v \in DOMAIN versions : VersionType(versions[v])
    /\ nodes \in 0..MaxNodes
    /\ recs \in [Peers -> [NodeIds -> {0} \cup DOMAIN log]]
    /\ held \in [Peers -> SUBSET DOMAIN versions]
    /\ chunks \in [Peers -> SUBSET Contents]
    /\ \A c \in Clients : CallType(op[c])
    /\ calls \in 0..MaxCalls

\* A peer that wrote a version can always read that very content back, also
\* after a crash at any point: the chunks are put before the version is.
WriterHoldsItsContent ==
    \A v \in DOMAIN versions :
        versions[v].by # None /\ ~versions[v].copied /\ versions[v].content # Deleted
            => versions[v].content \in chunks[versions[v].by]

\* A file that is gone by its record was removed by someone: there is a delete
\* marker for it, whatever wrote the record last, and wherever calls stopped.
\* No rename or save, however it races others, makes a file vanish.
GoneWasRemoved ==
    \A p \in Peers, n \in NodeIds :
        recs[p][n] # 0 /\ log[recs[p][n]].deleted /\ PlaceOf(p, n).kind = "file"
            => \E v \in DOMAIN versions :
                  versions[v].node = n /\ versions[v].content = Deleted

\* What a peer shows: the live nodes with their places, their heads, and the
\* version that a read of them returns.
View(p) ==
    {<<PlaceOf(p, n), Heads(p, n), ReadVersion(p, n, chunks[p])>> : n \in Live(p)}

\* Whatever order documents arrive in, in the end all peers show the same
\* tree, the same conflicts and the same contents, for good.
Converges == <>[](\A p, q \in Peers : View(p) = View(q))

\* A file that a peer holds any version of has a head there, whichever versions have
\* reached it: no version comes to replace itself, however bases and heads were read.
FilesHaveHeads ==
    \A p \in Peers, n \in NodeIds : HeadDocuments(p, n) # {} => Heads(p, n) # {}

\* All that was put has reached p.
Settled(p) ==
    /\ \A i \in DOMAIN log : recs[p][log[i].at.node] >= i
    /\ held[p] = DOMAIN versions
    /\ \A q \in Peers : chunks[q] \subseteq chunks[p]

\* Peers that all has reached show the same, in whatever order it came, and a read there
\* finds the version that shows, never an older one.  Converges adds that it all comes.
SettledPeersAgree ==
    \A p, q \in Peers : Settled(p) /\ Settled(q) =>
        /\ View(p) = View(q)
        /\ \A n \in NodeIds : ReadVersion(p, n, chunks[p]) = Visible(p, n)

\* No record or version that another peer put has reached p, and none that p has
\* put since has taken the place of one.
Alone(p) ==
    /\ \A i \in DOMAIN log : log[i].by \notin {None, p} => recs[p][log[i].at.node] < i
    /\ \A v \in held[p] : versions[v].by \in {None, p}

\* No directory contains itself (rename checks it), and nothing that shows is in
\* a removed directory (rm checks that).
IsTree(p) ==
    LET known == {n \in NodeIds : recs[p][n] # 0}
        parent(n) == PlaceOf(p, n).parent
    IN /\ \A cycle \in (SUBSET known) \ {{}} : \E n \in cycle : parent(n) \notin cycle
       /\ \A n \in Live(p) : Shown(p, n) /\ parent(n) # Root => parent(n) \in Live(p)

\* What a peer with a single client shows stays a tree until a document of
\* another peer reaches it, wherever a crash ends a call.  The checks of several
\* clients race, and those of one peer do not see what another has put.
TreeStays ==
    \A c \in Clients :
        (\A d \in Clients : PeerOf[d] = PeerOf[c] => d = c) /\ Alone(PeerOf[c])
            => IsTree(PeerOf[c])
=============================================================================
