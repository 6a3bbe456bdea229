----------------------- MODULE SharedFileSystemProofs -----------------------
(***************************************************************************)
(* Theorems about the shared filesystem, for any peers, clients, calls and *)
(* contents: what a peer wrote it can read, and no file vanishes without   *)
(* having been removed; about its mount, for any handles: what was written *)
(* last is saved, and a save replaces nothing that its handle did not      *)
(* know; and about where paths lead: the directories of a peer with a      *)
(* single client stay a tree until a document of another peer reaches it.  *)
(* With several clients they do not, because the checks of one race with   *)
(* the puts of another.  Then types, of the filesystem and of the mount,   *)
(* by which every step of the mount is one of the filesystem; and at the   *)
(* end, that peers which everything has reached show the same.             *)
(***************************************************************************)
EXTENDS SharedFsMount, SequenceFacts

\* There is a delete marker for node n.
Marked(n) == \E v \in DOMAIN versions :
                 versions[v].node = n /\ versions[v].content = Deleted

\* What peers hold of records and chunks has the shape that is assumed of it.
Documents ==
    /\ IsSequence(log)
    /\ IsSequence(versions)
    /\ recs \in [Peers -> [NodeIds -> Nat]]
    /\ \A p \in Peers, n \in NodeIds :
          recs[p][n] # 0 => recs[p][n] \in DOMAIN log /\ log[recs[p][n]].at.node = n
    /\ chunks = [p \in Peers |-> chunks[p]]

CallShape(o) ==
    o \in [phase : {o.phase}, call : {o.call}, path : {o.path}, from : {o.from},
           at : {o.at}, content : {o.content}, base : {o.base},
           parents : {o.parents}, deleted : {o.deleted}, then : {o.then},
           result : {o.result}]

\* Only a write or the choice of a version has content, and before its version
\* is put, its chunks are there.
ChunksFirst(c) ==
    /\ op[c].call \notin {"write", "resolve"} => op[c].content = Deleted
    /\ op[c].phase = "version" /\ op[c].call = "write"
          => op[c].content \in chunks[PeerOf[c]]

\* A call that will hide a file is about to put a marker, or has put one.
MarkerFirst(c) ==
    op[c].deleted =>
        /\ op[c].call # "write" /\ op[c].call # "resolve" /\ op[c].phase # "chunks"
        /\ op[c].at.kind = "file" =>
               op[c].phase \in {"heads", "version"} \/ Marked(op[c].at.node)

\* Only a rename has a destination.
RenameOnly(c) == op[c].phase \in {"destination", "remove"} => op[c].call = "rename"

CallOK(c) == CallShape(op[c]) /\ ChunksFirst(c) /\ MarkerFirst(c) /\ RenameOnly(c)

Calls == op = [c \in Clients |-> op[c]] /\ \A c \in Clients : CallOK(c)

RecordsMarked ==
    \A i \in DOMAIN log :
        log[i].deleted /\ log[i].at.kind = "file" => Marked(log[i].at.node)

IInv == Documents /\ Calls /\ WriterHoldsItsContent /\ RecordsMarked

-----------------------------------------------------------------------------
\* What is assumed of the peers of clients, in a form that provers find.
LEMMA PeerOfClient == \A c \in Clients : PeerOf[c] \in Peers
BY SharedFsAssumption

LEMMA IdleOK ==
    /\ CallShape(Idle)
    /\ Idle.call = "none" /\ Idle.content = Deleted /\ Idle.phase = "idle"
    /\ Idle.deleted = FALSE
BY DEF Idle, CallShape

\* A step that changes one call and loses no chunk and no version keeps the
\* other calls right.
LEMMA OneCall ==
    ASSUME Calls, NEW c \in Clients, CallOK(c)',
           op' = [op EXCEPT ![c] = op'[c]],
           \A p \in Peers : chunks[p] \subseteq chunks'[p],
           \A v \in DOMAIN versions : v \in DOMAIN versions' /\ versions'[v] = versions[v]
    PROVE  Calls'
<1>1. ASSUME NEW n, Marked(n) PROVE Marked(n)'
  BY <1>1 DEF Marked
<1>2. op' = [d \in Clients |-> op'[d]] /\ \A d \in Clients \ {c} : op'[d] = op[d]
  BY DEF Calls
<1>3. ASSUME NEW d \in Clients \ {c} PROVE CallOK(d)'
  <2>1. CallOK(d) /\ op'[d] = op[d] /\ PeerOf[d] \in Peers
    BY <1>2, PeerOfClient DEF Calls
  <2>2. CallShape(op[d])' /\ ChunksFirst(d)' /\ RenameOnly(d)'
    BY <2>1 DEF CallOK, CallShape, ChunksFirst, RenameOnly
  <2>3. MarkerFirst(d)'
    BY <1>1, <2>1 DEF CallOK, MarkerFirst
  <2>. QED
    BY <2>2, <2>3 DEF CallOK
<1>. QED
  BY <1>2, <1>3 DEF Calls

\* The part of the invariant that is about documents only.
LEMMA SameDocuments ==
    ASSUME Documents, WriterHoldsItsContent, RecordsMarked,
           UNCHANGED <<log, versions, recs, chunks>>
    PROVE  Documents' /\ WriterHoldsItsContent' /\ RecordsMarked'
<1>1. Documents'
  BY DEF Documents
<1>2. WriterHoldsItsContent'
  BY DEF WriterHoldsItsContent
<1>3. RecordsMarked'
  BY DEF RecordsMarked, Marked
<1>. QED
  BY <1>1, <1>2, <1>3

\* A step of one call that changes no document.
LEMMA CallOnly ==
    ASSUME IInv, NEW c \in Clients, op' = [op EXCEPT ![c] = op'[c]], CallOK(c)',
           UNCHANGED <<log, versions, recs, chunks>>
    PROVE  IInv'
<1>1. Calls'
  BY OneCall DEF IInv
<1>. QED
  BY <1>1, SameDocuments DEF IInv

\* A call begins or goes on as it is.
LEMMA OpOf ==
    ASSUME Calls, NEW c \in Clients, NEW o, op' = [op EXCEPT ![c] = o]
    PROVE  op'[c] = o /\ op' = [op EXCEPT ![c] = op'[c]]
BY DEF Calls

-----------------------------------------------------------------------------
LEMMA InitIInv == Init => IInv
<1>. SUFFICES ASSUME Init PROVE IInv
  OBVIOUS
<1>1. /\ SeedFiles \in Seq(Range(SeedFiles)) /\ SeedDirectories \in Seq(Range(SeedDirectories))
      /\ \A n \in DOMAIN Seed : Seed[n].node = n
  BY SharedFsAssumption DEF IsSequence
<1>2. Len(Seed) \in Nat /\ DOMAIN Seed = 1..Len(Seed)
  <2>. DEFINE S == Range(SeedFiles) \cup Range(SeedDirectories)
  <2>1. SeedFiles \in Seq(S) /\ SeedDirectories \in Seq(S)
    BY <1>1, SeqMonotonic
  <2>. HIDE DEF S
  <2>. QED
    BY <2>1 DEF Seed
<1>3. DOMAIN SeedFiles = 1..Len(SeedFiles) /\ Len(SeedFiles) \in Nat
  BY <1>1
<1>4. IsSequence(log) /\ IsSequence(versions)
  <2>1. log \in [1..Len(Seed) -> Range(log)]
    BY <1>2 DEF Init, Range
  <2>2. versions \in [1..Len(SeedFiles) -> Range(versions)]
    BY <1>3 DEF Init, Range
  <2>. QED
    BY <1>2, <1>3, <2>1, <2>2, SeqDef DEF IsSequence
<1>5. recs \in [Peers -> [NodeIds -> Nat]]
  BY <1>2 DEF Init, NodeIds
<1>6. ASSUME NEW p \in Peers, NEW n \in NodeIds, recs[p][n] # 0
      PROVE  recs[p][n] \in DOMAIN log /\ log[recs[p][n]].at.node = n
  BY <1>1, <1>2, <1>6, SharedFsAssumption DEF Init, NodeIds, MaxNodes
<1>7. Documents
  BY <1>4, <1>5, <1>6 DEF Documents, Init
<1>8. Calls
  BY IdleOK DEF Init, Calls, CallOK, ChunksFirst, MarkerFirst, RenameOnly
<1>9. WriterHoldsItsContent
  BY DEF Init, WriterHoldsItsContent
<1>10. RecordsMarked
  BY DEF Init, RecordsMarked
<1>. QED
  BY <1>7, <1>8, <1>9, <1>10 DEF IInv

\* A call, or the part of a rename that makes way, becomes the removal of n.
LEMMA RemovalOK ==
    ASSUME IInv, NEW c \in Clients, NEW n, n \notin {Root, None}, NEW o, CallShape(o),
           o.call \in {"remove", "rename"},
           op' = [op EXCEPT ![c] = Removal(PeerOf[c], n, o)],
           UNCHANGED <<log, versions, recs, chunks>>
    PROVE  IInv'
<1>1. PICK r : r = Removal(PeerOf[c], n, o)
  OBVIOUS
<1>2. op'[c] = r /\ op' = [op EXCEPT ![c] = op'[c]]
  BY <1>1, OpOf DEF IInv
<1>3. /\ r.call = o.call /\ r.content = Deleted /\ CallShape(r)
      /\ r.phase \in {"children", "heads"} /\ r.at = PlaceOf(PeerOf[c], n)
      /\ r.phase = "children" => IsDirectory(PeerOf[c], n)
  BY <1>1 DEF Removal, CallShape
<1>4. r.phase = "children" => r.at.kind = "directory"
  BY <1>3 DEF IsDirectory
<1>5. CallShape(op[c])'
  BY <1>2, <1>3 DEF CallShape
<1>6. ChunksFirst(c)' /\ MarkerFirst(c)' /\ RenameOnly(c)'
  BY <1>2, <1>3, <1>4 DEF ChunksFirst, MarkerFirst, RenameOnly
<1>. QED
  BY <1>2, <1>5, <1>6, CallOnly DEF CallOK

\* A write begins right.
LEMMA WriteStep ==
    ASSUME IInv, NEW c \in Clients, NEW path, NEW content, NEW base,
           WriteFile(c, path, content, base)
    PROVE  IInv'
<1>1. PICK node, parent :
        op' = [op EXCEPT ![c] = [Idle EXCEPT !.phase = "heads", !.call = "write",
                 !.path = path, !.at = Place(node, "file", parent, Last(path)),
                 !.content = content, !.base = base]]
  BY DEF WriteFile, Begin
<1>. DEFINE o == [Idle EXCEPT !.phase = "heads", !.call = "write",
                 !.path = path, !.at = Place(node, "file", parent, Last(path)),
                 !.content = content, !.base = base]
<1>2. CallShape(o) /\ o.phase = "heads" /\ o.deleted = FALSE /\ o.call = "write"
  BY DEF CallShape, Idle
<1>3. UNCHANGED <<log, versions, recs, chunks>>
  BY DEF WriteFile
<1>. HIDE DEF o
<1>4. op'[c] = o /\ op' = [op EXCEPT ![c] = op'[c]]
  BY <1>1, OpOf DEF o, IInv
<1>. QED
  BY <1>2, <1>3, <1>4, CallOnly
  DEF CallOK, ChunksFirst, MarkerFirst, RenameOnly, CallShape

\* Every call begins right.
LEMMA CallStep == ASSUME IInv, NEW c \in Clients, Call(c) PROVE IInv'
<1>. USE DEF IInv
<1>1. \A o : op' = [op EXCEPT ![c] = o] => op'[c] = o /\ op' = [op EXCEPT ![c] = op'[c]]
  BY OpOf
<1>2. PICK r \in Requests :
        \/ r.call = "write" /\ WriteFile(c, r.path, r.content, None)
        \/ r.call = "mkdir" /\ MakeDirectory(c, r.path)
        \/ r.call = "remove" /\ RemovePath(c, r.path)
        \/ r.call = "rename" /\ Rename(c, r.path, r.to)
        \/ r.call = "resolve" /\ ResolveConflict(c, r.path)
  BY DEF Call
<1>3. ASSUME UNCHANGED <<log, versions, recs, chunks>>, CallShape(op'[c]),
             op' = [op EXCEPT ![c] = op'[c]],
             op'[c].phase # "version", op'[c].deleted = FALSE,
             op'[c].phase \in {"destination", "remove"} => op'[c].call = "rename",
             op'[c].call \notin {"write", "resolve"} => op'[c].content = Deleted
      PROVE  IInv'
  BY <1>3, CallOnly DEF CallOK, ChunksFirst, MarkerFirst, RenameOnly, CallShape
<1>4. CASE WriteFile(c, r.path, r.content, None)
  BY <1>4, WriteStep
<1>5. CASE MakeDirectory(c, r.path)
  <2>1. PICK at :
          op' = [op EXCEPT ![c] = [Idle EXCEPT !.phase = "record", !.call = "mkdir",
                   !.path = r.path, !.at = at]]
    BY <1>5 DEF MakeDirectory, Begin
  <2>. DEFINE o == [Idle EXCEPT !.phase = "record", !.call = "mkdir",
                   !.path = r.path, !.at = at]
  <2>2. /\ CallShape(o) /\ o.phase # "version" /\ o.deleted = FALSE
        /\ o.call \notin {"write", "resolve"} => o.content = Deleted
        /\ o.phase \in {"destination", "remove"} => o.call = "rename"
    BY DEF CallShape, Idle
  <2>3. UNCHANGED <<log, versions, recs, chunks>>
    BY <1>5 DEF MakeDirectory
  <2>. HIDE DEF o
  <2>4. op'[c] = o /\ op' = [op EXCEPT ![c] = op'[c]]
    BY <1>1, <2>1 DEF o
  <2>. QED
    BY <1>3, <2>2, <2>3, <2>4
<1>6. CASE RemovePath(c, r.path)
  <2>1. PICK n, o :
          /\ o = [Idle EXCEPT !.call = "remove", !.path = r.path]
          /\ n \notin {Root, None}
          /\ op' = [op EXCEPT ![c] = Removal(PeerOf[c], n, o)]
    BY <1>6 DEF RemovePath, Begin
  <2>2. CallShape(o) /\ o.call = "remove"
    BY <2>1 DEF CallShape, Idle
  <2>3. UNCHANGED <<log, versions, recs, chunks>>
    BY <1>6 DEF RemovePath, documents
  <2>. QED
    BY <2>1, <2>2, <2>3, RemovalOK
<1>7. CASE Rename(c, r.path, r.to)
  <2>1. PICK at :
          op' = [op EXCEPT ![c] = [Idle EXCEPT !.phase = "destination", !.call = "rename",
                   !.path = r.to, !.from = r.path, !.at = at]]
    BY <1>7 DEF Rename, Begin
  <2>. DEFINE o == [Idle EXCEPT !.phase = "destination", !.call = "rename",
                   !.path = r.to, !.from = r.path, !.at = at]
  <2>2. /\ CallShape(o) /\ o.phase # "version" /\ o.deleted = FALSE
        /\ o.call \notin {"write", "resolve"} => o.content = Deleted
        /\ o.phase \in {"destination", "remove"} => o.call = "rename"
    BY DEF CallShape, Idle
  <2>3. UNCHANGED <<log, versions, recs, chunks>>
    BY <1>7 DEF Rename, documents
  <2>. HIDE DEF o
  <2>4. op'[c] = o /\ op' = [op EXCEPT ![c] = op'[c]]
    BY <1>1, <2>1 DEF o
  <2>. QED
    BY <1>3, <2>2, <2>3, <2>4
<1>8. CASE ResolveConflict(c, r.path)
  <2>1. PICK at, v :
          op' = [op EXCEPT ![c] = [Idle EXCEPT !.phase = "heads", !.call = "resolve",
                   !.path = r.path, !.at = at, !.content = versions[v].content]]
    BY <1>8 DEF ResolveConflict, Begin
  <2>. DEFINE o == [Idle EXCEPT !.phase = "heads", !.call = "resolve",
                   !.path = r.path, !.at = at, !.content = versions[v].content]
  <2>2. /\ CallShape(o) /\ o.phase # "version" /\ o.deleted = FALSE
        /\ o.call \notin {"write", "resolve"} => o.content = Deleted
        /\ o.phase \in {"destination", "remove"} => o.call = "rename"
    BY DEF CallShape, Idle
  <2>3. UNCHANGED <<log, versions, recs, chunks>>
    BY <1>8 DEF ResolveConflict, documents
  <2>. HIDE DEF o
  <2>4. op'[c] = o /\ op' = [op EXCEPT ![c] = op'[c]]
    BY <1>1, <2>1 DEF o
  <2>. QED
    BY <1>3, <2>2, <2>3, <2>4
<1>. QED
  BY <1>2, <1>4, <1>5, <1>6, <1>7, <1>8

-----------------------------------------------------------------------------
\* The steps of a call that only read documents.
LEMMA ReadingStep ==
    ASSUME IInv, NEW c \in Clients,
           \/ \E x : ReadHeadsFor(c, x) /\ (op[c].call = "write" \/ x = op[c].content)
           \/ ListChildren(c) \/ CheckDestination(c) \/ RemoveDestination(c)
           \/ Return(c) \/ (Fail(c) /\ UNCHANGED documents)
    PROVE  IInv'
<1>. PICK o : o = op[c]
  OBVIOUS
<1>1. CallShape(o) /\ ChunksFirst(c) /\ MarkerFirst(c) /\ RenameOnly(c)
  BY DEF IInv, Calls, CallOK
<1>2. \A n : op' = [op EXCEPT ![c] = n] => op'[c] = n /\ op' = [op EXCEPT ![c] = op'[c]]
  BY OpOf DEF IInv
<1>3. ASSUME UNCHANGED documents, op' = [op EXCEPT ![c] = Idle] PROVE IInv'
  <2>1. op'[c] = Idle /\ op' = [op EXCEPT ![c] = op'[c]]
    BY <1>2, <1>3
  <2>2. CallOK(c)'
    BY <2>1, IdleOK DEF CallOK, ChunksFirst, MarkerFirst, RenameOnly, CallShape
  <2>. QED
    BY <1>3, <2>1, <2>2, CallOnly DEF documents
\* A step that does not put a version next keeps what matters.
<1>4. ASSUME UNCHANGED documents, NEW n, op' = [op EXCEPT ![c] = n],
             CallShape(n), n.call = o.call, n.content = o.content,
             n.deleted = o.deleted, n.at.kind = o.at.kind, n.at.node = o.at.node,
             n.phase \in {"done", "record"} \/ (n.phase = "remove" /\ o.call = "rename"),
             o.deleted /\ o.at.kind = "file" => Marked(o.at.node)
      PROVE  IInv'
  <2>1. op'[c] = n /\ op' = [op EXCEPT ![c] = op'[c]]
    BY <1>2, <1>4
  <2>2. CallShape(op[c])'
    BY <1>4, <2>1 DEF CallShape
  <2>3. ChunksFirst(c)' /\ RenameOnly(c)'
    BY <1>1, <1>4, <2>1 DEF ChunksFirst, RenameOnly
  <2>4. MarkerFirst(c)'
    BY <1>1, <1>4, <2>1 DEF MarkerFirst, Marked, documents
  <2>. QED
    BY <1>4, <2>1, <2>2, <2>3, <2>4, CallOnly DEF CallOK, documents
<1>5. ASSUME UNCHANGED documents, NEW phase \in {"done", "record"},
              op' = [op EXCEPT ![c] = [o EXCEPT !.phase = phase]],
              o.deleted /\ o.at.kind = "file" => Marked(o.at.node)
       PROVE  IInv'
  <2>1. PICK n : n = [o EXCEPT !.phase = phase]
    OBVIOUS
  <2>2. CallShape(n) /\ n.call = o.call /\ n.content = o.content
        /\ n.deleted = o.deleted /\ n.at = o.at /\ n.phase \in {"done", "record"}
    BY <1>1, <2>1 DEF CallShape
  <2>. QED
    BY <1>4, <1>5, <2>1, <2>2
<1>6. ASSUME NEW x, ReadHeadsFor(c, x), o.call = "write" \/ x = o.content PROVE IInv'
  <2>1. o.phase = "heads" /\ UNCHANGED documents
    BY <1>1, <1>6 DEF ReadHeadsFor, CallShape
  <2>2. CASE \E result : /\ o.call = "write"
                         /\ op' = [op EXCEPT ![c] = [[o EXCEPT !.content = x]
                                      EXCEPT !.phase = "done", !.result = result]]
    <3>1. PICK result, n :
            /\ n = [[o EXCEPT !.content = x] EXCEPT !.phase = "done", !.result = result]
            /\ op' = [op EXCEPT ![c] = n]
      BY <2>2
    <3>2. CallShape(n) /\ n.call = "write" /\ ~n.deleted /\ n.phase = "done"
      BY <1>1, <2>2, <3>1 DEF CallShape, MarkerFirst
    <3>3. op'[c] = n /\ op' = [op EXCEPT ![c] = op'[c]]
      BY <1>2, <3>1
    <3>4. CallShape(op[c])'
      BY <3>2, <3>3 DEF CallShape
    <3>5. ChunksFirst(c)' /\ MarkerFirst(c)' /\ RenameOnly(c)'
      BY <3>2, <3>3 DEF ChunksFirst, MarkerFirst, RenameOnly
    <3>. QED
      BY <2>1, <3>3, <3>4, <3>5, CallOnly DEF CallOK, documents
  <2>3. CASE \E parents :
               op' = [op EXCEPT ![c] = [[o EXCEPT !.content = x]
                        EXCEPT !.phase = IF o.call = "write" THEN "chunks" ELSE "version",
                               !.parents = parents]]
    <3>1. PICK parents, n :
            /\ n = [[o EXCEPT !.content = x]
                       EXCEPT !.phase = IF o.call = "write" THEN "chunks" ELSE "version",
                              !.parents = parents]
            /\ op' = [op EXCEPT ![c] = n]
      BY <2>3
    <3>2. /\ CallShape(n) /\ n.call = o.call /\ n.content = x
          /\ n.deleted = o.deleted /\ n.at = o.at
          /\ n.phase = IF o.call = "write" THEN "chunks" ELSE "version"
      BY <1>1, <3>1 DEF CallShape
    <3>3. op'[c] = n /\ op' = [op EXCEPT ![c] = op'[c]]
      BY <1>2, <3>1
    <3>4. CallShape(op[c])'
      BY <3>2, <3>3 DEF CallShape
    <3>5. ChunksFirst(c)' /\ MarkerFirst(c)' /\ RenameOnly(c)'
      BY <1>1, <1>6, <3>2, <3>3 DEF ChunksFirst, MarkerFirst, RenameOnly
    <3>. QED
      BY <2>1, <3>3, <3>4, <3>5, CallOnly DEF CallOK, documents
  <2>. QED
    <3>1. [o EXCEPT !.content = x].call = o.call
      BY <1>1 DEF CallShape
    <3>. QED
      BY <1>6, <2>2, <2>3, <3>1 DEF ReadHeadsFor, Continue
<1>7. CASE ListChildren(c)
  <2>1. o.phase = "children" /\ UNCHANGED documents
    BY <1>7 DEF ListChildren
  <2>2. CASE op' = [op EXCEPT ![c] = [o EXCEPT !.phase = "record"]]
    <3>1. o.deleted /\ o.at.kind = "file" => Marked(o.at.node)
      BY <1>1, <2>1 DEF MarkerFirst
    <3>. QED
      BY <1>5, <2>1, <2>2, <3>1
  <2>. QED
    BY <1>3, <1>7, <2>1, <2>2 DEF ListChildren, Continue, Fail
<1>8. CASE CheckDestination(c)
  <2>1. o.phase = "destination" /\ o.call = "rename" /\ UNCHANGED documents
    BY <1>1, <1>8 DEF CheckDestination, RenameOnly
  <2>2. CASE op' = [op EXCEPT ![c] = [o EXCEPT !.phase = "done"]]
    <3>1. o.deleted /\ o.at.kind = "file" => Marked(o.at.node)
      BY <1>1, <2>1 DEF MarkerFirst
    <3>. QED
      BY <1>5, <2>1, <2>2, <3>1
  <2>3. CASE op' = [op EXCEPT ![c] =
               [o EXCEPT !.phase = IF ResolvePath(PeerOf[c], o.path) = None
                                   THEN "record" ELSE "remove",
                         !.at = Place(o.at.node, o.at.kind,
                                      ResolveParent(PeerOf[c], o.path), Last(o.path))]]
    <3>1. PICK n : n =
               [o EXCEPT !.phase = IF ResolvePath(PeerOf[c], o.path) = None
                                   THEN "record" ELSE "remove",
                         !.at = Place(o.at.node, o.at.kind,
                                      ResolveParent(PeerOf[c], o.path), Last(o.path))]
      OBVIOUS
    <3>2. CallShape(n) /\ n.call = o.call /\ n.content = o.content
          /\ n.deleted = o.deleted /\ n.phase \in {"record", "remove"}
          /\ n.at = Place(o.at.node, o.at.kind, ResolveParent(PeerOf[c], o.path), Last(o.path))
      BY <1>1, <3>1 DEF CallShape
    <3>3. n.at.kind = o.at.kind /\ n.at.node = o.at.node
      BY <3>2 DEF Place
    <3>4. o.deleted /\ o.at.kind = "file" => Marked(o.at.node)
      BY <1>1, <2>1 DEF MarkerFirst
    <3>. QED
      BY <1>4, <2>1, <2>3, <3>1, <3>2, <3>3, <3>4
  <2>4. \/ op' = [op EXCEPT ![c] = Idle]
        \/ op' = [op EXCEPT ![c] = [o EXCEPT !.phase = "done"]]
        \/ op' = [op EXCEPT ![c] =
              [o EXCEPT !.phase = IF ResolvePath(PeerOf[c], o.path) = None
                                  THEN "record" ELSE "remove",
                        !.at = Place(o.at.node, o.at.kind,
                                     ResolveParent(PeerOf[c], o.path), Last(o.path))]]
    BY <1>8, Zenon DEF CheckDestination, Continue, Fail
  <2>. QED
    BY <1>3, <2>1, <2>2, <2>3, <2>4
<1>9. CASE RemoveDestination(c)
  <2>1. o.phase = "remove" /\ o.call = "rename" /\ UNCHANGED documents
    BY <1>1, <1>9 DEF RemoveDestination, RenameOnly
  <2>2. CASE op' = [op EXCEPT ![c] = [o EXCEPT !.phase = "record"]]
    <3>1. o.deleted /\ o.at.kind = "file" => Marked(o.at.node)
      BY <1>1, <2>1 DEF MarkerFirst
    <3>. QED
      BY <1>5, <2>1, <2>2, <3>1
  <2>3. CASE \E d : /\ d \notin {Root, None}
                    /\ op' = [op EXCEPT ![c] =
                                Removal(PeerOf[c], d, [o EXCEPT !.then = o.at])]
    <3>1. PICK d, n :
            /\ n = [o EXCEPT !.then = o.at]
            /\ d \notin {Root, None}
            /\ op' = [op EXCEPT ![c] = Removal(PeerOf[c], d, n)]
      BY <2>3
    <3>2. CallShape(n) /\ n.call = "rename"
      BY <1>1, <2>1, <3>1 DEF CallShape
    <3>. QED
      BY <2>1, <3>1, <3>2, RemovalOK DEF documents
  <2>. QED
    BY <1>3, <1>9, <2>1, <2>2, <2>3 DEF RemoveDestination, Continue
<1>10. CASE Return(c)
  BY <1>3, <1>10 DEF Return, Continue
<1>11. CASE Fail(c) /\ UNCHANGED documents
  BY <1>3, <1>11 DEF Fail, Continue
<1>. QED
  BY <1>6, <1>7, <1>8, <1>9, <1>10, <1>11

-----------------------------------------------------------------------------
(* The steps that put documents.                                           *)

\* Chunks that are added disturb nothing.
LEMMA MoreChunks ==
    ASSUME Documents, WriterHoldsItsContent, RecordsMarked,
           NEW p \in Peers, NEW x, chunks' = [chunks EXCEPT ![p] = @ \cup {x}],
           UNCHANGED <<log, versions, recs>>
    PROVE  /\ Documents' /\ WriterHoldsItsContent' /\ RecordsMarked'
           /\ \A q \in Peers : chunks[q] \subseteq chunks'[q]
           /\ x \in chunks'[p]
<1>1. /\ chunks' = [q \in Peers |-> chunks'[q]]
      /\ \A q \in Peers : chunks'[q] = IF q = p THEN chunks[p] \cup {x} ELSE chunks[q]
  BY DEF Documents
<1>2. Documents'
  BY <1>1 DEF Documents
<1>3. WriterHoldsItsContent'
  <2>. SUFFICES ASSUME NEW v \in DOMAIN versions, versions[v].by # None,
                       ~versions[v].copied, versions[v].content # Deleted
                PROVE  versions[v].content \in chunks'[versions[v].by]
    BY DEF WriterHoldsItsContent
  <2>1. versions[v].content \in chunks[versions[v].by]
    BY DEF WriterHoldsItsContent
  <2>2. CASE versions[v].by \in Peers
    BY <1>1, <2>1, <2>2
  <2>3. CASE versions[v].by \notin Peers
    BY <2>1, <2>3 DEF Documents
  <2>. QED
    BY <2>2, <2>3
<1>4. RecordsMarked'
  BY DEF RecordsMarked, Marked
<1>. QED
  BY <1>1, <1>2, <1>3, <1>4

LEMMA PutChunksStep == ASSUME IInv, NEW c \in Clients, PutChunks(c) PROVE IInv'
<1>1. PICK o : o = op[c]
  OBVIOUS
<1>2. /\ CallShape(o) /\ ChunksFirst(c) /\ MarkerFirst(c)
      /\ o.phase = "chunks" /\ PeerOf[c] \in Peers
  BY <1>1, PeerOfClient DEF IInv, Calls, CallOK, PutChunks
<1>3. PICK n : n = [o EXCEPT !.phase = "version"]
  OBVIOUS
<1>4. /\ CallShape(n) /\ n.call = o.call /\ n.content = o.content
      /\ n.deleted = o.deleted /\ n.at = o.at /\ n.phase = "version"
  BY <1>2, <1>3 DEF CallShape
<1>5. op'[c] = n /\ op' = [op EXCEPT ![c] = op'[c]]
  BY <1>1, <1>3, OpOf DEF PutChunks, Continue, IInv
<1>6. /\ Documents' /\ WriterHoldsItsContent' /\ RecordsMarked'
      /\ \A p \in Peers : chunks[p] \subseteq chunks'[p]
      /\ o.content \in chunks'[PeerOf[c]]
  BY <1>1, <1>2, MoreChunks DEF PutChunks, IInv
<1>7. CallOK(c)'
  <2>1. CallShape(op[c])'
    BY <1>4, <1>5 DEF CallShape
  <2>2. ChunksFirst(c)' /\ MarkerFirst(c)' /\ RenameOnly(c)'
    BY <1>1, <1>2, <1>4, <1>5, <1>6 DEF ChunksFirst, MarkerFirst, RenameOnly
  <2>. QED
    BY <2>1, <2>2 DEF CallOK
<1>8. versions' = versions
  BY DEF PutChunks
<1>9. Calls'
  BY <1>5, <1>6, <1>7, <1>8, OneCall DEF IInv
<1>. QED
  BY <1>6, <1>9 DEF IInv

LEMMA PutVersionStep == ASSUME IInv, NEW c \in Clients, PutVersion(c) PROVE IInv'
<1>1. PICK o : o = op[c]
  OBVIOUS
<1>2. /\ CallShape(o) /\ ChunksFirst(c) /\ MarkerFirst(c)
      /\ o.phase = "version" /\ PeerOf[c] \in Peers
      /\ UNCHANGED <<log, recs, chunks>>
  BY <1>1, PeerOfClient DEF IInv, Calls, CallOK, PutVersion
<1>3. PICK v, n :
        /\ v = [node |-> o.at.node, parents |-> o.parents, content |-> o.content,
                by |-> PeerOf[c], copied |-> o.call = "resolve"]
        /\ n = [o EXCEPT !.phase = "record", !.result = Len(versions) + 1]
  OBVIOUS
<1>4. /\ CallShape(n) /\ n.call = o.call /\ n.content = o.content
      /\ n.deleted = o.deleted /\ n.at = o.at /\ n.phase = "record"
  BY <1>2, <1>3 DEF CallShape
<1>5. op'[c] = n /\ op' = [op EXCEPT ![c] = op'[c]]
  BY <1>1, <1>3, OpOf DEF PutVersion, Continue, IInv
<1>6. /\ IsSequence(versions') /\ DOMAIN versions' = DOMAIN versions \cup {Len(versions) + 1}
      /\ \A w \in DOMAIN versions : versions'[w] = versions[w]
      /\ versions'[Len(versions) + 1] = v
  <2>1. versions' = Append(versions, v) /\ IsSequence(versions)
    BY <1>1, <1>3 DEF PutVersion, IInv, Documents
  <2>. QED
    BY <2>1, AppendSequence
<1>7. ASSUME NEW k, Marked(k) PROVE Marked(k)'
  BY <1>6, <1>7 DEF Marked
<1>8. o.deleted => Marked(o.at.node)'
  <2>1. o.deleted => o.content = Deleted
    BY <1>1, <1>2 DEF ChunksFirst, MarkerFirst
  <2>2. o.deleted => v.node = o.at.node /\ v.content = Deleted
    BY <1>3, <2>1
  <2>. QED
    BY <1>6, <2>2 DEF Marked
<1>9. Documents' /\ RecordsMarked'
  BY <1>2, <1>6, <1>7 DEF IInv, Documents, RecordsMarked
<1>10. WriterHoldsItsContent'
  <2>1. v.content # Deleted /\ ~v.copied => v.content \in chunks[v.by]
    BY <1>1, <1>2, <1>3 DEF ChunksFirst
  <2>. QED
    BY <1>2, <1>6, <2>1 DEF IInv, WriterHoldsItsContent
<1>11. CallOK(c)'
  <2>1. CallShape(op[c])'
    BY <1>4, <1>5 DEF CallShape
  <2>2. ChunksFirst(c)' /\ RenameOnly(c)'
    BY <1>1, <1>2, <1>4, <1>5 DEF ChunksFirst, RenameOnly
  <2>3. MarkerFirst(c)'
    BY <1>1, <1>2, <1>4, <1>5, <1>8 DEF MarkerFirst
  <2>. QED
    BY <2>1, <2>2, <2>3 DEF CallOK
<1>12. Calls'
  BY <1>2, <1>5, <1>6, <1>11, OneCall DEF IInv
<1>. QED
  BY <1>9, <1>10, <1>12 DEF IInv

LEMMA PutRecordStep == ASSUME IInv, NEW c \in Clients, PutRecord(c) PROVE IInv'
<1>1. PICK o : o = op[c]
  OBVIOUS
<1>2. /\ CallShape(o) /\ ChunksFirst(c) /\ MarkerFirst(c)
      /\ o.phase = "record" /\ PeerOf[c] \in Peers
      /\ UNCHANGED <<versions, chunks>>
  BY <1>1, PeerOfClient DEF IInv, Calls, CallOK, PutRecord
<1>3. PICK e, k : e = [at |-> o.at, deleted |-> o.deleted, by |-> PeerOf[c]] /\ k = Len(log) + 1
  OBVIOUS
<1>4. PICK n : n = IF o.then = None
                   THEN [o EXCEPT !.phase = "done"]
                   ELSE [o EXCEPT !.at = o.then, !.then = None, !.deleted = FALSE]
  OBVIOUS
<1>5. /\ CallShape(n) /\ n.call = o.call /\ n.content = o.content
      /\ n.phase \in {"record", "done"}
      /\ n.deleted = FALSE \/ (n.deleted = o.deleted /\ n.at = o.at)
  BY <1>2, <1>4 DEF CallShape
<1>6. op'[c] = n /\ op' = [op EXCEPT ![c] = op'[c]]
  BY <1>1, <1>4, OpOf DEF PutRecord, Continue, IInv
<1>7. /\ IsSequence(log') /\ DOMAIN log' = DOMAIN log \cup {k} /\ k \in Nat
      /\ \A i \in DOMAIN log : log'[i] = log[i]
      /\ log'[k] = e
  <2>1. log' = Append(log, e) /\ IsSequence(log)
    BY <1>1, <1>3 DEF PutRecord, IInv, Documents
  <2>. QED
    BY <1>3, <2>1, AppendSequence
<1>8. Documents'
  <2>1. recs' = [recs EXCEPT ![PeerOf[c]][o.at.node] = k]
    BY <1>1, <1>3 DEF PutRecord
  <2>2. recs \in [Peers -> [NodeIds -> Nat]]
    BY DEF IInv, Documents
  <2>3. recs' \in [Peers -> [NodeIds -> Nat]]
    BY <1>7, <2>1, <2>2
  <2>4. ASSUME NEW p \in Peers, NEW m \in NodeIds, recs'[p][m] # 0
        PROVE  recs'[p][m] \in DOMAIN log' /\ log'[recs'[p][m]].at.node = m
    <3>1. CASE p = PeerOf[c] /\ m = o.at.node
      BY <1>2, <1>3, <1>7, <2>1, <2>2, <3>1
    <3>2. CASE ~(p = PeerOf[c] /\ m = o.at.node)
      <4>1. recs'[p][m] = recs[p][m]
        BY <1>2, <2>1, <2>2, <3>2
      <4>. QED
        BY <1>7, <2>4, <4>1 DEF IInv, Documents
    <3>. QED
      BY <3>1, <3>2
  <2>. QED
    BY <1>2, <1>7, <2>3, <2>4 DEF IInv, Documents
<1>9. RecordsMarked'
  <2>1. e.deleted /\ e.at.kind = "file" => Marked(e.at.node)
    BY <1>1, <1>2, <1>3 DEF MarkerFirst
  <2>. QED
    BY <1>2, <1>7, <2>1 DEF IInv, RecordsMarked, Marked
<1>10. WriterHoldsItsContent'
  BY <1>2 DEF IInv, WriterHoldsItsContent
<1>11. CallOK(c)'
  <2>1. CallShape(op[c])'
    BY <1>5, <1>6 DEF CallShape
  <2>2. ChunksFirst(c)' /\ RenameOnly(c)'
    BY <1>1, <1>2, <1>5, <1>6 DEF ChunksFirst, RenameOnly
  <2>3. MarkerFirst(c)'
    BY <1>1, <1>2, <1>5, <1>6 DEF MarkerFirst, Marked
  <2>. QED
    BY <2>1, <2>2, <2>3 DEF CallOK
<1>12. Calls'
  BY <1>2, <1>6, <1>11, OneCall DEF IInv
<1>. QED
  BY <1>8, <1>9, <1>10, <1>12 DEF IInv

-----------------------------------------------------------------------------
(* Deliveries and crashes.                                                 *)

LEMMA DeliverStep == ASSUME IInv, NEW p \in Peers, Deliver(p) PROVE IInv'
<1>1. ASSUME UNCHANGED <<versions, op>>, \A q \in Peers : chunks[q] \subseteq chunks'[q]
      PROVE  Calls'
  <2>1. Calls /\ \A c \in Clients : PeerOf[c] \in Peers
    BY PeerOfClient DEF IInv
  <2>2. ASSUME NEW c \in Clients PROVE CallOK(c)'
    BY <1>1, <2>1 DEF Calls, CallOK, CallShape, ChunksFirst, MarkerFirst, RenameOnly, Marked
  <2>. QED
    BY <1>1, <2>1, <2>2 DEF Calls
<1>2. CASE DeliverRecord(p)
  <2>1. PICK i \in DOMAIN log :
          /\ recs' = [recs EXCEPT ![p][log[i].at.node] = i]
          /\ UNCHANGED <<log, versions, nodes, held, chunks, op, calls>>
    BY <1>2 DEF DeliverRecord
  <2>2. recs \in [Peers -> [NodeIds -> Nat]] /\ i \in Nat
    <3>1. IsSequence(log) /\ recs \in [Peers -> [NodeIds -> Nat]]
      BY DEF IInv, Documents
    <3>2. Len(log) \in Nat /\ DOMAIN log = 1..Len(log)
      BY <3>1, AppendSequence
    <3>. QED
      BY <3>1, <3>2
  <2>3. recs' \in [Peers -> [NodeIds -> Nat]]
    BY <2>1, <2>2
  <2>4. ASSUME NEW q \in Peers, NEW m \in NodeIds, recs'[q][m] # 0
        PROVE  recs'[q][m] \in DOMAIN log /\ log[recs'[q][m]].at.node = m
    <3>1. CASE q = p /\ m = log[i].at.node
      BY <2>1, <2>2, <3>1
    <3>2. CASE ~(q = p /\ m = log[i].at.node)
      <4>1. recs'[q][m] = recs[q][m]
        BY <2>1, <2>2, <3>2
      <4>. QED
        BY <2>4, <4>1 DEF IInv, Documents
    <3>. QED
      BY <3>1, <3>2
  <2>5. Documents'
    BY <2>1, <2>3, <2>4 DEF IInv, Documents
  <2>6. WriterHoldsItsContent' /\ RecordsMarked'
    BY <2>1 DEF IInv, WriterHoldsItsContent, RecordsMarked, Marked
  <2>. QED
    BY <1>1, <2>1, <2>5, <2>6 DEF IInv
<1>3. CASE DeliverVersion(p)
  <2>1. UNCHANGED <<log, versions, recs, chunks, op>>
    BY <1>3 DEF DeliverVersion
  <2>. QED
    BY <1>1, <2>1, SameDocuments DEF IInv
<1>4. CASE DeliverChunk(p)
  <2>1. PICK x : /\ chunks' = [chunks EXCEPT ![p] = @ \cup {x}]
                 /\ UNCHANGED <<log, versions, nodes, recs, held, op, calls>>
    BY <1>4 DEF DeliverChunk
  <2>. QED
    BY <1>1, <2>1, MoreChunks DEF IInv
<1>. QED
  BY <1>2, <1>3, <1>4 DEF Deliver

LEMMA CrashStep == ASSUME IInv, NEW p \in Peers, Crash(p) PROVE IInv'
<1>1. UNCHANGED <<log, versions, recs, chunks>>
  BY DEF Crash, documents
<1>2. op' = [c \in Clients |-> op'[c]] /\ \A c \in Clients : op'[c] \in {Idle, op[c]}
  BY DEF Crash
<1>3. ASSUME NEW c \in Clients PROVE CallOK(c)'
  <2>1. CASE op'[c] = Idle
    BY <2>1, IdleOK DEF CallOK, CallShape, ChunksFirst, MarkerFirst, RenameOnly
  <2>2. CASE op'[c] = op[c]
    BY <1>1, <2>2 DEF IInv, Calls, CallOK, CallShape, ChunksFirst, MarkerFirst, RenameOnly, Marked
  <2>. QED
    BY <1>2, <2>1, <2>2
<1>4. Calls'
  BY <1>2, <1>3 DEF Calls
<1>. QED
  BY <1>1, <1>4, SameDocuments DEF IInv

\* Every step of a call, and its return.
LEMMA StepKeeps == ASSUME IInv, NEW c \in Clients, Step(c) \/ Return(c) PROVE IInv'
<1>1. CASE ReadHeads(c)
  BY <1>1, ReadingStep DEF ReadHeads
<1>2. CASE ListChildren(c) \/ CheckDestination(c) \/ RemoveDestination(c) \/ Return(c)
  BY <1>2, ReadingStep
<1>. QED
  BY <1>1, <1>2, PutChunksStep, PutVersionStep, PutRecordStep DEF Step

\* Nothing that the invariant speaks of changes.
LEMMA NothingKeeps == ASSUME IInv, UNCHANGED <<log, versions, recs, chunks, op>> PROVE IInv'
<1>1. Calls'
  BY DEF IInv, Calls, CallOK, CallShape, ChunksFirst, MarkerFirst, RenameOnly, Marked
<1>. QED
  BY <1>1, SameDocuments DEF IInv

-----------------------------------------------------------------------------
LEMMA NextIInv == IInv /\ [Next]_vars => IInv'
<1>. SUFFICES ASSUME IInv, [Next]_vars PROVE IInv'
  OBVIOUS
<1>1. ASSUME NEW c \in Clients, Call(c) PROVE IInv'
  BY <1>1, CallStep
<1>2. ASSUME NEW c \in Clients, Step(c) \/ Return(c) PROVE IInv'
  BY <1>2, StepKeeps
<1>3. ASSUME NEW p \in Peers, Deliver(p) \/ Crash(p) PROVE IInv'
  BY <1>3, DeliverStep, CrashStep
<1>. QED
  BY <1>1, <1>2, <1>3, NothingKeeps DEF Next, vars, documents

THEOREM InvariantHolds == Spec => []IInv
BY InitIInv, NextIInv, PTL DEF Spec

\* What a peer wrote it can read back, wherever calls and peers stopped:
\* chunks are put before the version that needs them (writeFile).
THEOREM SharedFsWriterHoldsItsContent == Spec => []WriterHoldsItsContent
<1>1. IInv => WriterHoldsItsContent
  BY DEF IInv
<1>. QED
  BY <1>1, InvariantHolds, PTL

\* A file that is gone has a delete marker: rm puts it before the record, and
\* no delivery, rename or save hides a file without one.
THEOREM SharedFsGoneWasRemoved == Spec => []GoneWasRemoved
<1>1. IInv => GoneWasRemoved
  BY DEF IInv, Documents, RecordsMarked, Marked, GoneWasRemoved, PlaceOf
<1>. QED
  BY <1>1, InvariantHolds, PTL
-----------------------------------------------------------------------------
(* The mount: its steps keep what the filesystem relies on, and its        *)
(* handles know what they were opened on and what they have saved.         *)

\* The fields of a handle, the phase among those of a handle.
HandleShape(h) ==
    h \in [phase : {"closed", "opening", "open", "releasing"}, path : {h.path},
           create : {h.create}, truncate : {h.truncate}, content : {h.content},
           dirty : {h.dirty}, base : {h.base}, baseContent : {h.baseContent},
           opened : {h.opened}, seen : {h.seen}, saved : {h.saved}]

\* A handle that is not open yet has saved nothing, and its client is in no call.
OpensClean(c) ==
    /\ handle[c].phase \in {"closed", "opening"} => handle[c].saved = {}
    /\ handle[c].phase = "opening" => op[c] = Idle
    /\ handle[c].saved \subseteq DOMAIN versions

\* The base of a file that was opened is what showed then, or a save.
BaseIsKnown(c) ==
    /\ handle[c].base # None => handle[c].base \subseteq DOMAIN versions
    /\ handle[c].opened # None =>
           /\ handle[c].base # None
           /\ handle[c].base \subseteq handle[c].opened \cup handle[c].saved

\* The handle knows the content of the save that it is based on, and when it is clean
\* has it in its buffer.
SaveIsKnown(c) ==
    \A v \in handle[c].saved : handle[c].base = {v} =>
        /\ handle[c].baseContent = versions[v].content
        /\ handle[c].phase = "open" /\ ~handle[c].dirty /\ op[c] = Idle
               => handle[c].content = versions[v].content

\* The call of an open handle is a write of its buffer that replaces its base.
SaveRuns(c) ==
    IsOpen(c) /\ op[c] # Idle =>
        /\ op[c].call = "write" /\ op[c].base = handle[c].base
        /\ op[c].phase \in {"heads", "chunks", "version", "record", "done"}
        /\ ~handle[c].dirty => handle[c].content = op[c].content
        /\ op[c].phase \in {"chunks", "version"} /\ op[c].base # None
               => op[c].parents = op[c].base
        /\ op[c].phase \in {"record", "done"} =>
               /\ op[c].result \in DOMAIN versions
               /\ versions[op[c].result].content = op[c].content
               /\ op[c].base # None => op[c].result \in handle[c].saved

HandleOK(c) ==
    HandleShape(handle[c]) /\ OpensClean(c) /\ BaseIsKnown(c) /\ SaveIsKnown(c) /\ SaveRuns(c)
Handles == handle = [c \in Clients |-> handle[c]] /\ \A c \in Clients : HandleOK(c)

\* Peers hold versions that exist.
HeldExist ==
    /\ held = [p \in Peers |-> held[p]]
    /\ \A p \in Peers : held[p] \subseteq DOMAIN versions

\* What a save replaces is what its handle was opened on, or an earlier save.
ReplacesKnown ==
    \A s \in saves :
        /\ s.version \in DOMAIN versions
        /\ s.opened # None => versions[s.version].parents \subseteq s.opened \cup s.earlier

\* The inductive invariant of the mount.
MountInv == IInv /\ HeldExist /\ Handles /\ ReplacesKnown

-----------------------------------------------------------------------------
\* The calls and steps of a client change its own call only.
LEMMA OwnCall ==
    ASSUME Calls, NEW c \in Clients,
           \/ Call(c) \/ Step(c) \/ Return(c) \/ Fail(c)
           \/ \E x : ReadHeadsFor(c, x)
           \/ \E path, content, base : WriteFile(c, path, content, base)
    PROVE  op' = [op EXCEPT ![c] = op'[c]]
<1>1. \A o : op' = [op EXCEPT ![c] = o] => op' = [op EXCEPT ![c] = op'[c]]
  BY OpOf
<1>2. \A o : Continue(c, o) \/ Begin(c, o) => op' = [op EXCEPT ![c] = op'[c]]
  BY <1>1 DEF Continue, Begin
<1>3. ASSUME NEW path, NEW content, NEW base, WriteFile(c, path, content, base)
      PROVE  op' = [op EXCEPT ![c] = op'[c]]
  BY <1>2, <1>3 DEF WriteFile
<1>4. ASSUME NEW x, ReadHeadsFor(c, x) PROVE op' = [op EXCEPT ![c] = op'[c]]
  BY <1>2, <1>4, Zenon DEF ReadHeadsFor
<1>5. CASE Call(c)
  BY <1>2, <1>3, <1>5 DEF Call, MakeDirectory, RemovePath, Rename, ResolveConflict
<1>6. CASE Step(c) \/ Return(c) \/ Fail(c)
  <2>1. CASE ReadHeads(c)
    BY <1>4, <2>1 DEF ReadHeads
  <2>2. CASE PutChunks(c) \/ PutVersion(c) \/ PutRecord(c) \/ Return(c) \/ Fail(c)
    BY <1>2, <2>2 DEF PutChunks, PutVersion, PutRecord, Return, Fail
  <2>3. CASE ListChildren(c) \/ CheckDestination(c) \/ RemoveDestination(c)
    BY <1>2, <2>3, Zenon DEF ListChildren, CheckDestination, RemoveDestination, Fail
  <2>. QED
    BY <1>6, <2>1, <2>2, <2>3 DEF Step
<1>. QED
  BY <1>3, <1>4, <1>5, <1>6

\* Every step of the mount keeps what the filesystem relies on.
LEMMA MountKeepsInv == ASSUME IInv, [MountNext]_mountVars PROVE IInv'
<1>1. ASSUME NEW c \in Clients, NEW o, OpenPath(c, o) PROVE IInv'
  BY <1>1, NothingKeeps DEF OpenPath, documents
<1>2. ASSUME NEW c \in Clients, NEW x,
             WriteHandle(c, x) \/ LoadContent(c) \/ Release(c) \/ Released(c)
      PROVE  IInv'
  BY <1>2, NothingKeeps
  DEF WriteHandle, LoadContent, Release, Released, vars, documents
<1>3. ASSUME NEW c \in Clients, Commit(c) PROVE IInv'
  <2>1. UNCHANGED vars \/ \E path, content, base : WriteFile(c, path, content, base)
    BY <1>3 DEF Commit
  <2>. QED
    BY <2>1, WriteStep, NothingKeeps DEF vars, documents
<1>4. ASSUME NEW c \in Clients, SaveReadsHeads(c) PROVE IInv'
  BY <1>4, ReadingStep DEF SaveReadsHeads, IsSave
<1>5. ASSUME NEW c \in Clients, ChunkRefused(c) \/ SaveReturns(c) \/ ReturnCall(c)
      PROVE  IInv'
  BY <1>5, ReadingStep DEF ChunkRefused, SaveReturns, ReturnCall
<1>6. ASSUME NEW c \in Clients, PutSavedVersion(c) PROVE IInv'
  BY <1>6, PutVersionStep DEF PutSavedVersion
<1>7. ASSUME NEW c \in Clients, CallWithoutHandle(c) PROVE IInv'
  BY <1>7, CallStep DEF CallWithoutHandle
<1>8. ASSUME NEW c \in Clients, StepOfCall(c) PROVE IInv'
  BY <1>8, StepKeeps, PutChunksStep, PutRecordStep DEF StepOfCall
<1>9. ASSUME NEW p \in Peers, Deliver(p) \/ CrashMount(p) PROVE IInv'
  BY <1>9, DeliverStep, CrashStep DEF CrashMount
<1>10. CASE UNCHANGED mountVars
  BY <1>10, NothingKeeps DEF mountVars, vars, documents
<1>. QED
  BY <1>1, <1>2, <1>3, <1>4, <1>5, <1>6, <1>7, <1>8, <1>9, <1>10 DEF MountNext

\* Versions stay as they are.
Grown == \A v \in DOMAIN versions : v \in DOMAIN versions' /\ versions'[v] = versions[v]

\* What putting a version does to the versions and to the call.
LEMMA VersionPut ==
    ASSUME IInv, NEW c \in Clients, PutVersion(c)
    PROVE  /\ Grown /\ Len(versions') \in Nat /\ Len(versions') \notin DOMAIN versions
           /\ DOMAIN versions' = DOMAIN versions \cup {Len(versions')}
           /\ versions'[Len(versions')].content = op[c].content
           /\ versions'[Len(versions')].parents = op[c].parents
           /\ op'[c] = [op[c] EXCEPT !.phase = "record", !.result = Len(versions')]
           /\ held' = [held EXCEPT ![PeerOf[c]] = @ \cup {Len(versions')}]
<1>1. PICK v : /\ v = [node |-> op[c].at.node, parents |-> op[c].parents,
                       content |-> op[c].content, by |-> PeerOf[c],
                       copied |-> op[c].call = "resolve"]
               /\ versions' = Append(versions, v)
  BY DEF PutVersion
<1>2. /\ Len(versions) \in Nat /\ Len(versions') = Len(versions) + 1
      /\ DOMAIN versions = 1 .. Len(versions) /\ DOMAIN versions' = 1 .. (Len(versions) + 1)
      /\ Grown /\ versions'[Len(versions) + 1] = v
  BY <1>1, AppendSequence DEF IInv, Documents, Grown
<1>3. op' = [op EXCEPT ![c] = [op[c] EXCEPT !.phase = "record", !.result = Len(versions')]]
  BY <1>2 DEF PutVersion, Continue
<1>4. held' = [held EXCEPT ![PeerOf[c]] = @ \cup {Len(versions')}]
  BY <1>2 DEF PutVersion
<1>5. op'[c] = [op[c] EXCEPT !.phase = "record", !.result = Len(versions')]
  BY <1>3, OpOf DEF IInv
<1>. QED
  BY <1>1, <1>2, <1>4, <1>5

\* The versions and who holds them change only as versions are put and delivered.
LEMMA VersionsOf ==
    ASSUME [MountNext]_mountVars
    PROVE  \/ UNCHANGED <<versions, held>>
           \/ \E p \in Peers : DeliverVersion(p)
           \/ \E c \in Clients : PutVersion(c)
<1>. USE DEF vars, documents
<1>1. ASSUME NEW c \in Clients, NEW path, NEW content, NEW base,
             WriteFile(c, path, content, base)
      PROVE  UNCHANGED <<versions, held>>
  BY <1>1 DEF WriteFile
<1>2. ASSUME NEW c \in Clients, Call(c) PROVE UNCHANGED <<versions, held>>
  BY <1>1, <1>2 DEF Call, MakeDirectory, RemovePath, Rename, ResolveConflict
<1>3. ASSUME NEW c \in Clients, NEW x, ReadHeadsFor(c, x) PROVE UNCHANGED <<versions, held>>
  BY <1>3 DEF ReadHeadsFor
<1>4. ASSUME NEW c \in Clients, Step(c)
      PROVE  UNCHANGED <<versions, held>> \/ PutVersion(c)
  BY <1>3, <1>4
  DEF Step, ReadHeads, PutChunks, PutRecord, ListChildren, CheckDestination, RemoveDestination
<1>5. ASSUME NEW c \in Clients, NEW o, OpenPath(c, o) PROVE UNCHANGED <<versions, held>>
  BY <1>5 DEF OpenPath
<1>6. ASSUME NEW c \in Clients, NEW x,
             WriteHandle(c, x) \/ LoadContent(c) \/ Release(c) \/ Released(c)
      PROVE  UNCHANGED <<versions, held>>
  BY <1>6 DEF WriteHandle, LoadContent, Release, Released
<1>7. ASSUME NEW c \in Clients,
             Commit(c) \/ SaveReadsHeads(c) \/ ChunkRefused(c) \/ SaveReturns(c) \/ ReturnCall(c)
      PROVE  UNCHANGED <<versions, held>>
  BY <1>1, <1>3, <1>7 DEF Commit, SaveReadsHeads, ChunkRefused, SaveReturns, ReturnCall, Return
<1>8. ASSUME NEW c \in Clients, PutSavedVersion(c) \/ CallWithoutHandle(c) \/ StepOfCall(c)
      PROVE  UNCHANGED <<versions, held>> \/ PutVersion(c)
  BY <1>2, <1>4, <1>8
  DEF PutSavedVersion, CallWithoutHandle, StepOfCall, PutChunks, PutRecord
<1>9. ASSUME NEW p \in Peers, Deliver(p) \/ CrashMount(p)
      PROVE  UNCHANGED <<versions, held>> \/ DeliverVersion(p)
  BY <1>9 DEF Deliver, DeliverRecord, DeliverChunk, CrashMount, Crash
<1>. QED
  BY <1>5, <1>6, <1>7, <1>8, <1>9 DEF MountNext, mountVars

\* Versions are put and never change, and peers hold only those that exist.
LEMMA VersionsStay ==
    ASSUME IInv, HeldExist, [MountNext]_mountVars
    PROVE  Grown /\ HeldExist'
<1>1. CASE UNCHANGED <<versions, held>>
  BY <1>1 DEF Grown, HeldExist
<1>2. ASSUME NEW p \in Peers, DeliverVersion(p) PROVE Grown /\ HeldExist'
  <2>1. PICK v \in DOMAIN versions : /\ held' = [held EXCEPT ![p] = @ \cup {v}]
                                     /\ versions' = versions
    BY <1>2 DEF DeliverVersion
  <2>2. \A q \in Peers : held'[q] = IF q = p THEN held[p] \cup {v} ELSE held[q]
    BY <2>1 DEF HeldExist
  <2>3. held' = [q \in Peers |-> held'[q]]
    BY <2>1 DEF HeldExist
  <2>. QED
    BY <2>1, <2>2, <2>3 DEF Grown, HeldExist
<1>3. ASSUME NEW c \in Clients, PutVersion(c) PROVE Grown /\ HeldExist'
  <2>1. PICK n : /\ Grown /\ DOMAIN versions' = DOMAIN versions \cup {n}
                 /\ held' = [held EXCEPT ![PeerOf[c]] = @ \cup {n}]
    BY <1>3, VersionPut
  <2>2. \A q \in Peers : held'[q] = IF q = PeerOf[c] THEN held[q] \cup {n} ELSE held[q]
    BY <2>1 DEF HeldExist
  <2>3. held' = [q \in Peers |-> held'[q]]
    BY <2>1 DEF HeldExist
  <2>. QED
    BY <2>1, <2>2, <2>3 DEF HeldExist
<1>. QED
  BY <1>1, <1>2, <1>3, VersionsOf

-----------------------------------------------------------------------------
(* The handles, one at a time.                                             *)

\* A step that leaves a handle its content and its call alone keeps it right.
LEMMA HandleKept ==
    ASSUME NEW c \in Clients, HandleOK(c), Grown, NEW path,
           handle'[c] \in {handle[c], [handle[c] EXCEPT !.path = path]},
           op'[c] = op[c] \/ handle[c].phase = "closed"
    PROVE  HandleOK(c)'
<1>1. /\ HandleShape(handle[c]) /\ OpensClean(c) /\ BaseIsKnown(c)
      /\ SaveIsKnown(c) /\ SaveRuns(c)
  BY DEF HandleOK
<1>2. PICK h, k : h = handle[c] /\ k = handle'[c]
  OBVIOUS
<1>3. /\ HandleShape(k) /\ k.phase = h.phase /\ k.content = h.content /\ k.dirty = h.dirty
      /\ k.base = h.base /\ k.baseContent = h.baseContent /\ k.opened = h.opened
      /\ k.saved = h.saved
  BY <1>1, <1>2 DEF HandleShape
<1>4. h.phase = "closed" \/ op'[c] = op[c]
  BY <1>2
<1>5. HandleShape(handle[c])'
  BY <1>2, <1>3 DEF HandleShape
<1>6. OpensClean(c)' /\ BaseIsKnown(c)'
  BY <1>1, <1>2, <1>3, <1>4 DEF OpensClean, BaseIsKnown, Grown
<1>7. SaveIsKnown(c)'
  BY <1>1, <1>2, <1>3, <1>4 DEF SaveIsKnown, OpensClean, Grown
<1>8. SaveRuns(c)'
  BY <1>1, <1>2, <1>3, <1>4 DEF SaveRuns, IsOpen, Grown
<1>. QED
  BY <1>5, <1>6, <1>7, <1>8 DEF HandleOK

\* A handle that is closed is right, whatever its client calls.
LEMMA ClosedOK ==
    ASSUME NEW c \in Clients, handle'[c] = Closed
    PROVE  HandleOK(c)'
<1>1. /\ HandleShape(Closed) /\ Closed.phase = "closed" /\ Closed.saved = {}
      /\ Closed.base = None /\ Closed.opened = None
  BY DEF Closed, HandleShape
<1>2. HandleShape(handle[c])'
  BY <1>1 DEF HandleShape
<1>. QED
  BY <1>1, <1>2 DEF HandleOK, OpensClean, BaseIsKnown, SaveIsKnown, SaveRuns, IsOpen

\* A step of one client changes its own handle and its own call.
LEMMA OneHandle ==
    ASSUME IInv, Handles, Grown, NEW c \in Clients, HandleOK(c)',
           handle' = [handle EXCEPT ![c] = handle'[c]],
           op' = [op EXCEPT ![c] = op'[c]]
    PROVE  Handles'
<1>1. handle' = [d \in Clients |-> handle'[d]]
  BY DEF Handles
<1>2. ASSUME NEW d \in Clients \ {c} PROVE handle'[d] = handle[d] /\ op'[d] = op[d]
  BY DEF Handles, IInv, Calls
<1>3. ASSUME NEW d \in Clients \ {c} PROVE HandleOK(d)'
  <2>1. HandleOK(d) /\ d \in Clients
    BY DEF Handles
  <2>. QED
    BY <1>2, <2>1, HandleKept
<1>. QED
  BY <1>1, <1>3 DEF Handles

\* What setting a handle does.
LEMMA HandleSet ==
    ASSUME Handles, NEW c \in Clients, NEW h, SetHandle(c, h)
    PROVE  handle'[c] = h /\ handle' = [handle EXCEPT ![c] = handle'[c]]
BY DEF Handles, SetHandle

\* The parts of the invariant of a handle, of its shape and of its call.
LEMMA HandleParts ==
    ASSUME IInv, Handles, NEW c \in Clients
    PROVE  /\ HandleShape(handle[c]) /\ OpensClean(c) /\ BaseIsKnown(c)
           /\ SaveIsKnown(c) /\ SaveRuns(c) /\ CallShape(op[c])
BY DEF Handles, HandleOK, IInv, Calls, CallOK

\* A client without a call.
LEMMA IdleSaves ==
    ASSUME NEW c \in Clients, op'[c] = Idle PROVE SaveRuns(c)'
BY DEF SaveRuns

\* A handle that is being opened has the heads that showed as its base, or none.
LEMMA OpenPathHandle ==
    ASSUME IInv, Handles, HeldExist, Grown, NEW c \in Clients, NEW o, OpenPath(c, o)
    PROVE  HandleOK(c)' /\ handle' = [handle EXCEPT ![c] = handle'[c]]
<1>. DEFINE new == [Closed EXCEPT !.phase = "opening", !.path = o.path,
                                  !.create = o.create, !.truncate = o.truncate]
<1>1. UNCHANGED op /\ op[c] = Idle /\ UNCHANGED versions
  BY DEF OpenPath, documents
<1>2. PICK heads, content :
        /\ heads \subseteq DOMAIN versions
        /\ \/ SetHandle(c, new)
           \/ SetHandle(c, [new EXCEPT !.base = heads, !.opened = heads,
                                       !.baseContent = content])
  <2>. DEFINE p == PeerOf[c]
              n == ResolvePath(p, o.path)
              content == versions[Visible(p, n)].content
  <2>1. Heads(p, n) \subseteq DOMAIN versions
    BY PeerOfClient DEF Heads, HeadDocuments, HeldExist
  <2>2. \/ SetHandle(c, new)
        \/ SetHandle(c, [new EXCEPT !.base = Heads(p, n), !.opened = Heads(p, n),
                                    !.baseContent = content])
    BY Zenon DEF OpenPath
  <2>. HIDE DEF p, n, content, new
  <2>. QED
    BY <2>1, <2>2
<1>3. PICK h : SetHandle(c, h) /\ h \in {new, [new EXCEPT !.base = heads, !.opened = heads,
                                                       !.baseContent = content]}
  BY <1>2
<1>4. /\ HandleShape(h) /\ h.phase = "opening" /\ h.saved = {} /\ h.base = h.opened
      /\ h.base = None \/ h.base = heads
  BY <1>3 DEF HandleShape, Closed
<1>5. handle'[c] = h /\ handle' = [handle EXCEPT ![c] = handle'[c]]
  BY <1>3, HandleSet
<1>6. HandleShape(handle[c])'
  BY <1>4, <1>5 DEF HandleShape
<1>. QED
  BY <1>1, <1>2, <1>4, <1>5, <1>6, IdleSaves
  DEF HandleOK, OpensClean, BaseIsKnown, SaveIsKnown

\* With its content it is open, and has saved nothing yet.
LEMMA LoadContentHandle ==
    ASSUME IInv, Handles, Grown, NEW c \in Clients, LoadContent(c)
    PROVE  HandleOK(c)' /\ handle' = [handle EXCEPT ![c] = handle'[c]]
<1>. DEFINE h == handle[c]
            loaded == [h EXCEPT !.phase = "open",
                                !.dirty = h.truncate \/ (h.create /\ h.base = None)]
<1>1. /\ h.phase = "opening" /\ UNCHANGED <<versions, op>>
  BY DEF LoadContent, vars, documents
<1>2. /\ HandleShape(h) /\ OpensClean(c) /\ BaseIsKnown(c)
  BY HandleParts
<1>3. PICK k : /\ SetHandle(c, k)
               /\ \/ k = Closed
                  \/ \E seen : k = [loaded EXCEPT !.seen = seen]
                  \/ \E content, seen : k = [loaded EXCEPT !.content = content, !.seen = seen]
  <2>1. \/ \E seen : SetHandle(c, [loaded EXCEPT !.seen = seen])
        \/ \E v, content, seen :
              SetHandle(c, IF v = None THEN Closed
                           ELSE [loaded EXCEPT !.content = content, !.seen = seen])
    BY Zenon DEF LoadContent
  <2>. HIDE DEF loaded, h
  <2>2. ASSUME NEW v, NEW content, NEW seen,
               SetHandle(c, IF v = None THEN Closed
                            ELSE [loaded EXCEPT !.content = content, !.seen = seen])
        PROVE  \/ SetHandle(c, Closed)
               \/ SetHandle(c, [loaded EXCEPT !.content = content, !.seen = seen])
    BY <2>2, Zenon
  <2>. QED
    BY <2>1, <2>2
<1>4. handle'[c] = k /\ handle' = [handle EXCEPT ![c] = handle'[c]]
  BY <1>3, HandleSet
<1>5. CASE k = Closed
  BY <1>4, <1>5, ClosedOK
<1>6. CASE k # Closed
  <2>1. /\ HandleShape(k) /\ k.phase = "open" /\ k.saved = h.saved /\ k.base = h.base
        /\ k.opened = h.opened
    BY <1>2, <1>3, <1>6 DEF HandleShape
  <2>2. HandleShape(handle[c])'
    BY <1>4, <2>1 DEF HandleShape
  <2>3. op[c] = Idle /\ h.saved = {}
    BY <1>1, <1>2 DEF OpensClean
  <2>. QED
    BY <1>1, <1>2, <1>4, <2>1, <2>2, <2>3, IdleSaves
    DEF HandleOK, OpensClean, BaseIsKnown, SaveIsKnown
<1>. QED
  BY <1>4, <1>5, <1>6

\* A write makes it dirty.
LEMMA WriteHandleHandle ==
    ASSUME IInv, Handles, Grown, NEW c \in Clients, NEW x, WriteHandle(c, x)
    PROVE  HandleOK(c)' /\ handle' = [handle EXCEPT ![c] = handle'[c]]
<1>1. PICK k : k = [handle[c] EXCEPT !.content = x, !.dirty = TRUE]
  OBVIOUS
<1>2. /\ SetHandle(c, k) /\ handle[c].phase = "open" /\ UNCHANGED <<versions, op>>
  BY <1>1 DEF WriteHandle, vars, documents
<1>3. /\ HandleShape(handle[c]) /\ OpensClean(c) /\ BaseIsKnown(c)
      /\ SaveIsKnown(c) /\ SaveRuns(c)
  BY HandleParts
<1>4. /\ HandleShape(k) /\ k.phase = "open" /\ k.dirty /\ k.base = handle[c].base
      /\ k.opened = handle[c].opened /\ k.saved = handle[c].saved
      /\ k.baseContent = handle[c].baseContent
  BY <1>1, <1>2, <1>3 DEF HandleShape
<1>5. handle'[c] = k /\ handle' = [handle EXCEPT ![c] = handle'[c]]
  BY <1>2, HandleSet
<1>6. HandleShape(handle[c])'
  BY <1>4, <1>5 DEF HandleShape
<1>7. SaveRuns(c)'
  BY <1>2, <1>3, <1>4, <1>5 DEF SaveRuns, IsOpen
<1>. QED
  BY <1>2, <1>3, <1>4, <1>5, <1>6, <1>7
  DEF HandleOK, OpensClean, BaseIsKnown, SaveIsKnown

\* A handle that is to be released keeps what it knows.
LEMMA ReleaseHandle ==
    ASSUME IInv, Handles, Grown, NEW c \in Clients, Release(c)
    PROVE  HandleOK(c)' /\ handle' = [handle EXCEPT ![c] = handle'[c]]
<1>1. PICK k : k = [handle[c] EXCEPT !.phase = "releasing"]
  OBVIOUS
<1>2. /\ SetHandle(c, k) /\ handle[c].phase = "open" /\ UNCHANGED <<versions, op>>
  BY <1>1 DEF Release, vars, documents
<1>3. /\ HandleShape(handle[c]) /\ OpensClean(c) /\ BaseIsKnown(c)
      /\ SaveIsKnown(c) /\ SaveRuns(c)
  BY HandleParts
<1>4. /\ HandleShape(k) /\ k.phase = "releasing" /\ k.dirty = handle[c].dirty
      /\ k.base = handle[c].base /\ k.content = handle[c].content
      /\ k.opened = handle[c].opened /\ k.saved = handle[c].saved
      /\ k.baseContent = handle[c].baseContent
  BY <1>1, <1>2, <1>3 DEF HandleShape
<1>5. handle'[c] = k /\ handle' = [handle EXCEPT ![c] = handle'[c]]
  BY <1>2, HandleSet
<1>6. HandleShape(handle[c])'
  BY <1>4, <1>5 DEF HandleShape
<1>7. SaveRuns(c)'
  BY <1>2, <1>3, <1>4, <1>5 DEF SaveRuns, IsOpen
<1>. QED
  BY <1>2, <1>3, <1>4, <1>5, <1>6, <1>7
  DEF HandleOK, OpensClean, BaseIsKnown, SaveIsKnown

-----------------------------------------------------------------------------
(* The saves.  None stands for undefined, which is no set of versions.     *)

NoneIsNoSet == None \notin SUBSET Nat

\* A call that is in a phase of its own is not idle.
LEMMA NotIdle == \A o : o.phase # "idle" => o # Idle
BY IdleOK

\* A handle that is released is closed.
LEMMA ReleasedHandle ==
    ASSUME IInv, Handles, Grown, NEW c \in Clients, Released(c)
    PROVE  HandleOK(c)' /\ handle' = [handle EXCEPT ![c] = handle'[c]]
<1>1. handle'[c] = Closed /\ handle' = [handle EXCEPT ![c] = handle'[c]]
  BY HandleSet DEF Released
<1>. QED
  BY <1>1, ClosedOK

\* A failed save leaves a handle that is closed or dirty.
LEMMA FailureHandle ==
    ASSUME IInv, Handles, Grown, NEW c \in Clients, SetHandle(c, AfterFailure(handle[c])),
           op'[c] = Idle, IsOpen(c)
    PROVE  HandleOK(c)' /\ handle' = [handle EXCEPT ![c] = handle'[c]]
<1>1. PICK k : k = AfterFailure(handle[c])
  OBVIOUS
<1>2. handle'[c] = k /\ handle' = [handle EXCEPT ![c] = handle'[c]]
  BY <1>1, HandleSet
<1>3. HandleShape(handle[c]) /\ OpensClean(c) /\ BaseIsKnown(c) /\ SaveIsKnown(c)
  BY HandleParts
<1>4. CASE k = Closed
  BY <1>2, <1>4, ClosedOK
<1>5. CASE k = [handle[c] EXCEPT !.dirty = TRUE]
  <2>1. /\ HandleShape(k) /\ k.phase = handle[c].phase /\ k.dirty
        /\ k.base = handle[c].base /\ k.opened = handle[c].opened
        /\ k.saved = handle[c].saved /\ k.baseContent = handle[c].baseContent
    BY <1>3, <1>5 DEF HandleShape
  <2>2. HandleShape(handle[c])'
    BY <1>2, <2>1 DEF HandleShape
  <2>. QED
    BY <1>2, <1>3, <2>1, <2>2, IdleSaves
    DEF HandleOK, OpensClean, BaseIsKnown, SaveIsKnown, IsOpen, Grown
<1>. QED
  BY <1>1, <1>2, <1>4, <1>5, Zenon DEF AfterFailure

\* How a write begins.
LEMMA WriteBegins ==
    ASSUME IInv, NEW c \in Clients, NEW path, NEW content, NEW base,
           WriteFile(c, path, content, base)
    PROVE  /\ op[c] = Idle /\ UNCHANGED versions
           /\ op'[c].phase = "heads" /\ op'[c].call = "write"
           /\ op'[c].content = content /\ op'[c].base = base
<1>1. PICK at :
        op' = [op EXCEPT ![c] = [Idle EXCEPT !.phase = "heads", !.call = "write",
                 !.path = path, !.at = at, !.content = content, !.base = base]]
  BY DEF WriteFile, Begin
<1>. DEFINE o == [Idle EXCEPT !.phase = "heads", !.call = "write",
                 !.path = path, !.at = at, !.content = content, !.base = base]
<1>2. /\ o.phase = "heads" /\ o.call = "write"
      /\ o.content = content /\ o.base = base
  BY DEF Idle
<1>. HIDE DEF o
<1>3. op'[c] = o
  BY <1>1, OpOf DEF o, IInv
<1>. QED
  BY <1>2, <1>3 DEF WriteFile, Begin

\* A save begins with the buffer and the base of the handle, or there is nothing to save.
LEMMA CommitHandle ==
    ASSUME IInv, Handles, Grown, NEW c \in Clients, Commit(c)
    PROVE  HandleOK(c)' /\ handle' = [handle EXCEPT ![c] = handle'[c]]
<1>1. PICK k : k = [handle[c] EXCEPT !.dirty = FALSE]
  OBVIOUS
<1>2. IsOpen(c) /\ op[c] = Idle
  BY DEF Commit
<1>3. HandleShape(handle[c]) /\ OpensClean(c) /\ BaseIsKnown(c) /\ SaveIsKnown(c)
  BY HandleParts
<1>4. /\ HandleShape(k) /\ k.phase = handle[c].phase /\ k.content = handle[c].content
      /\ k.base = handle[c].base /\ k.opened = handle[c].opened
      /\ k.saved = handle[c].saved /\ k.baseContent = handle[c].baseContent
  BY <1>1, <1>3 DEF HandleShape
<1>5. ASSUME SetHandle(c, k)
      PROVE  /\ handle'[c] = k /\ handle' = [handle EXCEPT ![c] = handle'[c]]
             /\ HandleShape(handle[c])' /\ OpensClean(c)' /\ BaseIsKnown(c)'
  <2>1. handle'[c] = k /\ handle' = [handle EXCEPT ![c] = handle'[c]]
    BY <1>5, HandleSet
  <2>2. HandleShape(handle[c])'
    BY <1>4, <2>1 DEF HandleShape
  <2>. QED
    BY <1>2, <1>3, <1>4, <2>1, <2>2 DEF OpensClean, BaseIsKnown, IsOpen, Grown
<1>6. CASE NothingToSave(handle[c]) /\ SetHandle(c, k) /\ UNCHANGED vars
  <2>1. op'[c] = Idle /\ UNCHANGED versions
    BY <1>2, <1>6 DEF vars, documents
  <2>2. handle[c].baseContent = handle[c].content
    BY <1>6 DEF NothingToSave
  <2>3. SaveIsKnown(c)'
    BY <1>3, <1>4, <1>5, <1>6, <2>1, <2>2 DEF SaveIsKnown
  <2>. QED
    BY <1>5, <1>6, <2>1, <2>3, IdleSaves DEF HandleOK
<1>7. CASE SetHandle(c, k) /\ WriteFile(c, handle[c].path, handle[c].content, handle[c].base)
  <2>1. /\ UNCHANGED versions
        /\ op'[c].phase = "heads" /\ op'[c].call = "write"
        /\ op'[c].content = handle[c].content /\ op'[c].base = handle[c].base
    BY <1>7, WriteBegins
  <2>2. op'[c] # Idle
    BY <2>1, NotIdle
  <2>3. SaveIsKnown(c)'
    BY <1>3, <1>4, <1>5, <1>7, <2>1, <2>2 DEF SaveIsKnown
  <2>4. SaveRuns(c)'
    BY <1>4, <1>5, <1>7, <2>1 DEF SaveRuns
  <2>. QED
    BY <1>5, <1>7, <2>3, <2>4 DEF HandleOK
<1>8. CASE SetHandle(c, AfterFailure(handle[c])) /\ UNCHANGED vars
  <2>1. op'[c] = Idle
    BY <1>2, <1>8 DEF vars
  <2>. QED
    BY <1>2, <1>8, <2>1, FailureHandle
<1>. QED
  BY <1>1, <1>6, <1>7, <1>8 DEF Commit

\* A save whose chunk is refused fails.
LEMMA ChunkRefusedHandle ==
    ASSUME IInv, Handles, Grown, NEW c \in Clients, ChunkRefused(c)
    PROVE  HandleOK(c)' /\ handle' = [handle EXCEPT ![c] = handle'[c]]
<1>1. op'[c] = Idle
  BY OpOf DEF ChunkRefused, Fail, Continue, IInv
<1>. QED
  BY <1>1, FailureHandle DEF ChunkRefused, IsSave

\* The maximum of one number.
LEMMA MaxOfOne == \A v \in Nat : Max({v}) = v
BY DEF Max

\* What reading the heads does to a write.
LEMMA HeadsRead ==
    ASSUME IInv, HeldExist, NEW c \in Clients, NEW x, ReadHeadsFor(c, x), op[c].call = "write"
    PROVE  /\ UNCHANGED versions /\ op[c].phase = "heads"
           /\ op'[c].call = "write" /\ op'[c].base = op[c].base /\ op'[c].content = x
           /\ \/ /\ op'[c].phase = "done" /\ op[c].base = None
                 /\ op'[c].result \in DOMAIN versions
                 /\ versions[op'[c].result].content = x
              \/ /\ op'[c].phase = "chunks"
                 /\ op[c].base # None => op'[c].parents = op[c].base
<1>. DEFINE o == [op[c] EXCEPT !.content = x]
            heads == Heads(PeerOf[c], o.at.node)
<1>1. /\ CallShape(o) /\ o.call = "write" /\ o.base = op[c].base /\ o.content = x
      /\ o.phase = op[c].phase
  BY DEF IInv, Calls, CallOK, CallShape
<1>2. o.phase = "heads" /\ UNCHANGED versions
  BY DEF ReadHeadsFor, documents
<1>3. \/ /\ o.base = None /\ \E v \in heads : heads = {v} /\ versions[v].content = o.content
         /\ Continue(c, [o EXCEPT !.phase = "done", !.result = Max(heads)])
      \/ Continue(c, [o EXCEPT !.phase = "chunks",
                               !.parents = IF o.base = None THEN heads ELSE o.base])
  BY <1>1 DEF ReadHeadsFor
<1>4. ASSUME NEW n, Continue(c, n) PROVE op'[c] = n
  BY <1>4, OpOf DEF Continue, IInv
<1>5. heads \subseteq DOMAIN versions /\ DOMAIN versions \subseteq Nat
  <2>1. heads \subseteq held[PeerOf[c]]
    BY DEF Heads, HeadDocuments
  <2>2. DOMAIN versions \subseteq Nat
    <3>1. Len(versions) \in Nat /\ DOMAIN versions = 1 .. Len(versions)
      BY AppendSequence DEF IInv, Documents
    <3>. QED
      BY <3>1
  <2>. QED
    BY <2>1, <2>2, PeerOfClient DEF HeldExist
<1>. HIDE DEF o, heads
<1>6. CASE /\ o.base = None /\ \E v \in heads : heads = {v} /\ versions[v].content = o.content
           /\ Continue(c, [o EXCEPT !.phase = "done", !.result = Max(heads)])
  <2>1. PICK v \in heads : heads = {v} /\ versions[v].content = x
    BY <1>1, <1>6
  <2>2. Max(heads) = v /\ v \in DOMAIN versions
    BY <1>5, <2>1, MaxOfOne
  <2>3. PICK n : n = [o EXCEPT !.phase = "done", !.result = v]
    OBVIOUS
  <2>4. op'[c] = n
    BY <1>4, <1>6, <2>2, <2>3
  <2>5. n.phase = "done" /\ n.result = v /\ n.call = o.call /\ n.base = o.base
        /\ n.content = o.content
    BY <1>1, <2>3 DEF CallShape
  <2>. QED
    BY <1>1, <1>2, <1>6, <2>1, <2>2, <2>4, <2>5
<1>7. CASE Continue(c, [o EXCEPT !.phase = "chunks",
                                 !.parents = IF o.base = None THEN heads ELSE o.base])
  <2>1. PICK n, parents : /\ n = [o EXCEPT !.phase = "chunks", !.parents = parents]
                          /\ o.base # None => parents = o.base
                          /\ op'[c] = n
    BY <1>4, <1>7
  <2>2. n.phase = "chunks" /\ n.parents = parents /\ n.call = o.call /\ n.base = o.base
        /\ n.content = o.content
    BY <1>1, <2>1 DEF CallShape
  <2>. QED
    BY <1>1, <1>2, <2>1, <2>2
<1>. QED
  BY <1>3, <1>6, <1>7

\* A step of a save that leaves its handle alone and does not end it.
LEMMA SaveGoesOn ==
    ASSUME IInv, Handles, Grown, NEW c \in Clients, IsSave(c), UNCHANGED <<handle, versions>>,
           op[c].phase # "idle", op'[c].phase # "idle",
           op'[c].call = "write", op'[c].base = op[c].base,
           op'[c].phase \in {"heads", "chunks", "version", "record", "done"},
           ~handle[c].dirty => handle[c].content = op'[c].content,
           op'[c].phase \in {"chunks", "version"} /\ op[c].base # None
               => op'[c].parents = op[c].base,
           op'[c].phase \in {"record", "done"} =>
               /\ op'[c].result \in DOMAIN versions
               /\ versions[op'[c].result].content = op'[c].content
               /\ op[c].base # None => op'[c].result \in handle[c].saved
    PROVE  HandleOK(c)'
<1>1. /\ HandleShape(handle[c]) /\ OpensClean(c) /\ BaseIsKnown(c)
      /\ SaveIsKnown(c) /\ SaveRuns(c)
  BY HandleParts
<1>2. op[c] # Idle /\ op'[c] # Idle /\ IsOpen(c)
  BY NotIdle DEF IsSave
<1>3. HandleShape(handle[c])' /\ OpensClean(c)' /\ BaseIsKnown(c)'
  BY <1>1, <1>2 DEF HandleShape, OpensClean, BaseIsKnown, IsOpen
<1>4. SaveIsKnown(c)'
  BY <1>1, <1>2 DEF SaveIsKnown
<1>5. SaveRuns(c)'
  BY <1>1, <1>2 DEF SaveRuns
<1>. QED
  BY <1>3, <1>4, <1>5 DEF HandleOK

\* A save reads the bytes that the buffer has now, or had when it began.
LEMMA SaveReadsHeadsHandle ==
    ASSUME IInv, Handles, HeldExist, Grown, NEW c \in Clients, SaveReadsHeads(c)
    PROVE  HandleOK(c)' /\ UNCHANGED handle
<1>1. PICK x \in {op[c].content, handle[c].content} : ReadHeadsFor(c, x)
  BY DEF SaveReadsHeads
<1>2. op[c].call = "write" /\ IsOpen(c) /\ UNCHANGED handle
  BY DEF SaveReadsHeads, IsSave
<1>3. /\ UNCHANGED versions /\ op[c].phase = "heads"
      /\ op'[c].call = "write" /\ op'[c].base = op[c].base /\ op'[c].content = x
      /\ \/ /\ op'[c].phase = "done" /\ op[c].base = None
            /\ op'[c].result \in DOMAIN versions
            /\ versions[op'[c].result].content = x
         \/ /\ op'[c].phase = "chunks"
            /\ op[c].base # None => op'[c].parents = op[c].base
  BY <1>1, <1>2, HeadsRead
<1>4. ~handle[c].dirty => handle[c].content = op'[c].content
  BY <1>1, <1>2, <1>3, HandleParts, NotIdle DEF SaveRuns
<1>. QED
  BY <1>2, <1>3, <1>4, SaveGoesOn DEF SaveReadsHeads

\* A save puts its chunks and its record.
LEMMA StepOfSaveHandle ==
    ASSUME IInv, Handles, Grown, NEW c \in Clients, IsSave(c), UNCHANGED handle,
           PutChunks(c) \/ PutRecord(c)
    PROVE  HandleOK(c)'
<1>1. SaveRuns(c) /\ CallShape(op[c]) /\ IsOpen(c) /\ op[c].call = "write"
  BY HandleParts DEF IsSave
<1>2. op[c].phase \in {"chunks", "record"} /\ UNCHANGED versions
  BY DEF PutChunks, PutRecord
<1>3. op[c] # Idle
  BY <1>2, NotIdle
<1>4. /\ op'[c].call = op[c].call /\ op'[c].base = op[c].base
      /\ op'[c].content = op[c].content
      /\ op'[c].parents = op[c].parents /\ op'[c].result = op[c].result
      /\ op[c].phase = "chunks" => op'[c].phase = "version"
      /\ op[c].phase = "record" => op'[c].phase \in {"record", "done"}
  <2>1. CASE PutChunks(c)
    <3>1. op'[c] = [op[c] EXCEPT !.phase = "version"] /\ op[c].phase = "chunks"
      BY <2>1, OpOf DEF PutChunks, Continue, IInv
    <3>. QED
      BY <1>1, <3>1 DEF CallShape
  <2>2. CASE PutRecord(c)
    <3>1. /\ op'[c] = IF op[c].then = None
                      THEN [op[c] EXCEPT !.phase = "done"]
                      ELSE [op[c] EXCEPT !.at = op[c].then, !.then = None, !.deleted = FALSE]
          /\ op[c].phase = "record"
      BY <2>2, OpOf DEF PutRecord, Continue, IInv
    <3>. QED
      BY <1>1, <3>1 DEF CallShape
  <2>. QED
    BY <2>1, <2>2
<1>. QED
  BY <1>1, <1>2, <1>3, <1>4, SaveGoesOn DEF SaveRuns

\* The version that a save puts is one of those that its handle saved.
LEMMA PutSavedVersionHandle ==
    ASSUME NoneIsNoSet, IInv, Handles, Grown, NEW c \in Clients, PutSavedVersion(c)
    PROVE  HandleOK(c)' /\ handle' = [handle EXCEPT ![c] = handle'[c]]
<1>1. PICK n, k : n = Len(versions') /\ k = [handle[c] EXCEPT !.saved = @ \cup {n}]
  OBVIOUS
<1>2. /\ SetHandle(c, k) /\ IsOpen(c) /\ PutVersion(c) /\ op[c].call = "write"
      /\ op[c].phase = "version"
  BY <1>1 DEF PutSavedVersion, IsSave, PutVersion
<1>3. /\ HandleShape(handle[c]) /\ OpensClean(c) /\ BaseIsKnown(c)
      /\ SaveIsKnown(c) /\ SaveRuns(c) /\ CallShape(op[c])
  BY HandleParts
<1>4. /\ HandleShape(k) /\ k.phase = handle[c].phase /\ k.content = handle[c].content
      /\ k.base = handle[c].base /\ k.opened = handle[c].opened /\ k.dirty = handle[c].dirty
      /\ k.saved = handle[c].saved \cup {n} /\ k.baseContent = handle[c].baseContent
  BY <1>1, <1>3 DEF HandleShape
<1>5. handle'[c] = k /\ handle' = [handle EXCEPT ![c] = handle'[c]]
  BY <1>2, HandleSet
<1>6. /\ n \in Nat /\ n \notin DOMAIN versions /\ DOMAIN versions' = DOMAIN versions \cup {n}
      /\ versions'[n].content = op[c].content
      /\ op'[c] = [op[c] EXCEPT !.phase = "record", !.result = n]
  BY <1>1, <1>2, VersionPut
<1>7. /\ op'[c].call = "write" /\ op'[c].base = op[c].base /\ op'[c].phase = "record"
      /\ op'[c].content = op[c].content /\ op'[c].result = n
  BY <1>2, <1>3, <1>6 DEF CallShape
<1>8. op'[c] # Idle /\ op[c] # Idle
  BY <1>2, <1>7, NotIdle
<1>9. HandleShape(handle[c])'
  BY <1>4, <1>5 DEF HandleShape
<1>10. OpensClean(c)' /\ BaseIsKnown(c)'
  BY <1>2, <1>3, <1>4, <1>5, <1>6 DEF OpensClean, BaseIsKnown, IsOpen
<1>11. handle[c].base # {n}
  <2>1. {n} # None
    BY <1>6 DEF NoneIsNoSet
  <2>. QED
    BY <1>3, <1>6, <2>1 DEF BaseIsKnown
<1>12. SaveIsKnown(c)'
  BY <1>3, <1>4, <1>5, <1>8, <1>11 DEF SaveIsKnown, OpensClean, Grown
<1>13. SaveRuns(c)'
  BY <1>2, <1>3, <1>4, <1>5, <1>6, <1>7, <1>8 DEF SaveRuns
<1>. QED
  BY <1>5, <1>9, <1>10, <1>12, <1>13 DEF HandleOK

\* When the save returns, its version is the base of the handle.
LEMMA SaveReturnsHandle ==
    ASSUME NoneIsNoSet, IInv, Handles, Grown, NEW c \in Clients, SaveReturns(c)
    PROVE  HandleOK(c)' /\ handle' = [handle EXCEPT ![c] = handle'[c]]
<1>1. PICK k : k = [handle[c] EXCEPT !.base = {op[c].result},
                                     !.baseContent = versions[op[c].result].content]
  OBVIOUS
<1>2. /\ SetHandle(c, IF handle[c].phase = "releasing" THEN Closed ELSE k)
      /\ IsOpen(c) /\ op[c].phase = "done" /\ UNCHANGED versions
  BY <1>1 DEF SaveReturns, IsSave, Return, documents
<1>3. /\ op[c] # Idle /\ op'[c] = Idle
  BY <1>2, NotIdle, OpOf DEF SaveReturns, Return, Continue, IInv
<1>4. CASE handle[c].phase = "releasing"
  <2>1. SetHandle(c, Closed)
    BY <1>2, <1>4, Zenon
  <2>2. handle'[c] = Closed /\ handle' = [handle EXCEPT ![c] = handle'[c]]
    BY <2>1, HandleSet
  <2>. QED
    BY <2>2, ClosedOK
<1>5. CASE handle[c].phase # "releasing"
  <2>1. SetHandle(c, k)
    BY <1>2, <1>5, Zenon
  <2>2. handle'[c] = k /\ handle' = [handle EXCEPT ![c] = handle'[c]]
    BY <2>1, HandleSet
  <2>3. /\ HandleShape(handle[c]) /\ OpensClean(c) /\ BaseIsKnown(c) /\ SaveRuns(c)
    BY HandleParts
  <2>4. /\ HandleShape(k) /\ k.phase = handle[c].phase /\ k.content = handle[c].content
        /\ k.base = {op[c].result} /\ k.opened = handle[c].opened
        /\ k.dirty = handle[c].dirty /\ k.saved = handle[c].saved
        /\ k.baseContent = versions[op[c].result].content
    BY <1>1, <2>3 DEF HandleShape
  <2>5. HandleShape(handle[c])'
    BY <2>2, <2>4 DEF HandleShape
  <2>6. /\ op[c].result \in DOMAIN versions
        /\ versions[op[c].result].content = op[c].content
        /\ op[c].base = handle[c].base
        /\ op[c].base # None => op[c].result \in handle[c].saved
        /\ ~handle[c].dirty => handle[c].content = op[c].content
    BY <1>2, <1>3, <2>3 DEF SaveRuns
  <2>7. {op[c].result} # None
    <3>1. Len(versions) \in Nat /\ DOMAIN versions = 1 .. Len(versions)
      BY AppendSequence DEF IInv, Documents
    <3>. QED
      BY <2>6, <3>1 DEF NoneIsNoSet
  <2>8. OpensClean(c)'
    BY <1>2, <1>3, <2>2, <2>3, <2>4 DEF OpensClean, IsOpen
  <2>9. BaseIsKnown(c)'
    BY <1>2, <2>2, <2>3, <2>4, <2>6, <2>7 DEF BaseIsKnown
  <2>10. SaveIsKnown(c)'
    <3>1. ASSUME NEW v, {op[c].result} = {v} PROVE v = op[c].result
      BY <3>1
    <3>. QED
      BY <1>2, <2>2, <2>4, <2>6, <3>1 DEF SaveIsKnown
  <2>. QED
    BY <1>3, <2>2, <2>5, <2>8, <2>9, <2>10, IdleSaves DEF HandleOK
<1>. QED
  BY <1>4, <1>5

-----------------------------------------------------------------------------
(* The steps that are not about a handle.                                  *)

\* A client whose call is no save and is not over has no open handle.
LEMMA CallClosesHandle ==
    ASSUME IInv, Handles, NEW c \in Clients, op[c].phase # "idle", ~IsSave(c)
    PROVE  handle[c].phase = "closed"
<1>1. op[c] # Idle
  BY NotIdle
<1>2. handle[c].phase \in {"closed", "opening", "open", "releasing"}
  BY HandleParts DEF HandleShape
<1>. QED
  BY <1>1, <1>2, HandleParts DEF OpensClean, SaveRuns, IsSave, IsOpen

\* A step is one of a call that is in it.
LEMMA StepIsOfCall ==
    ASSUME IInv, NEW c \in Clients, Step(c) PROVE op[c].phase # "idle"
<1>1. CASE ReadHeads(c)
  <2>1. CallShape(op[c])
    BY DEF IInv, Calls, CallOK
  <2>. QED
    BY <1>1, <2>1 DEF ReadHeads, ReadHeadsFor, CallShape
<1>2. CASE ~ReadHeads(c)
  BY <1>2 DEF Step, PutChunks, PutVersion, PutRecord, ListChildren, CheckDestination,
              RemoveDestination
<1>. QED
  BY <1>1, <1>2

\* A step of a client whose handle is closed and stays so.
LEMMA CallKeepsHandles ==
    ASSUME IInv, Handles, Grown, NEW c \in Clients, UNCHANGED handle,
           handle[c].phase = "closed", op' = [op EXCEPT ![c] = op'[c]]
    PROVE  Handles'
<1>1. HandleOK(c)
  BY DEF Handles
<1>2. HandleOK(c)'
  BY <1>1, HandleKept
<1>3. handle' = [handle EXCEPT ![c] = handle'[c]]
  BY DEF Handles
<1>. QED
  BY <1>2, <1>3, OneHandle

\* A step of a save, or of a call of a client without a handle.
LEMMA StepOfCallHandles ==
    ASSUME IInv, Handles, Grown, NEW c \in Clients, StepOfCall(c) PROVE Handles'
<1>1. UNCHANGED handle
  BY DEF StepOfCall
<1>2. CASE IsSave(c)
  <2>1. PutChunks(c) \/ PutRecord(c)
    BY <1>2 DEF StepOfCall
  <2>2. HandleOK(c)'
    BY <1>1, <1>2, <2>1, StepOfSaveHandle
  <2>3. op' = [op EXCEPT ![c] = op'[c]]
    BY <2>1, OwnCall DEF IInv, Step
  <2>4. handle' = [handle EXCEPT ![c] = handle'[c]]
    BY <1>1 DEF Handles
  <2>. QED
    BY <2>2, <2>3, <2>4, OneHandle
<1>3. CASE ~IsSave(c)
  <2>1. Step(c)
    BY <1>3 DEF StepOfCall
  <2>2. handle[c].phase = "closed"
    BY <1>3, <2>1, StepIsOfCall, CallClosesHandle
  <2>3. op' = [op EXCEPT ![c] = op'[c]]
    BY <2>1, OwnCall DEF IInv
  <2>. QED
    BY <1>1, <2>2, <2>3, CallKeepsHandles
<1>. QED
  BY <1>2, <1>3

\* A call of a client without a handle.
LEMMA CallWithoutHandleHandles ==
    ASSUME IInv, Handles, Grown, NEW c \in Clients, CallWithoutHandle(c) PROVE Handles'
<1>1. handle[c].phase = "closed"
  BY DEF CallWithoutHandle, Closed
<1>. QED
  BY <1>1, OwnCall, CallKeepsHandles DEF CallWithoutHandle, IInv

\* A rename that returns changes the paths of handles.
LEMMA ReturnCallHandles ==
    ASSUME IInv, Handles, Grown, NEW c \in Clients, ReturnCall(c) PROVE Handles'
<1>1. Return(c) /\ ~IsSave(c) /\ op[c].phase = "done"
  BY DEF ReturnCall, Return
<1>2. handle[c].phase = "closed"
  BY <1>1, CallClosesHandle
<1>3. \A d \in Clients \ {c} : op'[d] = op[d]
  BY <1>1, OwnCall DEF IInv, Calls
<1>4. /\ handle' = [d \in Clients |-> handle'[d]]
      /\ \A d \in Clients : \E path : handle'[d] \in {handle[d], [handle[d] EXCEPT !.path = path]}
  <2>1. CASE handle' = handle
    BY <2>1 DEF Handles
  <2>2. CASE handle' = [d \in Clients |->
                         IF PeerOf[d] = PeerOf[c] /\ IsOpen(d)
                         THEN Retarget(handle[d], op[c].from, op[c].path)
                         ELSE handle[d]]
    <3>1. \A h, from, to : \E path : Retarget(h, from, to) \in {h, [h EXCEPT !.path = path]}
      BY DEF Retarget
    <3>. QED
      BY <2>2, <3>1
  <2>. QED
    BY <2>1, <2>2, Zenon DEF ReturnCall
<1>5. ASSUME NEW d \in Clients PROVE HandleOK(d)'
  <2>1. HandleOK(d)
    BY DEF Handles
  <2>2. PICK path : handle'[d] \in {handle[d], [handle[d] EXCEPT !.path = path]}
    BY <1>4
  <2>3. op'[d] = op[d] \/ handle[d].phase = "closed"
    BY <1>2, <1>3
  <2>. QED
    BY <2>1, <2>2, <2>3, HandleKept
<1>. QED
  BY <1>4, <1>5 DEF Handles

\* The handles of a peer that stops are gone.
LEMMA CrashMountHandles ==
    ASSUME IInv, Handles, Grown, NEW p \in Peers, CrashMount(p) PROVE Handles'
<1>1. /\ handle' = [c \in Clients |-> IF PeerOf[c] = p THEN Closed ELSE handle[c]]
      /\ op' = [c \in Clients |-> IF PeerOf[c] = p THEN Idle ELSE op[c]]
  BY DEF CrashMount, Crash
<1>2. ASSUME NEW c \in Clients PROVE HandleOK(c)'
  <2>1. CASE PeerOf[c] = p
    BY <1>1, <2>1, ClosedOK
  <2>2. CASE PeerOf[c] # p
    <3>1. HandleOK(c) /\ handle'[c] = handle[c] /\ op'[c] = op[c]
      BY <1>1, <2>2 DEF Handles
    <3>. QED
      BY <3>1, HandleKept
  <2>. QED
    BY <2>1, <2>2
<1>. QED
  BY <1>1, <1>2 DEF Handles

\* What is delivered changes no handle and no call.
LEMMA SameHandles ==
    ASSUME Handles, Grown, UNCHANGED <<handle, op>> PROVE Handles'
<1>1. ASSUME NEW c \in Clients PROVE HandleOK(c)'
  <2>1. HandleOK(c)
    BY DEF Handles
  <2>. QED
    BY <2>1, HandleKept
<1>. QED
  BY <1>1 DEF Handles

-----------------------------------------------------------------------------
\* Every step of the mount keeps the handles right.
LEMMA HandlesStep ==
    ASSUME NoneIsNoSet, IInv, Handles, HeldExist, Grown, [MountNext]_mountVars PROVE Handles'
<1>1. ASSUME NEW c \in Clients, NEW o, OpenPath(c, o) PROVE Handles'
  <2>1. op' = [op EXCEPT ![c] = op'[c]]
    BY <1>1 DEF OpenPath, IInv, Calls
  <2>. QED
    BY <1>1, <2>1, OpenPathHandle, OneHandle
<1>2. ASSUME NEW c \in Clients, NEW x,
             WriteHandle(c, x) \/ LoadContent(c) \/ Release(c) \/ Released(c)
      PROVE  Handles'
  <2>1. UNCHANGED op
    BY <1>2 DEF WriteHandle, LoadContent, Release, Released, vars
  <2>2. op' = [op EXCEPT ![c] = op'[c]]
    BY <2>1 DEF IInv, Calls
  <2>3. HandleOK(c)' /\ handle' = [handle EXCEPT ![c] = handle'[c]]
    BY <1>2, WriteHandleHandle, LoadContentHandle, ReleaseHandle, ReleasedHandle
  <2>. QED
    BY <2>2, <2>3, OneHandle
<1>3. ASSUME NEW c \in Clients, Commit(c) PROVE Handles'
  <2>1. UNCHANGED op \/ \E path, content, base : WriteFile(c, path, content, base)
    BY <1>3 DEF Commit, vars
  <2>2. op' = [op EXCEPT ![c] = op'[c]]
    BY <2>1, OwnCall DEF IInv, Calls
  <2>. QED
    BY <1>3, <2>2, CommitHandle, OneHandle
<1>4. ASSUME NEW c \in Clients, SaveReadsHeads(c) PROVE Handles'
  <2>1. op' = [op EXCEPT ![c] = op'[c]]
    BY <1>4, OwnCall DEF SaveReadsHeads, IInv
  <2>2. HandleOK(c)' /\ handle' = [handle EXCEPT ![c] = handle'[c]]
    BY <1>4, SaveReadsHeadsHandle DEF Handles
  <2>. QED
    BY <2>1, <2>2, OneHandle
<1>5. ASSUME NEW c \in Clients, ChunkRefused(c) \/ SaveReturns(c) \/ PutSavedVersion(c)
      PROVE  Handles'
  <2>1. op' = [op EXCEPT ![c] = op'[c]]
    BY <1>5, OwnCall DEF ChunkRefused, SaveReturns, PutSavedVersion, Step, IInv
  <2>. QED
    BY <1>5, <2>1, ChunkRefusedHandle, SaveReturnsHandle, PutSavedVersionHandle, OneHandle
<1>6. ASSUME NEW c \in Clients, CallWithoutHandle(c) \/ StepOfCall(c) \/ ReturnCall(c)
      PROVE  Handles'
  BY <1>6, CallWithoutHandleHandles, StepOfCallHandles, ReturnCallHandles
<1>7. ASSUME NEW p \in Peers, CrashMount(p) \/ (Deliver(p) /\ UNCHANGED <<handle, saves>>)
      PROVE  Handles'
  BY <1>7, CrashMountHandles, SameHandles
  DEF Deliver, DeliverRecord, DeliverVersion, DeliverChunk
<1>8. CASE UNCHANGED mountVars
  BY <1>8, SameHandles DEF mountVars, vars
<1>. QED
  BY <1>1, <1>2, <1>3, <1>4, <1>5, <1>6, <1>7, <1>8 DEF MountNext

\* Only a version that a handle puts is added to the saves.
LEMMA SavesOf ==
    ASSUME [MountNext]_mountVars
    PROVE  UNCHANGED saves \/ \E c \in Clients : PutSavedVersion(c)
BY DEF MountNext, mountVars, OpenPath, WriteHandle, LoadContent, Commit, Release, Released,
       SaveReadsHeads, ChunkRefused, SaveReturns, CallWithoutHandle, StepOfCall, ReturnCall,
       CrashMount

\* A save replaces the base of its handle.
LEMMA ReplacesStep ==
    ASSUME IInv, Handles, ReplacesKnown, Grown, [MountNext]_mountVars PROVE ReplacesKnown'
<1>1. CASE UNCHANGED saves
  BY <1>1 DEF ReplacesKnown, Grown
<1>2. ASSUME NEW c \in Clients, PutSavedVersion(c) PROVE ReplacesKnown'
  <2>1. PICK n, s : /\ n = Len(versions')
                    /\ s = [version |-> n, opened |-> handle[c].opened,
                            seen |-> handle[c].seen, earlier |-> handle[c].saved]
                    /\ saves' = saves \cup {s}
    BY <1>2 DEF PutSavedVersion
  <2>2. n \in DOMAIN versions' /\ versions'[n].parents = op[c].parents
    BY <1>2, <2>1, VersionPut DEF PutSavedVersion
  <2>3. op[c].phase = "version" /\ op[c] # Idle /\ IsOpen(c)
    BY <1>2, NotIdle DEF PutSavedVersion, PutVersion, IsSave
  <2>4. handle[c].opened # None => op[c].parents \subseteq handle[c].opened \cup handle[c].saved
    BY <2>3, HandleParts DEF SaveRuns, BaseIsKnown
  <2>. QED
    BY <2>1, <2>2, <2>4 DEF ReplacesKnown, Grown
<1>. QED
  BY <1>1, <1>2, SavesOf

\* The mount starts in a state of its invariant.
LEMMA MountStarts == MountInit => MountInv
<1>. SUFFICES ASSUME MountInit PROVE MountInv
  OBVIOUS
<1>1. IInv
  BY InitIInv DEF MountInit
<1>2. HeldExist
  BY DEF MountInit, Init, HeldExist
<1>3. ReplacesKnown
  BY DEF MountInit, ReplacesKnown
<1>4. ASSUME NEW c \in Clients PROVE HandleOK(c)
  <2>1. handle[c] = Closed
    BY DEF MountInit
  <2>2. /\ HandleShape(Closed) /\ Closed.phase = "closed" /\ Closed.saved = {}
        /\ Closed.base = None /\ Closed.opened = None
    BY DEF Closed, HandleShape
  <2>. QED
    BY <2>1, <2>2
    DEF HandleOK, OpensClean, BaseIsKnown, SaveIsKnown, SaveRuns, IsOpen
<1>5. handle = [c \in Clients |-> handle[c]]
  BY DEF MountInit
<1>. QED
  BY <1>1, <1>2, <1>3, <1>4, <1>5 DEF MountInv, Handles

\* Every step of the mount keeps the invariant.
LEMMA MountStep == NoneIsNoSet /\ MountInv /\ [MountNext]_mountVars => MountInv'
<1>. SUFFICES ASSUME NoneIsNoSet, MountInv, [MountNext]_mountVars PROVE MountInv'
  OBVIOUS
<1>1. IInv /\ HeldExist /\ Handles /\ ReplacesKnown
  BY DEF MountInv
<1>2. IInv'
  BY <1>1, MountKeepsInv
<1>3. Grown /\ HeldExist'
  BY <1>1, VersionsStay
<1>4. Handles' /\ ReplacesKnown'
  BY <1>1, <1>3, HandlesStep, ReplacesStep
<1>. QED
  BY <1>2, <1>3, <1>4 DEF MountInv

-----------------------------------------------------------------------------
(* The history of a version.                                               *)

\* The versions of which T consists, and what they replace.
Back(T) == UNION {versions[w].parents \cup {w} : w \in T}

\* What History looks through to find the history of v.
BackOf(v) == CHOOSE back : back = [i \in 0..Len(versions) |->
    IF i = 0 THEN {v} ELSE UNION {versions[w].parents \cup {w} : w \in back[i - 1]}]

\* There is such a function: each of its parts extends the one before.
LEMMA BackOfIs ==
    ASSUME Len(versions) \in Nat, NEW v
    PROVE  /\ BackOf(v)[0] = {v}
           /\ \A i \in 1..Len(versions) : BackOf(v)[i] = Back(BackOf(v)[i - 1])
           /\ History(v) = BackOf(v)[Len(versions)]
<1>. DEFINE Goes(f, n) == f = [i \in 0..n |-> IF i = 0 THEN {v} ELSE Back(f[i - 1])]
            T == {n \in Nat : ~\E f : Goes(f, n)}
<1>1. T = {}
  <2>. SUFFICES ASSUME T # {} PROVE FALSE
    OBVIOUS
  <2>1. PICK m \in T : \A k \in T : m <= k
    BY SmallestNumber
  <2>2. m \in Nat /\ ~\E f : Goes(f, m)
    BY <2>1
  <2>3. CASE m = 0
    <3>1. Goes([i \in 0..0 |-> {v}], 0)
      OBVIOUS
    <3>. QED
      BY <2>2, <2>3, <3>1
  <2>4. CASE m # 0
    <3>1. m - 1 \in Nat /\ ~(m <= m - 1)
      BY <2>2, <2>4
    <3>2. PICK g : Goes(g, m - 1)
      BY <2>1, <3>1, Zenon
    <3>. DEFINE f == [i \in 0..m |-> IF i = m THEN Back(g[m - 1]) ELSE g[i]]
    <3>3. ASSUME NEW i \in 0..m
          PROVE  f[i] = IF i = 0 THEN {v} ELSE Back(f[i - 1])
      <4>1. CASE i = 0
        BY <2>2, <2>4, <3>1, <3>2, <4>1
      <4>2. CASE i # 0 /\ i # m
        <5>1. i \in 0..(m - 1) /\ i - 1 \in 0..(m - 1) /\ i - 1 \in 0..m /\ i - 1 # m
          BY <2>2, <4>2
        <5>2. f[i] = g[i] /\ f[i - 1] = g[i - 1]
          BY <4>2, <5>1
        <5>3. g[i] = Back(g[i - 1])
          BY <3>2, <4>2, <5>1
        <5>. QED
          BY <4>2, <5>2, <5>3
      <4>3. CASE i = m
        <5>1. m - 1 \in 0..m /\ m - 1 # m
          BY <2>2, <2>4
        <5>2. f[m] = Back(g[m - 1]) /\ f[m - 1] = g[m - 1]
          BY <2>2, <5>1
        <5>. QED
          BY <2>4, <4>3, <5>2
      <4>. QED
        BY <4>1, <4>2, <4>3
    <3>4. Goes(f, m)
      BY <3>3
    <3>. QED
      BY <2>2, <3>4
  <2>. QED
    BY <2>3, <2>4
<1>2. \E f : Goes(f, Len(versions))
  BY <1>1
<1>3. Goes(BackOf(v), Len(versions))
  BY <1>2, Zenon DEF BackOf, Back
<1>4. History(v) = BackOf(v)[Len(versions)]
  BY Zenon DEF History, BackOf
<1>5. ASSUME NEW f, Goes(f, Len(versions))
      PROVE  /\ f[0] = {v}
             /\ \A i \in 1..Len(versions) : f[i] = Back(f[i - 1])
  <2>1. f[0] = {v}
    BY <1>5
  <2>2. ASSUME NEW i \in 1..Len(versions) PROVE f[i] = Back(f[i - 1])
    <3>1. i \in 0..Len(versions) /\ i # 0
      OBVIOUS
    <3>. QED
      BY <1>5, <3>1
  <2>. QED
    BY <2>1, <2>2
<1>. QED
  BY <1>3, <1>4, <1>5

\* What a version replaces is in its history.
LEMMA BackOfGrows ==
    ASSUME Len(versions) \in Nat, NEW v, NEW i \in 1..Len(versions),
           NEW y \in BackOf(v)[i - 1], NEW x \in versions[y].parents \cup {y}
    PROVE  x \in BackOf(v)[i]
BY BackOfIs DEF Back

\* A version is in its own history.
LEMMA BackOfItself ==
    ASSUME Len(versions) \in Nat, NEW v, NEW i \in 0..Len(versions) PROVE v \in BackOf(v)[i]
<1>. DEFINE T == {n \in 0..Len(versions) : v \notin BackOf(v)[n]}
<1>1. ASSUME T # {} PROVE FALSE
  <2>. T \subseteq Nat
    OBVIOUS
  <2>1. PICK m \in T : \A k \in T : m <= k
    BY <1>1, SmallestNumber
  <2>2. m \in 0..Len(versions) /\ v \notin BackOf(v)[m]
    BY <2>1
  <2>3. m # 0
    BY <2>2, BackOfIs
  <2>4. m \in 1..Len(versions) /\ m - 1 \in 0..Len(versions) /\ m - 1 \notin T
    BY <2>1, <2>2, <2>3
  <2>5. v \in BackOf(v)[m - 1]
    BY <2>4
  <2>. QED
    BY <2>2, <2>4, <2>5, BackOfGrows
<1>. QED
  BY <1>1

\* The history of a version is that of the versions it replaces.
LEMMA HistoryOfParents ==
    ASSUME Len(versions) \in Nat, Len(versions) > 0, NEW v, NEW x \in History(v), x # v
    PROVE  \E u \in versions[v].parents : x \in History(u)
<1>. DEFINE T == {n \in 1..Len(versions) :
                    \E y \in BackOf(v)[n] :
                       y # v /\ \A u \in versions[v].parents : y \notin BackOf(u)[n - 1]}
<1>1. ASSUME T # {} PROVE FALSE
  <2>. T \subseteq Nat
    OBVIOUS
  <2>1. PICK m \in T : \A k \in T : m <= k
    BY <1>1, SmallestNumber
  <2>2. m \in 1..Len(versions) /\ m - 1 \in 0..Len(versions)
    BY <2>1
  <2>3. PICK y \in BackOf(v)[m] :
          y # v /\ \A u \in versions[v].parents : y \notin BackOf(u)[m - 1]
    BY <2>1
  <2>4. PICK z \in BackOf(v)[m - 1] : y \in versions[z].parents \cup {z}
    BY <2>2, <2>3, BackOfIs DEF Back
  <2>5. CASE z = v
    <3>1. y \in versions[v].parents
      BY <2>3, <2>4, <2>5
    <3>. QED
      BY <2>2, <2>3, <3>1, BackOfItself
  <2>6. CASE z # v
    <3>1. m # 1
      BY <2>4, <2>6, BackOfIs
    <3>2. m - 1 \in 1..Len(versions) /\ m - 1 \notin T
      BY <2>1, <2>2, <3>1
    <3>3. PICK u \in versions[v].parents : z \in BackOf(u)[(m - 1) - 1]
      BY <2>4, <2>6, <3>2
    <3>4. y \in BackOf(u)[m - 1]
      BY <2>4, <3>2, <3>3, BackOfGrows
    <3>. QED
      BY <2>3, <3>4
  <2>. QED
    BY <2>5, <2>6
<1>2. x \in BackOf(v)[Len(versions)] /\ Len(versions) \in 1..Len(versions)
  BY BackOfIs
<1>3. PICK u \in versions[v].parents : x \in BackOf(u)[Len(versions) - 1]
  BY <1>1, <1>2
<1>4. x \in BackOf(u)[Len(versions)]
  BY <1>2, <1>3, BackOfGrows
<1>. QED
  BY <1>3, <1>4, BackOfIs

-----------------------------------------------------------------------------
\* The invariant holds in every state of the mount.
LEMMA MountInvariant == ASSUME NoneIsNoSet PROVE MountSpec => []MountInv
<1>1. NoneIsNoSet /\ MountInv /\ [MountNext]_mountVars => MountInv'
  BY MountStep
<1>2. MountInv /\ [MountNext]_mountVars => MountInv'
  BY <1>1
<1>. QED
  BY <1>2, MountStarts, PTL DEF MountSpec

\* The filesystem keeps its promises under the mount too, whose saves may read their
\* bytes later than they began: the writer of a version can read it back, and a file
\* that is gone was removed.
THEOREM MountKeepsFiles == MountSpec => [](WriterHoldsItsContent /\ GoneWasRemoved)
<1>1. MountInit => IInv
  BY InitIInv DEF MountInit
<1>2. IInv /\ [MountNext]_mountVars => IInv'
  BY MountKeepsInv
<1>3. IInv => WriterHoldsItsContent /\ GoneWasRemoved
  BY DEF IInv, Documents, RecordsMarked, Marked, GoneWasRemoved, PlaceOf
<1>. QED
  BY <1>1, <1>2, <1>3, PTL DEF MountSpec

\* A handle that is clean has in its buffer what it saved last: a write that comes
\* during a save (commit in mount-backend.ts) leaves it dirty, also when the save
\* turned out to be none, or failed.
THEOREM LastWritesAreSaved == ASSUME NoneIsNoSet PROVE MountSpec => []LastWriteIsSaved
<1>1. MountInv => LastWriteIsSaved
  BY DEF MountInv, Handles, HandleOK, SaveIsKnown, LastWriteIsSaved
<1>. QED
  BY <1>1, MountInvariant, PTL

\* A save replaces nothing but what showed when its file was opened, what that had
\* replaced, and the earlier saves of its handle: what other peers do to the file
\* meanwhile becomes a conflict.
THEOREM RemoteEditsConflict == ASSUME NoneIsNoSet PROVE MountSpec => []RemoteEditsBecomeConflicts
<1>1. ASSUME MountInv PROVE RemoteEditsBecomeConflicts
  <2>. SUFFICES ASSUME NEW s \in saves, s.opened # None,
                       NEW x \in History(s.version), x # s.version
                PROVE  \E v \in s.opened \cup s.earlier : x \in History(v)
    BY DEF RemoteEditsBecomeConflicts
  <2>1. /\ s.version \in DOMAIN versions
        /\ versions[s.version].parents \subseteq s.opened \cup s.earlier
    BY <1>1 DEF MountInv, ReplacesKnown
  <2>2. Len(versions) \in Nat /\ DOMAIN versions = 1 .. Len(versions)
    BY <1>1, AppendSequence DEF MountInv, IInv, Documents
  <2>3. PICK u \in versions[s.version].parents : x \in History(u)
    BY <2>1, <2>2, HistoryOfParents
  <2>. QED
    BY <2>1, <2>3
<1>2. MountInv => RemoteEditsBecomeConflicts
  BY <1>1
<1>. QED
  BY <1>2, MountInvariant, PTL

-----------------------------------------------------------------------------
(* Where paths lead.                                                       *)

\* What a peer sees depends on its records, the log, the versions that it holds and
\* all versions.
PlaceIn(r, l, n) == l[r[n]].at
LiveIn(r, l) == {n \in NodeIds : r[n] # 0 /\ ~l[r[n]].deleted}
ChildIn(r, l, parent, name) ==
    LET found == {n \in LiveIn(r, l) : PlaceIn(r, l, n).parent = parent
                                    /\ PlaceIn(r, l, n).name = name}
    IN IF found = {} THEN None ELSE Min(found)
DirectoryIn(r, l, n) == \/ n = Root
                        \/ n # None /\ PlaceIn(r, l, n).kind = "directory"
WalkIn(r, l, path) ==
    LET at[i \in 0..Len(path)] ==
          IF i = 0 THEN Root
          ELSE IF DirectoryIn(r, l, at[i - 1]) THEN ChildIn(r, l, at[i - 1], path[i])
          ELSE None
    IN at
ResolveIn(r, l, path) == WalkIn(r, l, path)[Len(path)]
VisibleIn(h, v, n) ==
    LET docs == {w \in h : v[w].node = n}
        heads == {w \in docs : \A x \in docs : w \notin v[x].parents}
    IN IF heads = {} \/ v[Max(heads)].content = Deleted
       THEN None
       ELSE Max(heads)

LEMMA SeesIn ==
    /\ \A p, path : ResolvePath(p, path) = ResolveIn(recs[p], log, path)
    /\ \A p, parent, name : ChildByName(p, parent, name) = ChildIn(recs[p], log, parent, name)
    /\ \A p, n : IsDirectory(p, n) = DirectoryIn(recs[p], log, n)
    /\ \A p, n : Visible(p, n) = VisibleIn(held[p], versions, n)
    /\ \A p : Live(p) = LiveIn(recs[p], log)
    /\ \A p, n : PlaceOf(p, n) = PlaceIn(recs[p], log, n)
<1>1. \A p : Live(p) = LiveIn(recs[p], log)
  BY Zenon DEF Live, LiveIn
<1>2. \A p, n : PlaceOf(p, n) = PlaceIn(recs[p], log, n)
  BY Zenon DEF PlaceOf, PlaceIn
<1>3. \A p, parent, name : ChildByName(p, parent, name) = ChildIn(recs[p], log, parent, name)
  BY Zenon DEF ChildByName, ChildIn, Live, LiveIn, PlaceOf, PlaceIn
<1>4. \A p, n : IsDirectory(p, n) = DirectoryIn(recs[p], log, n)
  BY Zenon DEF IsDirectory, DirectoryIn, PlaceOf, PlaceIn
<1>5. \A p, path : ResolvePath(p, path) = ResolveIn(recs[p], log, path)
  BY Zenon DEF ResolvePath, ResolveIn, WalkIn, IsDirectory, DirectoryIn, PlaceOf, PlaceIn,
     ChildByName, ChildIn, Live, LiveIn
<1>6. \A p, n : Visible(p, n) = VisibleIn(held[p], versions, n)
  BY Zenon DEF Visible, VisibleIn, Heads, HeadDocuments
<1>. QED
  BY <1>1, <1>2, <1>3, <1>4, <1>5, <1>6, Zenon

\* The nodes and what stands for none.
Places == {None, Root} \cup NodeIds

LEMMA NodesAre ==
    /\ MaxNodes \in Nat /\ NodeIds = 1..MaxNodes /\ Root = 0
    /\ None \notin NodeIds /\ None # Root /\ Root \notin NodeIds
<1>1. SeedFiles \in Seq(Range(SeedFiles)) /\ SeedDirectories \in Seq(Range(SeedDirectories))
  BY SharedFsAssumption DEF IsSequence
<1>. DEFINE S == Range(SeedFiles) \cup Range(SeedDirectories)
<1>2. SeedFiles \in Seq(S) /\ SeedDirectories \in Seq(S)
  BY <1>1, SeqMonotonic
<1>. HIDE DEF S
<1>3. Len(Seed) \in Nat
  BY <1>2 DEF Seed
<1>. QED
  BY <1>3, SharedFsAssumption DEF MaxNodes, NodeIds, Root

\* The child of a name is live and has it, and there is one when a live node does.
LEMMA ChildIs ==
    ASSUME NEW r, NEW l, NEW d, NEW name
    PROVE  /\ ChildIn(r, l, d, name) \in LiveIn(r, l) \cup {None}
           /\ ChildIn(r, l, d, name) = None =>
                 \A n \in LiveIn(r, l) :
                    ~(PlaceIn(r, l, n).parent = d /\ PlaceIn(r, l, n).name = name)
           /\ ChildIn(r, l, d, name) # None =>
                 /\ PlaceIn(r, l, ChildIn(r, l, d, name)).parent = d
                 /\ PlaceIn(r, l, ChildIn(r, l, d, name)).name = name
<1>. DEFINE found == {n \in LiveIn(r, l) : PlaceIn(r, l, n).parent = d
                                    /\ PlaceIn(r, l, n).name = name}
<1>1. ChildIn(r, l, d, name) = IF found = {} THEN None ELSE Min(found)
  BY Zenon DEF ChildIn
<1>2. found \subseteq NodeIds /\ found \subseteq Nat
  BY NodesAre DEF LiveIn
<1>3. CASE found = {}
  BY <1>1, <1>3
<1>4. CASE found # {}
  <2>1. Min(found) \in found
    BY <1>2, <1>4, MinIs
  <2>2. Min(found) # None
    BY <1>2, <2>1, NodesAre
  <2>. QED
    BY <1>1, <1>4, <2>1, <2>2
<1>. QED
  BY <1>3, <1>4

\* One step along a path.
Enter(r, l, d, name) == IF DirectoryIn(r, l, d) THEN ChildIn(r, l, d, name) ELSE None

LEMMA WalkIs ==
    ASSUME NEW r, NEW l, NEW path, IsSequence(path)
    PROVE  /\ WalkIn(r, l, path)[0] = Root
           /\ \A i \in 1..Len(path) :
                 WalkIn(r, l, path)[i] = Enter(r, l, WalkIn(r, l, path)[i - 1], path[i])
<1>. DEFINE N == Len(path)
            step == [i \in 1..N |-> [x \in Places |-> Enter(r, l, x, path[i])]]
            Walks(f) == f = [i \in 0..N |->
                          IF i = 0 THEN Root
                          ELSE IF DirectoryIn(r, l, f[i - 1]) THEN ChildIn(r, l, f[i - 1], path[i])
                          ELSE None]
<1>1. N \in Nat
  BY DEF IsSequence
<1>2. \A x, name : Enter(r, l, x, name) \in Places
  BY ChildIs DEF Enter, Places, LiveIn
<1>3. step \in [1..N -> [Places -> Places]]
  BY <1>2
<1>4. PICK f \in [0..N -> Places] : f[0] = Root /\ \A i \in 1..N : f[i] = step[i][f[i - 1]]
  <2>1. Root \in Places
    BY DEF Places
  <2>. HIDE DEF step, N
  <2>. QED
    BY <1>1, <1>3, <2>1, StepsExist
<1>5. ASSUME NEW i \in 1..N PROVE f[i] = Enter(r, l, f[i - 1], path[i])
  <2>1. i - 1 \in 0..N
    BY <1>1
  <2>2. f[i - 1] \in Places
    BY <1>4, <2>1
  <2>. QED
    BY <1>4, <2>2
<1>6. ASSUME NEW i \in 0..N
      PROVE  f[i] = IF i = 0 THEN Root
                    ELSE IF DirectoryIn(r, l, f[i - 1]) THEN ChildIn(r, l, f[i - 1], path[i])
                    ELSE None
  <2>1. CASE i = 0
    BY <1>4, <2>1
  <2>2. CASE i # 0
    <3>1. i \in 1..N
      BY <1>1, <2>2
    <3>. QED
      BY <1>5, <2>2, <3>1 DEF Enter
  <2>. QED
    BY <2>1, <2>2
<1>7. Walks(f)
  BY <1>4, <1>6
<1>8. WalkIn(r, l, path) = CHOOSE g : Walks(g)
  BY Zenon DEF WalkIn
<1>9. Walks(WalkIn(r, l, path))
  BY <1>7, <1>8, Zenon
<1>10. ASSUME NEW g, Walks(g)
       PROVE  g[0] = Root /\ \A i \in 1..N : g[i] = Enter(r, l, g[i - 1], path[i])
  <2>1. g[0] = Root
    BY <1>1, <1>10
  <2>2. ASSUME NEW i \in 1..N PROVE g[i] = Enter(r, l, g[i - 1], path[i])
    <3>1. i \in 0..N /\ i # 0
      BY <1>1
    <3>. QED
      BY <1>10, <3>1 DEF Enter
  <2>. QED
    BY <2>1, <2>2
<1>. QED
  BY <1>9, <1>10

\* A path leads where its last name leads from where the rest of it does.
LEMMA ResolveLast ==
    ASSUME NEW r, NEW l, NEW path, IsSequence(path)
    PROVE  /\ IsSequence(Front(path)) \/ path = <<>>
           /\ path = <<>> => ResolveIn(r, l, path) = Root
           /\ path # <<>> => ResolveIn(r, l, path) =
                                Enter(r, l, ResolveIn(r, l, Front(path)), Last(path))
<1>1. path \in Seq(Range(path)) /\ Len(path) \in Nat
  BY DEF IsSequence
<1>2. CASE path = <<>>
  BY <1>2, WalkIs DEF ResolveIn
<1>3. CASE path # <<>>
  <2>. DEFINE N == Len(path)
              q == Front(path)
  <2>1. N \in Nat /\ N > 0
    BY <1>1, <1>3
  <2>2. /\ q \in Seq(Range(path)) /\ Len(q) = N - 1
        /\ \A i \in 1..(N - 1) : q[i] = path[i]
    BY <1>1, <2>1 DEF Front
  <2>3. IsSequence(q)
    BY <2>2, SeqDef DEF IsSequence, Range
  <2>. HIDE DEF q, N
  <2>. DEFINE f == WalkIn(r, l, path)
              g == WalkIn(r, l, q)
              T == {i \in 0..(N - 1) : f[i] # g[i]}
  <2>4. /\ f[0] = Root /\ g[0] = Root
        /\ \A i \in 1..N : f[i] = Enter(r, l, f[i - 1], path[i])
        /\ \A i \in 1..(N - 1) : g[i] = Enter(r, l, g[i - 1], q[i])
    BY <2>2, <2>3, WalkIs DEF N
  <2>. HIDE DEF f, g
  <2>5. ASSUME T # {} PROVE FALSE
    <3>. T \subseteq Nat
      BY <2>1
    <3>1. PICK i \in T : \A k \in T : i <= k
      BY <2>1, <2>5, SmallestNumber
    <3>2. i \in 1..(N - 1) /\ i - 1 \in 0..(N - 1) /\ i - 1 \notin T /\ i \in 1..N
      BY <2>1, <2>4, <3>1
    <3>3. f[i - 1] = g[i - 1] /\ f[i] # g[i]
      BY <3>1, <3>2
    <3>. QED
      BY <2>2, <2>4, <3>2, <3>3
  <2>6. f[N - 1] = g[N - 1]
    BY <2>1, <2>5
  <2>7. f[N] = Enter(r, l, g[N - 1], path[N])
    BY <2>1, <2>4, <2>6
  <2>8. /\ ResolveIn(r, l, path) = f[N] /\ ResolveIn(r, l, q) = g[N - 1]
        /\ Last(path) = path[N]
    BY <2>2 DEF ResolveIn, f, g, N, Last
  <2>. QED
    BY <1>3, <2>3, <2>7, <2>8 DEF q
<1>. QED
  BY <1>2, <1>3

-----------------------------------------------------------------------------
(* The tree of a peer on which one client makes all calls of the peer.     *)

\* The nodes that the peer has a record of.
Known(p) == {n \in NodeIds : recs[p][n] # 0}
ParentOf(p, n) == PlaceOf(p, n).parent
IsDir(p, n) == PlaceOf(p, n).kind = "directory"

\* d is the root or a directory that is not removed.
Stands(p, d) == d = Root \/ (d \in Live(p) /\ IsDir(p, d))

\* Nothing but nodes of S has the name of a place in its directory.
FreeFor(p, at, S) ==
    \A n \in Live(p) : ParentOf(p, n) = at.parent /\ PlaceOf(p, n).name = at.name => n \in S

\* The peer has what it has put itself, and what there was at first.
Newest(p) ==
    /\ \A i \in DOMAIN log : /\ log[i].at.node \in NodeIds
                             /\ log[i].by \in {None, p} => i <= recs[p][log[i].at.node]
    /\ held = [q \in Peers |-> held[q]] /\ held[p] \subseteq DOMAIN versions
    /\ \A v \in DOMAIN versions : versions[v].by \in {None, p} => v \in held[p]

Created(p) == nodes \in Nat /\ \A n \in Known(p) : n <= nodes

DirectoriesHold(p) ==
    \A n \in Known(p) : \/ ParentOf(p, n) = Root
                        \/ ParentOf(p, n) \in Known(p) /\ IsDir(p, ParentOf(p, n))

Acyclic(p) == \A cycle \in (SUBSET Known(p)) \ {{}} : \E n \in cycle : ParentOf(p, n) \notin cycle

OneName(p) == \A n \in Live(p) : FreeFor(p, PlaceOf(p, n), {n})

NoOrphan(p) == \A n \in Live(p) : Shown(p, n) => Stands(p, ParentOf(p, n))

TreeParts(p) ==
    Newest(p) /\ Created(p) /\ DirectoriesHold(p) /\ Acyclic(p) /\ OneName(p) /\ NoOrphan(p)

\* What is above a place does not lead back to its node.
Hangs(p, at) ==
    \A cycle \in SUBSET Known(p) :
        at.parent \in cycle => \E n \in cycle \ {at.node} : ParentOf(p, n) \notin cycle \cup {at.node}

\* A record with this place can be put.
Placed(p, at) ==
    /\ Stands(p, at.parent) /\ Hangs(p, at) /\ at.node \in NodeIds
    /\ at.node \in Known(p) => /\ at.node \in Live(p)
                               /\ (at.kind = "directory" <=> IsDir(p, at.node))
                               /\ Stands(p, ParentOf(p, at.node))

\* This is the place of a node that can be seen.
Is(p, at) == at.node \in Live(p) /\ at = PlaceOf(p, at.node) /\ Stands(p, at.parent)

Putting == {"heads", "chunks", "version", "record"}

\* A call that puts a record, or a file, has found a place for it.
Puts(p, o) ==
    o.phase \in Putting /\ ~o.deleted =>
        Placed(p, o.at) /\ FreeFor(p, o.at, {o.at.node}) /\ o.then = None

\* A call that removes a node has found it.
Removes(p, o) ==
    o.phase \in Putting \cup {"children"} /\ o.deleted =>
        /\ Is(p, o.at)
        /\ o.phase \notin {"children", "record"} => o.at.kind # "directory"

\* A rename that removes what is in its way has a place for what it moves.
MakesWay(p, o) ==
    o.phase \in Putting /\ o.deleted /\ o.then # None =>
        /\ o.at.kind # "directory" /\ o.then.kind # "directory"
        /\ o.then.node # o.at.node /\ o.then.node \in Live(p)
        /\ Placed(p, o.then) /\ FreeFor(p, o.then, {o.then.node, o.at.node})

\* The directory that is removed is the one whose children are listed, and they are
\* not shown.
Empties(p, o) ==
    /\ o.phase = "children" =>
          /\ ResolvePath(p, o.path) = o.at.node /\ o.then = None /\ o.deleted
          /\ IsSequence(o.path) /\ o.path # <<>>
    /\ o.phase = "record" /\ o.deleted /\ o.at.kind = "directory" =>
          \A n \in Live(p) : ParentOf(p, n) = o.at.node => ~Shown(p, n)

\* A rename knows what it moves, and then what is in its way.
Renames(p, o) ==
    /\ o.phase \in {"destination", "remove"} =>
          o.then = None /\ ~o.deleted /\ IsSequence(o.path) /\ o.path # <<>>
    /\ o.phase = "destination" => Is(p, o.at)
    /\ o.phase = "remove" =>
          /\ o.at.kind # "directory" /\ o.at.node \in Live(p) /\ Placed(p, o.at)
          /\ ResolvePath(p, o.path) \in Live(p) \ {o.at.node}
          /\ ~IsDir(p, ResolvePath(p, o.path))
          /\ FreeFor(p, o.at, {o.at.node, ResolvePath(p, o.path)})

CallHangs(p, o) ==
    Puts(p, o) /\ Removes(p, o) /\ MakesWay(p, o) /\ Empties(p, o) /\ Renames(p, o)

Numbered(o, n) == o.phase \in Putting /\ ~o.deleted => o.at.node <= n

TreeInv(c) ==
    /\ TreeParts(PeerOf[c])
    /\ CallHangs(PeerOf[c], op[c])
    /\ Numbered(op[c], nodes)

\* What exists at first is a tree.
SeedIsTree ==
    /\ \A n \in DOMAIN Seed :
          \/ Seed[n].parent = Root
          \/ Seed[n].parent \in 1..(n - 1) /\ Seed[Seed[n].parent].kind = "directory"
    /\ \A m, n \in DOMAIN Seed :
          Seed[m].parent = Seed[n].parent /\ Seed[m].name = Seed[n].name => m = n

-----------------------------------------------------------------------------
LEMMA LiveIsKnown == \A p : Live(p) \subseteq Known(p) /\ Known(p) \subseteq NodeIds
BY DEF Live, Known

\* What a path leads to.
LEMMA FoundIs ==
    ASSUME NEW p, NEW path, IsSequence(path), path # <<>>
    PROVE  /\ ResolvePath(p, path) \in Live(p) \cup {None}
           /\ ResolveParent(p, path) # None => Stands(p, ResolveParent(p, path))
           /\ ResolvePath(p, path) = None /\ ResolveParent(p, path) # None =>
                 \A n \in Live(p) : ~(/\ ParentOf(p, n) = ResolveParent(p, path)
                                      /\ PlaceOf(p, n).name = Last(path))
           /\ ResolvePath(p, path) # None =>
                 /\ ParentOf(p, ResolvePath(p, path)) = ResolveParent(p, path)
                 /\ PlaceOf(p, ResolvePath(p, path)).name = Last(path)
                 /\ Stands(p, ResolveParent(p, path))
<1>. DEFINE d == ResolvePath(p, Front(path))
            n == ResolvePath(p, path)
            enter(q) == IF IsDirectory(p, ResolvePath(p, Front(q)))
                        THEN ChildByName(p, ResolvePath(p, Front(q)), Last(q)) ELSE None
<1>1. ASSUME NEW q, IsSequence(q)
      PROVE  /\ IsSequence(Front(q)) \/ q = <<>>
             /\ q = <<>> => ResolvePath(p, q) = Root
             /\ q # <<>> => ResolvePath(p, q) = enter(q)
  <2>1. /\ IsSequence(Front(q)) \/ q = <<>>
        /\ q = <<>> => ResolveIn(recs[p], log, q) = Root
        /\ q # <<>> => ResolveIn(recs[p], log, q) =
                 Enter(recs[p], log, ResolveIn(recs[p], log, Front(q)), Last(q))
    BY <1>1, ResolveLast
  <2>2. \A path_1 : ResolvePath(p, path_1) = ResolveIn(recs[p], log, path_1)
    BY SeesIn
  <2>3. /\ \A parent, name : ChildByName(p, parent, name) = ChildIn(recs[p], log, parent, name)
        /\ \A m : IsDirectory(p, m) = DirectoryIn(recs[p], log, m)
    BY SeesIn
  <2>4. Enter(recs[p], log, ResolveIn(recs[p], log, Front(q)), Last(q)) = enter(q)
    BY <2>2, <2>3 DEF Enter
  <2>. QED
    BY <2>1, <2>2, <2>4
<1>2. ASSUME NEW e, NEW name
      PROVE  LET m == ChildByName(p, e, name)
             IN /\ m \in Live(p) \cup {None}
                /\ m = None => \A x \in Live(p) : ~(ParentOf(p, x) = e /\ PlaceOf(p, x).name = name)
                /\ m # None => ParentOf(p, m) = e /\ PlaceOf(p, m).name = name
  <2>1. /\ ChildByName(p, e, name) = ChildIn(recs[p], log, e, name)
        /\ Live(p) = LiveIn(recs[p], log)
        /\ \A x : PlaceOf(p, x) = PlaceIn(recs[p], log, x)
    BY SeesIn
  <2>. QED
    BY <2>1, ChildIs DEF ParentOf
<1>3. IsSequence(Front(path)) /\ n = enter(path)
  BY <1>1
<1>4. d \in {Root, None} \cup Live(p)
  <2>1. d = Root \/ d = enter(Front(path))
    BY <1>1, <1>3
  <2>2. enter(Front(path)) \in {None} \cup Live(p)
    BY <1>2
  <2>. QED
    BY <2>1, <2>2
<1>5. ~IsDirectory(p, None)
  BY NodesAre DEF IsDirectory
<1>6. IsDirectory(p, d) => d # None /\ Stands(p, d)
  BY <1>4, <1>5 DEF IsDirectory, Stands, IsDir
<1>7. ResolveParent(p, path) = IF IsDirectory(p, d) THEN d ELSE None
  BY DEF ResolveParent
<1>8. n = IF IsDirectory(p, d) THEN ChildByName(p, d, Last(path)) ELSE None
  BY <1>3
<1>. HIDE DEF d, n, enter
<1>9. CASE IsDirectory(p, d)
  BY <1>2, <1>6, <1>7, <1>8, <1>9 DEF n
<1>10. CASE ~IsDirectory(p, d)
  BY <1>7, <1>8, <1>10 DEF n
<1>. QED
  BY <1>9, <1>10

\* The empty path is the root.
LEMMA RootIs == ASSUME NEW p PROVE ResolvePath(p, <<>>) = Root
<1>1. IsSequence(<<>>)
  BY DEF IsSequence
<1>. QED
  BY <1>1, SeesIn, ResolveLast

\* A file, or a node that is new, can be put into any directory.
LEMMA LeafHangs ==
    ASSUME NEW p, TreeParts(p), NEW at, at.node \in NodeIds, Stands(p, at.parent),
           at.node \in Known(p) => ~IsDir(p, at.node)
    PROVE  Hangs(p, at)
<1>1. at.parent # at.node
  BY LiveIsKnown, NodesAre DEF Stands
<1>2. \A n \in Known(p) : ParentOf(p, n) # at.node
  BY NodesAre DEF TreeParts, DirectoriesHold
<1>3. ASSUME NEW cycle \in SUBSET Known(p), at.parent \in cycle,
             \A n \in cycle \ {at.node} : ParentOf(p, n) \in cycle \cup {at.node}
      PROVE  FALSE
  <2>1. PICK n \in cycle \ {at.node} : ParentOf(p, n) \notin cycle \ {at.node}
    BY <1>1, <1>3 DEF TreeParts, Acyclic
  <2>. QED
    BY <1>2, <1>3, <2>1
<1>. QED
  BY <1>3 DEF Hangs

\* The walk up from a node, as WithinSubtree takes it.
UpIn(r, l, n) ==
    LET up[i \in 0..MaxNodes] ==
          IF i = 0 THEN n
          ELSE IF up[i - 1] \in {None, Root} \/ r[up[i - 1]] = 0 THEN None
          ELSE PlaceIn(r, l, up[i - 1]).parent
    IN up

LEMMA UpIs ==
    ASSUME NEW p, DirectoriesHold(p), NEW n \in Places
    PROVE  /\ UpIn(recs[p], log, n)[0] = n
           /\ \A i \in 1..MaxNodes :
                 UpIn(recs[p], log, n)[i - 1] \in Known(p) =>
                    UpIn(recs[p], log, n)[i] = ParentOf(p, UpIn(recs[p], log, n)[i - 1])
           /\ \A i \in 0..MaxNodes : WithinSubtree(p, n, UpIn(recs[p], log, n)[i])
<1>. DEFINE r == recs[p]
            above(x) == IF x \in {None, Root} \/ r[x] = 0 THEN None ELSE PlaceIn(r, log, x).parent
            step == [i \in 1..MaxNodes |-> [x \in Places |-> above(x)]]
            Walks(f) == f = [i \in 0..MaxNodes |->
                          IF i = 0 THEN n
                          ELSE IF f[i - 1] \in {None, Root} \/ r[f[i - 1]] = 0 THEN None
                          ELSE PlaceIn(r, log, f[i - 1]).parent]
<1>0. \A x : PlaceIn(r, log, x).parent = ParentOf(p, x)
  BY Zenon DEF PlaceIn, ParentOf, PlaceOf
<1>1. \A x \in Places : above(x) \in Places
  <2>. SUFFICES ASSUME NEW x \in Places, x \notin {None, Root}, r[x] # 0
                PROVE  ParentOf(p, x) \in Places
    BY <1>0 DEF Places
  <2>1. x \in Known(p)
    BY DEF Places, Known
  <2>. QED
    BY <2>1, LiveIsKnown DEF DirectoriesHold, Places
<1>. HIDE DEF above
<1>2. step \in [1..MaxNodes -> [Places -> Places]]
  BY <1>1
<1>3. PICK f \in [0..MaxNodes -> Places] :
        f[0] = n /\ \A i \in 1..MaxNodes : f[i] = step[i][f[i - 1]]
  <2>. HIDE DEF step
  <2>. QED
    BY <1>2, NodesAre, StepsExist
<1>4. ASSUME NEW i \in 1..MaxNodes PROVE f[i] = above(f[i - 1])
  <2>1. i - 1 \in 0..MaxNodes
    BY NodesAre
  <2>2. f[i - 1] \in Places
    BY <1>3, <2>1
  <2>. QED
    BY <1>3, <2>2
<1>5. ASSUME NEW i \in 0..MaxNodes
      PROVE  f[i] = IF i = 0 THEN n
                    ELSE IF f[i - 1] \in {None, Root} \/ r[f[i - 1]] = 0 THEN None
                    ELSE PlaceIn(r, log, f[i - 1]).parent
  <2>1. CASE i = 0
    BY <1>3, <2>1
  <2>2. CASE i # 0
    <3>1. i \in 1..MaxNodes
      BY NodesAre, <2>2
    <3>. QED
      BY <1>4, <2>2, <3>1 DEF above
  <2>. QED
    BY <2>1, <2>2
<1>6. Walks(f)
  BY <1>3, <1>5
<1>7. UpIn(r, log, n) = CHOOSE g : Walks(g)
  BY Zenon DEF UpIn
<1>8. Walks(UpIn(r, log, n))
  <2>. HIDE DEF Walks
  <2>. QED
    BY <1>6, <1>7, Zenon
<1>9. ASSUME NEW g, Walks(g)
      PROVE  g[0] = n /\ \A i \in 1..MaxNodes : g[i] = above(g[i - 1])
  <2>1. g[0] = n
    BY <1>9, NodesAre
  <2>2. ASSUME NEW i \in 1..MaxNodes PROVE g[i] = above(g[i - 1])
    <3>1. i \in 0..MaxNodes /\ i # 0
      BY NodesAre
    <3>. QED
      BY <1>9, <3>1 DEF above
  <2>. QED
    BY <2>1, <2>2
<1>10. \A x \in Known(p) : above(x) = ParentOf(p, x)
  BY <1>0, NodesAre DEF Known, above
<1>11. \A i \in 0..MaxNodes : WithinSubtree(p, n, UpIn(recs[p], log, n)[i])
  BY Zenon DEF WithinSubtree, UpIn, PlaceOf, PlaceIn
<1>. QED
  BY <1>8, <1>9, <1>10, <1>11

\* A directory can be moved to where the walk up does not meet it: it would go on
\* for ever.
LEMMA BranchHangs ==
    ASSUME NEW p, TreeParts(p), NEW at, Stands(p, at.parent),
           ~WithinSubtree(p, at.parent, at.node)
    PROVE  Hangs(p, at)
<1>. SUFFICES ASSUME NEW cycle \in SUBSET Known(p), at.parent \in cycle,
                     \A n \in cycle \ {at.node} : ParentOf(p, n) \in cycle \cup {at.node}
              PROVE  FALSE
  BY DEF Hangs
<1>. DEFINE up == UpIn(recs[p], log, at.parent)
            T == {i \in 0..MaxNodes : up[i] \notin cycle \ {at.node}}
<1>1. at.parent \in Places /\ DirectoriesHold(p)
  BY LiveIsKnown DEF Places, TreeParts
<1>2. /\ up[0] = at.parent
      /\ \A i \in 1..MaxNodes : up[i - 1] \in Known(p) => up[i] = ParentOf(p, up[i - 1])
      /\ \A i \in 0..MaxNodes : up[i] # at.node
  <2>1. /\ up[0] = at.parent
        /\ \A i \in 1..MaxNodes : up[i - 1] \in Known(p) => up[i] = ParentOf(p, up[i - 1])
    BY <1>1, UpIs
  <2>2. \A i \in 0..MaxNodes : WithinSubtree(p, at.parent, up[i])
    BY <1>1, UpIs
  <2>3. \A i \in 0..MaxNodes : up[i] # at.node
    BY <2>2
  <2>. QED
    BY <2>1, <2>3
<1>. HIDE DEF up
<1>3. ASSUME T # {} PROVE FALSE
  <2>. T \subseteq Nat
    BY NodesAre
  <2>1. PICK i \in T : \A k \in T : i <= k
    BY <1>3, SmallestNumber
  <2>2. i \in 0..MaxNodes /\ up[i] \notin cycle
    BY <1>2, <2>1
  <2>3. i # 0
    BY <1>2, <2>2
  <2>4. i \in 1..MaxNodes /\ i - 1 \in 0..MaxNodes /\ ~(i <= i - 1)
    BY <2>2, <2>3, NodesAre
  <2>5. up[i - 1] \in cycle \ {at.node}
    BY <2>1, <2>4, Zenon
  <2>. QED
    BY <1>2, <2>2, <2>4, <2>5
<1>4. \A i \in 0..MaxNodes : up[i] \in cycle \ {at.node}
  BY <1>3
<1>5. PICK i, j \in 0..MaxNodes : i # j /\ up[i] = up[j]
  <2>. DEFINE f == [i \in 0..MaxNodes |-> up[i]]
  <2>1. f \in [0..MaxNodes -> NodeIds]
    BY <1>4, LiveIsKnown
  <2>2. /\ IsFiniteSet(0..MaxNodes) /\ Cardinality(0..MaxNodes) = MaxNodes + 1
        /\ IsFiniteSet(NodeIds) /\ Cardinality(NodeIds) = MaxNodes
    BY NodesAre, FS_Interval
  <2>3. MaxNodes < MaxNodes + 1
    BY NodesAre
  <2>4. Cardinality(NodeIds) < Cardinality(0..MaxNodes)
    BY <2>2, <2>3
  <2>. HIDE DEF f
  <2>5. \E i, j \in 0..MaxNodes : i # j /\ f[i] = f[j]
    <3>1. PICK S, Q : S = 0..MaxNodes /\ Q = NodeIds
      OBVIOUS
    <3>2. /\ f \in [S -> Q] /\ IsFiniteSet(S) /\ IsFiniteSet(Q)
          /\ Cardinality(Q) < Cardinality(S)
      BY <2>1, <2>2, <2>4, <3>1
    <3>3. \E i, j \in S : i # j /\ f[i] = f[j]
      BY <3>2, FS_PigeonHole
    <3>. QED
      BY <3>1, <3>3
  <2>. QED
    BY <2>5 DEF f
<1>6. ASSUME NEW a \in 0..MaxNodes, NEW b \in 0..MaxNodes, a < b, up[a] = up[b]
      PROVE  FALSE
  <2>. DEFINE loop == {up[k] : k \in a..(b - 1)}
  <2>1. \A k \in a..(b - 1) : k \in 0..MaxNodes /\ k + 1 \in 1..MaxNodes /\ (k + 1) - 1 = k
    BY <1>6, NodesAre
  <2>2. loop \subseteq Known(p) /\ up[a] \in loop
    BY <1>4, <1>6, <2>1
  <2>3. PICK x \in loop : ParentOf(p, x) \notin loop
    BY <2>2 DEF TreeParts, Acyclic
  <2>4. PICK k \in a..(b - 1) : x = up[k]
    BY <2>3
  <2>5. up[k + 1] = ParentOf(p, x)
    BY <1>2, <2>1, <2>2, <2>3, <2>4
  <2>6. CASE k + 1 = b
    BY <1>6, <2>2, <2>3, <2>5, <2>6
  <2>7. CASE k + 1 # b
    <3>1. k + 1 \in a..(b - 1)
      BY <1>6, <2>7
    <3>. QED
      BY <2>3, <2>5, <3>1
  <2>. QED
    BY <2>6, <2>7
<1>. QED
  BY <1>5, <1>6, NodesAre

-----------------------------------------------------------------------------
(* What steps leave as it is.                                              *)

\* Records stay as they were put.
LogGrown == \A i \in DOMAIN log : i \in DOMAIN log' /\ log'[i] = log[i]

\* What a peer sees depends on the records that it has, whatever else was put.
LEMMA SameSight ==
    ASSUME NEW r, NEW l, NEW k, \A n \in NodeIds : r[n] # 0 => k[r[n]] = l[r[n]]
    PROVE  /\ LiveIn(r, k) = LiveIn(r, l)
           /\ \A n \in NodeIds : r[n] # 0 =>
                 PlaceIn(r, k, n) = PlaceIn(r, l, n) /\ DirectoryIn(r, k, n) = DirectoryIn(r, l, n)
           /\ \A path : IsSequence(path) => ResolveIn(r, k, path) = ResolveIn(r, l, path)
<1>1. LiveIn(r, k) = LiveIn(r, l)
  BY DEF LiveIn
<1>2. \A n \in NodeIds : r[n] # 0 => PlaceIn(r, k, n) = PlaceIn(r, l, n)
  BY DEF PlaceIn
<1>3. \A n \in NodeIds : r[n] # 0 => DirectoryIn(r, k, n) = DirectoryIn(r, l, n)
  <2>. SUFFICES ASSUME NEW n \in NodeIds, r[n] # 0 PROVE DirectoryIn(r, k, n) = DirectoryIn(r, l, n)
    OBVIOUS
  <2>1. PlaceIn(r, k, n) = PlaceIn(r, l, n)
    BY <1>2
  <2>. QED
    BY <2>1, Zenon DEF DirectoryIn
<1>4. \A n : n \in {None, Root} \cup LiveIn(r, l) => DirectoryIn(r, k, n) = DirectoryIn(r, l, n)
  <2>1. /\ DirectoryIn(r, k, None) = DirectoryIn(r, l, None)
        /\ DirectoryIn(r, k, Root) = DirectoryIn(r, l, Root)
    BY NodesAre, Zenon DEF DirectoryIn
  <2>2. \A n \in LiveIn(r, l) : n \in NodeIds /\ r[n] # 0
    BY DEF LiveIn
  <2>. QED
    BY <1>3, <2>1, <2>2, Zenon
<1>5. ASSUME NEW d, NEW name PROVE ChildIn(r, k, d, name) = ChildIn(r, l, d, name)
  <2>. DEFINE found(m) == {n \in LiveIn(r, m) : PlaceIn(r, m, n).parent = d
                                           /\ PlaceIn(r, m, n).name = name}
  <2>1. found(k) = found(l)
    BY <1>1, <1>2 DEF LiveIn
  <2>2. \A m : ChildIn(r, m, d, name) = IF found(m) = {} THEN None ELSE Min(found(m))
    BY Zenon DEF ChildIn
  <2>. QED
    BY <2>1, <2>2
<1>6. ASSUME NEW d \in {None, Root} \cup LiveIn(r, l), NEW name
      PROVE  /\ Enter(r, k, d, name) = Enter(r, l, d, name)
             /\ Enter(r, l, d, name) \in {None, Root} \cup LiveIn(r, l)
  BY <1>4, <1>5, ChildIs DEF Enter
<1>7. ASSUME NEW path, IsSequence(path) PROVE ResolveIn(r, k, path) = ResolveIn(r, l, path)
  <2>. DEFINE N == Len(path)
              f == WalkIn(r, k, path)
              g == WalkIn(r, l, path)
              T == {i \in 0..N : f[i] # g[i] \/ g[i] \notin {None, Root} \cup LiveIn(r, l)}
  <2>1. N \in Nat
    BY <1>7 DEF IsSequence
  <2>2. /\ f[0] = Root /\ \A i \in 1..N : f[i] = Enter(r, k, f[i - 1], path[i])
        /\ g[0] = Root /\ \A i \in 1..N : g[i] = Enter(r, l, g[i - 1], path[i])
    BY <1>7, WalkIs
  <2>. HIDE DEF f, g, N
  <2>3. ASSUME T # {} PROVE FALSE
    <3>1. T \subseteq Nat
      BY <2>1
    <3>2. PICK i \in T : \A j \in T : i <= j
      BY <2>3, <3>1, SmallestNumber
    <3>3. i \in 1..N /\ i - 1 \in 0..N /\ i - 1 \notin T
      BY <2>1, <2>2, <3>2
    <3>4. f[i - 1] = g[i - 1] /\ g[i - 1] \in {None, Root} \cup LiveIn(r, l)
      BY <3>3
    <3>5. f[i] = g[i] /\ g[i] \in {None, Root} \cup LiveIn(r, l)
      BY <1>6, <2>2, <3>3, <3>4
    <3>. QED
      BY <3>2, <3>5
  <2>4. f[N] = g[N]
    BY <2>1, <2>3
  <2>. QED
    BY <2>4 DEF ResolveIn, f, g, N
<1>. QED
  BY <1>1, <1>2, <1>3, <1>7

\* A peer sees the same tree when it has the same records.
LEMMA SameRecords ==
    ASSUME Documents, NEW p \in Peers, LogGrown, recs'[p] = recs[p]
    PROVE  /\ Live(p)' = Live(p) /\ Known(p)' = Known(p)
           /\ \A n \in Known(p) : PlaceOf(p, n)' = PlaceOf(p, n)
           /\ \A n \in Known(p) : IsDirectory(p, n)' = IsDirectory(p, n)
           /\ \A path : IsSequence(path) => ResolvePath(p, path)' = ResolvePath(p, path)
<1>1. Live(p)' = LiveIn(recs'[p], log') /\ Live(p) = LiveIn(recs[p], log)
  BY Zenon DEF Live, LiveIn
<1>2. \A n : /\ PlaceOf(p, n)' = PlaceIn(recs'[p], log', n)
             /\ PlaceOf(p, n) = PlaceIn(recs[p], log, n)
  BY Zenon DEF PlaceOf, PlaceIn
<1>3. \A n : /\ IsDirectory(p, n)' = DirectoryIn(recs'[p], log', n)
             /\ IsDirectory(p, n) = DirectoryIn(recs[p], log, n)
  BY Zenon DEF IsDirectory, DirectoryIn, PlaceOf, PlaceIn
<1>4. \A path : /\ ResolvePath(p, path)' = ResolveIn(recs'[p], log', path)
                /\ ResolvePath(p, path) = ResolveIn(recs[p], log, path)
  BY Zenon DEF ResolvePath, ResolveIn, WalkIn, IsDirectory, DirectoryIn, PlaceOf, PlaceIn,
     ChildByName, ChildIn, Live, LiveIn
<1>5. Known(p)' = Known(p)
  BY DEF Known
<1>6. PICK r, l, k : r = recs[p] /\ l = log /\ k = log'
  OBVIOUS
<1>7. \A n \in NodeIds : r[n] # 0 => k[r[n]] = l[r[n]]
  BY <1>6 DEF Documents, LogGrown
<1>8. /\ LiveIn(r, k) = LiveIn(r, l)
      /\ \A n \in NodeIds : r[n] # 0 =>
            PlaceIn(r, k, n) = PlaceIn(r, l, n) /\ DirectoryIn(r, k, n) = DirectoryIn(r, l, n)
      /\ \A path : IsSequence(path) => ResolveIn(r, k, path) = ResolveIn(r, l, path)
  BY <1>7, SameSight
<1>9. \A n \in Known(p) : n \in NodeIds /\ r[n] # 0
  BY <1>6 DEF Known
<1>10. recs'[p] = r
  BY <1>6
<1>. QED
  BY <1>1, <1>2, <1>3, <1>4, <1>5, <1>6, <1>8, <1>9, <1>10, Zenon

\* A peer shows the same of every file when it holds the same versions.
LEMMA SameVersions ==
    ASSUME NEW p, IsSequence(versions), held[p] \subseteq DOMAIN versions, Grown, held'[p] = held[p]
    PROVE  \A n : Visible(p, n)' = Visible(p, n)
<1>. SUFFICES ASSUME NEW n PROVE Visible(p, n)' = Visible(p, n)
  OBVIOUS
<1>1. HeadDocuments(p, n)' = HeadDocuments(p, n) /\ HeadDocuments(p, n) \subseteq DOMAIN versions
  BY DEF HeadDocuments, Grown
<1>2. Heads(p, n)' = Heads(p, n) /\ Heads(p, n) \subseteq DOMAIN versions
  BY <1>1 DEF Heads, Grown
<1>3. Heads(p, n) # {} => versions'[Max(Heads(p, n))] = versions[Max(Heads(p, n))]
  <2>. SUFFICES ASSUME Heads(p, n) # {} PROVE Max(Heads(p, n)) \in DOMAIN versions
    BY DEF Grown
  <2>1. Len(versions) \in Nat /\ Heads(p, n) \subseteq 1..Len(versions)
    BY <1>2 DEF IsSequence
  <2>2. Max(Heads(p, n)) \in Heads(p, n)
    BY <2>1, MaxIs
  <2>. QED
    BY <1>2, <2>2
<1>. QED
  BY <1>2, <1>3, Zenon DEF Visible

\* What is asked of places is the same when the records are.
LEMMA SamePlaces ==
    ASSUME Documents, NEW p \in Peers, LogGrown, recs'[p] = recs[p]
    PROVE  /\ \A d : Stands(p, d)' <=> Stands(p, d)
           /\ \A at : (Placed(p, at)' <=> Placed(p, at)) /\ (Is(p, at)' <=> Is(p, at))
           /\ \A at, S : FreeFor(p, at, S)' <=> FreeFor(p, at, S)
<1>1. /\ Live(p)' = Live(p) /\ Known(p)' = Known(p)
      /\ \A n \in Known(p) : PlaceOf(p, n)' = PlaceOf(p, n)
      /\ Live(p) \subseteq Known(p)
  BY SameRecords, LiveIsKnown
<1>2. \A d : Stands(p, d)' <=> Stands(p, d)
  BY <1>1 DEF Stands, IsDir
<1>3. \A at : Hangs(p, at)' <=> Hangs(p, at)
  BY <1>1 DEF Hangs, ParentOf
<1>4. \A at : (Placed(p, at)' <=> Placed(p, at)) /\ (Is(p, at)' <=> Is(p, at))
  BY <1>1, <1>2, <1>3 DEF Placed, Is, IsDir, ParentOf
<1>5. \A at, S : FreeFor(p, at, S)' <=> FreeFor(p, at, S)
  BY <1>1 DEF FreeFor, ParentOf
<1>. QED
  BY <1>2, <1>4, <1>5

\* A step that changes nothing the peer has: the tree stays, and so does what calls
\* know of it.
LEMMA SameTree ==
    ASSUME Documents, NEW p \in Peers, TreeParts(p), LogGrown, recs'[p] = recs[p],
           Grown, held'[p] = held[p], Newest(p)', nodes' \in Nat, nodes <= nodes'
    PROVE  /\ TreeParts(p)'
           /\ \A o : CallHangs(p, o) => CallHangs(p, o)'
<1>1. /\ Live(p)' = Live(p) /\ Known(p)' = Known(p)
      /\ \A n \in Known(p) : PlaceOf(p, n)' = PlaceOf(p, n)
      /\ \A n \in Known(p) : IsDirectory(p, n)' = IsDirectory(p, n)
      /\ \A path : IsSequence(path) => ResolvePath(p, path)' = ResolvePath(p, path)
      /\ Live(p) \subseteq Known(p)
  BY SameRecords, LiveIsKnown
<1>2. \A n \in Known(p) : Shown(p, n)' <=> Shown(p, n)
  <2>1. IsSequence(versions) /\ held[p] \subseteq DOMAIN versions
    BY DEF Documents, TreeParts, Newest
  <2>. QED
    BY <1>1, <2>1, SameVersions DEF Shown
<1>3. /\ \A d : Stands(p, d)' <=> Stands(p, d)
      /\ \A at : (Placed(p, at)' <=> Placed(p, at)) /\ (Is(p, at)' <=> Is(p, at))
      /\ \A at, S : FreeFor(p, at, S)' <=> FreeFor(p, at, S)
  BY SamePlaces
<1>4. TreeParts(p)'
  <2>2. Created(p)'
    BY <1>1, LiveIsKnown, NodesAre DEF TreeParts, Created
  <2>3. DirectoriesHold(p)' /\ Acyclic(p)'
    BY <1>1 DEF TreeParts, DirectoriesHold, Acyclic, ParentOf, IsDir
  <2>4. OneName(p)'
    BY <1>1, <1>3 DEF TreeParts, OneName
  <2>5. NoOrphan(p)'
    BY <1>1, <1>2, <1>3 DEF TreeParts, NoOrphan, ParentOf
  <2>. QED
    BY <2>2, <2>3, <2>4, <2>5 DEF TreeParts
<1>5. ASSUME NEW o, CallHangs(p, o) PROVE CallHangs(p, o)'
  <2>1. Puts(p, o)' /\ Removes(p, o)' /\ MakesWay(p, o)'
    BY <1>1, <1>3, <1>5 DEF CallHangs, Puts, Removes, MakesWay
  <2>2. Empties(p, o)'
    BY <1>1, <1>2, <1>5 DEF CallHangs, Empties, ParentOf
  <2>3. Renames(p, o)'
    BY <1>1, <1>3, <1>5 DEF CallHangs, Renames, IsDir
  <2>. QED
    BY <2>1, <2>2, <2>3 DEF CallHangs
<1>. QED
  BY <1>4, <1>5

\* A call begins or goes on, and no document changes.
LEMMA CallGoesOn ==
    ASSUME IInv, NEW c \in Clients, TreeInv(c), NEW o, op' = [op EXCEPT ![c] = o],
           UNCHANGED <<log, versions, recs, held>>, nodes' \in Nat, nodes <= nodes',
           CallHangs(PeerOf[c], o), Numbered(o, nodes')
    PROVE  TreeInv(c)'
<1>1. op'[c] = o
  BY OpOf DEF IInv
<1>2. LogGrown /\ Grown /\ Newest(PeerOf[c])'
  BY DEF TreeInv, TreeParts, Newest, LogGrown, Grown
<1>3. PeerOf[c] \in Peers /\ Documents
  BY PeerOfClient DEF IInv
<1>. QED
  BY <1>1, <1>2, <1>3, SameTree DEF TreeInv

\* A call that is over, or that fails, needs nothing.
LEMMA DoneHangs ==
    ASSUME NEW p, NEW o, o.phase \in {"idle", "done"}
    PROVE  CallHangs(p, o) /\ \A n : Numbered(o, n)
BY DEF CallHangs, Puts, Removes, MakesWay, Empties, Renames, Putting, Numbered

\* A call that puts a record needs a place for it.
LEMMA PuttingHangs ==
    ASSUME NEW p, NEW o, o.phase \in Putting, o.deleted = FALSE, o.then = None,
           Placed(p, o.at), FreeFor(p, o.at, {o.at.node})
    PROVE  CallHangs(p, o)
BY DEF CallHangs, Puts, Removes, MakesWay, Empties, Renames, Putting

\* The removal of a file, or the start of that of a directory.
LEMMA RemovalHangs ==
    ASSUME NEW p, NEW o, CallShape(o), NEW n, Is(p, PlaceOf(p, n)), PlaceOf(p, n).node = n,
           n \notin {Root, None},
           IsDirectory(p, n) => /\ IsSequence(o.path) /\ o.path # <<>>
                                /\ ResolvePath(p, o.path) = n /\ o.then = None,
           o.then # None => /\ o.then.kind # "directory" /\ o.then.node # n
                            /\ o.then.node \in Live(p)
                            /\ Placed(p, o.then) /\ FreeFor(p, o.then, {o.then.node, n})
    PROVE  CallHangs(p, Removal(p, n, o)) /\ \A m : Numbered(Removal(p, n, o), m)
<1>1. PICK r : r = Removal(p, n, o)
  OBVIOUS
<1>2. /\ r.phase = IF IsDirectory(p, n) THEN "children" ELSE "heads"
      /\ r.at = PlaceOf(p, n) /\ r.deleted = TRUE
      /\ r.then = o.then /\ r.path = o.path
  BY <1>1 DEF Removal, CallShape
<1>3. IsDirectory(p, n) <=> r.at.kind = "directory"
  BY <1>2 DEF IsDirectory
<1>4. r.phase \in {"children", "heads"}
  BY <1>2
<1>5. Puts(p, r) /\ Renames(p, r) /\ \A m : Numbered(r, m)
  BY <1>2, <1>4 DEF Puts, Renames, Numbered
<1>6. Removes(p, r)
  BY <1>2, <1>3 DEF Removes
<1>7. MakesWay(p, r)
  BY <1>2, <1>3 DEF MakesWay
<1>8. Empties(p, r)
  BY <1>2, <1>3 DEF Empties
<1>. QED
  BY <1>1, <1>5, <1>6, <1>7, <1>8 DEF CallHangs

\* A node that a path leads to can be seen, and has its place to itself.
LEMMA FoundHangs ==
    ASSUME NEW p \in Peers, Documents, TreeParts(p), NEW path, IsSequence(path), NEW n,
           n = ResolvePath(p, path), n \notin {None, Root}
    PROVE  /\ path # <<>> /\ n \in Live(p) /\ Is(p, PlaceOf(p, n)) /\ PlaceOf(p, n).node = n
           /\ ParentOf(p, n) = ResolveParent(p, path) /\ PlaceOf(p, n).name = Last(path)
           /\ \A m \in Live(p) : ParentOf(p, m) = ResolveParent(p, path)
                              /\ PlaceOf(p, m).name = Last(path) => m = n
           /\ IsDirectory(p, n) <=> IsDir(p, n)
<1>1. path # <<>>
  BY RootIs
<1>2. /\ n \in Live(p) /\ ParentOf(p, n) = ResolveParent(p, path)
      /\ PlaceOf(p, n).name = Last(path) /\ Stands(p, ParentOf(p, n))
  BY <1>1, FoundIs
<1>3. PlaceOf(p, n).node = n
  BY <1>2 DEF Documents, PlaceOf, Live
<1>4. FreeFor(p, PlaceOf(p, n), {n})
  BY <1>2 DEF TreeParts, OneName
<1>5. \A m \in Live(p) : ParentOf(p, m) = ResolveParent(p, path)
                      /\ PlaceOf(p, m).name = Last(path) => m = n
  BY <1>2, <1>4 DEF FreeFor, ParentOf
<1>6. IsDirectory(p, n) <=> IsDir(p, n)
  BY DEF IsDirectory, IsDir
<1>. QED
  BY <1>1, <1>2, <1>3, <1>5, <1>6 DEF Is, ParentOf

-----------------------------------------------------------------------------
(* Calls.                                                                  *)

LEMMA PlaceFields ==
    ASSUME NEW n, NEW kind, NEW parent, NEW name
    PROVE  LET at == Place(n, kind, parent, name)
           IN at.node = n /\ at.kind = kind /\ at.parent = parent /\ at.name = name
BY DEF Place

\* The next node that is created.
LEMMA FreshIs ==
    ASSUME NEW p, TreeParts(p)
    PROVE  nodes \in Nat /\ nodes + 1 \notin Known(p) /\ nodes < nodes + 1
<1>1. nodes \in Nat /\ \A n \in Known(p) : n <= nodes
  BY DEF TreeParts, Created
<1>2. ~(nodes + 1 <= nodes) /\ nodes < nodes + 1
  BY <1>1
<1>. QED
  BY <1>1, <1>2

LEMMA TreeWrite ==
    ASSUME IInv, NEW c \in Clients, TreeInv(c), NEW path, IsSequence(path), NEW content,
           NEW base, WriteFile(c, path, content, base)
    PROVE  TreeInv(c)'
<1>. DEFINE p == PeerOf[c]
            existing == ResolvePath(p, path)
            parent == ResolveParent(p, path)
            node == IF existing = None THEN nodes + 1 ELSE existing
            at == Place(node, "file", parent, Last(path))
            o == [Idle EXCEPT !.phase = "heads", !.call = "write", !.path = path,
                              !.at = at, !.content = content, !.base = base]
<1>1. /\ path # <<>> /\ parent # None /\ ~IsDirectory(p, existing) /\ node \in NodeIds
      /\ op' = [op EXCEPT ![c] = o]
      /\ nodes' = IF existing = None THEN node ELSE nodes
      /\ UNCHANGED <<log, versions, recs, held>>
  BY DEF WriteFile, Begin
<1>2. o.phase = "heads" /\ o.deleted = FALSE /\ o.then = None /\ o.at = at
  BY DEF Idle
<1>3. at.node = node /\ at.kind = "file" /\ at.parent = parent /\ at.name = Last(path)
  BY PlaceFields
<1>. HIDE DEF o, at
<1>4. p \in Peers /\ TreeParts(p) /\ Documents
  BY PeerOfClient DEF TreeInv, IInv
<1>5. Stands(p, parent)
  BY <1>1, FoundIs
<1>6. ASSUME existing = None
      PROVE  /\ Placed(p, at) /\ FreeFor(p, at, {node})
             /\ nodes' \in Nat /\ nodes <= nodes' /\ node <= nodes'
  <2>1. /\ node = nodes + 1 /\ node \notin Known(p) /\ nodes' = node
        /\ nodes' \in Nat /\ nodes <= nodes' /\ node <= nodes'
    BY <1>1, <1>4, <1>6, FreshIs
  <2>2. Hangs(p, at)
    BY <1>1, <1>3, <1>4, <1>5, <2>1, LeafHangs
  <2>3. FreeFor(p, at, {node})
    BY <1>1, <1>3, <1>6, FoundIs DEF FreeFor
  <2>. QED
    BY <1>1, <1>3, <1>5, <2>1, <2>2, <2>3 DEF Placed
<1>7. ASSUME existing # None
      PROVE  /\ Placed(p, at) /\ FreeFor(p, at, {node})
             /\ nodes' \in Nat /\ nodes <= nodes' /\ node <= nodes'
  <2>1. node = existing /\ existing # Root
    BY <1>1, <1>7 DEF IsDirectory
  <2>2. /\ node \in Live(p) /\ Is(p, PlaceOf(p, node)) /\ ~IsDir(p, node)
        /\ \A m \in Live(p) : ParentOf(p, m) = parent
                           /\ PlaceOf(p, m).name = Last(path) => m = node
    BY <1>1, <1>4, <1>7, <2>1, FoundHangs
  <2>3. FreeFor(p, at, {node})
    BY <1>3, <2>2 DEF FreeFor
  <2>4. Hangs(p, at)
    BY <1>1, <1>3, <1>4, <1>5, <2>2, LeafHangs
  <2>5. Placed(p, at)
    BY <1>1, <1>3, <1>5, <2>2, <2>4 DEF Placed, Is, ParentOf
  <2>6. nodes' = nodes /\ nodes \in Nat /\ node <= nodes
    BY <1>1, <1>4, <1>7, <2>2, LiveIsKnown DEF TreeParts, Created
  <2>. QED
    BY <2>3, <2>5, <2>6
<1>8. /\ Placed(p, at) /\ FreeFor(p, at, {node})
      /\ nodes' \in Nat /\ nodes <= nodes' /\ node <= nodes'
  BY <1>6, <1>7
<1>9. CallHangs(p, o)
  <2>1. o.phase \in Putting /\ Placed(p, o.at) /\ FreeFor(p, o.at, {o.at.node})
    BY <1>2, <1>3, <1>8 DEF Putting
  <2>. QED
    BY <1>2, <2>1, PuttingHangs
<1>10. Numbered(o, nodes')
  BY <1>2, <1>3, <1>8 DEF Numbered
<1>. QED
  BY <1>1, <1>8, <1>9, <1>10, CallGoesOn

LEMMA TreeMakeDirectory ==
    ASSUME IInv, NEW c \in Clients, TreeInv(c), NEW path, IsSequence(path),
           MakeDirectory(c, path)
    PROVE  TreeInv(c)'
<1>. DEFINE p == PeerOf[c]
            parent == ResolveParent(p, path)
            at == Place(nodes + 1, "directory", parent, Last(path))
            o == [Idle EXCEPT !.phase = "record", !.call = "mkdir", !.path = path, !.at = at]
<1>1. /\ path # <<>> /\ parent # None /\ ResolvePath(p, path) = None /\ nodes + 1 \in NodeIds
      /\ op' = [op EXCEPT ![c] = o] /\ nodes' = nodes + 1
      /\ UNCHANGED <<log, versions, recs, held>>
  BY DEF MakeDirectory, Begin
<1>2. o.phase = "record" /\ o.deleted = FALSE /\ o.then = None /\ o.at = at
  BY DEF Idle
<1>3. /\ at.node = nodes + 1 /\ at.kind = "directory" /\ at.parent = parent
      /\ at.name = Last(path)
  BY PlaceFields
<1>. HIDE DEF o, at
<1>4. TreeParts(p)
  BY DEF TreeInv
<1>5. /\ nodes + 1 \notin Known(p) /\ nodes' \in Nat /\ nodes <= nodes' /\ at.node <= nodes'
  BY <1>1, <1>3, <1>4, FreshIs
<1>6. Stands(p, parent) /\ FreeFor(p, at, {at.node})
  BY <1>1, <1>3, FoundIs DEF FreeFor
<1>7. Placed(p, at)
  BY <1>1, <1>3, <1>4, <1>5, <1>6, LeafHangs DEF Placed
<1>8. CallHangs(p, o) /\ Numbered(o, nodes')
  <2>1. o.phase \in Putting /\ Placed(p, o.at) /\ FreeFor(p, o.at, {o.at.node})
    BY <1>2, <1>6, <1>7 DEF Putting
  <2>. QED
    BY <1>2, <1>5, <2>1, PuttingHangs DEF Numbered
<1>. QED
  BY <1>1, <1>5, <1>8, CallGoesOn

LEMMA TreeRemove ==
    ASSUME IInv, NEW c \in Clients, TreeInv(c), NEW path, IsSequence(path),
           RemovePath(c, path)
    PROVE  TreeInv(c)'
<1>. DEFINE p == PeerOf[c]
            n == ResolvePath(p, path)
            o == [Idle EXCEPT !.call = "remove", !.path = path]
<1>1. /\ n \notin {None, Root} /\ op' = [op EXCEPT ![c] = Removal(p, n, o)]
      /\ UNCHANGED <<log, versions, recs, held, nodes>>
  BY DEF RemovePath, Begin, documents
<1>2. CallShape(o) /\ o.path = path /\ o.then = None
  BY DEF Idle, CallShape
<1>. HIDE DEF o
<1>3. p \in Peers /\ TreeParts(p) /\ Documents
  BY PeerOfClient DEF TreeInv, IInv
<1>4. path # <<>> /\ Is(p, PlaceOf(p, n)) /\ PlaceOf(p, n).node = n
  BY <1>1, <1>3, FoundHangs
<1>5. CallHangs(p, Removal(p, n, o)) /\ Numbered(Removal(p, n, o), nodes)
  BY <1>1, <1>2, <1>4, RemovalHangs
<1>6. nodes' \in Nat /\ nodes <= nodes' /\ nodes' = nodes
  BY <1>1, <1>3 DEF TreeParts, Created
<1>. QED
  BY <1>1, <1>5, <1>6, CallGoesOn

LEMMA TreeRename ==
    ASSUME IInv, NEW c \in Clients, TreeInv(c), NEW from, IsSequence(from),
           NEW to, IsSequence(to), Rename(c, from, to)
    PROVE  TreeInv(c)'
<1>. DEFINE p == PeerOf[c]
            n == ResolvePath(p, from)
            o == [Idle EXCEPT !.phase = "destination", !.call = "rename",
                              !.path = to, !.from = from, !.at = PlaceOf(p, n)]
<1>1. /\ n \notin {None, Root} /\ to # <<>> /\ op' = [op EXCEPT ![c] = o]
      /\ UNCHANGED <<log, versions, recs, held, nodes>>
  BY DEF Rename, Begin, documents
<1>2. /\ o.phase = "destination" /\ o.path = to /\ o.then = None /\ o.deleted = FALSE
      /\ o.at = PlaceOf(p, n)
  BY DEF Idle
<1>. HIDE DEF o
<1>3. p \in Peers /\ TreeParts(p) /\ Documents
  BY PeerOfClient DEF TreeInv, IInv
<1>4. Is(p, PlaceOf(p, n))
  BY <1>1, <1>3, FoundHangs
<1>5. CallHangs(p, o) /\ Numbered(o, nodes)
  BY <1>1, <1>2, <1>4 DEF CallHangs, Puts, Removes, MakesWay, Empties, Renames, Putting, Numbered
<1>6. nodes' \in Nat /\ nodes <= nodes' /\ nodes' = nodes
  BY <1>1, <1>3 DEF TreeParts, Created
<1>. QED
  BY <1>1, <1>5, <1>6, CallGoesOn

LEMMA TreeResolve ==
    ASSUME IInv, NEW c \in Clients, TreeInv(c), NEW path, IsSequence(path),
           ResolveConflict(c, path)
    PROVE  TreeInv(c)'
<1>. DEFINE p == PeerOf[c]
            n == ResolvePath(p, path)
<1>1. PICK v :
        /\ n # None /\ ~IsDirectory(p, n)
        /\ op' = [op EXCEPT ![c] = [Idle EXCEPT !.phase = "heads", !.call = "resolve",
                    !.path = path, !.at = PlaceOf(p, n), !.content = versions[v].content]]
        /\ UNCHANGED <<log, versions, recs, held, nodes>>
  BY DEF ResolveConflict, Begin, documents
<1>. DEFINE o == [Idle EXCEPT !.phase = "heads", !.call = "resolve",
                    !.path = path, !.at = PlaceOf(p, n), !.content = versions[v].content]
<1>2. o.phase = "heads" /\ o.deleted = FALSE /\ o.then = None /\ o.at = PlaceOf(p, n)
  BY DEF Idle
<1>3. op' = [op EXCEPT ![c] = o]
  BY <1>1
<1>. HIDE DEF o
<1>4. p \in Peers /\ TreeParts(p) /\ Documents
  BY PeerOfClient DEF TreeInv, IInv
<1>5. n # Root
  BY <1>1 DEF IsDirectory
<1>6. n \in Live(p) /\ Is(p, PlaceOf(p, n)) /\ PlaceOf(p, n).node = n /\ ~IsDir(p, n)
  BY <1>1, <1>4, <1>5, FoundHangs
<1>7. Placed(p, PlaceOf(p, n)) /\ FreeFor(p, PlaceOf(p, n), {n})
  <2>1. n \in NodeIds /\ Stands(p, PlaceOf(p, n).parent)
    BY <1>6, LiveIsKnown DEF Is
  <2>2. Hangs(p, PlaceOf(p, n))
    BY <1>4, <1>6, <2>1, LeafHangs
  <2>. QED
    BY <1>4, <1>6, <2>1, <2>2 DEF Placed, IsDir, ParentOf, TreeParts, OneName
<1>8. CallHangs(p, o)
  <2>1. o.phase \in Putting /\ Placed(p, o.at) /\ FreeFor(p, o.at, {o.at.node})
    BY <1>2, <1>6, <1>7 DEF Putting
  <2>. QED
    BY <1>2, <2>1, PuttingHangs
<1>9. nodes' \in Nat /\ nodes <= nodes' /\ n <= nodes'
  BY <1>1, <1>4, <1>6, LiveIsKnown DEF TreeParts, Created
<1>10. Numbered(o, nodes')
  BY <1>2, <1>6, <1>9 DEF Numbered
<1>. QED
  BY <1>1, <1>3, <1>8, <1>9, <1>10, CallGoesOn

LEMMA TreeCall == ASSUME IInv, NEW c \in Clients, TreeInv(c), Call(c) PROVE TreeInv(c)'
BY TreeWrite, TreeMakeDirectory, TreeRemove, TreeRename, TreeResolve, SharedFsAssumption DEF Call

-----------------------------------------------------------------------------
(* Steps.                                                                  *)

\* A call that puts a record goes on with the same place.
LEMMA PuttingGoesOn ==
    ASSUME NEW p, NEW o, CallHangs(p, o), o.phase \in Putting \ {"record"},
           NEW n, n.phase \in Putting, n.at = o.at, n.deleted = o.deleted, n.then = o.then
    PROVE  /\ CallHangs(p, n) /\ \A m : Numbered(o, m) => Numbered(n, m)
           /\ n.deleted => n.at.kind # "directory"
<1>1. Puts(p, n) /\ Removes(p, n) /\ MakesWay(p, n)
  BY DEF CallHangs, Puts, Removes, MakesWay, Putting
<1>2. n.deleted => n.at.kind # "directory"
  BY DEF CallHangs, Removes, Putting
<1>3. Empties(p, n) /\ Renames(p, n) /\ \A m : Numbered(o, m) => Numbered(n, m)
  BY <1>2 DEF Empties, Renames, Putting, Numbered
<1>. QED
  BY <1>1, <1>2, <1>3 DEF CallHangs

LEMMA TreeReadHeads ==
    ASSUME IInv, NEW c \in Clients, TreeInv(c), NEW x, ReadHeadsFor(c, x) PROVE TreeInv(c)'
<1>. DEFINE p == PeerOf[c]
<1>1. PICK o : o = op[c]
  OBVIOUS
<1>2. CallShape(o) /\ CallHangs(p, o) /\ Numbered(o, nodes)
  BY <1>1 DEF IInv, Calls, CallOK, TreeInv
<1>3. PICK n : /\ op' = [op EXCEPT ![c] = n]
               /\ n.phase \in {"done", "chunks", "version"}
               /\ n.at = o.at /\ n.deleted = o.deleted /\ n.then = o.then
  <2>. DEFINE m == [o EXCEPT !.content = x]
              s == [m EXCEPT !.phase = "done", !.result = Max(Heads(p, m.at.node))]
              t(parents) == [m EXCEPT !.phase = IF m.call = "write" THEN "chunks" ELSE "version",
                                      !.parents = parents]
  <2>1. /\ s.phase \in {"done", "chunks", "version"}
        /\ s.at = o.at /\ s.deleted = o.deleted /\ s.then = o.then
    BY <1>2 DEF CallShape
  <2>2. ASSUME NEW parents
        PROVE  /\ t(parents).phase \in {"done", "chunks", "version"}
               /\ t(parents).at = o.at /\ t(parents).deleted = o.deleted
               /\ t(parents).then = o.then
    BY <1>2 DEF CallShape
  <2>3. \/ op' = [op EXCEPT ![c] = s]
        \/ \E parents : op' = [op EXCEPT ![c] = t(parents)]
    BY <1>1 DEF ReadHeadsFor, Continue
  <2>. HIDE DEF s, t
  <2>. QED
    BY <2>1, <2>2, <2>3
<1>4. o.phase = "heads" /\ UNCHANGED <<log, versions, recs, held, nodes>>
  BY <1>1, <1>2 DEF ReadHeadsFor, documents, CallShape
<1>5. CallHangs(p, n) /\ Numbered(n, nodes)
  <2>1. CASE n.phase = "done"
    BY <2>1, DoneHangs
  <2>2. CASE n.phase # "done"
    <3>1. n.phase \in Putting /\ o.phase \in Putting \ {"record"}
      BY <1>3, <1>4, <2>2 DEF Putting
    <3>. QED
      BY <1>2, <1>3, <3>1, PuttingGoesOn
  <2>. QED
    BY <2>1, <2>2
<1>6. nodes' \in Nat /\ nodes <= nodes' /\ nodes' = nodes
  BY <1>4 DEF TreeInv, TreeParts, Created
<1>. QED
  BY <1>3, <1>4, <1>5, <1>6, CallGoesOn

LEMMA TreePutChunks ==
    ASSUME IInv, NEW c \in Clients, TreeInv(c), PutChunks(c) PROVE TreeInv(c)'
<1>. DEFINE p == PeerOf[c]
<1>1. PICK o : o = op[c]
  OBVIOUS
<1>2. CallShape(o) /\ CallHangs(p, o) /\ Numbered(o, nodes)
  BY <1>1 DEF IInv, Calls, CallOK, TreeInv
<1>3. PICK n : n = [o EXCEPT !.phase = "version"]
  OBVIOUS
<1>4. /\ op' = [op EXCEPT ![c] = n] /\ o.phase = "chunks"
      /\ UNCHANGED <<log, versions, recs, held, nodes>>
  BY <1>1, <1>3 DEF PutChunks, Continue
<1>5. n.phase = "version" /\ n.at = o.at /\ n.deleted = o.deleted /\ n.then = o.then
  BY <1>2, <1>3 DEF CallShape
<1>6. CallHangs(p, n) /\ Numbered(n, nodes)
  <2>1. n.phase \in Putting /\ o.phase \in Putting \ {"record"}
    BY <1>4, <1>5 DEF Putting
  <2>. QED
    BY <1>2, <1>5, <2>1, PuttingGoesOn
<1>7. nodes' \in Nat /\ nodes <= nodes' /\ nodes' = nodes
  BY <1>4 DEF TreeInv, TreeParts, Created
<1>. QED
  BY <1>4, <1>6, <1>7, CallGoesOn

\* A version of one file shows nothing of another.
LEMMA OtherVersions ==
    ASSUME IsSequence(versions), NEW p, held[p] \subseteq DOMAIN versions,
           NEW x, versions' = Append(versions, x),
           held'[p] = held[p] \cup {Len(versions) + 1},
           NEW n, n # x.node
    PROVE  Visible(p, n)' = Visible(p, n)
<1>1. /\ Len(versions) \in Nat /\ DOMAIN versions = 1..Len(versions)
      /\ \A v \in DOMAIN versions : versions'[v] = versions[v]
      /\ versions'[Len(versions) + 1] = x
  BY DEF IsSequence
<1>2. Len(versions) + 1 \notin DOMAIN versions
  BY <1>1
<1>3. HeadDocuments(p, n)' = HeadDocuments(p, n)
  BY <1>1, <1>2 DEF HeadDocuments
<1>4. HeadDocuments(p, n) \subseteq DOMAIN versions
  BY DEF HeadDocuments
<1>5. Heads(p, n)' = Heads(p, n) /\ Heads(p, n) \subseteq DOMAIN versions
  BY <1>1, <1>3, <1>4 DEF Heads
<1>6. Heads(p, n) # {} => versions'[Max(Heads(p, n))] = versions[Max(Heads(p, n))]
  <2>. SUFFICES ASSUME Heads(p, n) # {} PROVE Max(Heads(p, n)) \in DOMAIN versions
    BY <1>1
  <2>1. Max(Heads(p, n)) \in Heads(p, n)
    BY <1>1, <1>5, MaxIs
  <2>. QED
    BY <1>5, <2>1
<1>. QED
  BY <1>5, <1>6, Zenon DEF Visible

LEMMA TreePutVersion ==
    ASSUME IInv, NEW c \in Clients, TreeInv(c), PutVersion(c) PROVE TreeInv(c)'
<1>. DEFINE p == PeerOf[c]
            v == Len(versions) + 1
<1>1. PICK o : o = op[c]
  OBVIOUS
<1>2. CallShape(o) /\ CallHangs(p, o) /\ Numbered(o, nodes) /\ p \in Peers
  BY <1>1, PeerOfClient DEF IInv, Calls, CallOK, TreeInv
<1>3. PICK n : n = [o EXCEPT !.phase = "record", !.result = v]
  OBVIOUS
<1>4. PICK x : /\ op' = [op EXCEPT ![c] = n] /\ o.phase = "version"
               /\ versions' = Append(versions, x) /\ x.node = o.at.node
               /\ held' = [held EXCEPT ![p] = @ \cup {v}]
               /\ UNCHANGED <<log, recs, nodes>>
  <2>. DEFINE y == [node |-> o.at.node, parents |-> o.parents, content |-> o.content,
                    by |-> p, copied |-> o.call = "resolve"]
  <2>1. y.node = o.at.node
    OBVIOUS
  <2>2. /\ op' = [op EXCEPT ![c] = n] /\ o.phase = "version"
        /\ versions' = Append(versions, y)
        /\ held' = [held EXCEPT ![p] = @ \cup {v}]
        /\ UNCHANGED <<log, recs, nodes>>
    BY <1>1, <1>3 DEF PutVersion, Continue
  <2>. HIDE DEF y
  <2>. QED
    BY <2>1, <2>2
<1>5. n.phase = "record" /\ n.at = o.at /\ n.deleted = o.deleted /\ n.then = o.then
  BY <1>2, <1>3 DEF CallShape
<1>6. /\ CallHangs(p, n) /\ Numbered(n, nodes)
      /\ n.deleted => n.at.kind # "directory"
  <2>1. n.phase \in Putting /\ o.phase \in Putting \ {"record"}
    BY <1>4, <1>5 DEF Putting
  <2>. QED
    BY <1>2, <1>5, <2>1, PuttingGoesOn
<1>7. TreeParts(p) /\ IsSequence(versions)
  BY DEF TreeInv, IInv, Documents
<1>8. op'[c] = n
  BY <1>4, OpOf DEF IInv
<1>9. /\ held' = [q \in Peers |-> held'[q]] /\ held'[p] = held[p] \cup {v}
      /\ held[p] \subseteq DOMAIN versions
  BY <1>2, <1>4, <1>7 DEF TreeParts, Newest
<1>10. /\ held'[p] \subseteq DOMAIN versions' /\ DOMAIN versions' = DOMAIN versions \cup {v}
       /\ \A w \in DOMAIN versions : versions'[w] = versions[w]
  <2>1. versions \in Seq(Range(versions)) /\ Len(versions) \in Nat
    BY <1>7 DEF IsSequence
  <2>2. /\ DOMAIN versions' = 1..(Len(versions) + 1) /\ DOMAIN versions = 1..Len(versions)
        /\ \A w \in DOMAIN versions : versions'[w] = versions[w]
    BY <1>4, <2>1
  <2>. QED
    BY <1>9, <2>1, <2>2
<1>11. LogGrown /\ Documents /\ recs'[p] = recs[p]
  BY <1>4 DEF LogGrown, IInv
<1>12. /\ Live(p)' = Live(p) /\ Known(p)' = Known(p)
       /\ \A m \in Known(p) : PlaceOf(p, m)' = PlaceOf(p, m)
       /\ \A m \in Known(p) : IsDirectory(p, m)' = IsDirectory(p, m)
       /\ Live(p) \subseteq Known(p)
  BY <1>2, <1>11, SameRecords, LiveIsKnown
<1>13. /\ \A d : Stands(p, d)' <=> Stands(p, d)
       /\ \A at : (Placed(p, at)' <=> Placed(p, at)) /\ (Is(p, at)' <=> Is(p, at))
       /\ \A at, S : FreeFor(p, at, S)' <=> FreeFor(p, at, S)
  BY <1>2, <1>11, SamePlaces
<1>14. NoOrphan(p)'
  <2>1. o.at.node \in Live(p) => Stands(p, ParentOf(p, o.at.node))
    <3>1. CASE o.deleted
      BY <1>2, <1>4, <3>1 DEF CallHangs, Removes, Putting, Is, ParentOf
    <3>2. CASE ~o.deleted
      BY <1>2, <1>4, <3>2, LiveIsKnown DEF CallHangs, Puts, Putting, Placed
    <3>. QED
      BY <3>1, <3>2
  <2>2. ASSUME NEW m \in Known(p), m # o.at.node PROVE Shown(p, m)' => Shown(p, m)
    BY <1>4, <1>7, <1>9, <1>12, <2>2, OtherVersions DEF Shown
  <2>3. \A m \in Known(p) : ParentOf(p, m)' = ParentOf(p, m)
    BY <1>12 DEF ParentOf
  <2>4. \A m \in Live(p) : Shown(p, m)' => Stands(p, ParentOf(p, m))
    BY <1>7, <1>12, <2>1, <2>2 DEF TreeParts, NoOrphan
  <2>. QED
    BY <1>12, <1>13, <2>3, <2>4 DEF NoOrphan
<1>15. TreeParts(p)'
  <2>1. Newest(p)'
    BY <1>4, <1>7, <1>9, <1>10 DEF TreeParts, Newest
  <2>2. Created(p)' /\ DirectoriesHold(p)' /\ Acyclic(p)'
    BY <1>4, <1>7, <1>12 DEF TreeParts, Created, DirectoriesHold, Acyclic, ParentOf, IsDir
  <2>3. OneName(p)'
    BY <1>7, <1>12, <1>13 DEF TreeParts, OneName
  <2>. QED
    BY <1>14, <2>1, <2>2, <2>3 DEF TreeParts
<1>16. CallHangs(p, n)'
  <2>1. Puts(p, n)' /\ Removes(p, n)' /\ MakesWay(p, n)'
    BY <1>6, <1>12, <1>13 DEF CallHangs, Puts, Removes, MakesWay
  <2>2. Empties(p, n)' /\ Renames(p, n)'
    BY <1>5, <1>6 DEF Empties, Renames
  <2>. QED
    BY <2>1, <2>2 DEF CallHangs
<1>. QED
  BY <1>4, <1>6, <1>8, <1>15, <1>16 DEF TreeInv

\* What a peer sees after a record was put there.
LEMMA RecordPut ==
    ASSUME Documents, NEW p \in Peers, TreeParts(p), NEW at, at.node \in NodeIds,
           NEW x, x.at = at, log' = Append(log, x),
           recs' = [recs EXCEPT ![p][at.node] = Len(log) + 1],
           UNCHANGED <<versions, held>>
    PROVE  /\ PlaceOf(p, at.node)' = at
           /\ Known(p)' = Known(p) \cup {at.node}
           /\ Live(p)' \subseteq Known(p)' /\ (at.node \in Live(p)' <=> ~x.deleted)
           /\ \A n \in Known(p) \ {at.node} : /\ PlaceOf(p, n)' = PlaceOf(p, n)
                                              /\ n \in Live(p)' <=> n \in Live(p)
                                              /\ Shown(p, n)' <=> Shown(p, n)
           /\ Newest(p)'
<1>. DEFINE k == at.node
<1>1. /\ Len(log) \in Nat /\ DOMAIN log = 1..Len(log) /\ DOMAIN log' = 1..(Len(log) + 1)
      /\ \A i \in DOMAIN log : log'[i] = log[i]
      /\ log'[Len(log) + 1] = x
  BY AppendSequence DEF Documents
<1>3. /\ recs'[p][k] = Len(log) + 1
      /\ \A n \in NodeIds \ {k} : recs'[p][n] = recs[p][n]
      /\ \A n \in NodeIds : recs[p][n] \in Nat
  BY DEF Documents
<1>4. \A n \in Known(p) : recs[p][n] \in DOMAIN log
  BY DEF Documents, Known
<1>5. PlaceOf(p, k)' = at
  BY <1>1, <1>3 DEF PlaceOf
<1>6. Known(p)' = Known(p) \cup {k}
  BY <1>1, <1>3 DEF Known
<1>7. ASSUME NEW n \in Known(p) \ {k}
      PROVE  /\ PlaceOf(p, n)' = PlaceOf(p, n)
             /\ n \in Live(p)' <=> n \in Live(p)
             /\ Shown(p, n)' <=> Shown(p, n)
  <2>1. n \in NodeIds /\ recs'[p][n] = recs[p][n] /\ log'[recs[p][n]] = log[recs[p][n]]
    BY <1>1, <1>3, <1>4 DEF Known
  <2>2. PlaceOf(p, n)' = PlaceOf(p, n)
    BY <2>1 DEF PlaceOf
  <2>3. n \in Live(p)' <=> n \in Live(p)
    BY <2>1 DEF Live
  <2>4. Visible(p, n)' = Visible(p, n)
    <3>1. IsSequence(versions) /\ held[p] \subseteq DOMAIN versions /\ Grown
      BY DEF Documents, TreeParts, Newest, Grown
    <3>. QED
      BY <3>1, SameVersions
  <2>5. Shown(p, n)' <=> Shown(p, n)
    BY <2>2, <2>4 DEF Shown, IsDirectory
  <2>. QED
    BY <2>2, <2>3, <2>5
<1>8. k \in Live(p)' <=> ~x.deleted
  BY <1>1, <1>3 DEF Live
<1>9. Live(p)' \subseteq Known(p)'
  BY DEF Live, Known
<1>10. Newest(p)'
  <2>1. ASSUME NEW i \in DOMAIN log'
        PROVE  /\ log'[i].at.node \in NodeIds
               /\ log'[i].by \in {None, p} => i <= recs'[p][log'[i].at.node]
    <3>1. CASE i = Len(log) + 1
      BY <1>1, <1>3, <3>1
    <3>2. CASE i # Len(log) + 1
      <4>1. i \in DOMAIN log /\ log'[i] = log[i] /\ i <= Len(log) + 1
        BY <1>1, <3>2
      <4>2. /\ log[i].at.node \in NodeIds
            /\ log[i].by \in {None, p} => i <= recs[p][log[i].at.node]
        BY <4>1 DEF TreeParts, Newest
      <4>. QED
        BY <1>3, <4>1, <4>2
    <3>. QED
      BY <3>1, <3>2
  <2>. QED
    BY <2>1 DEF TreeParts, Newest
<1>. QED
  BY <1>5, <1>6, <1>7, <1>8, <1>9, <1>10

\* A record that is put where there is a place for it keeps the tree.
LEMMA PlacedKeepsTree ==
    ASSUME Documents, NEW p \in Peers, TreeParts(p), NEW at,
           Placed(p, at), FreeFor(p, at, {at.node}), at.node <= nodes, NEW x, x.at = at, ~x.deleted,
           log' = Append(log, x),
           recs' = [recs EXCEPT ![p][at.node] = Len(log) + 1],
           UNCHANGED <<versions, held, nodes>>
    PROVE  TreeParts(p)'
<1>. DEFINE k == at.node
<1>1. k \in NodeIds /\ Stands(p, at.parent)
  BY DEF Placed
<1>2. /\ PlaceOf(p, k)' = at /\ Known(p)' = Known(p) \cup {k}
      /\ Live(p)' \subseteq Known(p)' /\ (k \in Live(p)' <=> ~x.deleted)
      /\ \A n \in Known(p) \ {k} : /\ PlaceOf(p, n)' = PlaceOf(p, n)
                                   /\ n \in Live(p)' <=> n \in Live(p)
                                   /\ Shown(p, n)' <=> Shown(p, n)
      /\ Newest(p)'
  BY <1>1, RecordPut
<1>3. Live(p)' = Live(p) \cup {k}
  BY <1>2, LiveIsKnown
<1>4. /\ ParentOf(p, k)' = at.parent
      /\ \A n \in Known(p) \ {k} : /\ ParentOf(p, n)' = ParentOf(p, n)
                                   /\ IsDir(p, n)' <=> IsDir(p, n)
      /\ IsDir(p, k)' <=> at.kind = "directory"
  BY <1>2 DEF ParentOf, IsDir
<1>5. \A d \in Known(p) : IsDir(p, d) => IsDir(p, d)'
  BY <1>4 DEF Placed
<1>6. \A d : Stands(p, d) => Stands(p, d)'
  BY <1>3, <1>5, LiveIsKnown DEF Stands
<1>7. at.parent = Root \/ (at.parent \in Known(p) /\ IsDir(p, at.parent))
  BY <1>1, LiveIsKnown, NodesAre DEF Stands
<1>8. Created(p)'
  BY <1>2 DEF TreeParts, Created
<1>9. DirectoriesHold(p)'
  BY <1>2, <1>4, <1>5, <1>7 DEF TreeParts, DirectoriesHold
<1>10. Acyclic(p)'
  <2>. SUFFICES ASSUME NEW C \in SUBSET (Known(p)'), C # {},
                       \A n \in C : ParentOf(p, n)' \in C
                PROVE  FALSE
    BY DEF Acyclic
  <2>1. CASE k \notin C
    <3>1. C \in (SUBSET Known(p)) \ {{}} /\ \A n \in C : ParentOf(p, n) \in C
      BY <1>2, <1>4, <2>1
    <3>. QED
      BY <3>1 DEF TreeParts, Acyclic
  <2>2. CASE k \in C
    <3>. DEFINE cycle == C \cap Known(p)
    <3>1. at.parent \in cycle
      <4>1. C \subseteq Known(p) \cup {k} /\ ParentOf(p, k)' \in C
        BY <1>2, <2>2
      <4>2. C \subseteq NodeIds /\ at.parent \in C
        BY <1>1, <1>4, <4>1, LiveIsKnown
      <4>. QED
        BY <1>7, <4>2, NodesAre
    <3>2. \A n \in cycle \ {k} : ParentOf(p, n) \in cycle \cup {k}
      BY <1>2, <1>4
    <3>. QED
      BY <3>1, <3>2 DEF Placed, Hangs
  <2>. QED
    BY <2>1, <2>2
<1>11. OneName(p)'
  <2>1. \A n \in Live(p) : n # k => /\ n \in Known(p)
                                    /\ ~(ParentOf(p, n) = at.parent /\ PlaceOf(p, n).name = at.name)
    BY LiveIsKnown DEF FreeFor
  <2>2. ASSUME NEW n \in Live(p)', NEW m \in Live(p)',
               ParentOf(p, m)' = PlaceOf(p, n)'.parent, PlaceOf(p, m)'.name = PlaceOf(p, n)'.name
        PROVE  m = n
    <3>1. CASE m # k /\ n # k
      <4>1. m \in Live(p) /\ n \in Live(p) /\ m \in Known(p) /\ n \in Known(p)
        BY <1>3, <3>1, LiveIsKnown
      <4>2. ParentOf(p, m) = PlaceOf(p, n).parent /\ PlaceOf(p, m).name = PlaceOf(p, n).name
        BY <1>2, <1>4, <2>2, <3>1, <4>1
      <4>. QED
        BY <4>1, <4>2 DEF TreeParts, OneName, FreeFor
    <3>2. CASE m = k /\ n # k
      BY <1>2, <1>3, <1>4, <2>1, <2>2, <3>2, LiveIsKnown DEF ParentOf
    <3>3. CASE m # k /\ n = k
      BY <1>2, <1>3, <1>4, <2>1, <2>2, <3>3, LiveIsKnown DEF ParentOf
    <3>. QED
      BY <3>1, <3>2, <3>3
  <2>. QED
    BY <2>2 DEF OneName, FreeFor
<1>12. NoOrphan(p)'
  <2>. SUFFICES ASSUME NEW n \in Live(p)', Shown(p, n)' PROVE Stands(p, ParentOf(p, n))'
    BY DEF NoOrphan
  <2>1. PICK d : d = ParentOf(p, n)' /\ Stands(p, d)
    <3>1. CASE n = k
      BY <1>1, <1>4, <3>1
    <3>2. CASE n # k
      <4>1. n \in Live(p) /\ n \in Known(p)
        BY <1>3, <3>2, LiveIsKnown
      <4>2. Shown(p, n) /\ ParentOf(p, n)' = ParentOf(p, n)
        BY <1>2, <1>4, <3>2, <4>1
      <4>. QED
        BY <4>1, <4>2 DEF TreeParts, NoOrphan
    <3>. QED
      BY <3>1, <3>2
  <2>2. Stands(p, d)'
    BY <1>6, <2>1
  <2>. QED
    BY <2>1, <2>2 DEF Stands, IsDir, PlaceOf
<1>. QED
  BY <1>2, <1>8, <1>9, <1>10, <1>11, <1>12 DEF TreeParts

\* A record that removes a file, or a directory in which nothing shows, keeps the tree,
\* and a place that there is beside it.
LEMMA RemovalKeepsTree ==
    ASSUME Documents, NEW p \in Peers, TreeParts(p), NEW at, Is(p, at), NEW x, x.at = at, x.deleted,
           at.kind = "directory" => \A n \in Live(p) : ParentOf(p, n) = at.node => ~Shown(p, n),
           log' = Append(log, x),
           recs' = [recs EXCEPT ![p][at.node] = Len(log) + 1],
           UNCHANGED <<versions, held, nodes>>
    PROVE  /\ TreeParts(p)'
           /\ at.kind # "directory" =>
                 \A a : /\ a.node # at.node /\ Placed(p, a) => Placed(p, a)'
                        /\ FreeFor(p, a, {a.node, at.node}) => FreeFor(p, a, {a.node})'
<1>. DEFINE k == at.node
<1>1. k \in Live(p) /\ k \in Known(p) /\ k \in NodeIds /\ at = PlaceOf(p, k)
  BY LiveIsKnown DEF Is
<1>2. /\ PlaceOf(p, k)' = at /\ Known(p)' = Known(p) \cup {k}
      /\ Live(p)' \subseteq Known(p)' /\ (k \in Live(p)' <=> ~x.deleted)
      /\ \A n \in Known(p) \ {k} : /\ PlaceOf(p, n)' = PlaceOf(p, n)
                                   /\ n \in Live(p)' <=> n \in Live(p)
                                   /\ Shown(p, n)' <=> Shown(p, n)
      /\ Newest(p)'
  BY <1>1, RecordPut
<1>3. Known(p)' = Known(p) /\ Live(p)' = Live(p) \ {k}
  BY <1>1, <1>2, LiveIsKnown
<1>4. \A n \in Known(p) : /\ PlaceOf(p, n)' = PlaceOf(p, n)
                          /\ ParentOf(p, n)' = ParentOf(p, n)
                          /\ IsDir(p, n)' <=> IsDir(p, n)
  BY <1>1, <1>2 DEF ParentOf, IsDir
<1>5. \A d : d # k => (Stands(p, d)' <=> Stands(p, d))
  BY <1>3, <1>4, LiveIsKnown DEF Stands
<1>6. Created(p)' /\ DirectoriesHold(p)' /\ Acyclic(p)'
  <2>1. Created(p)'
    BY <1>3 DEF TreeParts, Created
  <2>2. DirectoriesHold(p)'
    BY <1>3, <1>4 DEF TreeParts, DirectoriesHold
  <2>3. Acyclic(p)'
    BY <1>3, <1>4 DEF TreeParts, Acyclic
  <2>. QED
    BY <2>1, <2>2, <2>3
<1>7. OneName(p)'
  BY <1>3, <1>4, LiveIsKnown DEF TreeParts, OneName, FreeFor
<1>8. NoOrphan(p)'
  <2>. SUFFICES ASSUME NEW n \in Live(p)', Shown(p, n)' PROVE Stands(p, ParentOf(p, n))'
    BY DEF NoOrphan
  <2>1. n \in Live(p) /\ n \in Known(p) /\ n # k
    BY <1>3, LiveIsKnown
  <2>2. Shown(p, n) /\ ParentOf(p, n)' = ParentOf(p, n)
    BY <1>2, <1>4, <2>1
  <2>3. Stands(p, ParentOf(p, n))
    BY <2>1, <2>2 DEF TreeParts, NoOrphan
  <2>4. ParentOf(p, n) # k
    BY <1>1, <2>1, <2>2, <2>3, NodesAre DEF Stands, IsDir
  <2>5. PICK d : d = ParentOf(p, n)' /\ Stands(p, d)'
    BY <1>5, <2>2, <2>3, <2>4
  <2>. QED
    BY <2>5 DEF Stands, IsDir, PlaceOf
<1>9. TreeParts(p)'
  BY <1>2, <1>6, <1>7, <1>8 DEF TreeParts
<1>10. ASSUME at.kind # "directory", NEW a
       PROVE  /\ a.node # k /\ Placed(p, a) => Placed(p, a)'
              /\ FreeFor(p, a, {a.node, k}) => FreeFor(p, a, {a.node})'
  <2>1. \A d : Stands(p, d) => Stands(p, d)'
    BY <1>1, <1>5, <1>10, NodesAre DEF Stands, IsDir
  <2>2. Hangs(p, a) => Hangs(p, a)'
    BY <1>3, <1>4 DEF Hangs
  <2>3. a.node # k /\ Placed(p, a) => Placed(p, a)'
    BY <1>3, <1>4, <2>1, <2>2 DEF Placed
  <2>4. FreeFor(p, a, {a.node, k}) => FreeFor(p, a, {a.node})'
    BY <1>3, <1>4, LiveIsKnown DEF FreeFor
  <2>. QED
    BY <2>3, <2>4
<1>. QED
  BY <1>9, <1>10

LEMMA TreePutRecord ==
    ASSUME IInv, NEW c \in Clients, TreeInv(c), PutRecord(c) PROVE TreeInv(c)'
<1>. DEFINE p == PeerOf[c]
<1>1. PICK o : o = op[c]
  OBVIOUS
<1>2. CallShape(o) /\ CallHangs(p, o) /\ Numbered(o, nodes) /\ p \in Peers
  BY <1>1, PeerOfClient DEF IInv, Calls, CallOK, TreeInv
<1>3. PICK n : n = IF o.then = None
                   THEN [o EXCEPT !.phase = "done"]
                   ELSE [o EXCEPT !.at = o.then, !.then = None, !.deleted = FALSE]
  OBVIOUS
<1>4. PICK x :
      /\ op' = [op EXCEPT ![c] = n] /\ o.phase = "record"
      /\ log' = Append(log, x) /\ x.at = o.at /\ (x.deleted <=> o.deleted)
      /\ recs' = [recs EXCEPT ![p][o.at.node] = Len(log) + 1]
      /\ UNCHANGED <<versions, nodes, held>>
  <2>. DEFINE y == [at |-> o.at, deleted |-> o.deleted, by |-> p]
  <2>1. y.at = o.at /\ (y.deleted <=> o.deleted)
    OBVIOUS
  <2>2. /\ op' = [op EXCEPT ![c] = n] /\ o.phase = "record" /\ log' = Append(log, y)
        /\ recs' = [recs EXCEPT ![p][o.at.node] = Len(log) + 1]
        /\ UNCHANGED <<versions, nodes, held>>
    BY <1>1, <1>3 DEF PutRecord, Continue
  <2>. HIDE DEF y
  <2>. QED
    BY <2>1, <2>2
<1>5. op'[c] = n /\ Documents /\ TreeParts(p)
  BY <1>4, OpOf DEF IInv, TreeInv
<1>6. CASE o.deleted
  <2>1. /\ Is(p, o.at)
        /\ o.at.kind = "directory" => \A m \in Live(p) : ParentOf(p, m) = o.at.node => ~Shown(p, m)
    BY <1>2, <1>4, <1>6 DEF CallHangs, Removes, Empties, Putting
  <2>2. /\ TreeParts(p)'
        /\ o.at.kind # "directory" =>
             \A a : /\ a.node # o.at.node /\ Placed(p, a) => Placed(p, a)'
                    /\ FreeFor(p, a, {a.node, o.at.node}) => FreeFor(p, a, {a.node})'
    BY <1>2, <1>4, <1>5, <1>6, <2>1, RemovalKeepsTree
  <2>3. CASE o.then = None
    <3>1. n.phase = "done"
      BY <1>2, <1>3, <2>3 DEF CallShape
    <3>2. CallHangs(p, n)' /\ Numbered(n, nodes)'
      BY <3>1 DEF CallHangs, Puts, Removes, MakesWay, Empties, Renames, Putting, Numbered
    <3>. QED
      BY <1>5, <2>2, <3>2 DEF TreeInv
  <2>4. CASE o.then # None
    <3>1. n.phase = "record" /\ n.deleted = FALSE /\ n.then = None /\ n.at = o.then
      BY <1>2, <1>3, <1>4, <2>4 DEF CallShape
    <3>2. /\ o.at.kind # "directory" /\ o.then.node # o.at.node /\ o.then.node \in Live(p)
          /\ Placed(p, o.then) /\ FreeFor(p, o.then, {o.then.node, o.at.node})
      BY <1>2, <1>4, <1>6, <2>4 DEF CallHangs, MakesWay, Putting
    <3>3. Placed(p, n.at)' /\ FreeFor(p, n.at, {n.at.node})'
      BY <2>2, <3>1, <3>2
    <3>4. CallHangs(p, n)'
      BY <3>1, <3>3 DEF CallHangs, Puts, Removes, MakesWay, Empties, Renames, Putting
    <3>5. Numbered(n, nodes)'
      BY <1>4, <1>5, <3>1, <3>2, LiveIsKnown DEF Numbered, TreeParts, Created
    <3>. QED
      BY <1>5, <2>2, <3>4, <3>5 DEF TreeInv
  <2>. QED
    BY <2>3, <2>4
<1>7. CASE ~o.deleted
  <2>1. Placed(p, o.at) /\ FreeFor(p, o.at, {o.at.node}) /\ o.then = None /\ o.at.node <= nodes
    BY <1>2, <1>4, <1>7 DEF CallHangs, Puts, Putting, Numbered
  <2>2. TreeParts(p)'
    BY <1>2, <1>4, <1>5, <1>7, <2>1, PlacedKeepsTree
  <2>3. n.phase = "done"
    BY <1>2, <1>3, <2>1 DEF CallShape
  <2>4. CallHangs(p, n)' /\ Numbered(n, nodes)'
    BY <2>3 DEF CallHangs, Puts, Removes, MakesWay, Empties, Renames, Putting, Numbered
  <2>. QED
    BY <1>5, <2>2, <2>4 DEF TreeInv
<1>. QED
  BY <1>6, <1>7

\* rm of a directory goes on when none of its children shows.
LEMMA TreeListChildren ==
    ASSUME IInv, NEW c \in Clients, TreeInv(c), ListChildren(c) PROVE TreeInv(c)'
<1>. DEFINE p == PeerOf[c]
<1>1. PICK o : o = op[c]
  OBVIOUS
<1>2. CallShape(o) /\ CallHangs(p, o) /\ p \in Peers
  BY <1>1, PeerOfClient DEF IInv, Calls, CallOK, TreeInv
<1>3. PICK d : d = ResolvePath(p, o.path)
  OBVIOUS
<1>4. PICK m : m = [o EXCEPT !.phase = "record"]
  OBVIOUS
<1>5. /\ o.phase = "children"
      /\ \/ List(p, d) = {} /\ op' = [op EXCEPT ![c] = m]
         \/ op' = [op EXCEPT ![c] = Idle]
      /\ UNCHANGED <<log, versions, recs, held, nodes>>
  BY <1>1, <1>3, <1>4 DEF ListChildren, Continue, Fail, documents
<1>6. nodes' \in Nat /\ nodes <= nodes' /\ nodes' = nodes
  BY <1>5 DEF TreeInv, TreeParts, Created
<1>7. CASE op' = [op EXCEPT ![c] = Idle]
  <2>1. Idle.phase = "idle"
    BY IdleOK
  <2>2. CallHangs(p, Idle) /\ Numbered(Idle, nodes')
    BY <2>1, DoneHangs
  <2>. QED
    BY <1>5, <1>6, <1>7, <2>2, CallGoesOn
<1>8. CASE List(p, d) = {} /\ op' = [op EXCEPT ![c] = m]
  <2>1. /\ m.phase = "record" /\ m.at = o.at /\ m.deleted = o.deleted /\ m.then = o.then
    BY <1>2, <1>4 DEF CallShape
  <2>2. /\ d = o.at.node /\ o.then = None /\ o.deleted
    BY <1>2, <1>3, <1>5 DEF CallHangs, Empties
  <2>3. Is(p, o.at)
    BY <1>2, <1>5, <2>2 DEF CallHangs, Removes
  <2>4. ASSUME NEW x \in Live(p), ParentOf(p, x) = d PROVE ~Shown(p, x)
    <3>1. PICK y : y = ChildByName(p, d, PlaceOf(p, x).name)
      OBVIOUS
    <3>2. /\ ChildByName(p, d, PlaceOf(p, x).name) = ChildIn(recs[p], log, d, PlaceOf(p, x).name)
          /\ Live(p) = LiveIn(recs[p], log)
          /\ \A z : PlaceOf(p, z) = PlaceIn(recs[p], log, z)
      BY SeesIn
    <3>3. /\ y # None /\ y \in Live(p)
          /\ PlaceOf(p, y).parent = d /\ PlaceOf(p, y).name = PlaceOf(p, x).name
      BY <2>4, <3>1, <3>2, ChildIs DEF ParentOf
    <3>4. y = x
      BY <2>4, <3>3 DEF TreeInv, TreeParts, OneName, FreeFor, ParentOf
    <3>5. PlaceOf(p, x).name \in
            {PlaceOf(p, n).name : n \in {z \in Live(p) : PlaceOf(p, z).parent = d}}
      BY <2>4 DEF ParentOf
    <3>. QED
      BY <1>8, <3>1, <3>4, <3>5, Zenon DEF List
  <2>5. CallHangs(p, m)
    <3>1. Puts(p, m) /\ Renames(p, m) /\ MakesWay(p, m)
      BY <2>1, <2>2 DEF Puts, Renames, MakesWay
    <3>2. Removes(p, m)
      BY <2>1, <2>3 DEF Removes
    <3>3. Empties(p, m)
      BY <2>1, <2>2, <2>4 DEF Empties
    <3>. QED
      BY <3>1, <3>2, <3>3 DEF CallHangs
  <2>6. Numbered(m, nodes')
    BY <2>1, <2>2 DEF Numbered
  <2>. QED
    BY <1>5, <1>6, <1>8, <2>5, <2>6, CallGoesOn
<1>. QED
  BY <1>5, <1>7, <1>8

\* A rename that passes its checks has a place for what it moves, or knows the file
\* that is in its way.
LEMMA TreeCheckDestination ==
    ASSUME IInv, NEW c \in Clients, TreeInv(c), CheckDestination(c) PROVE TreeInv(c)'
<1>. DEFINE p == PeerOf[c]
<1>1. PICK o : o = op[c]
  OBVIOUS
<1>2. CallShape(o) /\ CallHangs(p, o) /\ p \in Peers /\ TreeParts(p) /\ Documents
  BY <1>1, PeerOfClient DEF IInv, Calls, CallOK, TreeInv
<1>3. PICK d, parent : d = ResolvePath(p, o.path) /\ parent = ResolveParent(p, o.path)
  OBVIOUS
<1>4. PICK target : target = Place(o.at.node, o.at.kind, parent, Last(o.path))
  OBVIOUS
<1>5. PICK done, moved :
        /\ done = [o EXCEPT !.phase = "done"]
        /\ moved = [o EXCEPT !.phase = IF d = None THEN "record" ELSE "remove", !.at = target]
  OBVIOUS
<1>6. /\ o.phase = "destination"
      /\ UNCHANGED <<log, versions, recs, held, nodes>>
      /\ \/ op' = [op EXCEPT ![c] = done]
         \/ op' = [op EXCEPT ![c] = Idle]
         \/ /\ op' = [op EXCEPT ![c] = moved]
            /\ d # o.at.node /\ parent # None
            /\ d # None => o.at.kind # "directory" /\ PlaceOf(p, d).kind # "directory"
            /\ o.at.kind = "directory" => ~WithinSubtree(p, parent, o.at.node)
  BY <1>1, <1>3, <1>4, <1>5 DEF CheckDestination, Continue, Fail, documents
<1>7. nodes' \in Nat /\ nodes <= nodes' /\ nodes' = nodes
  BY <1>2, <1>6 DEF TreeParts, Created
<1>8. CASE op' = [op EXCEPT ![c] = done]
  <2>1. done.phase = "done"
    BY <1>2, <1>5 DEF CallShape
  <2>2. CallHangs(p, done) /\ Numbered(done, nodes')
    BY <2>1, DoneHangs
  <2>. QED
    BY <1>6, <1>7, <1>8, <2>2, CallGoesOn
<1>9. CASE op' = [op EXCEPT ![c] = Idle]
  <2>1. CallHangs(p, Idle) /\ Numbered(Idle, nodes')
    BY IdleOK, DoneHangs
  <2>. QED
    BY <1>6, <1>7, <1>9, <2>1, CallGoesOn
<1>10. CASE /\ op' = [op EXCEPT ![c] = moved]
            /\ d # o.at.node /\ parent # None
            /\ d # None => o.at.kind # "directory" /\ PlaceOf(p, d).kind # "directory"
            /\ o.at.kind = "directory" => ~WithinSubtree(p, parent, o.at.node)
  <2>1. /\ moved.phase = IF d = None THEN "record" ELSE "remove"
        /\ moved.at = target /\ moved.deleted = o.deleted /\ moved.then = o.then
        /\ moved.path = o.path
    BY <1>2, <1>5 DEF CallShape
  <2>2. /\ target.node = o.at.node /\ target.kind = o.at.kind /\ target.parent = parent
        /\ target.name = Last(o.path)
    BY <1>4, PlaceFields
  <2>3. /\ Is(p, o.at) /\ o.then = None /\ ~o.deleted
        /\ IsSequence(o.path) /\ o.path # <<>>
    BY <1>2, <1>6 DEF CallHangs, Renames
  <2>4. /\ o.at.node \in Live(p) /\ o.at.node \in Known(p) /\ o.at.node \in NodeIds
        /\ o.at.kind = "directory" <=> IsDir(p, o.at.node)
        /\ Stands(p, ParentOf(p, o.at.node))
    BY <2>3, LiveIsKnown DEF Is, IsDir, ParentOf
  <2>5. Stands(p, parent) /\ d \in Live(p) \cup {None}
    BY <1>3, <1>10, <2>3, FoundIs
  <2>6. Hangs(p, target)
    <3>1. CASE o.at.kind = "directory"
      BY <1>2, <1>10, <2>2, <2>5, <3>1, BranchHangs
    <3>2. CASE o.at.kind # "directory"
      BY <1>2, <2>2, <2>4, <2>5, <3>2, LeafHangs
    <3>. QED
      BY <3>1, <3>2
  <2>7. Placed(p, target)
    BY <2>2, <2>4, <2>5, <2>6 DEF Placed
  <2>8. Numbered(moved, nodes')
    BY <1>2, <1>7, <2>1, <2>2, <2>4 DEF Numbered, TreeParts, Created
  <2>9. CASE d = None
    <3>1. FreeFor(p, target, {target.node})
      <4>1. \A m \in Live(p) : ~(ParentOf(p, m) = parent /\ PlaceOf(p, m).name = Last(o.path))
        BY <1>3, <1>10, <2>3, <2>9, FoundIs
      <4>. QED
        BY <2>2, <4>1 DEF FreeFor
    <3>2. /\ moved.phase \in Putting /\ moved.deleted = o.deleted /\ moved.then = None
          /\ Placed(p, moved.at) /\ FreeFor(p, moved.at, {moved.at.node})
          /\ moved.phase = "record" /\ ~moved.deleted
      BY <2>1, <2>3, <2>7, <2>9, <3>1 DEF Putting
    <3>3. CallHangs(p, moved)
      BY <3>2 DEF CallHangs, Puts, Removes, MakesWay, Empties, Renames, Putting
    <3>. QED
      BY <1>6, <1>7, <1>10, <2>8, <3>3, CallGoesOn
  <2>10. CASE d # None
    <3>1. d \in Live(p) /\ d # Root
      BY <2>5, <2>10, LiveIsKnown, NodesAre
    <3>2. \A m \in Live(p) : ParentOf(p, m) = parent /\ PlaceOf(p, m).name = Last(o.path) => m = d
      BY <1>2, <1>3, <2>3, <2>10, <3>1, FoundHangs
    <3>3. FreeFor(p, target, {target.node, d})
      BY <2>2, <3>2 DEF FreeFor
    <3>4. /\ moved.phase = "remove" /\ ~moved.deleted /\ moved.then = None
          /\ moved.at.kind # "directory" /\ moved.at.node \in Live(p) /\ Placed(p, moved.at)
          /\ d = ResolvePath(p, moved.path)
          /\ d \in Live(p) \ {moved.at.node} /\ ~IsDir(p, d)
          /\ FreeFor(p, moved.at, {moved.at.node, d})
          /\ IsSequence(moved.path) /\ moved.path # <<>>
      BY <1>3, <1>10, <2>1, <2>2, <2>3, <2>4, <2>7, <2>10, <3>1, <3>3 DEF IsDir
    <3>5. CallHangs(p, moved)
      BY <3>4 DEF CallHangs, Puts, Removes, MakesWay, Empties, Renames, Putting
    <3>. QED
      BY <1>6, <1>7, <1>10, <2>8, <3>5, CallGoesOn
  <2>. QED
    BY <2>9, <2>10
<1>. QED
  BY <1>6, <1>8, <1>9, <1>10

\* What a rename removes is the file that its checks found.
LEMMA TreeRemoveDestination ==
    ASSUME IInv, NEW c \in Clients, TreeInv(c), RemoveDestination(c) PROVE TreeInv(c)'
<1>. DEFINE p == PeerOf[c]
<1>1. PICK o : o = op[c]
  OBVIOUS
<1>2. CallShape(o) /\ CallHangs(p, o) /\ p \in Peers /\ TreeParts(p) /\ Documents
  BY <1>1, PeerOfClient DEF IInv, Calls, CallOK, TreeInv
<1>3. PICK d : d = ResolvePath(p, o.path)
  OBVIOUS
<1>4. o.phase = "remove"
  BY <1>1 DEF RemoveDestination
<1>5. /\ o.at.kind # "directory" /\ o.at.node \in Live(p) /\ Placed(p, o.at)
      /\ d \in Live(p) \ {o.at.node} /\ ~IsDir(p, d)
      /\ FreeFor(p, o.at, {o.at.node, d})
      /\ IsSequence(o.path) /\ o.path # <<>>
  BY <1>2, <1>3, <1>4 DEF CallHangs, Renames
<1>6. d # None /\ d # Root
  BY <1>5, LiveIsKnown, NodesAre
<1>7. PICK m : m = [o EXCEPT !.then = o.at]
  OBVIOUS
<1>8. /\ op' = [op EXCEPT ![c] = Removal(p, d, m)]
      /\ UNCHANGED <<log, versions, recs, held, nodes>>
  BY <1>1, <1>3, <1>6, <1>7 DEF RemoveDestination, Continue, documents
<1>9. CallShape(m) /\ m.then = o.at
  BY <1>2, <1>7 DEF CallShape
<1>10. /\ Is(p, PlaceOf(p, d)) /\ PlaceOf(p, d).node = d /\ ~IsDirectory(p, d)
  BY <1>2, <1>3, <1>5, <1>6, FoundHangs
<1>11. CallHangs(p, Removal(p, d, m)) /\ Numbered(Removal(p, d, m), nodes')
  BY <1>5, <1>6, <1>9, <1>10, RemovalHangs
<1>12. nodes' \in Nat /\ nodes <= nodes'
  BY <1>2, <1>8 DEF TreeParts, Created
<1>. QED
  BY <1>8, <1>11, <1>12, CallGoesOn

\* A step that changes nothing that the peer has, and at most ends its client's call.
LEMMA TreeAside ==
    ASSUME IInv, NEW c \in Clients, TreeInv(c), LogGrown, Grown,
           recs'[PeerOf[c]] = recs[PeerOf[c]], held'[PeerOf[c]] = held[PeerOf[c]],
           Newest(PeerOf[c])', nodes' \in Nat, nodes <= nodes', op'[c] \in {op[c], Idle}
    PROVE  TreeInv(c)'
<1>. DEFINE p == PeerOf[c]
<1>1. PICK o : o = op'[c]
  OBVIOUS
<1>2. CallHangs(p, o) /\ Numbered(o, nodes)
  BY <1>1, IdleOK, DoneHangs DEF TreeInv
<1>3. nodes \in Nat /\ p \in Peers /\ Documents
  BY PeerOfClient DEF TreeInv, TreeParts, Created, IInv
<1>4. TreeParts(p)' /\ CallHangs(p, o)'
  BY <1>2, <1>3, SameTree DEF TreeInv
<1>5. Numbered(o, nodes)'
  <2>1. o.phase \in Putting /\ ~o.deleted => o.at.node \in NodeIds
    BY <1>2 DEF CallHangs, Puts, Placed
  <2>. QED
    BY <1>2, <1>3, <2>1, NodesAre DEF Numbered
<1>. QED
  BY <1>1, <1>4, <1>5 DEF TreeInv

\* Nothing is put.
LEMMA TreeBeside ==
    ASSUME IInv, NEW c \in Clients, TreeInv(c), UNCHANGED <<log, versions, nodes>>,
           recs'[PeerOf[c]] = recs[PeerOf[c]], held'[PeerOf[c]] = held[PeerOf[c]],
           held' = [q \in Peers |-> held'[q]], op'[c] \in {op[c], Idle}
    PROVE  TreeInv(c)'
<1>1. nodes \in Nat /\ nodes' = nodes /\ nodes <= nodes' /\ LogGrown /\ Grown
  BY DEF TreeInv, TreeParts, Created, LogGrown, Grown
<1>2. Newest(PeerOf[c])'
  BY DEF TreeInv, TreeParts, Newest
<1>. QED
  BY <1>1, <1>2, TreeAside

\* The peer has received what it has put, so that only documents of others can arrive.
LEMMA TreeDeliver ==
    ASSUME IInv, NEW c \in Clients, TreeInv(c), NEW q \in Peers, Deliver(q), Alone(PeerOf[c])'
    PROVE  TreeInv(c)'
<1>. DEFINE p == PeerOf[c]
<1>1. /\ p \in Peers /\ Documents
      /\ \A i \in DOMAIN log : /\ log[i].at.node \in NodeIds
                               /\ log[i].by \in {None, p} => i <= recs[p][log[i].at.node]
      /\ held = [r \in Peers |-> held[r]]
      /\ \A v \in DOMAIN versions : versions[v].by \in {None, p} => v \in held[p]
  BY PeerOfClient DEF IInv, TreeInv, TreeParts, Newest
<1>2. CASE DeliverRecord(q)
  <2>1. PICK i \in DOMAIN log :
          /\ recs[q][log[i].at.node] < i
          /\ recs' = [recs EXCEPT ![q][log[i].at.node] = i]
          /\ UNCHANGED <<log, versions, nodes, held, op>>
    BY <1>2 DEF DeliverRecord
  <2>2. q # p
    <3>1. recs[p][log[i].at.node] \in Nat /\ i \in Nat
      BY <1>1 DEF Documents, IsSequence
    <3>2. q = p => log[i].by \notin {None, p}
      BY <1>1, <2>1, <3>1
    <3>3. q = p => recs'[p][log'[i].at.node] = i
      BY <1>1, <2>1 DEF Documents
    <3>. QED
      BY <2>1, <3>1, <3>2, <3>3 DEF Alone
  <2>3. recs'[p] = recs[p]
    BY <1>1, <2>1, <2>2 DEF Documents
  <2>. QED
    BY <1>1, <2>1, <2>3, TreeBeside
<1>3. CASE DeliverVersion(q)
  <2>1. PICK v \in DOMAIN versions \ held[q] :
          /\ held' = [held EXCEPT ![q] = @ \cup {v}]
          /\ UNCHANGED <<log, versions, nodes, recs, op>>
    BY <1>3 DEF DeliverVersion
  <2>2. q # p
    <3>1. q = p => versions[v].by \notin {None, p} /\ v \in held'[p]
      BY <1>1, <2>1
    <3>. QED
      BY <2>1, <3>1 DEF Alone
  <2>3. held'[p] = held[p] /\ held' = [r \in Peers |-> held'[r]]
    BY <1>1, <2>1, <2>2
  <2>. QED
    BY <2>1, <2>3, TreeBeside
<1>4. CASE DeliverChunk(q)
  BY <1>1, <1>4, TreeBeside DEF DeliverChunk
<1>. QED
  BY <1>2, <1>3, <1>4 DEF Deliver

-----------------------------------------------------------------------------
LEMMA TreeInit ==
    ASSUME NEW c \in Clients, SeedIsTree, Init PROVE TreeInv(c)
<1>. DEFINE p == PeerOf[c]
            N == Len(Seed)
<1>1. p \in Peers /\ IInv
  BY PeerOfClient, InitIInv
<1>2. N \in Nat /\ DOMAIN Seed = 1..N /\ 1..N \subseteq NodeIds /\ \A n \in 1..N : Seed[n].node = n
  <2>1. SeedFiles \in Seq(Range(SeedFiles)) /\ SeedDirectories \in Seq(Range(SeedDirectories))
    BY SharedFsAssumption DEF IsSequence
  <2>. DEFINE S == Range(SeedFiles) \cup Range(SeedDirectories)
  <2>2. SeedFiles \in Seq(S) /\ SeedDirectories \in Seq(S)
    BY <2>1, SeqMonotonic
  <2>. HIDE DEF S
  <2>3. N \in Nat /\ DOMAIN Seed = 1..N
    BY <2>2 DEF Seed
  <2>. QED
    BY <2>3, SharedFsAssumption DEF NodeIds, MaxNodes
<1>3. /\ log = [n \in 1..N |-> [at |-> Seed[n], deleted |-> FALSE, by |-> None]]
      /\ \A n \in NodeIds : recs[p][n] = IF n <= N THEN n ELSE 0
      /\ held = [q \in Peers |-> held[q]] /\ held[p] = DOMAIN versions
      /\ op[c] = Idle /\ nodes = N
  BY <1>1, <1>2 DEF Init
<1>. HIDE DEF N
<1>4. Known(p) = 1..N
  BY <1>2, <1>3, NodesAre DEF Known
<1>5. \A n \in 1..N : recs[p][n] = n /\ log[n].at = Seed[n] /\ ~log[n].deleted
  BY <1>2, <1>3
<1>6. /\ Live(p) = 1..N
      /\ \A n \in 1..N : PlaceOf(p, n) = Seed[n] /\ ParentOf(p, n) = Seed[n].parent
  BY <1>2, <1>4, <1>5, LiveIsKnown DEF Live, Known, PlaceOf, ParentOf
<1>7. \A n \in 1..N : \/ Seed[n].parent = Root
                      \/ Seed[n].parent \in 1..(n - 1) /\ Seed[Seed[n].parent].kind = "directory"
  BY <1>2 DEF SeedIsTree
<1>8. \A n \in 1..N : 1..(n - 1) \subseteq 1..N
  BY <1>2
<1>9. Newest(p)
  BY <1>2, <1>3, <1>5 DEF Newest
<1>10. Created(p)
  BY <1>2, <1>3, <1>4 DEF Created
<1>11. DirectoriesHold(p)
  BY <1>4, <1>6, <1>7, <1>8 DEF DirectoriesHold, IsDir
<1>12. Acyclic(p)
  <2>. SUFFICES ASSUME NEW cycle \in (SUBSET Known(p)) \ {{}}
                PROVE  \E n \in cycle : ParentOf(p, n) \notin cycle
    BY DEF Acyclic
  <2>1. cycle \subseteq Nat /\ cycle # {} /\ cycle \subseteq 1..N
    BY <1>4, LiveIsKnown
  <2>2. PICK n \in cycle : \A k \in cycle : n <= k
    BY <2>1, SmallestNumber
  <2>3. ~\E k \in 1..(n - 1) : n <= k
    BY <2>1
  <2>4. Root \notin cycle
    BY <2>1, NodesAre
  <2>. QED
    BY <1>6, <1>7, <2>1, <2>2, <2>3, <2>4
<1>13. OneName(p)
  BY <1>2, <1>6 DEF OneName, FreeFor, SeedIsTree
<1>14. NoOrphan(p)
  BY <1>6, <1>7, <1>8 DEF NoOrphan, Stands, IsDir
<1>15. CallHangs(p, op[c]) /\ Numbered(op[c], nodes)
  <2>1. CallHangs(p, Idle) /\ Numbered(Idle, nodes)
    BY IdleOK, DoneHangs
  <2>. QED
    BY <1>3, <2>1
<1>. QED
  BY <1>9, <1>10, <1>11, <1>12, <1>13, <1>14, <1>15 DEF TreeInv, TreeParts

-----------------------------------------------------------------------------
(* Types.                                                                  *)

VersionIn(v, D) ==
    /\ v.node \in NodeIds /\ v.parents \subseteq D
    /\ v.content \in Contents \cup {Deleted}
    /\ v.by \in Peers \cup {None} /\ v.copied \in BOOLEAN

\* A call whose versions are in D.  What it writes is content, and a rename has a
\* destination.
CallIn(o, D) ==
    /\ o.phase \in Phases
    /\ o.at \in PlaceType \cup {None} /\ o.then \in PlaceType \cup {None}
    /\ o.content \in Contents \cup {Deleted} /\ o.deleted \in BOOLEAN
    /\ o.parents \subseteq D
    /\ o.base = None \/ o.base \subseteq D
    /\ o.result \in D \cup {None}
    /\ o.at = None <=> o.phase = "idle"
    /\ o.call = "write" => o.content \in Contents
    /\ o.phase = "chunks" => o.call = "write"
    /\ o.call = "rename" => /\ IsSequence(o.path) /\ o.path # <<>> /\ Last(o.path) \in Names
                            /\ IsSequence(o.from)

DocumentsTyped ==
    /\ \A i \in DOMAIN log : /\ log[i].at \in PlaceType /\ log[i].deleted \in BOOLEAN
                             /\ log[i].by \in Peers \cup {None}
    /\ \A v \in DOMAIN versions : VersionIn(versions[v], DOMAIN versions)
    /\ nodes \in 0..MaxNodes
    /\ recs \in [Peers -> [NodeIds -> {0} \cup DOMAIN log]]
    /\ held \in [Peers -> SUBSET DOMAIN versions]
    /\ chunks \in [Peers -> SUBSET Contents]
    /\ calls \in 0..MaxCalls

TypeInv == DocumentsTyped /\ \A c \in Clients : CallIn(op[c], DOMAIN versions)

LEMMA TypeInvIsTypeOK == TypeInv => TypeOK
<1>. SUFFICES ASSUME TypeInv PROVE TypeOK
  OBVIOUS
<1>1. \A v \in DOMAIN versions : VersionType(versions[v])
  BY DEF TypeInv, DocumentsTyped, VersionIn, VersionType
<1>2. ASSUME NEW c \in Clients PROVE CallType(op[c])
  <2>1. CallIn(op[c], DOMAIN versions)
    BY DEF TypeInv
  <2>2. (op[c].at = None) = (op[c].phase = "idle")
    BY <2>1, Zenon DEF CallIn
  <2>. QED
    BY <2>1, <2>2, Zenon DEF CallIn, CallType
<1>. QED
  BY <1>1, <1>2 DEF TypeInv, DocumentsTyped, TypeOK

LEMMA IdleTyped == ASSUME NEW D PROVE CallIn(Idle, D)
<1>1. Idle.deleted \in BOOLEAN
  BY Zenon DEF Idle
<1>. QED
  BY <1>1 DEF CallIn, Idle, Phases

\* Versions that are put leave what is known of others right.
LEMMA CallInMore ==
    ASSUME NEW o, NEW D, NEW E, D \subseteq E, CallIn(o, D) PROVE CallIn(o, E)
BY DEF CallIn

\* A step of one call.
LEMMA OneTyped ==
    ASSUME IInv, TypeInv, DocumentsTyped', NEW c \in Clients, NEW o,
           CallIn(o, DOMAIN versions'), op' = [op EXCEPT ![c] = o],
           DOMAIN versions \subseteq DOMAIN versions'
    PROVE  TypeInv'
<1>1. op = [d \in Clients |-> op[d]]
  BY DEF IInv, Calls
<1>2. ASSUME NEW d \in Clients PROVE CallIn(op'[d], DOMAIN versions')
  <2>1. CASE d = c
    BY <1>1, <2>1
  <2>2. CASE d # c
    <3>1. op'[d] = op[d] /\ CallIn(op[d], DOMAIN versions)
      BY <1>1, <2>2 DEF TypeInv
    <3>2. CallIn(op[d], DOMAIN versions')
      BY <3>1, CallInMore
    <3>. QED
      BY <3>1, <3>2
  <2>. QED
    BY <2>1, <2>2
<1>. QED
  BY <1>2 DEF TypeInv

LEMMA SameTyped ==
    ASSUME DocumentsTyped, UNCHANGED <<log, versions, recs, held, chunks>>,
           nodes' \in 0..MaxNodes, calls' \in 0..MaxCalls
    PROVE  DocumentsTyped'
BY DEF DocumentsTyped

\* A step of one call that changes no document.
LEMMA CallTyped ==
    ASSUME IInv, TypeInv, NEW c \in Clients, NEW o, CallIn(o, DOMAIN versions),
           op' = [op EXCEPT ![c] = o], UNCHANGED <<log, versions, recs, held, chunks>>,
           nodes' \in 0..MaxNodes, calls' \in 0..MaxCalls
    PROVE  TypeInv'
<1>1. DocumentsTyped'
  BY SameTyped DEF TypeInv
<1>. QED
  BY <1>1, OneTyped

\* A call that begins.
LEMMA BeginTyped ==
    ASSUME IInv, TypeInv, NEW c \in Clients, NEW o, CallIn(o, DOMAIN versions),
           Begin(c, o), UNCHANGED <<log, versions, recs, held, chunks>>,
           nodes' \in 0..MaxNodes
    PROVE  TypeInv'
<1>1. calls' \in 0..MaxCalls
  BY SharedFsAssumption DEF Begin, TypeInv, DocumentsTyped
<1>. QED
  BY <1>1, CallTyped DEF Begin

\* A call that goes on and changes no document.
LEMMA ContinueTyped ==
    ASSUME IInv, TypeInv, NEW c \in Clients, NEW o, CallIn(o, DOMAIN versions),
           Continue(c, o), UNCHANGED documents
    PROVE  TypeInv'
BY CallTyped DEF Continue, documents, TypeInv, DocumentsTyped

LEMMA PlacesTyped ==
    ASSUME TypeInv, NEW p \in Peers, NEW n \in Live(p)
    PROVE  PlaceOf(p, n) \in PlaceType /\ n \in NodeIds
<1>1. n \in NodeIds /\ recs[p][n] # 0
  BY DEF Live
<1>2. recs[p][n] \in DOMAIN log
  BY <1>1 DEF TypeInv, DocumentsTyped
<1>. QED
  BY <1>1, <1>2 DEF PlaceOf, TypeInv, DocumentsTyped

\* What a path leads to, the root apart.
LEMMA NodeFound ==
    ASSUME NEW p, NEW path, IsSequence(path), ResolvePath(p, path) \notin {None, Root}
    PROVE  ResolvePath(p, path) \in Live(p)
BY FoundIs, RootIs

\* The place of what is found or made.
LEMMA PlaceTyped ==
    ASSUME NEW p, NEW path, IsSequence(path), path # <<>>, ResolveParent(p, path) # None,
           Last(path) \in Names, NEW n \in NodeIds, NEW kind \in Kinds
    PROVE  /\ Place(n, kind, ResolveParent(p, path), Last(path)) \in PlaceType
           /\ Place(n, kind, ResolveParent(p, path), Last(path)) # None
<1>1. ResolveParent(p, path) \in {Root} \cup NodeIds
  BY FoundIs, LiveIsKnown DEF Stands
<1>2. Place(n, kind, ResolveParent(p, path), Last(path)) \in PlaceType
  BY <1>1 DEF Place, PlaceType
<1>. QED
  BY <1>2, SharedFsAssumption

LEMMA HeadsTyped ==
    ASSUME TypeInv, NEW p \in Peers, NEW n
    PROVE  /\ Heads(p, n) \subseteq HeadDocuments(p, n)
           /\ HeadDocuments(p, n) \subseteq DOMAIN versions
BY DEF Heads, HeadDocuments, TypeInv, DocumentsTyped

LEMMA RequestIs ==
    ASSUME NEW r \in Requests
    PROVE  /\ IsSequence(r.path) /\ Last(r.path) \in Names
           /\ r.call = "write" => r.content \in Contents
           /\ r.call = "rename" => IsSequence(r.to) /\ Last(r.to) \in Names
BY SharedFsAssumption DEF Names

\* What rm does to a node that is there.
LEMMA RemovalTyped ==
    ASSUME TypeInv, NEW p \in Peers, NEW n \in Live(p), NEW o, NEW D, CallShape(o),
           CallIn(o, D), o.call # "write"
    PROVE  CallIn(Removal(p, n, o), D)
<1>1. PICK at : at = PlaceOf(p, n)
  OBVIOUS
<1>2. at \in PlaceType /\ at # None
  BY <1>1, PlacesTyped, SharedFsAssumption
<1>3. PICK phase : phase = IF IsDirectory(p, n) THEN "children" ELSE "heads"
  OBVIOUS
<1>4. PICK r : r = [o EXCEPT !.phase = phase, !.at = at, !.content = Deleted, !.deleted = TRUE]
  OBVIOUS
<1>5. r = Removal(p, n, o)
  BY <1>1, <1>3, <1>4 DEF Removal
<1>6. /\ r.phase = phase /\ r.at = at /\ r.content = Deleted /\ r.then = o.then
      /\ r.parents = o.parents /\ r.base = o.base /\ r.result = o.result /\ r.call = o.call
      /\ r.path = o.path /\ r.from = o.from
  BY <1>4 DEF CallShape
<1>7. r.deleted \in BOOLEAN
  <2>1. r.deleted
    BY <1>4 DEF CallShape
  <2>2. r.deleted = TRUE
    BY <1>4, Zenon DEF CallShape
  <2>. QED
    BY <2>2, Zenon
<1>8. phase \in {"children", "heads"}
  BY <1>3
<1>9. CallIn(r, D)
  BY <1>2, <1>6, <1>7, <1>8 DEF CallIn, Phases
<1>. QED
  BY <1>5, <1>9

\* A call as it begins.
LEMMA BeginningIn ==
    ASSUME NEW D, NEW o, o.at \in PlaceType, o.phase \in {"heads", "record", "destination"},
           o.content \in Contents \cup {Deleted}, o.deleted \in BOOLEAN, o.then = None,
           o.parents = {}, o.base = None \/ o.base \subseteq D, o.result = None,
           o.call = "write" => o.content \in Contents,
           o.call = "rename" => /\ IsSequence(o.path) /\ o.path # <<>> /\ Last(o.path) \in Names
                                /\ IsSequence(o.from)
    PROVE  CallIn(o, D)
<1>1. o.at # None
  BY SharedFsAssumption
<1>. QED
  BY <1>1 DEF CallIn, Phases

LEMMA TypedWrite ==
    ASSUME IInv, TypeInv, NEW c \in Clients, NEW path, IsSequence(path),
           path # <<>> => Last(path) \in Names, NEW content \in Contents, NEW base,
           base = None \/ base \subseteq DOMAIN versions,
           WriteFile(c, path, content, base)
    PROVE  TypeInv'
<1>. DEFINE p == PeerOf[c]
            existing == ResolvePath(p, path)
            parent == ResolveParent(p, path)
            node == IF existing = None THEN nodes + 1 ELSE existing
            at == Place(node, "file", parent, Last(path))
            o == [Idle EXCEPT !.phase = "heads", !.call = "write", !.path = path,
                              !.at = at, !.content = content, !.base = base]
<1>1. /\ path # <<>> /\ parent # None /\ node \in NodeIds
      /\ Begin(c, o)
      /\ nodes' = IF existing = None THEN node ELSE nodes
      /\ UNCHANGED <<log, versions, recs, held, chunks>>
  BY DEF WriteFile
<1>2. Last(path) \in Names
  BY <1>1
<1>3. at \in PlaceType
  BY <1>1, <1>2, PlaceTyped DEF Kinds
<1>4. /\ o.phase = "heads" /\ o.call = "write" /\ o.path = path /\ o.at = at
      /\ o.content = content /\ o.then = None /\ o.parents = {} /\ o.base = base
      /\ o.result = None
  BY DEF Idle
<1>5. o.deleted \in BOOLEAN
  BY Zenon DEF Idle
<1>6. nodes' \in 0..MaxNodes
  BY <1>1, NodesAre DEF TypeInv, DocumentsTyped
<1>. HIDE DEF at, p, node, o
<1>7. CallIn(o, DOMAIN versions)
  BY <1>1, <1>2, <1>3, <1>4, <1>5, BeginningIn
<1>. QED
  BY <1>1, <1>6, <1>7, BeginTyped

LEMMA TypedMakeDirectory ==
    ASSUME IInv, TypeInv, NEW c \in Clients, NEW r \in Requests, MakeDirectory(c, r.path)
    PROVE  TypeInv'
<1>. DEFINE p == PeerOf[c]
            parent == ResolveParent(p, r.path)
            at == Place(nodes + 1, "directory", parent, Last(r.path))
            o == [Idle EXCEPT !.phase = "record", !.call = "mkdir", !.path = r.path, !.at = at]
<1>1. /\ r.path # <<>> /\ parent # None /\ nodes + 1 \in NodeIds
      /\ Begin(c, o) /\ nodes' = nodes + 1
      /\ UNCHANGED <<log, versions, recs, held, chunks>>
  BY DEF MakeDirectory
<1>2. IsSequence(r.path) /\ Last(r.path) \in Names
  BY RequestIs
<1>3. at \in PlaceType
  BY <1>1, <1>2, PlaceTyped DEF Kinds
<1>4. /\ o.phase = "record" /\ o.call = "mkdir" /\ o.path = r.path /\ o.at = at
      /\ o.content = Deleted /\ o.then = None /\ o.parents = {} /\ o.base = None
      /\ o.result = None
  BY DEF Idle
<1>5. o.deleted \in BOOLEAN
  BY Zenon DEF Idle
<1>6. nodes' \in 0..MaxNodes
  BY <1>1, NodesAre DEF TypeInv, DocumentsTyped
<1>. HIDE DEF at, p, o
<1>7. CallIn(o, DOMAIN versions)
  BY <1>1, <1>2, <1>3, <1>4, <1>5, BeginningIn
<1>. QED
  BY <1>1, <1>6, <1>7, BeginTyped

LEMMA TypedRemove ==
    ASSUME IInv, TypeInv, NEW c \in Clients, NEW r \in Requests, RemovePath(c, r.path)
    PROVE  TypeInv'
<1>. DEFINE p == PeerOf[c]
            n == ResolvePath(p, r.path)
            o == [Idle EXCEPT !.call = "remove", !.path = r.path]
<1>1. n \notin {None, Root} /\ Begin(c, Removal(p, n, o)) /\ UNCHANGED documents
  BY DEF RemovePath
<1>2. n \in Live(p) /\ p \in Peers
  BY <1>1, NodeFound, RequestIs, PeerOfClient
<1>3. CallShape(o) /\ o.call = "remove"
  BY DEF Idle, CallShape
<1>4. CallIn(o, DOMAIN versions)
  <2>1. CallIn(Idle, DOMAIN versions)
    BY IdleTyped
  <2>2. /\ o.phase = Idle.phase /\ o.at = Idle.at /\ o.content = Idle.content
        /\ o.then = Idle.then /\ o.parents = Idle.parents /\ o.base = Idle.base
        /\ o.result = Idle.result /\ o.deleted = Idle.deleted /\ Idle.phase = "idle"
    BY DEF Idle
  <2>. HIDE DEF o
  <2>. QED
    BY <1>3, <2>1, <2>2 DEF CallIn
<1>. HIDE DEF o, p, n
<1>5. CallIn(Removal(p, n, o), DOMAIN versions)
  BY <1>2, <1>3, <1>4, RemovalTyped
<1>6. nodes' \in 0..MaxNodes /\ UNCHANGED <<log, versions, recs, held, chunks>>
  BY <1>1 DEF documents, TypeInv, DocumentsTyped
<1>. QED
  BY <1>1, <1>5, <1>6, BeginTyped

LEMMA TypedRename ==
    ASSUME IInv, TypeInv, NEW c \in Clients, NEW r \in Requests, r.call = "rename",
           Rename(c, r.path, r.to)
    PROVE  TypeInv'
<1>. DEFINE p == PeerOf[c]
            n == ResolvePath(p, r.path)
            at == PlaceOf(p, n)
            o == [Idle EXCEPT !.phase = "destination", !.call = "rename",
                              !.path = r.to, !.from = r.path, !.at = at]
<1>1. r.to # <<>> /\ n \notin {None, Root} /\ Begin(c, o) /\ UNCHANGED documents
  BY DEF Rename
<1>2. /\ n \in Live(p) /\ p \in Peers /\ IsSequence(r.to) /\ Last(r.to) \in Names
      /\ IsSequence(r.path)
  BY <1>1, NodeFound, RequestIs, PeerOfClient
<1>3. at \in PlaceType
  BY <1>2, PlacesTyped
<1>4. /\ o.phase = "destination" /\ o.call = "rename" /\ o.path = r.to /\ o.at = at
      /\ o.content = Deleted /\ o.then = None /\ o.parents = {} /\ o.base = None
      /\ o.result = None /\ o.from = r.path
  BY DEF Idle
<1>5. o.deleted \in BOOLEAN
  BY Zenon DEF Idle
<1>6. nodes' \in 0..MaxNodes /\ UNCHANGED <<log, versions, recs, held, chunks>>
  BY <1>1 DEF documents, TypeInv, DocumentsTyped
<1>. HIDE DEF at, p, n, o
<1>7. CallIn(o, DOMAIN versions)
  BY <1>1, <1>2, <1>3, <1>4, <1>5, BeginningIn
<1>. QED
  BY <1>1, <1>6, <1>7, BeginTyped

LEMMA TypedResolve ==
    ASSUME IInv, TypeInv, NEW c \in Clients, NEW r \in Requests, ResolveConflict(c, r.path)
    PROVE  TypeInv'
<1>. DEFINE p == PeerOf[c]
            n == ResolvePath(p, r.path)
            at == PlaceOf(p, n)
<1>1. n # None /\ ~IsDirectory(p, n) /\ UNCHANGED documents
  BY DEF ResolveConflict
<1>2. PICK v \in HeadDocuments(p, n) :
          Begin(c, [Idle EXCEPT !.phase = "heads", !.call = "resolve", !.path = r.path,
                                !.at = at, !.content = versions[v].content])
  BY DEF ResolveConflict
<1>3. n \in Live(p) /\ p \in Peers
  BY <1>1, NodeFound, RequestIs, PeerOfClient DEF IsDirectory
<1>4. at \in PlaceType
  BY <1>3, PlacesTyped
<1>5. versions[v].content \in Contents \cup {Deleted}
  BY <1>3, HeadsTyped DEF TypeInv, DocumentsTyped, VersionIn
<1>6. nodes' \in 0..MaxNodes /\ UNCHANGED <<log, versions, recs, held, chunks>>
  BY <1>1 DEF documents, TypeInv, DocumentsTyped
<1>7. PICK x : x = versions[v].content
  OBVIOUS
<1>. DEFINE o == [Idle EXCEPT !.phase = "heads", !.call = "resolve", !.path = r.path,
                              !.at = at, !.content = x]
<1>8. Begin(c, o)
  BY <1>2, <1>7
<1>9. /\ o.phase = "heads" /\ o.call = "resolve" /\ o.path = r.path /\ o.at = at
      /\ o.content = x /\ o.then = None /\ o.parents = {} /\ o.base = None
      /\ o.result = None
  BY DEF Idle
<1>10. o.deleted \in BOOLEAN
  BY Zenon DEF Idle
<1>. HIDE DEF at, p, n, o
<1>11. CallIn(o, DOMAIN versions)
  BY <1>4, <1>5, <1>7, <1>9, <1>10, BeginningIn
<1>. QED
  BY <1>6, <1>8, <1>11, BeginTyped

LEMMA TypedCall == ASSUME IInv, TypeInv, NEW c \in Clients, Call(c) PROVE TypeInv'
BY RequestIs, TypedWrite, TypedMakeDirectory, TypedRemove, TypedRename, TypedResolve DEF Call

-----------------------------------------------------------------------------
\* A call under way has its shape, and its place.
LEMMA UnderWay ==
    ASSUME IInv, TypeInv, NEW c \in Clients
    PROVE  /\ CallShape(op[c]) /\ CallIn(op[c], DOMAIN versions) /\ PeerOf[c] \in Peers
           /\ op[c].phase # "idle" => op[c].at \in PlaceType
           /\ op[c].phase \in {"destination", "remove"} => op[c].call = "rename"
BY PeerOfClient DEF IInv, Calls, CallOK, RenameOnly, TypeInv, CallIn

\* A call goes on to another phase, at another place, or with what it has read.
LEMMA GoingOnIn ==
    ASSUME NEW D, NEW o, CallShape(o), CallIn(o, D), o.phase # "idle",
           NEW phase \in Phases \ {"idle", "chunks", "destination", "remove"},
           NEW at \in PlaceType, NEW parents \in SUBSET D, NEW result \in D \cup {None}
    PROVE  CallIn([o EXCEPT !.phase = phase, !.at = at, !.parents = parents,
                            !.result = result], D)
<1>1. PICK r : r = [o EXCEPT !.phase = phase, !.at = at, !.parents = parents,
                             !.result = result]
  OBVIOUS
<1>2. /\ r.phase = phase /\ r.at = at /\ r.content = o.content /\ r.then = o.then
      /\ r.parents = parents /\ r.base = o.base /\ r.result = result /\ r.call = o.call
      /\ r.deleted = o.deleted
  BY <1>1 DEF CallShape
<1>3. at # None
  BY SharedFsAssumption
<1>. QED
  BY <1>1, <1>2, <1>3 DEF CallIn

LEMMA TypedReadHeads ==
    ASSUME IInv, TypeInv, NEW c \in Clients, NEW x \in Contents \cup {Deleted},
           op[c].call = "write" => x \in Contents, ReadHeadsFor(c, x)
    PROVE  TypeInv'
<1>1. PICK o : o = [op[c] EXCEPT !.content = x]
  OBVIOUS
<1>2. /\ CallShape(o) /\ CallIn(o, DOMAIN versions) /\ PeerOf[c] \in Peers
      /\ o.phase = "heads" /\ o.at \in PlaceType
  <2>1. PICK q : q = op[c]
    OBVIOUS
  <2>2. CallShape(q) /\ CallIn(q, DOMAIN versions) /\ PeerOf[c] \in Peers
    BY <2>1, UnderWay
  <2>3. /\ CallShape(o) /\ o.phase = q.phase /\ o.at = q.at /\ o.then = q.then
        /\ o.content = x /\ o.deleted = q.deleted /\ o.parents = q.parents /\ o.base = q.base
        /\ o.result = q.result /\ o.call = q.call /\ o.path = q.path /\ o.from = q.from
    BY <1>1, <2>1, <2>2 DEF CallShape
  <2>4. CallIn(o, DOMAIN versions)
    BY <2>1, <2>2, <2>3 DEF CallIn
  <2>5. o.phase = "heads"
    BY <1>1, <2>3 DEF ReadHeadsFor
  <2>. QED
    BY <2>2, <2>3, <2>4, <2>5 DEF CallIn
<1>3. PICK heads : heads = Heads(PeerOf[c], o.at.node)
  OBVIOUS
<1>4. heads \subseteq DOMAIN versions
  BY <1>2, <1>3, HeadsTyped
<1>6. UNCHANGED documents
  BY DEF ReadHeadsFor
<1>7. CASE /\ \E v \in heads : heads = {v}
           /\ Continue(c, [o EXCEPT !.phase = "done", !.result = Max(heads)])
  <2>1. PICK v \in heads : heads = {v}
    BY <1>7
  <2>2. v \in DOMAIN versions /\ v \in Nat
    <3>1. Len(versions) \in Nat /\ DOMAIN versions = 1..Len(versions)
      BY AppendSequence DEF IInv, Documents
    <3>. QED
      BY <1>4, <3>1
  <2>3. Max(heads) = v
    BY <2>1, <2>2, MaxOfOne
  <2>4. [o EXCEPT !.phase = "done", !.result = v] =
        [o EXCEPT !.phase = "done", !.at = o.at, !.parents = o.parents, !.result = v]
    BY <1>2 DEF CallShape
  <2>5. CallIn([o EXCEPT !.phase = "done", !.at = o.at, !.parents = o.parents, !.result = v],
               DOMAIN versions)
    <3>1. o.parents \in SUBSET DOMAIN versions
      BY <1>2 DEF CallIn
    <3>2. "done" \in Phases \ {"idle", "chunks", "destination", "remove"}
      BY DEF Phases
    <3>. QED
      BY <1>2, <2>2, <3>1, <3>2, GoingOnIn
  <2>. QED
    BY <1>6, <1>7, <2>3, <2>4, <2>5, ContinueTyped
<1>8. CASE Continue(c,
              [o EXCEPT !.phase = IF o.call = "write" THEN "chunks" ELSE "version",
                        !.parents = IF o.base = None THEN heads ELSE o.base])
  <2>1. PICK phase, parents :
            /\ phase = IF o.call = "write" THEN "chunks" ELSE "version"
            /\ parents = IF o.base = None THEN heads ELSE o.base
    OBVIOUS
  <2>2. PICK r : r = [o EXCEPT !.phase = phase, !.parents = parents]
    OBVIOUS
  <2>3. Continue(c, r)
    BY <1>8, <2>1, <2>2
  <2>4. /\ r.phase = phase /\ r.at = o.at /\ r.content = o.content /\ r.then = o.then
        /\ r.parents = parents /\ r.base = o.base /\ r.result = o.result /\ r.call = o.call
        /\ r.deleted = o.deleted /\ r.path = o.path /\ r.from = o.from
    BY <1>2, <2>2 DEF CallShape
  <2>5. parents \subseteq DOMAIN versions
    BY <1>2, <1>4, <2>1 DEF CallIn
  <2>6. CallIn(r, DOMAIN versions)
    BY <1>2, <2>1, <2>4, <2>5 DEF CallIn, Phases
  <2>. QED
    BY <1>6, <2>3, <2>6, ContinueTyped
<1>. QED
  <2>1. \/ /\ \E v \in heads : heads = {v}
           /\ Continue(c, [o EXCEPT !.phase = "done", !.result = Max(heads)])
        \/ Continue(c,
              [o EXCEPT !.phase = IF o.call = "write" THEN "chunks" ELSE "version",
                        !.parents = IF o.base = None THEN heads ELSE o.base])
    BY <1>1, <1>3, Zenon DEF ReadHeadsFor
  <2>. QED
    BY <1>7, <1>8, <2>1

LEMMA TypedPutChunks == ASSUME IInv, TypeInv, NEW c \in Clients, PutChunks(c) PROVE TypeInv'
<1>1. PICK o : o = op[c]
  OBVIOUS
<1>2. /\ CallShape(o) /\ CallIn(o, DOMAIN versions) /\ PeerOf[c] \in Peers
      /\ o.phase = "chunks" /\ o.at \in PlaceType
  BY <1>1, UnderWay DEF PutChunks
<1>3. o.content \in Contents
  BY <1>2 DEF CallIn
<1>4. /\ chunks' = [chunks EXCEPT ![PeerOf[c]] = @ \cup {o.content}]
      /\ op' = [op EXCEPT ![c] = [o EXCEPT !.phase = "version"]]
      /\ UNCHANGED <<log, versions, nodes, recs, held, calls>>
  BY <1>1 DEF PutChunks, Continue
<1>5. DocumentsTyped'
  <2>1. chunks' \in [Peers -> SUBSET Contents]
    BY <1>2, <1>3, <1>4 DEF TypeInv, DocumentsTyped
  <2>. QED
    BY <1>4, <2>1 DEF TypeInv, DocumentsTyped
<1>6. PICK r : r = [o EXCEPT !.phase = "version"]
  OBVIOUS
<1>7. CallIn(r, DOMAIN versions)
  <2>1. /\ r.phase = "version" /\ r.at = o.at /\ r.content = o.content /\ r.then = o.then
        /\ r.parents = o.parents /\ r.base = o.base /\ r.result = o.result /\ r.call = o.call
        /\ r.deleted = o.deleted
    BY <1>2, <1>6 DEF CallShape
  <2>. QED
    BY <1>2, <2>1 DEF CallIn, Phases
<1>. QED
  BY <1>4, <1>5, <1>6, <1>7, OneTyped

LEMMA TypedPutVersion == ASSUME IInv, TypeInv, NEW c \in Clients, PutVersion(c) PROVE TypeInv'
<1>1. PICK o, v : o = op[c] /\ v = Len(versions) + 1
  OBVIOUS
<1>2. /\ CallShape(o) /\ CallIn(o, DOMAIN versions) /\ PeerOf[c] \in Peers
      /\ o.phase = "version" /\ o.at \in PlaceType
  BY <1>1, UnderWay DEF PutVersion
<1>3. PICK x : x = [node |-> o.at.node, parents |-> o.parents, content |-> o.content,
                    by |-> PeerOf[c], copied |-> o.call = "resolve"]
  OBVIOUS
<1>4. /\ versions' = Append(versions, x)
      /\ held' = [held EXCEPT ![PeerOf[c]] = @ \cup {v}]
      /\ op' = [op EXCEPT ![c] = [o EXCEPT !.phase = "record", !.result = v]]
      /\ UNCHANGED <<log, nodes, recs, chunks, calls>>
  BY <1>1, <1>3 DEF PutVersion, Continue
<1>5. /\ DOMAIN versions' = DOMAIN versions \cup {v} /\ versions'[v] = x
      /\ \A w \in DOMAIN versions : versions'[w] = versions[w]
  <2>1. IsSequence(versions)
    BY DEF IInv, Documents
  <2>. QED
    BY <1>1, <1>4, <2>1, AppendSequence
<1>6. VersionIn(x, DOMAIN versions')
  <2>1. x.copied \in BOOLEAN
    BY <1>3, Zenon
  <2>2. x.node = o.at.node /\ x.parents = o.parents /\ x.content = o.content /\ x.by = PeerOf[c]
    BY <1>3
  <2>3. o.at.node \in NodeIds
    BY <1>2 DEF PlaceType
  <2>. QED
    BY <1>2, <1>5, <2>1, <2>2, <2>3 DEF VersionIn, CallIn
<1>7. DocumentsTyped'
  <2>1. ASSUME NEW w \in DOMAIN versions' PROVE VersionIn(versions'[w], DOMAIN versions')
    <3>1. CASE w = v
      BY <1>5, <1>6, <3>1
    <3>2. CASE w \in DOMAIN versions
      <4>1. VersionIn(versions[w], DOMAIN versions)
        BY <3>2 DEF TypeInv, DocumentsTyped
      <4>. QED
        BY <1>5, <3>2, <4>1 DEF VersionIn
    <3>. QED
      BY <1>5, <3>1, <3>2
  <2>2. held' \in [Peers -> SUBSET DOMAIN versions']
    <3>1. held \in [Peers -> SUBSET DOMAIN versions]
      BY DEF TypeInv, DocumentsTyped
    <3>. QED
      BY <1>2, <1>4, <1>5, <3>1
  <2>. QED
    BY <1>4, <2>1, <2>2 DEF TypeInv, DocumentsTyped
<1>8. PICK r : r = [o EXCEPT !.phase = "record", !.result = v]
  OBVIOUS
<1>9. CallIn(r, DOMAIN versions')
  <2>1. /\ r.phase = "record" /\ r.at = o.at /\ r.content = o.content /\ r.then = o.then
        /\ r.parents = o.parents /\ r.base = o.base /\ r.result = v /\ r.call = o.call
        /\ r.deleted = o.deleted /\ r.path = o.path /\ r.from = o.from
    BY <1>2, <1>8 DEF CallShape
  <2>2. CallIn(o, DOMAIN versions')
    BY <1>2, <1>5, CallInMore
  <2>. QED
    BY <1>2, <1>5, <2>1, <2>2 DEF CallIn, Phases
<1>. QED
  BY <1>4, <1>5, <1>7, <1>8, <1>9, OneTyped

LEMMA TypedPutRecord == ASSUME IInv, TypeInv, NEW c \in Clients, PutRecord(c) PROVE TypeInv'
<1>1. PICK o, k : o = op[c] /\ k = Len(log) + 1
  OBVIOUS
<1>2. /\ CallShape(o) /\ CallIn(o, DOMAIN versions) /\ PeerOf[c] \in Peers
      /\ o.phase = "record" /\ o.at \in PlaceType
  BY <1>1, UnderWay DEF PutRecord
<1>3. PICK x : x = [at |-> o.at, deleted |-> o.deleted, by |-> PeerOf[c]]
  OBVIOUS
<1>4. PICK r : r = IF o.then = None
                   THEN [o EXCEPT !.phase = "done"]
                   ELSE [o EXCEPT !.at = o.then, !.then = None, !.deleted = FALSE]
  OBVIOUS
<1>5. /\ log' = Append(log, x)
      /\ recs' = [recs EXCEPT ![PeerOf[c]][o.at.node] = k]
      /\ op' = [op EXCEPT ![c] = r]
      /\ UNCHANGED <<versions, nodes, held, chunks, calls>>
  BY <1>1, <1>3, <1>4 DEF PutRecord, Continue
<1>6. /\ DOMAIN log' = DOMAIN log \cup {k} /\ log'[k] = x
      /\ \A i \in DOMAIN log : log'[i] = log[i]
  <2>1. IsSequence(log)
    BY DEF IInv, Documents
  <2>. QED
    BY <1>1, <1>5, <2>1, AppendSequence
<1>7. DocumentsTyped'
  <2>1. \A i \in DOMAIN log' : /\ log'[i].at \in PlaceType /\ log'[i].deleted \in BOOLEAN
                               /\ log'[i].by \in Peers \cup {None}
    <3>1. x.at \in PlaceType /\ x.deleted \in BOOLEAN /\ x.by \in Peers \cup {None}
      BY <1>2, <1>3 DEF CallIn
    <3>. QED
      BY <1>6, <3>1 DEF TypeInv, DocumentsTyped
  <2>2. recs' \in [Peers -> [NodeIds -> {0} \cup DOMAIN log']]
    <3>1. recs \in [Peers -> [NodeIds -> {0} \cup DOMAIN log]]
      BY DEF TypeInv, DocumentsTyped
    <3>2. recs \in [Peers -> [NodeIds -> {0} \cup DOMAIN log']]
      <4>1. \A q \in Peers, m \in NodeIds : recs[q][m] \in {0} \cup DOMAIN log'
        BY <1>6, <3>1
      <4>. QED
        BY <3>1, <4>1
    <3>3. k \in DOMAIN log'
      BY <1>6
    <3>. QED
      BY <1>2, <1>5, <3>2, <3>3
  <2>. QED
    BY <1>5, <2>1, <2>2 DEF TypeInv, DocumentsTyped
<1>8. CallIn(r, DOMAIN versions)
  <2>1. CASE o.then = None
    <3>1. /\ r.phase = "done" /\ r.at = o.at /\ r.content = o.content /\ r.then = o.then
          /\ r.parents = o.parents /\ r.base = o.base /\ r.result = o.result
          /\ r.call = o.call /\ r.deleted = o.deleted /\ r.path = o.path /\ r.from = o.from
      BY <1>2, <1>4, <2>1 DEF CallShape
    <3>. QED
      BY <1>2, <3>1 DEF CallIn, Phases
  <2>2. CASE o.then # None
    <3>1. r = [o EXCEPT !.at = o.then, !.then = None, !.deleted = FALSE]
      BY <1>4, <2>2
    <3>2. /\ r.phase = o.phase /\ r.at = o.then /\ r.content = o.content /\ r.then = None
          /\ r.parents = o.parents /\ r.base = o.base /\ r.result = o.result
          /\ r.call = o.call /\ r.path = o.path /\ r.from = o.from
      BY <1>2, <3>1 DEF CallShape
    <3>3. r.deleted \in BOOLEAN
      <4>1. r.deleted = FALSE
        BY <1>2, <3>1, Zenon DEF CallShape
      <4>. QED
        BY <4>1, Zenon
    <3>. QED
      BY <1>2, <2>2, <3>2, <3>3 DEF CallIn
  <2>. QED
    BY <2>1, <2>2
<1>. QED
  BY <1>5, <1>7, <1>8, OneTyped

LEMMA TypedFailure ==
    ASSUME IInv, TypeInv, NEW c \in Clients, Continue(c, Idle), UNCHANGED documents
    PROVE  TypeInv'
BY IdleTyped, ContinueTyped

\* A call goes on at the place at, without having put anything.
LEMMA TypedGoesOn ==
    ASSUME IInv, TypeInv, NEW c \in Clients, op[c].phase # "idle",
           NEW phase \in {"record", "done"}, NEW at \in PlaceType,
           Continue(c, [op[c] EXCEPT !.phase = phase, !.at = at]), UNCHANGED documents
    PROVE  TypeInv'
<1>1. PICK o : o = op[c]
  OBVIOUS
<1>2. CallShape(o) /\ CallIn(o, DOMAIN versions)
  BY <1>1, UnderWay
<1>3. [o EXCEPT !.phase = phase, !.at = at] =
      [o EXCEPT !.phase = phase, !.at = at, !.parents = o.parents, !.result = o.result]
  BY <1>2 DEF CallShape
<1>4. CallIn([o EXCEPT !.phase = phase, !.at = at, !.parents = o.parents,
                       !.result = o.result], DOMAIN versions)
  <2>1. o.parents \in SUBSET DOMAIN versions /\ o.result \in DOMAIN versions \cup {None}
    BY <1>2 DEF CallIn
  <2>2. phase \in Phases \ {"idle", "chunks", "destination", "remove"}
    BY DEF Phases
  <2>. QED
    BY <1>1, <1>2, <2>1, <2>2, GoingOnIn
<1>. QED
  BY <1>1, <1>3, <1>4, ContinueTyped

LEMMA TypedListChildren ==
    ASSUME IInv, TypeInv, NEW c \in Clients, ListChildren(c) PROVE TypeInv'
<1>1. /\ op[c].phase = "children" /\ UNCHANGED documents
      /\ Continue(c, Idle) \/ Continue(c, [op[c] EXCEPT !.phase = "record"])
  BY DEF ListChildren, Fail
<1>2. CallShape(op[c]) /\ op[c].at \in PlaceType
  BY <1>1, UnderWay
<1>3. [op[c] EXCEPT !.phase = "record"] = [op[c] EXCEPT !.phase = "record", !.at = op[c].at]
  BY <1>2 DEF CallShape
<1>. QED
  BY <1>1, <1>2, <1>3, TypedFailure, TypedGoesOn

LEMMA TypedCheckDestination ==
    ASSUME IInv, TypeInv, NEW c \in Clients, CheckDestination(c) PROVE TypeInv'
<1>1. PICK o, d, parent :
          /\ o = op[c] /\ d = ResolvePath(PeerOf[c], o.path)
          /\ parent = ResolveParent(PeerOf[c], o.path)
  OBVIOUS
<1>2. /\ CallShape(o) /\ CallIn(o, DOMAIN versions) /\ PeerOf[c] \in Peers
      /\ o.phase = "destination" /\ o.at \in PlaceType /\ o.call = "rename"
      /\ UNCHANGED documents
  BY <1>1, UnderWay DEF CheckDestination
<1>3. PICK target : target = Place(o.at.node, o.at.kind, parent, Last(o.path))
  OBVIOUS
<1>4. \/ Continue(c, [o EXCEPT !.phase = "done"])
      \/ Continue(c, Idle)
      \/ /\ parent # None
         /\ Continue(c, [o EXCEPT !.phase = IF d = None THEN "record" ELSE "remove",
                                  !.at = target])
  BY <1>1, <1>3, Zenon DEF CheckDestination, Fail
<1>5. CASE Continue(c, [o EXCEPT !.phase = "done"])
  <2>1. [o EXCEPT !.phase = "done"] = [o EXCEPT !.phase = "done", !.at = o.at]
    BY <1>2 DEF CallShape
  <2>. QED
    BY <1>1, <1>2, <1>5, <2>1, TypedGoesOn
<1>6. CASE Continue(c, Idle)
  BY <1>2, <1>6, TypedFailure
<1>7. CASE /\ parent # None
           /\ Continue(c, [o EXCEPT !.phase = IF d = None THEN "record" ELSE "remove",
                                    !.at = target])
  <2>1. IsSequence(o.path) /\ o.path # <<>> /\ Last(o.path) \in Names
    BY <1>2 DEF CallIn
  <2>2. target \in PlaceType /\ target # None
    <3>1. o.at.node \in NodeIds /\ o.at.kind \in Kinds
      BY <1>2 DEF PlaceType
    <3>. QED
      BY <1>1, <1>3, <1>7, <2>1, <3>1, PlaceTyped
  <2>3. PICK phase : phase = IF d = None THEN "record" ELSE "remove"
    OBVIOUS
  <2>4. PICK r : r = [o EXCEPT !.phase = phase, !.at = target]
    OBVIOUS
  <2>5. /\ r.phase = phase /\ r.at = target /\ r.content = o.content /\ r.then = o.then
        /\ r.parents = o.parents /\ r.base = o.base /\ r.result = o.result
        /\ r.call = o.call /\ r.deleted = o.deleted /\ r.path = o.path /\ r.from = o.from
    BY <1>2, <2>4 DEF CallShape
  <2>6. CallIn(r, DOMAIN versions)
    BY <1>2, <2>1, <2>2, <2>3, <2>5 DEF CallIn, Phases
  <2>. QED
    BY <1>2, <1>7, <2>3, <2>4, <2>6, ContinueTyped
<1>. QED
  BY <1>4, <1>5, <1>6, <1>7

LEMMA TypedRemoveDestination ==
    ASSUME IInv, TypeInv, NEW c \in Clients, RemoveDestination(c) PROVE TypeInv'
<1>1. PICK o, p, n : o = op[c] /\ p = PeerOf[c] /\ n = ResolvePath(PeerOf[c], o.path)
  OBVIOUS
<1>2. /\ CallShape(o) /\ CallIn(o, DOMAIN versions) /\ p \in Peers
      /\ o.phase = "remove" /\ o.at \in PlaceType /\ o.call = "rename"
      /\ UNCHANGED documents
  BY <1>1, UnderWay DEF RemoveDestination
<1>3. Continue(c, IF n = Root THEN Idle
                  ELSE IF n = None THEN [o EXCEPT !.phase = "record"]
                  ELSE Removal(p, n, [o EXCEPT !.then = o.at]))
  BY <1>1, Zenon DEF RemoveDestination
<1>4. CASE n = Root
  <2>1. Continue(c, Idle)
    BY <1>3, <1>4
  <2>. QED
    BY <1>2, <2>1, TypedFailure
<1>5. CASE n # Root /\ n = None
  <2>1. Continue(c, [o EXCEPT !.phase = "record"])
    BY <1>3, <1>5
  <2>2. [o EXCEPT !.phase = "record"] = [o EXCEPT !.phase = "record", !.at = o.at]
    BY <1>2 DEF CallShape
  <2>. QED
    BY <1>1, <1>2, <2>1, <2>2, TypedGoesOn
<1>6. CASE n # Root /\ n # None
  <2>1. n \in Live(p)
    BY <1>1, <1>2, <1>6, NodeFound DEF CallIn
  <2>2. PICK r : r = [o EXCEPT !.then = o.at]
    OBVIOUS
  <2>3. /\ r.phase = o.phase /\ r.at = o.at /\ r.content = o.content /\ r.then = o.at
        /\ r.parents = o.parents /\ r.base = o.base /\ r.result = o.result
        /\ r.call = o.call /\ r.deleted = o.deleted /\ r.path = o.path /\ r.from = o.from
        /\ CallShape(r)
    BY <1>2, <2>2 DEF CallShape
  <2>4. CallIn(r, DOMAIN versions)
    BY <1>2, <2>3 DEF CallIn
  <2>5. CallIn(Removal(p, n, r), DOMAIN versions)
    BY <1>2, <2>1, <2>3, <2>4, RemovalTyped
  <2>6. Continue(c, Removal(p, n, r))
    BY <1>3, <1>6, <2>2
  <2>. QED
    BY <1>2, <2>5, <2>6, ContinueTyped
<1>. QED
  BY <1>4, <1>5, <1>6

LEMMA TypedDeliver == ASSUME IInv, TypeInv, NEW p \in Peers, Deliver(p) PROVE TypeInv'
<1>1. CASE DeliverRecord(p)
  <2>1. PICK i \in DOMAIN log :
          /\ recs' = [recs EXCEPT ![p][log[i].at.node] = i]
          /\ UNCHANGED <<log, versions, nodes, held, chunks, op, calls>>
    BY <1>1 DEF DeliverRecord
  <2>2. recs' \in [Peers -> [NodeIds -> {0} \cup DOMAIN log]]
    BY <2>1 DEF TypeInv, DocumentsTyped
  <2>. QED
    BY <2>1, <2>2 DEF TypeInv, DocumentsTyped
<1>2. CASE DeliverVersion(p)
  <2>1. PICK v \in DOMAIN versions :
          /\ held' = [held EXCEPT ![p] = @ \cup {v}]
          /\ UNCHANGED <<log, versions, nodes, recs, chunks, op, calls>>
    BY <1>2 DEF DeliverVersion
  <2>2. held' \in [Peers -> SUBSET DOMAIN versions]
    BY <2>1 DEF TypeInv, DocumentsTyped
  <2>. QED
    BY <2>1, <2>2 DEF TypeInv, DocumentsTyped
<1>3. CASE DeliverChunk(p)
  <2>1. PICK x \in UNION {chunks[q] : q \in Peers} :
          /\ chunks' = [chunks EXCEPT ![p] = @ \cup {x}]
          /\ UNCHANGED <<log, versions, nodes, recs, held, op, calls>>
    BY <1>3 DEF DeliverChunk
  <2>2. chunks' \in [Peers -> SUBSET Contents]
    BY <2>1 DEF TypeInv, DocumentsTyped
  <2>. QED
    BY <2>1, <2>2 DEF TypeInv, DocumentsTyped
<1>. QED
  BY <1>1, <1>2, <1>3 DEF Deliver

LEMMA TypedCrash == ASSUME IInv, TypeInv, NEW p \in Peers, Crash(p) PROVE TypeInv'
<1>1. /\ op' = [c \in Clients |-> op'[c]] /\ \A c \in Clients : op'[c] \in {Idle, op[c]}
      /\ UNCHANGED <<log, versions, nodes, recs, held, chunks, calls>>
  BY DEF Crash, documents
<1>2. DocumentsTyped'
  BY <1>1 DEF TypeInv, DocumentsTyped
<1>3. \A c \in Clients : CallIn(op'[c], DOMAIN versions')
  <2>1. CallIn(Idle, DOMAIN versions)
    BY IdleTyped
  <2>. QED
    BY <1>1, <2>1 DEF TypeInv
<1>. QED
  BY <1>2, <1>3 DEF TypeInv

-----------------------------------------------------------------------------
(* What clients do with the filesystem, themselves or through their mount. *)

PathTyped(path) == IsSequence(path) /\ (path # <<>> => Last(path) \in Names)

ClientStep(c) ==
    \/ Call(c) \/ Step(c) \/ Return(c)
    \/ Fail(c) /\ UNCHANGED documents
    \/ \E path, content, base :
          /\ PathTyped(path) /\ content \in Contents
          /\ base = None \/ base \subseteq DOMAIN versions
          /\ WriteFile(c, path, content, base)
    \/ \E x \in Contents : op[c].call = "write" /\ ReadHeadsFor(c, x)

FsStep ==
    \/ \E c \in Clients : ClientStep(c)
    \/ \E p \in Peers : Deliver(p) \/ Crash(p)
    \/ UNCHANGED <<documents, op>> /\ calls' \in 0..MaxCalls

LEMMA NextIsFsStep == ASSUME TypeInv, [Next]_vars PROVE FsStep
<1>1. calls \in 0..MaxCalls
  BY DEF TypeInv, DocumentsTyped
<1>. QED
  BY <1>1 DEF FsStep, ClientStep, Next, vars

LEMMA TypedFsStep == ASSUME IInv, TypeInv, FsStep PROVE TypeInv'
<1>1. CASE UNCHANGED <<documents, op>> /\ calls' \in 0..MaxCalls
  BY <1>1 DEF documents, TypeInv, DocumentsTyped
<1>2. ASSUME NEW c \in Clients, Step(c) PROVE TypeInv'
  <2>1. CASE ReadHeads(c)
    <3>1. op[c].content \in Contents \cup {Deleted}
      BY DEF TypeInv, CallIn
    <3>2. op[c].call = "write" => op[c].content \in Contents
      BY DEF TypeInv, CallIn
    <3>. QED
      BY <2>1, <3>1, <3>2, TypedReadHeads DEF ReadHeads
  <2>. QED
    BY <1>2, <2>1, TypedPutChunks, TypedPutVersion, TypedPutRecord,
       TypedListChildren, TypedCheckDestination, TypedRemoveDestination DEF Step
<1>3. ASSUME NEW c \in Clients, Return(c) \/ (Fail(c) /\ UNCHANGED documents) PROVE TypeInv'
  BY <1>3, TypedFailure DEF Return, Fail
<1>4. ASSUME NEW c \in Clients, NEW path, PathTyped(path), NEW content \in Contents, NEW base,
             base = None \/ base \subseteq DOMAIN versions, WriteFile(c, path, content, base)
      PROVE  TypeInv'
  BY <1>4, TypedWrite DEF PathTyped
<1>5. ASSUME NEW c \in Clients, NEW x \in Contents, ReadHeadsFor(c, x) PROVE TypeInv'
  BY <1>5, TypedReadHeads
<1>. QED
  BY <1>1, <1>2, <1>3, <1>4, <1>5, TypedCall, TypedDeliver, TypedCrash DEF FsStep, ClientStep

LEMMA TypedInit == Init => TypeInv
<1>. SUFFICES ASSUME Init PROVE TypeInv
  OBVIOUS
<1>. DEFINE N == Len(Seed)
<1>1. SeedFiles \in Seq(Range(SeedFiles)) /\ SeedDirectories \in Seq(Range(SeedDirectories))
  BY SharedFsAssumption DEF IsSequence
<1>2. N \in Nat /\ DOMAIN Seed = 1..N /\ DOMAIN SeedFiles = 1..Len(SeedFiles)
  <2>. DEFINE S == Range(SeedFiles) \cup Range(SeedDirectories)
  <2>1. SeedFiles \in Seq(S) /\ SeedDirectories \in Seq(S)
    BY <1>1, SeqMonotonic
  <2>. HIDE DEF S
  <2>. QED
    BY <2>1 DEF Seed
<1>3. ASSUME NEW i \in DOMAIN SeedFiles PROVE SeedFiles[i].node \in NodeIds
  <2>1. \E n \in DOMAIN Seed : Seed[n] = SeedFiles[i]
    <3>. DEFINE S == Range(SeedFiles) \cup Range(SeedDirectories)
    <3>1. SeedFiles \in Seq(S) /\ SeedDirectories \in Seq(S)
      BY <1>1, SeqMonotonic
    <3>. HIDE DEF S
    <3>2. Len(SeedDirectories) + i \in DOMAIN Seed /\ Seed[Len(SeedDirectories) + i] = SeedFiles[i]
      BY <3>1 DEF Seed
    <3>. QED
      BY <3>2
  <2>. QED
    BY <2>1, SharedFsAssumption DEF PlaceType
<1>4. /\ DOMAIN log = 1..N /\ DOMAIN versions = DOMAIN SeedFiles
      /\ nodes = N /\ calls = 0 /\ N \in 0..MaxNodes
  BY <1>2, SharedFsAssumption DEF Init, MaxNodes
<1>5. \A i \in DOMAIN log : /\ log[i].at \in PlaceType /\ log[i].deleted \in BOOLEAN
                           /\ log[i].by \in Peers \cup {None}
  <2>1. \A i \in DOMAIN log : log[i].at = Seed[i] /\ (log[i].deleted = FALSE) /\ log[i].by = None
    BY <1>2, <1>4, Zenon DEF Init
  <2>2. \A i \in DOMAIN log : log[i].deleted \in BOOLEAN
    BY <2>1, Zenon
  <2>. QED
    BY <1>2, <1>4, <2>1, <2>2, SharedFsAssumption
<1>6. \A v \in DOMAIN versions : VersionIn(versions[v], DOMAIN versions)
  <2>. SUFFICES ASSUME NEW v \in DOMAIN versions PROVE VersionIn(versions[v], DOMAIN versions)
    OBVIOUS
  <2>1. PICK x : x = [node |-> SeedFiles[v].node, parents |-> {}, content |-> Original,
                      by |-> None, copied |-> FALSE]
    OBVIOUS
  <2>2. versions[v] = x
    BY <1>4, <2>1 DEF Init
  <2>3. x.copied \in BOOLEAN
    BY <2>1, Zenon
  <2>4. VersionIn(x, DOMAIN versions)
    BY <1>3, <1>4, <2>1, <2>3, SharedFsAssumption DEF VersionIn
  <2>. QED
    BY <2>2, <2>4
<1>7. recs \in [Peers -> [NodeIds -> {0} \cup DOMAIN log]]
  BY <1>2, <1>4 DEF Init, NodeIds
<1>8. held \in [Peers -> SUBSET DOMAIN versions] /\ chunks \in [Peers -> SUBSET Contents]
  BY SharedFsAssumption DEF Init
<1>9. \A c \in Clients : CallIn(op[c], DOMAIN versions)
  BY IdleTyped DEF Init
<1>10. calls \in 0..MaxCalls
  BY <1>4, SharedFsAssumption
<1>. QED
  BY <1>4, <1>5, <1>6, <1>7, <1>8, <1>9, <1>10 DEF TypeInv, DocumentsTyped

\* Every peer has documents that were put, and every call under way is at a place that
\* exists or is about to: no step reads a record or a version that is not there.
THEOREM SharedFsTypeOK == Spec => []TypeOK
<1>1. Init => IInv /\ TypeInv
  BY InitIInv, TypedInit
<1>2. IInv /\ TypeInv /\ [Next]_vars => IInv' /\ TypeInv'
  BY NextIInv, NextIsFsStep, TypedFsStep
<1>. QED
  BY <1>1, <1>2, TypeInvIsTypeOK, PTL DEF Spec
-----------------------------------------------------------------------------
(* The tree of a peer with one client, which no document of another peer   *)
(* has reached.                                                            *)

\* A step that puts nothing and delivers nothing.
Quiet == UNCHANGED <<log, versions, recs, held>> /\ nodes' \in Nat /\ nodes <= nodes'

\* A client's step is of its own call, and puts at most one document.
LEMMA ClientStepIs ==
    ASSUME IInv, TypeInv, NEW c \in Clients, ClientStep(c)
    PROVE  /\ op' = [op EXCEPT ![c] = op'[c]]
           /\ Quiet \/ PutVersion(c) \/ PutRecord(c)
<1>1. nodes \in Nat
  BY NodesAre DEF TypeInv, DocumentsTyped
<1>2. UNCHANGED documents => Quiet
  BY <1>1 DEF documents, Quiet
<1>3. op' = [op EXCEPT ![c] = op'[c]]
  BY OwnCall DEF IInv, ClientStep
<1>4. ASSUME NEW path, NEW content, NEW base, WriteFile(c, path, content, base) PROVE Quiet
  BY <1>1, <1>4, NodesAre DEF WriteFile, Quiet
<1>5. CASE Call(c)
  <2>1. ASSUME NEW path, MakeDirectory(c, path) PROVE Quiet
    BY <1>1, <2>1 DEF MakeDirectory, Quiet
  <2>2. ASSUME NEW path, NEW to,
               RemovePath(c, path) \/ Rename(c, path, to) \/ ResolveConflict(c, path)
        PROVE  Quiet
    BY <1>2, <2>2 DEF RemovePath, Rename, ResolveConflict
  <2>. QED
    BY <1>3, <1>4, <1>5, <2>1, <2>2 DEF Call
<1>6. CASE Step(c)
  <2>1. PutChunks(c) => Quiet
    BY <1>1 DEF PutChunks, Quiet
  <2>2. ReadHeads(c) \/ ListChildren(c) \/ CheckDestination(c) \/ RemoveDestination(c)
        => UNCHANGED documents
    BY DEF ReadHeads, ReadHeadsFor, ListChildren, CheckDestination, RemoveDestination
  <2>. QED
    BY <1>2, <1>3, <1>6, <2>1, <2>2 DEF Step
<1>. QED
  BY <1>2, <1>3, <1>4, <1>5, <1>6 DEF ClientStep, Return, ReadHeadsFor

\* Where a document is put: what the peer has of others stays.
LEMMA PutVersionAt ==
    ASSUME IInv, TypeInv, NEW c \in Clients, PutVersion(c)
    PROVE  /\ Grown /\ UNCHANGED <<log, recs, nodes>>
           /\ DOMAIN versions' = DOMAIN versions \cup {Len(versions')}
           /\ versions'[Len(versions')].by = PeerOf[c]
           /\ \A p \in Peers : held'[p] = IF p = PeerOf[c] THEN held[p] \cup {Len(versions')}
                                         ELSE held[p]
           /\ held' = [p \in Peers |-> held'[p]]
<1>1. PICK v : /\ v = [node |-> op[c].at.node, parents |-> op[c].parents,
                       content |-> op[c].content, by |-> PeerOf[c],
                       copied |-> op[c].call = "resolve"]
               /\ versions' = Append(versions, v)
  BY DEF PutVersion
<1>2. versions'[Len(versions')] = v
  BY <1>1, AppendSequence DEF IInv, Documents
<1>3. v.by = PeerOf[c]
  BY <1>1
<1>4. held' = [held EXCEPT ![PeerOf[c]] = @ \cup {Len(versions')}]
  BY VersionPut
<1>5. held = [p \in Peers |-> held[p]]
  BY DEF TypeInv, DocumentsTyped
<1>6. PeerOf[c] \in Peers
  BY PeerOfClient
<1>7. UNCHANGED <<log, recs, nodes>>
  BY DEF PutVersion
<1>. QED
  BY <1>2, <1>3, <1>4, <1>5, <1>6, <1>7, VersionPut

LEMMA PutRecordAt ==
    ASSUME IInv, TypeInv, NEW c \in Clients, PutRecord(c)
    PROVE  /\ LogGrown /\ UNCHANGED <<versions, held, nodes>>
           /\ Len(log') \in Nat /\ \A i \in DOMAIN log : i < Len(log')
           /\ DOMAIN log' = DOMAIN log \cup {Len(log')}
           /\ log'[Len(log')].by = PeerOf[c] /\ log'[Len(log')].at.node \in NodeIds
           /\ \A p \in Peers, n \in NodeIds :
                 recs'[p][n] = IF p = PeerOf[c] /\ n = log'[Len(log')].at.node THEN Len(log')
                               ELSE recs[p][n]
           /\ \A p \in Peers \ {PeerOf[c]} : recs'[p] = recs[p]
<1>1. PICK x : /\ x = [at |-> op[c].at, deleted |-> op[c].deleted, by |-> PeerOf[c]]
               /\ log' = Append(log, x)
  BY DEF PutRecord
<1>2. /\ Len(log) \in Nat /\ Len(log') = Len(log) + 1
      /\ DOMAIN log = 1 .. Len(log) /\ DOMAIN log' = 1 .. (Len(log) + 1)
      /\ LogGrown /\ log'[Len(log) + 1] = x
  BY <1>1, AppendSequence DEF IInv, Documents, LogGrown
<1>3. x.at = op[c].at /\ x.by = PeerOf[c]
  BY <1>1
<1>4. x.at.node \in NodeIds /\ PeerOf[c] \in Peers
  <2>1. op[c].phase = "record"
    BY DEF PutRecord
  <2>2. op[c].at \in PlaceType /\ PeerOf[c] \in Peers
    BY <2>1, UnderWay
  <2>. QED
    BY <1>3, <2>2 DEF PlaceType
<1>5. recs' = [recs EXCEPT ![PeerOf[c]][x.at.node] = Len(log')]
  BY <1>2, <1>3 DEF PutRecord
<1>6. recs \in [Peers -> [NodeIds -> Nat]]
  BY DEF IInv, Documents
<1>7. \A p \in Peers, n \in NodeIds :
          recs'[p][n] = IF p = PeerOf[c] /\ n = x.at.node THEN Len(log') ELSE recs[p][n]
  BY <1>4, <1>5, <1>6
<1>8. \A p \in Peers \ {PeerOf[c]} : recs'[p] = recs[p]
  BY <1>4, <1>5, <1>6
<1>9. UNCHANGED <<versions, held, nodes>>
  BY DEF PutRecord
<1>. QED
  BY <1>2, <1>3, <1>4, <1>7, <1>8, <1>9

\* What puts or delivers anything.
LEMMA FsStepIs ==
    ASSUME IInv, TypeInv, FsStep
    PROVE  \/ Quiet
           \/ \E c \in Clients : PutVersion(c) \/ PutRecord(c)
           \/ \E p \in Peers : DeliverRecord(p) \/ DeliverVersion(p)
<1>1. nodes \in Nat
  BY NodesAre DEF TypeInv, DocumentsTyped
<1>2. UNCHANGED documents => Quiet
  BY <1>1 DEF documents, Quiet
<1>3. \A p \in Peers : DeliverChunk(p) => Quiet
  BY <1>1 DEF DeliverChunk, Quiet
<1>. QED
  BY <1>2, <1>3, ClientStepIs DEF FsStep, Deliver, Crash

\* No step takes back what was put or has been delivered.
LEMMA FsGrows ==
    ASSUME IInv, TypeInv, FsStep
    PROVE  /\ LogGrown /\ Grown
           /\ \A p \in Peers : held[p] \subseteq held'[p]
           /\ \A p \in Peers, n \in NodeIds : recs[p][n] \in Nat /\ recs'[p][n] \in Nat
                                              /\ recs[p][n] <= recs'[p][n]
<1>1. recs \in [Peers -> [NodeIds -> Nat]] /\ recs \in [Peers -> [NodeIds -> {0} \cup DOMAIN log]]
  BY DEF IInv, Documents, TypeInv, DocumentsTyped
<1>2. CASE Quiet
  BY <1>1, <1>2 DEF Quiet, LogGrown, Grown
<1>3. ASSUME NEW c \in Clients, PutVersion(c)
      PROVE  /\ LogGrown /\ Grown
             /\ \A p \in Peers : held[p] \subseteq held'[p]
             /\ UNCHANGED recs
  BY <1>3, PutVersionAt DEF LogGrown
<1>4. ASSUME NEW c \in Clients, PutRecord(c)
      PROVE  /\ LogGrown /\ Grown /\ UNCHANGED held
             /\ \A p \in Peers, n \in NodeIds : recs'[p][n] \in Nat /\ recs[p][n] <= recs'[p][n]
  <2>1. /\ LogGrown /\ UNCHANGED <<versions, held>>
        /\ Len(log') \in Nat /\ \A i \in DOMAIN log : i < Len(log')
        /\ \A p \in Peers, n \in NodeIds : recs'[p][n] \in {Len(log'), recs[p][n]}
    BY <1>4, PutRecordAt
  <2>. QED
    BY <1>1, <2>1 DEF Grown
<1>5. ASSUME NEW p \in Peers, DeliverVersion(p)
      PROVE  /\ LogGrown /\ Grown
             /\ \A q \in Peers : held[q] \subseteq held'[q]
             /\ UNCHANGED recs
  <2>1. held \in [Peers -> SUBSET DOMAIN versions]
    BY DEF TypeInv, DocumentsTyped
  <2>. QED
    BY <1>5, <2>1 DEF DeliverVersion, LogGrown, Grown
<1>6. ASSUME NEW p \in Peers, DeliverRecord(p)
      PROVE  /\ LogGrown /\ Grown /\ UNCHANGED held
             /\ \A q \in Peers, n \in NodeIds : recs'[q][n] \in Nat /\ recs[q][n] <= recs'[q][n]
  <2>1. PICK i \in DOMAIN log : /\ recs[p][log[i].at.node] < i
                                /\ recs' = [recs EXCEPT ![p][log[i].at.node] = i]
                                /\ UNCHANGED <<log, versions, held>>
    BY <1>6 DEF DeliverRecord
  <2>2. i \in Nat /\ log[i].at.node \in NodeIds
    BY DEF IInv, Documents, IsSequence, TypeInv, DocumentsTyped, PlaceType
  <2>. QED
    BY <1>1, <2>1, <2>2 DEF LogGrown, Grown
<1>. QED
  BY <1>1, <1>2, <1>3, <1>4, <1>5, <1>6, FsStepIs

\* A peer that no document of others has reached has had none before.
LEMMA AloneBefore ==
    ASSUME IInv, TypeInv, FsStep, NEW p \in Peers, Alone(p)' PROVE Alone(p)
<1>1. /\ LogGrown /\ Grown /\ held[p] \subseteq held'[p]
      /\ \A n \in NodeIds : recs[p][n] \in Nat /\ recs'[p][n] \in Nat
                            /\ recs[p][n] <= recs'[p][n]
  BY FsGrows
<1>2. \A i \in DOMAIN log : i \in Nat /\ log[i].at.node \in NodeIds
  BY DEF IInv, Documents, IsSequence, TypeInv, DocumentsTyped, PlaceType
<1>3. held[p] \subseteq DOMAIN versions
  BY DEF TypeInv, DocumentsTyped
<1>4. ASSUME NEW i \in DOMAIN log, log[i].by \notin {None, p}
      PROVE  recs[p][log[i].at.node] < i
  <2>1. i \in DOMAIN log' /\ log'[i] = log[i]
    BY <1>1 DEF LogGrown
  <2>2. recs'[p][log'[i].at.node] < i
    BY <1>4, <2>1 DEF Alone
  <2>. QED
    BY <1>1, <1>2, <2>1, <2>2
<1>5. ASSUME NEW v \in held[p] PROVE versions[v].by \in {None, p}
  <2>1. v \in held'[p] /\ versions'[v] = versions[v]
    BY <1>1, <1>3 DEF Grown
  <2>. QED
    BY <2>1 DEF Alone
<1>. QED
  BY <1>4, <1>5 DEF Alone

\* What the clients of other peers do changes nothing on this one.
LEMMA TreeOfOthers ==
    ASSUME IInv, TypeInv, NEW c \in Clients, NEW d \in Clients, PeerOf[d] # PeerOf[c],
           TreeInv(c), ClientStep(d)
    PROVE  TreeInv(c)'
<1>. DEFINE p == PeerOf[c]
<1>1. /\ p \in Peers /\ PeerOf[d] \in Peers /\ PeerOf[d] \notin {None, p}
      /\ op'[c] = op[c]
  <2>1. op'[c] = op[c]
    BY ClientStepIs DEF IInv, Calls
  <2>. QED
    BY <2>1, PeerOfClient, SharedFsAssumption
<1>2. /\ nodes \in Nat
      /\ \A i \in DOMAIN log : /\ log[i].at.node \in NodeIds
                               /\ log[i].by \in {None, p} => i <= recs[p][log[i].at.node]
      /\ held = [q \in Peers |-> held[q]] /\ held[p] \subseteq DOMAIN versions
      /\ \A v \in DOMAIN versions : versions[v].by \in {None, p} => v \in held[p]
  BY DEF TreeInv, TreeParts, Newest, Created
<1>3. CASE Quiet
  <2>1. Newest(p)' /\ LogGrown /\ Grown
    BY <1>2, <1>3 DEF Quiet, Newest, LogGrown, Grown
  <2>. QED
    BY <1>1, <1>3, <2>1, TreeAside DEF Quiet
<1>4. CASE PutVersion(d)
  <2>1. /\ Grown /\ UNCHANGED <<log, recs, nodes>>
        /\ DOMAIN versions' = DOMAIN versions \cup {Len(versions')}
        /\ versions'[Len(versions')].by = PeerOf[d]
        /\ held'[p] = held[p] /\ held' = [q \in Peers |-> held'[q]]
    BY <1>1, <1>4, PutVersionAt
  <2>2. Newest(p)'
    BY <1>1, <1>2, <2>1 DEF Newest, Grown
  <2>3. LogGrown /\ nodes' \in Nat /\ nodes <= nodes'
    BY <1>2, <2>1 DEF LogGrown
  <2>. QED
    BY <1>1, <2>1, <2>2, <2>3, TreeAside
<1>5. CASE PutRecord(d)
  <2>1. /\ LogGrown /\ UNCHANGED <<versions, held, nodes>>
        /\ DOMAIN log' = DOMAIN log \cup {Len(log')}
        /\ log'[Len(log')].by = PeerOf[d] /\ log'[Len(log')].at.node \in NodeIds
        /\ recs'[p] = recs[p]
    BY <1>1, <1>5, PutRecordAt
  <2>2. Newest(p)'
    BY <1>1, <1>2, <2>1 DEF Newest, LogGrown
  <2>3. Grown /\ nodes' \in Nat /\ nodes <= nodes'
    BY <1>2, <2>1 DEF Grown
  <2>. QED
    BY <1>1, <2>1, <2>2, <2>3, TreeAside
<1>. QED
  BY <1>3, <1>4, <1>5, ClientStepIs

\* What the client of the peer does itself.
LEMMA TreeOfClient ==
    ASSUME IInv, TypeInv, NEW c \in Clients, TreeInv(c), ClientStep(c) PROVE TreeInv(c)'
<1>1. held = [q \in Peers |-> held[q]]
  BY DEF TreeInv, TreeParts, Newest
<1>2. CASE Return(c) \/ (Fail(c) /\ UNCHANGED documents)
  <2>1. op'[c] = Idle /\ UNCHANGED <<log, versions, nodes, recs, held>>
    BY <1>2, OpOf DEF Return, Fail, Continue, documents, IInv
  <2>. QED
    BY <1>1, <2>1, TreeBeside
<1>3. CASE Step(c)
  BY <1>3, TreeReadHeads, TreePutChunks, TreePutVersion, TreePutRecord, TreeListChildren,
     TreeCheckDestination, TreeRemoveDestination DEF Step, ReadHeads
<1>4. ASSUME NEW path, PathTyped(path), NEW content, NEW base,
             WriteFile(c, path, content, base)
      PROVE  TreeInv(c)'
  BY <1>4, TreeWrite DEF PathTyped
<1>. QED
  BY <1>2, <1>3, <1>4, TreeCall, TreeReadHeads DEF ClientStep

LonelyTrees ==
    \A c \in Clients :
        (\A d \in Clients : PeerOf[d] = PeerOf[c] => d = c) /\ Alone(PeerOf[c]) => TreeInv(c)

LEMMA LonelyTreesStay == ASSUME IInv, TypeInv, LonelyTrees, FsStep PROVE LonelyTrees'
<1>. SUFFICES ASSUME NEW c \in Clients, \A d \in Clients : PeerOf[d] = PeerOf[c] => d = c,
                     Alone(PeerOf[c])'
              PROVE  TreeInv(c)'
  BY DEF LonelyTrees
<1>1. TreeInv(c) /\ PeerOf[c] \in Peers
  BY AloneBefore, PeerOfClient DEF LonelyTrees
<1>2. held = [q \in Peers |-> held[q]]
  BY <1>1 DEF TreeInv, TreeParts, Newest
<1>3. CASE UNCHANGED <<documents, op>>
  BY <1>1, <1>2, <1>3, TreeBeside DEF documents
<1>4. ASSUME NEW q \in Peers, Crash(q) PROVE TreeInv(c)'
  <2>1. op'[c] \in {op[c], Idle} /\ UNCHANGED <<log, versions, nodes, recs, held>>
    BY <1>4 DEF Crash, documents
  <2>. QED
    BY <1>1, <1>2, <2>1, TreeBeside
<1>5. ASSUME NEW q \in Peers, Deliver(q) PROVE TreeInv(c)'
  BY <1>1, <1>5, TreeDeliver
<1>6. ASSUME NEW d \in Clients, ClientStep(d) PROVE TreeInv(c)'
  <2>1. CASE d = c
    BY <1>1, <1>6, <2>1, TreeOfClient
  <2>2. CASE d # c
    BY <1>1, <1>6, <2>2, TreeOfOthers
  <2>. QED
    BY <2>1, <2>2
<1>. QED
  BY <1>3, <1>4, <1>5, <1>6 DEF FsStep

LEMMA LonelyTreesAreTrees == LonelyTrees => TreeStays
<1>1. ASSUME NEW c \in Clients, TreeInv(c) PROVE IsTree(PeerOf[c])
  <2>. SUFFICES ASSUME NEW p, p = PeerOf[c]
                PROVE  /\ \A cycle \in (SUBSET Known(p)) \ {{}} :
                             \E n \in cycle : ParentOf(p, n) \notin cycle
                       /\ \A n \in Live(p) :
                             Shown(p, n) /\ ParentOf(p, n) # Root => ParentOf(p, n) \in Live(p)
    BY Zenon DEF IsTree, Known, ParentOf
  <2>. QED
    BY <1>1 DEF TreeInv, TreeParts, Acyclic, NoOrphan, Stands
<1>. QED
  BY <1>1 DEF LonelyTrees, TreeStays

\* What a peer with one client shows is a tree until a document of another peer reaches
\* it: the checks of rename and rm see what the next put changes, whatever the clients of
\* other peers do meanwhile, and whatever calls a crash has ended half-way.
THEOREM PeersKeepTrees == ASSUME SeedIsTree PROVE Spec => []TreeStays
<1>1. Init => IInv /\ TypeInv /\ LonelyTrees
  BY InitIInv, TypedInit, TreeInit DEF LonelyTrees
<1>2. IInv /\ TypeInv /\ LonelyTrees /\ [Next]_vars => IInv' /\ TypeInv' /\ LonelyTrees'
  BY NextIInv, NextIsFsStep, TypedFsStep, LonelyTreesStay
<1>. QED
  BY <1>1, <1>2, LonelyTreesAreTrees, PTL DEF Spec
-----------------------------------------------------------------------------
(* What a read finds.                                                      *)

Older(p, v) == {w \in versions[v].parents : w \in held[p] /\ versions[w].content # Deleted}

\* The versions to try, after the i-th of q has been.
TriedNext(p, q, i) == IF i > Len(q) THEN q ELSE q \o Descending(Older(p, q[i]) \ Range(q))

LEMMA DescendingIs ==
    ASSUME NEW S, IsFiniteSet(S) PROVE Descending(S) \in Seq(Range(Descending(S)))
<1>. DEFINE e(i) == CHOOSE x \in S : Cardinality({y \in S : y > x}) = i - 1
            s == [i \in 1..Cardinality(S) |-> e(i)]
<1>1. s = Descending(S)
  BY Zenon DEF Descending
<1>2. Cardinality(S) \in Nat
  BY FS_CardinalityType
<1>. HIDE DEF e
<1>3. s = [i \in 1..Cardinality(S) |-> s[i]] /\ DOMAIN s = 1..Cardinality(S)
  OBVIOUS
<1>. HIDE DEF s
<1>4. \A i \in 1..Cardinality(S) : s[i] \in Range(s)
  BY <1>3 DEF Range
<1>. QED
  BY <1>1, <1>2, <1>3, <1>4

LEMMA CandidatesAre ==
    ASSUME Len(versions) \in Nat, DOMAIN versions = 1..Len(versions),
           NEW p, held[p] \subseteq DOMAIN versions, NEW n
    PROVE  /\ IsSequence(ReadCandidates(p, n))
           /\ Visible(p, n) = None => ReadCandidates(p, n) = <<>>
           /\ Visible(p, n) # None => /\ 1 \in DOMAIN ReadCandidates(p, n)
                                      /\ ReadCandidates(p, n)[1] = Visible(p, n)
<1>. DEFINE N == Len(versions)
            v == Visible(p, n)
            X == {v} \cup UNION {Range(Descending(T)) : T \in SUBSET (1..N)}
            S == {q \in Seq(X) : q # <<>> /\ q[1] = v}
            step == [i \in 1..N |-> [q \in S |-> TriedNext(p, q, i)]]
            Goes(f) == f = [i \in 0..N |-> IF i = 0 THEN <<v>> ELSE TriedNext(p, f[i - 1], i)]
            queue == CHOOSE f : Goes(f)
<1>1. ASSUME NEW q \in S, NEW i \in 1..N PROVE TriedNext(p, q, i) \in S
  <2>1. PICK T : T = Older(p, q[i]) \ Range(q)
    OBVIOUS
  <2>2. T \in SUBSET (1..N)
    BY <2>1 DEF Older
  <2>3. IsFiniteSet(T)
    <3>1. N \in Nat
      OBVIOUS
    <3>. HIDE DEF N, S, X, v
    <3>. QED
      BY <2>2, <3>1, UpTo, FS_Subset
  <2>4. Descending(T) \in Seq(Range(Descending(T))) /\ Range(Descending(T)) \subseteq X
    BY <2>2, <2>3, DescendingIs
  <2>5. PICK t \in Seq(X) : t = Descending(T)
    BY <2>4, SeqMonotonic
  <2>. HIDE DEF X
  <2>6. q \in Seq(X) /\ q # <<>> /\ q[1] = v
    OBVIOUS
  <2>7. q \o t \in Seq(X) /\ q \o t # <<>> /\ (q \o t)[1] = q[1]
    BY <2>5, <2>6
  <2>. QED
    BY <2>1, <2>5, <2>6, <2>7 DEF TriedNext
<1>2. <<v>> \in S
  <2>1. v \in X
    OBVIOUS
  <2>. HIDE DEF X
  <2>2. <<v>> \in Seq(X) /\ <<v>> # <<>> /\ <<v>>[1] = v
    BY <2>1
  <2>. QED
    BY <2>2
<1>3. step \in [1..N -> [S -> S]]
  <2>. HIDE DEF S
  <2>. QED
    BY <1>1
<1>4. PICK f \in [0..N -> S] : f[0] = <<v>> /\ \A i \in 1..N : f[i] = step[i][f[i - 1]]
  <2>1. N \in Nat
    OBVIOUS
  <2>. HIDE DEF N, S, X, step, v, Goes, queue
  <2>2. PICK m, Q, w, t : m = N /\ Q = S /\ w = <<v>> /\ t = step
    OBVIOUS
  <2>3. m \in Nat /\ w \in Q /\ t \in [1..m -> [Q -> Q]]
    BY <1>2, <1>3, <2>1, <2>2
  <2>4. \E f \in [0..m -> Q] : f[0] = w /\ \A i \in 1..m : f[i] = t[i][f[i - 1]]
    BY <2>3, StepsExist
  <2>. QED
    BY <2>2, <2>4
<1>. HIDE DEF S, v
<1>5. Goes(f)
  <2>1. ASSUME NEW i \in 0..N
        PROVE  f[i] = IF i = 0 THEN <<v>> ELSE TriedNext(p, f[i - 1], i)
    <3>1. CASE i = 0
      BY <1>4, <3>1
    <3>2. CASE i # 0
      <4>1. i \in 1..N /\ i - 1 \in 0..N
        BY <3>2
      <4>2. f[i - 1] \in S
        BY <1>4, <4>1
      <4>. QED
        BY <1>4, <3>2, <4>1, <4>2
    <3>. QED
      BY <3>1, <3>2
  <2>. QED
    BY <1>4, <2>1
<1>6. Goes(queue)
  BY <1>5, Zenon
<1>7. ASSUME NEW g, Goes(g) PROVE g[N] \in S
  <2>. DEFINE T == {i \in 0..N : g[i] \notin S}
  <2>1. ASSUME T # {} PROVE FALSE
    <3>1. T \subseteq Nat
      OBVIOUS
    <3>2. PICK i \in T : \A j \in T : i <= j
      BY <2>1, <3>1, SmallestNumber
    <3>3. i # 0
      BY <1>2, <1>7
    <3>4. i \in 1..N /\ i - 1 \in 0..N /\ i - 1 \notin T
      BY <3>2, <3>3
    <3>5. g[i - 1] \in S /\ g[i] = TriedNext(p, g[i - 1], i)
      BY <1>7, <3>3, <3>4
    <3>. QED
      BY <1>1, <3>4, <3>5
  <2>. QED
    BY <2>1
<1>8. ReadCandidates(p, n) = IF v = None THEN <<>> ELSE queue[N]
  BY Zenon DEF ReadCandidates, TriedNext, Older, v
<1>9. queue[N] \in S
  BY <1>6, <1>7, Zenon
<1>10. queue[N] \in Seq(X) /\ queue[N] # <<>> /\ queue[N][1] = v
  BY <1>9 DEF S
<1>. HIDE DEF X, queue
<1>11. 1 \in DOMAIN queue[N] /\ IsSequence(queue[N])
  BY <1>10, SeqOfRange DEF IsSequence
<1>12. IsSequence(<<>>)
  BY DEF IsSequence
<1>13. IsSequence(ReadCandidates(p, n))
  BY <1>8, <1>11, <1>12
<1>14. v = None => ReadCandidates(p, n) = <<>>
  BY <1>8
<1>15. v # None => 1 \in DOMAIN ReadCandidates(p, n) /\ ReadCandidates(p, n)[1] = v
  BY <1>8, <1>10, <1>11
<1>. QED
  BY <1>13, <1>14, <1>15 DEF v

\* What is read is complete.
LEMMA ReadIs ==
    ASSUME IInv, TypeInv, NEW p \in Peers, NEW n, NEW available,
           ReadVersion(p, n, available) # None
    PROVE  versions[ReadVersion(p, n, available)].content \in available
<1>. DEFINE tried == ReadCandidates(p, n)
            complete == {i \in DOMAIN tried : versions[tried[i]].content \in available}
<1>1. Len(versions) \in Nat /\ DOMAIN versions = 1..Len(versions)
  BY AppendSequence DEF IInv, Documents
<1>2. held[p] \subseteq DOMAIN versions
  BY DEF TypeInv, DocumentsTyped
<1>3. IsSequence(tried)
  BY <1>1, <1>2, CandidatesAre
<1>4. complete \subseteq Nat
  BY <1>3, AppendSequence
<1>5. complete # {} /\ ReadVersion(p, n, available) = tried[Min(complete)]
  BY Zenon DEF ReadVersion
<1>6. Min(complete) \in complete
  BY <1>4, <1>5, MinIs
<1>. QED
  BY <1>5, <1>6
-----------------------------------------------------------------------------
(* Types of the mount.                                                     *)

Flags(h) == h.create \in BOOLEAN /\ h.truncate \in BOOLEAN /\ h.dirty \in BOOLEAN

\* What a handle is based on, among the versions in D.
Based(h, D) ==
    /\ h.baseContent \in Contents \cup {None}
    /\ h.base = None \/ h.base \in (SUBSET D) \ {{}}
    /\ h.base = None <=> h.baseContent = None

HandleIn(h, D) == Flags(h) /\ Based(h, D) /\ h.content \in Contents /\ PathTyped(h.path)

HandlesTyped == \A c \in Clients : HandleIn(handle[c], DOMAIN versions)

LEMMA ClosedTyped == ASSUME NEW D PROVE HandleShape(Closed) /\ HandleIn(Closed, D)
<1>1. HandleShape(Closed)
  BY DEF Closed, HandleShape
<1>2. Flags(Closed)
  BY Zenon DEF Closed, Flags
<1>3. Based(Closed, D) /\ Closed.content \in Contents /\ PathTyped(Closed.path)
  BY MountAssumption DEF Closed, Based, PathTyped, IsSequence
<1>. QED
  BY <1>1, <1>2, <1>3 DEF HandleIn

LEMMA HandleInMore ==
    ASSUME NEW h, NEW D, NEW E, D \subseteq E, HandleIn(h, D) PROVE HandleIn(h, E)
BY DEF HandleIn, Based

\* A handle that stays as it is but for what is being done with it.
LEMMA HandleChanged ==
    ASSUME NEW h, HandleShape(h), NEW D, HandleIn(h, D),
           NEW k, HandleShape(k), k.create = h.create, k.truncate = h.truncate,
           k.dirty \in BOOLEAN, k.content \in Contents, PathTyped(k.path),
           k.base = h.base, k.baseContent = h.baseContent
    PROVE  HandleIn(k, D)
<1>1. Flags(k)
  BY Zenon DEF HandleIn, Flags
<1>2. Based(k, D)
  BY DEF HandleIn, Based
<1>. QED
  BY <1>1, <1>2 DEF HandleIn

\* A step that sets one handle, or that has an effect on no handle.
LEMMA OneHandleTyped ==
    ASSUME Handles, HandlesTyped, Grown, NEW c \in Clients, NEW h, SetHandle(c, h),
           HandleIn(h, DOMAIN versions)
    PROVE  HandlesTyped'
<1>1. DOMAIN versions \subseteq DOMAIN versions'
  BY DEF Grown
<1>2. \A d \in Clients : handle'[d] = IF d = c THEN h ELSE handle[d]
  BY DEF Handles, SetHandle
<1>3. \A d \in Clients : HandleIn(handle'[d], DOMAIN versions')
  BY <1>1, <1>2, HandleInMore DEF HandlesTyped
<1>. QED
  BY <1>3 DEF HandlesTyped

LEMMA SameHandlesTyped == ASSUME HandlesTyped, Grown, UNCHANGED handle PROVE HandlesTyped'
<1>1. DOMAIN versions \subseteq DOMAIN versions'
  BY DEF Grown
<1>. QED
  BY <1>1, HandleInMore DEF HandlesTyped

LEMMA PathsJoined ==
    ASSUME NEW to, PathTyped(to), to # <<>>, NEW from, IsSequence(from),
           NEW path, PathTyped(path), IsPrefix(from, path)
    PROVE  PathTyped(to \o SubSeq(path, Len(from) + 1, Len(path)))
<1>1. /\ Len(to) \in Nat /\ Len(from) \in Nat /\ Len(path) \in Nat
      /\ DOMAIN to = 1..Len(to) /\ DOMAIN path = 1..Len(path)
  BY AppendSequence DEF PathTyped
<1>2. Len(from) <= Len(path)
  BY <1>1 DEF IsPrefix
<1>. DEFINE S == Range(to) \cup Range(path)
            rest == SubSeq(path, Len(from) + 1, Len(path))
            joined == to \o rest
<1>3. to \in Seq(S) /\ path \in Seq(S)
  BY SeqMonotonic DEF PathTyped, IsSequence
<1>. HIDE DEF S
<1>4. /\ rest \in Seq(S) /\ Len(rest) = Len(path) - Len(from)
      /\ \A i \in 1..Len(rest) : rest[i] = path[Len(from) + i]
  BY <1>1, <1>2, <1>3
<1>. HIDE DEF rest
<1>5. /\ joined \in Seq(S) /\ Len(joined) = Len(to) + Len(rest)
      /\ \A i \in 1..Len(to) : joined[i] = to[i]
      /\ \A i \in 1..Len(rest) : joined[Len(to) + i] = rest[i]
  <2>1. /\ to \o rest \in Seq(S) /\ Len(to \o rest) = Len(to) + Len(rest)
        /\ \A i \in 1 .. Len(to) + Len(rest) :
               (to \o rest)[i] = IF i <= Len(to) THEN to[i] ELSE rest[i - Len(to)]
    BY <1>3, <1>4, ConcatProperties
  <2>2. Len(to) \in Nat /\ Len(rest) \in Nat
    BY <1>3, <1>4
  <2>3. ASSUME NEW i \in 1..Len(to) PROVE joined[i] = to[i]
    BY <2>1, <2>2
  <2>4. ASSUME NEW i \in 1..Len(rest) PROVE joined[Len(to) + i] = rest[i]
    <3>1. Len(to) + i \in 1 .. Len(to) + Len(rest) /\ ~(Len(to) + i <= Len(to))
      BY <2>2
    <3>2. (Len(to) + i) - Len(to) = i
      BY <2>2
    <3>. QED
      BY <2>1, <3>1, <3>2
  <2>. QED
    BY <2>1, <2>3, <2>4
<1>6. IsSequence(joined)
  BY <1>5, SeqOfRange DEF IsSequence
<1>7. Len(to) # 0
  BY <1>3
<1>8. Last(joined) \in Names
  <2>1. CASE Len(rest) = 0
    <3>1. Len(joined) = Len(to) /\ Len(to) \in 1..Len(to)
      BY <1>1, <1>5, <1>7, <2>1
    <3>. QED
      BY <1>5, <3>1 DEF Last, PathTyped
  <2>2. CASE Len(rest) # 0
    <3>1. Len(rest) \in 1..Len(rest) /\ Len(from) + Len(rest) = Len(path)
      BY <1>1, <1>2, <1>4, <2>2
    <3>2. joined[Len(joined)] = path[Len(path)]
      BY <1>4, <1>5, <3>1
    <3>3. path # <<>>
      BY <1>1, <1>4, <2>2
    <3>. QED
      BY <3>2, <3>3 DEF Last, PathTyped
  <2>. QED
    BY <2>1, <2>2
<1>. QED
  BY <1>6, <1>8 DEF PathTyped, rest

LEMMA HandleTyped ==
    ASSUME IInv, Handles, HandlesTyped, NEW c \in Clients
    PROVE  HandleShape(handle[c]) /\ HandleIn(handle[c], DOMAIN versions)
BY HandleParts DEF HandlesTyped

LEMMA VersionsCounted ==
    ASSUME IInv PROVE Len(versions) \in Nat /\ DOMAIN versions = 1..Len(versions)
BY AppendSequence DEF IInv, Documents

\* What shows is the version of a file that heads are there for, and has a content.
LEMMA VisibleIs ==
    ASSUME IInv, TypeInv, NEW p \in Peers, NEW n, Visible(p, n) # None
    PROVE  /\ Heads(p, n) \in (SUBSET DOMAIN versions) \ {{}}
           /\ versions[Visible(p, n)].content \in Contents
<1>1. Heads(p, n) \subseteq 1..Len(versions) /\ Len(versions) \in Nat
  BY HeadsTyped, VersionsCounted
<1>2. /\ Heads(p, n) # {} /\ Visible(p, n) = Max(Heads(p, n))
      /\ versions[Max(Heads(p, n))].content # Deleted
  BY Zenon DEF Visible
<1>3. Max(Heads(p, n)) \in Heads(p, n)
  BY <1>1, <1>2, MaxIs
<1>4. versions[Max(Heads(p, n))].content \in Contents \cup {Deleted}
  BY <1>1, <1>3, VersionsCounted DEF TypeInv, DocumentsTyped, VersionIn
<1>5. Heads(p, n) \subseteq DOMAIN versions
  BY HeadsTyped
<1>6. versions[Visible(p, n)].content \in Contents
  BY <1>2, <1>4
<1>7. Heads(p, n) \in SUBSET DOMAIN versions
  BY <1>5
<1>. QED
  BY <1>2, <1>6, <1>7

LEMMA AvailableIs ==
    ASSUME TypeInv, NEW p \in Peers, NEW available \in Available(p)
    PROVE  available \subseteq Contents
BY DEF Available, TypeInv, DocumentsTyped

LEMMA TypedOpenPath ==
    ASSUME NoneIsNoSet, IInv, Handles, TypeInv, HandlesTyped, Grown,
           NEW c \in Clients, NEW o \in Opens, OpenPath(c, o)
    PROVE  HandlesTyped'
<1>. DEFINE p == PeerOf[c]
            n == ResolvePath(p, o.path)
            heads == Heads(p, n)
            content == versions[Visible(p, n)].content
            new == [Closed EXCEPT !.phase = "opening", !.path = o.path,
                                  !.create = o.create, !.truncate = o.truncate]
<1>1. /\ ~IsDirectory(p, n)
      /\ SetHandle(c, IF n # None /\ Shown(p, n)
                      THEN [new EXCEPT !.base = heads, !.opened = heads,
                                       !.baseContent = content]
                      ELSE new)
  BY Zenon DEF OpenPath
<1>2. PathTyped(o.path) /\ o.create \in BOOLEAN /\ o.truncate \in BOOLEAN
  <2>1. {o.create, o.truncate} \subseteq BOOLEAN
    BY MountAssumption
  <2>2. o.create \in BOOLEAN /\ o.truncate \in BOOLEAN
    BY <2>1, Zenon
  <2>. QED
    BY <2>2, MountAssumption DEF PathTyped
<1>3. /\ HandleShape(new) /\ new.path = o.path /\ new.create = o.create
      /\ new.truncate = o.truncate /\ new.content = Empty /\ new.base = None
      /\ new.baseContent = None
  BY DEF Closed, HandleShape
<1>4. new.dirty \in BOOLEAN
  BY Zenon DEF Closed
<1>5. Empty \in Contents
  BY MountAssumption
<1>. HIDE DEF new, heads, content, n, p
<1>6. Flags(new)
  BY <1>2, <1>3, <1>4, Zenon DEF Flags
<1>7. HandleIn(new, DOMAIN versions)
  BY <1>2, <1>3, <1>5, <1>6 DEF HandleIn, Based
<1>8. CASE n # None /\ Shown(p, n)
  <2>1. PICK k : k = [new EXCEPT !.base = heads, !.opened = heads, !.baseContent = content]
    OBVIOUS
  <2>2. SetHandle(c, k)
    BY <1>1, <1>8, <2>1, Zenon
  <2>3. heads \in (SUBSET DOMAIN versions) \ {{}} /\ content \in Contents
    BY <1>1, <1>8, VisibleIs, PeerOfClient DEF Shown, heads, content, p
  <2>4. heads # None /\ content # None
    BY <2>3, VersionsCounted, SharedFsAssumption DEF NoneIsNoSet
  <2>5. /\ k.path = new.path /\ k.create = new.create /\ k.truncate = new.truncate
        /\ k.dirty = new.dirty /\ k.content = new.content /\ k.base = heads
        /\ k.baseContent = content
    BY <1>3, <2>1 DEF HandleShape
  <2>6. Flags(k)
    BY <1>6, <2>5, Zenon DEF Flags
  <2>7. HandleIn(k, DOMAIN versions)
    BY <1>7, <2>3, <2>4, <2>5, <2>6 DEF HandleIn, Based
  <2>. QED
    BY <2>2, <2>7, OneHandleTyped
<1>9. CASE ~(n # None /\ Shown(p, n))
  <2>1. SetHandle(c, new)
    BY <1>1, <1>9, Zenon
  <2>. QED
    BY <1>7, <2>1, OneHandleTyped
<1>. QED
  BY <1>8, <1>9

LEMMA TypedLoadContent ==
    ASSUME IInv, Handles, TypeInv, HandlesTyped, Grown, NEW c \in Clients, LoadContent(c)
    PROVE  HandlesTyped'
<1>. DEFINE p == PeerOf[c]
            h == handle[c]
            n == ResolvePath(p, h.path)
            loaded == [h EXCEPT !.phase = "open",
                                !.dirty = h.truncate \/ (h.create /\ h.base = None)]
            read(available) == ReadVersion(p, n, available)
<1>1. HandleShape(h) /\ HandleIn(h, DOMAIN versions) /\ p \in Peers
  BY HandleTyped, PeerOfClient
<1>2. \/ \E seen : SetHandle(c, [loaded EXCEPT !.seen = seen])
      \/ \E available \in Available(p) : \E seen :
            SetHandle(c, IF read(available) = None THEN Closed
                         ELSE [loaded EXCEPT !.content = versions[read(available)].content,
                                             !.seen = seen])
  BY Zenon DEF LoadContent
<1>3. /\ HandleShape(loaded) /\ loaded.create = h.create /\ loaded.truncate = h.truncate
      /\ loaded.content = h.content /\ loaded.path = h.path /\ loaded.base = h.base
      /\ loaded.baseContent = h.baseContent
  BY <1>1 DEF HandleShape
<1>4. loaded.dirty \in BOOLEAN
  BY <1>1, Zenon DEF HandleShape
<1>. HIDE DEF loaded, read, p, h, n
<1>5. ASSUME NEW content \in Contents, NEW seen, NEW k,
             k = [loaded EXCEPT !.content = content, !.seen = seen]
      PROVE  HandleIn(k, DOMAIN versions)
  <2>1. /\ HandleShape(k) /\ k.create = h.create /\ k.truncate = h.truncate
        /\ k.content = content /\ k.path = h.path /\ k.base = h.base
        /\ k.baseContent = h.baseContent /\ k.dirty = loaded.dirty
    BY <1>3, <1>5 DEF HandleShape
  <2>2. k.dirty \in BOOLEAN
    BY <1>4, <2>1, Zenon
  <2>3. PathTyped(k.path)
    BY <1>1, <2>1 DEF HandleIn
  <2>. QED
    BY <1>1, <2>1, <2>2, <2>3, HandleChanged
<1>6. ASSUME NEW seen, SetHandle(c, [loaded EXCEPT !.seen = seen]) PROVE HandlesTyped'
  <2>1. [loaded EXCEPT !.seen = seen] = [loaded EXCEPT !.content = h.content, !.seen = seen]
    BY <1>3 DEF HandleShape
  <2>2. h.content \in Contents
    BY <1>1 DEF HandleIn
  <2>3. HandleIn([loaded EXCEPT !.content = h.content, !.seen = seen], DOMAIN versions)
    BY <1>5, <2>2
  <2>. QED
    BY <1>6, <2>1, <2>3, OneHandleTyped
<1>7. ASSUME NEW available \in Available(p), NEW seen,
             SetHandle(c, IF read(available) = None THEN Closed
                          ELSE [loaded EXCEPT !.content = versions[read(available)].content,
                                              !.seen = seen])
      PROVE  HandlesTyped'
  <2>1. CASE read(available) = None
    <3>1. SetHandle(c, Closed)
      BY <1>7, <2>1, Zenon
    <3>. QED
      BY <3>1, ClosedTyped, OneHandleTyped
  <2>2. CASE read(available) # None
    <3>1. PICK content : content = versions[read(available)].content
      OBVIOUS
    <3>2. SetHandle(c, [loaded EXCEPT !.content = content, !.seen = seen])
      BY <1>7, <2>2, <3>1, Zenon
    <3>3. content \in available
      BY <1>1, <2>2, <3>1, ReadIs DEF read
    <3>4. content \in Contents
      BY <1>1, <3>3, AvailableIs
    <3>5. HandleIn([loaded EXCEPT !.content = content, !.seen = seen], DOMAIN versions)
      BY <1>5, <3>4
    <3>. QED
      BY <3>2, <3>5, OneHandleTyped
  <2>. QED
    BY <2>1, <2>2
<1>. QED
  BY <1>2, <1>6, <1>7

\* A step that leaves a handle its path, its flags and what it is based on.
LEMMA TypedChange ==
    ASSUME IInv, Handles, HandlesTyped, Grown, NEW c \in Clients, NEW k, SetHandle(c, k),
           HandleShape(k), k.create = handle[c].create, k.truncate = handle[c].truncate,
           k.dirty \in BOOLEAN, k.content \in Contents, k.path = handle[c].path,
           k.base = handle[c].base, k.baseContent = handle[c].baseContent
    PROVE  HandlesTyped'
<1>1. HandleShape(handle[c]) /\ HandleIn(handle[c], DOMAIN versions)
  BY HandleTyped
<1>2. PathTyped(k.path)
  BY <1>1 DEF HandleIn
<1>3. HandleIn(k, DOMAIN versions)
  BY <1>1, <1>2, HandleChanged
<1>. QED
  BY <1>3, OneHandleTyped

LEMMA TypedWriteHandle ==
    ASSUME IInv, Handles, HandlesTyped, Grown, NEW c \in Clients, NEW x \in Contents,
           WriteHandle(c, x)
    PROVE  HandlesTyped'
<1>1. PICK k : k = [handle[c] EXCEPT !.content = x, !.dirty = TRUE]
  OBVIOUS
<1>2. SetHandle(c, k)
  BY <1>1 DEF WriteHandle
<1>3. HandleShape(handle[c])
  BY HandleTyped
<1>4. /\ HandleShape(k) /\ k.create = handle[c].create /\ k.truncate = handle[c].truncate
      /\ k.content = x /\ k.path = handle[c].path /\ k.base = handle[c].base
      /\ k.baseContent = handle[c].baseContent
  BY <1>1, <1>3 DEF HandleShape
<1>5. k.dirty \in BOOLEAN
  BY <1>1, <1>3, Zenon DEF HandleShape
<1>. QED
  BY <1>2, <1>4, <1>5, TypedChange

\* A handle whose dirty flag is set or taken back.
LEMMA TypedDirty ==
    ASSUME IInv, Handles, HandlesTyped, Grown, NEW c \in Clients, NEW dirty \in BOOLEAN,
           SetHandle(c, [handle[c] EXCEPT !.dirty = dirty])
    PROVE  HandlesTyped'
<1>1. PICK k : k = [handle[c] EXCEPT !.dirty = dirty]
  OBVIOUS
<1>2. HandleShape(handle[c]) /\ HandleIn(handle[c], DOMAIN versions)
  BY HandleTyped
<1>3. /\ HandleShape(k) /\ k.create = handle[c].create /\ k.truncate = handle[c].truncate
      /\ k.content = handle[c].content /\ k.path = handle[c].path
      /\ k.base = handle[c].base /\ k.baseContent = handle[c].baseContent
  BY <1>1, <1>2 DEF HandleShape
<1>4. k.dirty \in BOOLEAN
  BY <1>1, <1>2, Zenon DEF HandleShape
<1>5. k.content \in Contents
  BY <1>2, <1>3 DEF HandleIn
<1>. QED
  BY <1>1, <1>3, <1>4, <1>5, TypedChange

LEMMA TypedAfterFailure ==
    ASSUME IInv, Handles, HandlesTyped, Grown, NEW c \in Clients,
           SetHandle(c, AfterFailure(handle[c]))
    PROVE  HandlesTyped'
<1>1. TRUE \in BOOLEAN
  BY Zenon
<1>2. SetHandle(c, Closed) \/ SetHandle(c, [handle[c] EXCEPT !.dirty = TRUE])
  BY Zenon DEF AfterFailure
<1>. QED
  BY <1>1, <1>2, ClosedTyped, OneHandleTyped, TypedDirty

LEMMA TypedCommit ==
    ASSUME IInv, Handles, HandlesTyped, Grown, NEW c \in Clients, Commit(c)
    PROVE  HandlesTyped'
<1>1. FALSE \in BOOLEAN
  BY Zenon
<1>2. SetHandle(c, [handle[c] EXCEPT !.dirty = FALSE]) \/ SetHandle(c, AfterFailure(handle[c]))
  BY Zenon DEF Commit
<1>. QED
  BY <1>1, <1>2, TypedDirty, TypedAfterFailure

LEMMA TypedRelease ==
    ASSUME IInv, Handles, HandlesTyped, Grown, NEW c \in Clients, Release(c)
    PROVE  HandlesTyped'
<1>1. PICK k : k = [handle[c] EXCEPT !.phase = "releasing"]
  OBVIOUS
<1>2. SetHandle(c, k)
  BY <1>1 DEF Release
<1>3. HandleShape(handle[c]) /\ HandleIn(handle[c], DOMAIN versions)
  BY HandleTyped
<1>4. /\ HandleShape(k) /\ k.create = handle[c].create /\ k.truncate = handle[c].truncate
      /\ k.content = handle[c].content /\ k.path = handle[c].path
      /\ k.base = handle[c].base /\ k.baseContent = handle[c].baseContent
      /\ k.dirty = handle[c].dirty
  BY <1>1, <1>3 DEF HandleShape
<1>5. k.dirty \in BOOLEAN
  BY <1>3, <1>4, Zenon DEF HandleIn, Flags
<1>6. k.content \in Contents
  BY <1>3, <1>4 DEF HandleIn
<1>. QED
  BY <1>2, <1>4, <1>5, <1>6, TypedChange

LEMMA TypedPutSavedVersion ==
    ASSUME IInv, Handles, HandlesTyped, Grown, NEW c \in Clients, PutSavedVersion(c)
    PROVE  HandlesTyped'
<1>1. PICK saved, k : saved = handle[c].saved \cup {Len(versions')}
                      /\ k = [handle[c] EXCEPT !.saved = saved]
  OBVIOUS
<1>2. SetHandle(c, k)
  BY <1>1 DEF PutSavedVersion
<1>3. HandleShape(handle[c]) /\ HandleIn(handle[c], DOMAIN versions)
  BY HandleTyped
<1>4. /\ HandleShape(k) /\ k.create = handle[c].create /\ k.truncate = handle[c].truncate
      /\ k.content = handle[c].content /\ k.path = handle[c].path
      /\ k.base = handle[c].base /\ k.baseContent = handle[c].baseContent
      /\ k.dirty = handle[c].dirty
  BY <1>1, <1>3 DEF HandleShape
<1>5. k.dirty \in BOOLEAN
  BY <1>3, <1>4, Zenon DEF HandleIn, Flags
<1>6. k.content \in Contents
  BY <1>3, <1>4 DEF HandleIn
<1>. QED
  BY <1>2, <1>4, <1>5, <1>6, TypedChange

\* What a save returns is a version with the content of the call.
LEMMA TypedSaveReturns ==
    ASSUME NoneIsNoSet, IInv, Handles, TypeInv, HandlesTyped, Grown,
           NEW c \in Clients, SaveReturns(c)
    PROVE  HandlesTyped'
<1>1. PICK base, content, k :
          /\ base = {op[c].result} /\ content = versions[op[c].result].content
          /\ k = [handle[c] EXCEPT !.base = base, !.baseContent = content]
  OBVIOUS
<1>2. /\ SetHandle(c, Closed) \/ SetHandle(c, k)
      /\ IsOpen(c) /\ op[c].call = "write" /\ op[c].phase = "done"
  <2>1. SetHandle(c, IF handle[c].phase = "releasing" THEN Closed ELSE k)
    BY <1>1 DEF SaveReturns
  <2>2. SetHandle(c, Closed) \/ SetHandle(c, k)
    BY <2>1, Zenon
  <2>. QED
    BY <2>2 DEF SaveReturns, IsSave, Return
<1>3. HandleShape(handle[c]) /\ HandleIn(handle[c], DOMAIN versions) /\ SaveRuns(c)
  BY HandleTyped, HandleParts
<1>4. op[c].result \in DOMAIN versions /\ content = op[c].content
  BY <1>1, <1>2, <1>3, NotIdle DEF SaveRuns
<1>5. content \in Contents
  BY <1>2, <1>4 DEF TypeInv, CallIn
<1>6. base \in (SUBSET DOMAIN versions) \ {{}} /\ base # None /\ content # None
  <2>1. base # {} /\ base \in SUBSET DOMAIN versions /\ base \in SUBSET Nat
    BY <1>1, <1>4, VersionsCounted
  <2>. QED
    BY <1>5, <2>1, SharedFsAssumption DEF NoneIsNoSet
<1>7. /\ k.create = handle[c].create /\ k.truncate = handle[c].truncate
      /\ k.content = handle[c].content /\ k.path = handle[c].path
      /\ k.base = base /\ k.baseContent = content /\ k.dirty = handle[c].dirty
  BY <1>1, <1>3 DEF HandleShape
<1>8. Flags(k)
  BY <1>3, <1>7, Zenon DEF HandleIn, Flags
<1>9. HandleIn(k, DOMAIN versions)
  BY <1>3, <1>5, <1>6, <1>7, <1>8 DEF HandleIn, Based
<1>. QED
  BY <1>2, <1>9, ClosedTyped, OneHandleTyped

LEMMA TypedReturnCall ==
    ASSUME IInv, Handles, TypeInv, HandlesTyped, Grown, NEW c \in Clients, ReturnCall(c)
    PROVE  HandlesTyped'
<1>1. PICK o : o = op[c]
  OBVIOUS
<1>2. CASE o.call # "rename"
  BY <1>1, <1>2, SameHandlesTyped DEF ReturnCall
<1>3. CASE o.call = "rename"
  <2>1. PathTyped(o.path) /\ o.path # <<>> /\ IsSequence(o.from)
    <3>1. CallIn(o, DOMAIN versions)
      BY <1>1 DEF TypeInv
    <3>. QED
      BY <1>3, <3>1 DEF CallIn, PathTyped
  <2>2. ASSUME NEW d \in Clients
        PROVE  handle'[d] = handle[d] \/ handle'[d] = Retarget(handle[d], o.from, o.path)
    <3>1. handle' = [e \in Clients |->
                       IF PeerOf[e] = PeerOf[c] /\ IsOpen(e)
                       THEN Retarget(handle[e], o.from, o.path)
                       ELSE handle[e]]
      BY <1>1, <1>3 DEF ReturnCall
    <3>. QED
      BY <3>1
  <2>3. ASSUME NEW d \in Clients PROVE HandleIn(Retarget(handle[d], o.from, o.path),
                                                DOMAIN versions)
    <3>1. PICK h : h = handle[d] /\ HandleShape(h) /\ HandleIn(h, DOMAIN versions)
      BY HandleTyped
    <3>2. CASE ~IsPrefix(o.from, h.path)
      BY <3>1, <3>2 DEF Retarget
    <3>3. CASE IsPrefix(o.from, h.path)
      <4>1. PICK path : path = o.path \o SubSeq(h.path, Len(o.from) + 1, Len(h.path))
        OBVIOUS
      <4>2. PICK k : k = [h EXCEPT !.path = path]
        OBVIOUS
      <4>3. k = Retarget(h, o.from, o.path)
        BY <3>3, <4>1, <4>2 DEF Retarget
      <4>4. PathTyped(h.path)
        BY <3>1 DEF HandleIn
      <4>5. PathTyped(path)
        BY <2>1, <3>3, <4>1, <4>4, PathsJoined
      <4>6. /\ HandleShape(k) /\ k.create = h.create /\ k.truncate = h.truncate
            /\ k.content = h.content /\ k.path = path /\ k.base = h.base
            /\ k.baseContent = h.baseContent /\ k.dirty = h.dirty
        BY <3>1, <4>2 DEF HandleShape
      <4>7. Flags(k)
        BY <3>1, <4>6, Zenon DEF HandleIn, Flags
      <4>8. HandleIn(k, DOMAIN versions)
        BY <3>1, <4>5, <4>6, <4>7 DEF HandleIn, Based
      <4>. QED
        BY <3>1, <4>3, <4>8
    <3>. QED
      BY <3>2, <3>3
  <2>4. DOMAIN versions \subseteq DOMAIN versions'
    BY DEF Grown
  <2>5. ASSUME NEW d \in Clients PROVE HandleIn(handle'[d], DOMAIN versions')
    <3>1. HandleIn(handle'[d], DOMAIN versions)
      BY <2>2, <2>3 DEF HandlesTyped
    <3>. QED
      BY <2>4, <3>1, HandleInMore
  <2>. QED
    BY <2>5 DEF HandlesTyped
<1>. QED
  BY <1>2, <1>3

LEMMA TypedCrashMount ==
    ASSUME Handles, HandlesTyped, Grown, NEW p \in Peers, CrashMount(p) PROVE HandlesTyped'
<1>1. DOMAIN versions \subseteq DOMAIN versions'
  BY DEF Grown
<1>2. \A d \in Clients : handle'[d] \in {handle[d], Closed}
  BY DEF CrashMount
<1>3. \A d \in Clients : HandleIn(handle'[d], DOMAIN versions')
  BY <1>1, <1>2, ClosedTyped, HandleInMore DEF HandlesTyped
<1>. QED
  BY <1>3 DEF HandlesTyped

LEMMA MountStepTyped ==
    ASSUME NoneIsNoSet, MountInv, TypeInv, HandlesTyped, [MountNext]_mountVars
    PROVE  HandlesTyped'
<1>1. IInv /\ Handles /\ Grown
  BY VersionsStay DEF MountInv
<1>2. ASSUME NEW c \in Clients, NEW o \in Opens, OpenPath(c, o) PROVE HandlesTyped'
  BY <1>1, <1>2, TypedOpenPath
<1>3. ASSUME NEW c \in Clients, NEW x \in Contents, WriteHandle(c, x) PROVE HandlesTyped'
  BY <1>1, <1>3, TypedWriteHandle
<1>4. ASSUME NEW c \in Clients, Released(c) PROVE HandlesTyped'
  BY <1>1, <1>4, ClosedTyped, OneHandleTyped DEF Released
<1>5. ASSUME NEW c \in Clients, ChunkRefused(c) PROVE HandlesTyped'
  BY <1>1, <1>5, TypedAfterFailure DEF ChunkRefused
<1>6. ASSUME NEW c \in Clients,
             LoadContent(c) \/ Commit(c) \/ Release(c) \/ PutSavedVersion(c) \/ SaveReturns(c)
             \/ ReturnCall(c)
      PROVE  HandlesTyped'
  BY <1>1, <1>6, TypedLoadContent, TypedCommit, TypedRelease, TypedPutSavedVersion,
     TypedSaveReturns, TypedReturnCall
<1>7. ASSUME UNCHANGED handle PROVE HandlesTyped'
  BY <1>1, <1>7, SameHandlesTyped
<1>8. ASSUME NEW p \in Peers, CrashMount(p) PROVE HandlesTyped'
  BY <1>1, <1>8, TypedCrashMount
<1>9. ASSUME NEW c \in Clients, SaveReadsHeads(c) \/ CallWithoutHandle(c) \/ StepOfCall(c)
      PROVE  UNCHANGED handle
  BY <1>9 DEF SaveReadsHeads, CallWithoutHandle, StepOfCall
<1>. QED
  BY <1>2, <1>3, <1>4, <1>5, <1>6, <1>7, <1>8, <1>9 DEF MountNext, mountVars

\* Every step of the mount is one of the filesystem below it, or changes nothing there.
LEMMA MountStepIsFs ==
    ASSUME MountInv, TypeInv, HandlesTyped, [MountNext]_mountVars PROVE FsStep
<1>1. calls \in 0..MaxCalls
  BY DEF TypeInv, DocumentsTyped
<1>2. UNCHANGED vars => FsStep
  BY <1>1 DEF FsStep, vars
<1>3. ASSUME NEW c \in Clients, NEW o \in Opens, OpenPath(c, o) PROVE FsStep
  <2>1. calls' \in 0..MaxCalls
    BY <1>1, <1>3, SharedFsAssumption DEF OpenPath
  <2>. QED
    BY <1>3, <2>1 DEF OpenPath, FsStep
<1>4. ASSUME NEW c \in Clients, Commit(c) PROVE FsStep
  <2>1. PICK h : h = handle[c] /\ HandleIn(h, DOMAIN versions)
    BY DEF HandlesTyped
  <2>2. \/ UNCHANGED vars
        \/ WriteFile(c, h.path, h.content, h.base)
    BY <1>4, <2>1 DEF Commit
  <2>3. /\ PathTyped(h.path) /\ h.content \in Contents
        /\ h.base = None \/ h.base \subseteq DOMAIN versions
    BY <2>1 DEF HandleIn, Based
  <2>4. WriteFile(c, h.path, h.content, h.base) => ClientStep(c)
    BY <2>3 DEF ClientStep
  <2>. QED
    BY <1>2, <2>2, <2>4 DEF FsStep
<1>5. ASSUME NEW c \in Clients, SaveReadsHeads(c) PROVE ClientStep(c)
  <2>1. op[c].call = "write" /\ CallIn(op[c], DOMAIN versions) /\ HandleIn(handle[c], DOMAIN versions)
    BY <1>5 DEF SaveReadsHeads, IsSave, TypeInv, HandlesTyped
  <2>2. op[c].content \in Contents /\ handle[c].content \in Contents
    BY <2>1 DEF CallIn, HandleIn
  <2>3. PICK x \in {op[c].content, handle[c].content} : ReadHeadsFor(c, x)
    BY <1>5 DEF SaveReadsHeads
  <2>. QED
    BY <2>1, <2>2, <2>3 DEF ClientStep
<1>6. ASSUME NEW c \in Clients,
             \/ ChunkRefused(c) \/ PutSavedVersion(c) \/ SaveReturns(c)
             \/ CallWithoutHandle(c) \/ StepOfCall(c) \/ ReturnCall(c)
      PROVE  ClientStep(c)
  BY <1>6
  DEF ClientStep, Step, ChunkRefused, PutSavedVersion, SaveReturns, CallWithoutHandle,
      StepOfCall, ReturnCall
<1>7. ASSUME NEW c \in Clients, NEW x,
             WriteHandle(c, x) \/ LoadContent(c) \/ Release(c) \/ Released(c)
      PROVE  UNCHANGED vars
  BY <1>7 DEF WriteHandle, LoadContent, Release, Released
<1>8. ASSUME NEW p \in Peers, Deliver(p) \/ CrashMount(p) PROVE FsStep
  BY <1>8 DEF FsStep, CrashMount
<1>9. UNCHANGED mountVars => UNCHANGED vars
  BY DEF mountVars
<1>. QED
  BY <1>2, <1>3, <1>4, <1>5, <1>6, <1>7, <1>8, <1>9 DEF MountNext, FsStep

LEMMA MountTypedIsTypeOK == MountInv /\ TypeInv /\ HandlesTyped => MountTypeOK
<1>. SUFFICES ASSUME MountInv, TypeInv, HandlesTyped PROVE MountTypeOK
  OBVIOUS
<1>1. ASSUME NEW c \in Clients PROVE HandleType(handle[c])
  <2>1. PICK h : h = handle[c]
    OBVIOUS
  <2>2. HandleShape(h) /\ HandleIn(h, DOMAIN versions)
    BY <2>1, HandleTyped DEF MountInv
  <2>3. h.phase \in {"closed", "opening", "open", "releasing"}
    BY <2>2 DEF HandleShape
  <2>4. {h.create, h.truncate, h.dirty} \subseteq BOOLEAN
    BY <2>2, Zenon DEF HandleIn, Flags
  <2>5. h.base = None \/ h.base \in (SUBSET DOMAIN versions) \ {{}}
    BY <2>2 DEF HandleIn, Based
  <2>6. (h.base = None) = (h.baseContent = None)
    BY <2>2, Zenon DEF HandleIn, Based
  <2>7. h.content \in Contents /\ h.baseContent \in Contents \cup {None}
    BY <2>2 DEF HandleIn, Based
  <2>. QED
    BY <2>1, <2>3, <2>4, <2>5, <2>6, <2>7, Zenon DEF HandleType
<1>2. TypeOK
  BY TypeInvIsTypeOK
<1>3. \A s \in saves : s.version \in DOMAIN versions
  BY DEF MountInv, ReplacesKnown
<1>. QED
  BY <1>1, <1>2, <1>3 DEF MountTypeOK

LEMMA MountTypesStart == MountInit => TypeInv /\ HandlesTyped
<1>. SUFFICES ASSUME MountInit PROVE TypeInv /\ HandlesTyped
  OBVIOUS
<1>1. HandlesTyped
  BY ClosedTyped DEF MountInit, HandlesTyped
<1>. QED
  BY <1>1, TypedInit DEF MountInit

LEMMA MountTypesStay ==
    ASSUME NoneIsNoSet, MountInv, TypeInv, HandlesTyped, [MountNext]_mountVars
    PROVE  MountInv' /\ TypeInv' /\ HandlesTyped'
<1>1. IInv
  BY DEF MountInv
<1>2. FsStep
  BY MountStepIsFs
<1>3. TypeInv'
  BY <1>1, <1>2, TypedFsStep
<1>4. MountInv'
  BY MountStep
<1>5. HandlesTyped'
  BY MountStepTyped
<1>. QED
  BY <1>3, <1>4, <1>5

\* A handle that knows what it was opened from knows both the heads that showed and the
\* content that it got of them, and goes on doing so through saves that fail, renames of
\* its path and crashes; and the calls of the mount are typed as those of the library are.
THEOREM SharedFsMountTypeOK == ASSUME NoneIsNoSet PROVE MountSpec => []MountTypeOK
<1>1. MountInit => MountInv /\ TypeInv /\ HandlesTyped
  BY MountStarts, MountTypesStart
<1>2. MountInv /\ TypeInv /\ HandlesTyped /\ [MountNext]_mountVars
      => MountInv' /\ TypeInv' /\ HandlesTyped'
  BY MountTypesStay
<1>. QED
  BY <1>1, <1>2, MountTypedIsTypeOK, PTL DEF MountSpec

\* Saves keep the tree too: what a peer shows whose one client uses it through the mount
\* is a tree until a document of another peer reaches it, although a save may come to a
\* path whose directories have been moved since it was opened.
THEOREM MountKeepsTrees ==
    ASSUME NoneIsNoSet, SeedIsTree PROVE MountSpec => []TreeStays
<1>1. MountInit => MountInv /\ TypeInv /\ HandlesTyped /\ LonelyTrees
  <2>1. Init => LonelyTrees
    BY TreeInit DEF LonelyTrees
  <2>. QED
    BY <2>1, MountStarts, MountTypesStart DEF MountInit
<1>2. MountInv /\ TypeInv /\ HandlesTyped /\ LonelyTrees /\ [MountNext]_mountVars
      => MountInv' /\ TypeInv' /\ HandlesTyped' /\ LonelyTrees'
  <2>. SUFFICES ASSUME MountInv, TypeInv, HandlesTyped, LonelyTrees, [MountNext]_mountVars
                PROVE  MountInv' /\ TypeInv' /\ HandlesTyped' /\ LonelyTrees'
    OBVIOUS
  <2>1. IInv /\ FsStep
    BY MountStepIsFs DEF MountInv
  <2>2. LonelyTrees'
    BY <2>1, LonelyTreesStay
  <2>. QED
    BY <2>2, MountTypesStay
<1>. QED
  BY <1>1, <1>2, LonelyTreesAreTrees, PTL DEF MountSpec
-----------------------------------------------------------------------------
(* What peers show that everything has reached.                            *)

\* A version replaces versions that were there before it.
ReplacesOlder == \A v \in DOMAIN versions : versions[v].parents \subseteq 1..(v - 1)

Stored(x) == \A p \in Peers : \E q \in Peers : x \in chunks[q]

\* The chunk of every content is at some peer.
ContentStored ==
    \A v \in DOMAIN versions : versions[v].content # Deleted => Stored(versions[v].content)

\* Who chooses a version to keep has its content from a version that is there.
CopyOf(c) == \E v \in DOMAIN versions : versions[v].content = op[c].content

CopiesStored == \A c \in Clients : op[c].call = "resolve" => CopyOf(c)

SettledInv == ReplacesOlder /\ ContentStored /\ CopiesStored

LEMMA SettledInit == Init => SettledInv
<1>. SUFFICES ASSUME Init PROVE SettledInv
  OBVIOUS
<1>1. DOMAIN versions = DOMAIN SeedFiles
  BY DEF Init
<1>2. \A v \in DOMAIN versions : versions[v].parents = {} /\ versions[v].content = Original
  BY <1>1, Zenon DEF Init
<1>3. ReplacesOlder
  BY <1>2 DEF ReplacesOlder
<1>4. ContentStored
  <2>1. ASSUME NEW v \in DOMAIN versions, NEW p \in Peers PROVE Original \in chunks[p]
    <3>1. SeedFiles # <<>>
      BY <1>1
    <3>. QED
      BY <3>1 DEF Init
  <2>. QED
    BY <1>2, <2>1 DEF ContentStored, Stored
<1>5. CopiesStored
  BY IdleOK DEF Init, CopiesStored
<1>. QED
  BY <1>3, <1>4, <1>5 DEF SettledInv

\* What the next step of a call makes of its content.
Keeps(o, r) == r.call = o.call /\ r.content = o.content

Becomes(c, r) ==
    \/ Keeps(op[c], r) \/ r.call # "resolve"
    \/ \E v \in DOMAIN versions : versions[v].content = r.content

LEMMA CallBecomes ==
    ASSUME IInv, TypeInv, NEW c \in Clients, Call(c) PROVE Becomes(c, op'[c])
<1>1. \A o : Begin(c, o) => op'[c] = o
  BY OpOf DEF Begin, IInv
<1>2. ASSUME NEW path, NEW content, NEW base, WriteFile(c, path, content, base)
      PROVE  op'[c].call = "write"
  BY <1>1, <1>2 DEF WriteFile, Idle
<1>3. ASSUME NEW path, MakeDirectory(c, path) PROVE op'[c].call = "mkdir"
  BY <1>1, <1>3 DEF MakeDirectory, Idle
<1>4. ASSUME NEW path, RemovePath(c, path) PROVE op'[c].call = "remove"
  BY <1>1, <1>4 DEF RemovePath, Removal, Idle
<1>5. ASSUME NEW path, NEW to, Rename(c, path, to) PROVE op'[c].call = "rename"
  BY <1>1, <1>5 DEF Rename, Idle
<1>6. ASSUME NEW path, ResolveConflict(c, path) PROVE Becomes(c, op'[c])
  <2>. DEFINE p == PeerOf[c]
              n == ResolvePath(p, path)
  <2>1. PICK v \in HeadDocuments(p, n) :
            Begin(c, [Idle EXCEPT !.phase = "heads", !.call = "resolve", !.path = path,
                                  !.at = PlaceOf(p, n), !.content = versions[v].content])
    BY <1>6 DEF ResolveConflict
  <2>2. op'[c].content = versions[v].content
    BY <1>1, <2>1 DEF Idle
  <2>3. v \in DOMAIN versions
    BY HeadsTyped, PeerOfClient
  <2>. QED
    BY <2>2, <2>3 DEF Becomes
<1>. QED
  BY <1>2, <1>3, <1>4, <1>5, <1>6 DEF Call, Becomes

LEMMA StepBecomes ==
    ASSUME IInv, NEW c \in Clients,
           \/ Step(c) \/ Return(c) \/ Fail(c)
           \/ op[c].call = "write" /\ \E x : ReadHeadsFor(c, x)
    PROVE  Becomes(c, op'[c])
<1>. PICK o : o = op[c]
  OBVIOUS
<1>1. CallShape(o) /\ RenameOnly(c)
  BY DEF IInv, Calls, CallOK
<1>2. \A r : Continue(c, r) => op'[c] = r
  BY OpOf DEF Continue, IInv
<1>3. Continue(c, Idle) => Becomes(c, op'[c])
  BY <1>2, IdleOK DEF Becomes
<1>4. ASSUME NEW x, ReadHeadsFor(c, x) PROVE op'[c].call = o.call /\ op'[c].content = x
  <2>1. PICK r : r = [o EXCEPT !.content = x]
    OBVIOUS
  <2>2. CallShape(r) /\ r.call = o.call /\ r.content = x
    BY <1>1, <2>1 DEF CallShape
  <2>3. PICK phase, result, parents :
            \/ Continue(c, [r EXCEPT !.phase = phase, !.result = result])
            \/ Continue(c, [r EXCEPT !.phase = phase, !.parents = parents])
    BY <1>4, <2>1 DEF ReadHeadsFor
  <2>. QED
    BY <1>2, <2>2, <2>3 DEF CallShape
<1>5. CASE PutChunks(c)
  BY <1>1, <1>2, <1>5 DEF PutChunks, Becomes, Keeps, CallShape
<1>6. CASE PutVersion(c)
  BY <1>1, <1>2, <1>6 DEF PutVersion, Becomes, Keeps, CallShape
<1>7. CASE PutRecord(c)
  <2>1. \/ Continue(c, [o EXCEPT !.phase = "done"])
        \/ Continue(c, [o EXCEPT !.at = o.then, !.then = None, !.deleted = FALSE])
    BY <1>7 DEF PutRecord
  <2>. QED
    BY <1>1, <1>2, <2>1 DEF Becomes, Keeps, CallShape
<1>8. CASE ListChildren(c)
  <2>1. Continue(c, [o EXCEPT !.phase = "record"]) \/ Continue(c, Idle)
    BY <1>8 DEF ListChildren, Fail
  <2>2. Continue(c, [o EXCEPT !.phase = "record"]) => Becomes(c, op'[c])
    BY <1>1, <1>2 DEF Becomes, Keeps, CallShape
  <2>. QED
    BY <1>3, <2>1, <2>2
<1>9. CASE CheckDestination(c)
  <2>1. o.call = "rename"
    BY <1>1, <1>9 DEF CheckDestination, RenameOnly
  <2>2. PICK phase, at :
            \/ Continue(c, Idle)
            \/ Continue(c, [o EXCEPT !.phase = phase])
            \/ Continue(c, [o EXCEPT !.phase = phase, !.at = at])
    BY <1>9, Zenon DEF CheckDestination, Fail
  <2>3. op'[c] = Idle \/ op'[c].call = "rename"
    BY <1>1, <1>2, <2>1, <2>2 DEF CallShape
  <2>. QED
    BY <2>3, IdleOK DEF Becomes
<1>10. CASE RemoveDestination(c)
  <2>1. o.call = "rename"
    BY <1>1, <1>10 DEF RemoveDestination, RenameOnly
  <2>2. PICK r : r = [o EXCEPT !.then = o.at]
    OBVIOUS
  <2>3. CallShape(r) /\ r.call = "rename"
    BY <1>1, <2>1, <2>2 DEF CallShape
  <2>4. \/ Continue(c, Idle) \/ Continue(c, [o EXCEPT !.phase = "record"])
        \/ Continue(c, Removal(PeerOf[c], ResolvePath(PeerOf[c], o.path), r))
    BY <1>10, <2>2 DEF RemoveDestination
  <2>5. op'[c] = Idle \/ op'[c].call = "rename"
    BY <1>1, <1>2, <2>1, <2>3, <2>4 DEF CallShape, Removal
  <2>. QED
    BY <2>5, IdleOK DEF Becomes
<1>11. CASE Return(c) \/ Fail(c)
  BY <1>3, <1>11 DEF Return, Fail
<1>12. CASE ReadHeads(c)
  BY <1>4, <1>12 DEF ReadHeads, Becomes, Keeps
<1>13. CASE o.call = "write" /\ \E x : ReadHeadsFor(c, x)
  BY <1>4, <1>13 DEF Becomes
<1>. QED
  BY <1>5, <1>6, <1>7, <1>8, <1>9, <1>10, <1>11, <1>12, <1>13 DEF Step

\* A client's step, or a crash, keeps what is copied a copy.
LEMMA CopiesStay == ASSUME IInv, TypeInv, CopiesStored, FsStep PROVE CopiesStored'
<1>1. Grown
  BY FsGrows
<1>2. ASSUME NEW d \in Clients, op'[d].call = "resolve",
             op'[d] = op[d] \/ op'[d] = Idle \/ Becomes(d, op'[d])
      PROVE  CopyOf(d)'
  <2>1. CASE \E v \in DOMAIN versions : versions[v].content = op'[d].content
    BY <1>1, <2>1 DEF Grown, CopyOf
  <2>2. CASE Keeps(op[d], op'[d]) \/ op'[d] = op[d]
    <3>1. op[d].call = "resolve" /\ op'[d].content = op[d].content
      BY <1>2, <2>2 DEF Keeps
    <3>. QED
      BY <2>1, <3>1 DEF CopiesStored, CopyOf
  <2>. QED
    BY <1>2, <2>1, <2>2, IdleOK DEF Becomes
<1>3. ASSUME NEW c \in Clients, ClientStep(c), NEW d \in Clients
      PROVE  op'[d] = op[d] \/ Becomes(d, op'[d])
  <2>1. op' = [op EXCEPT ![c] = op'[c]] /\ op = [e \in Clients |-> op[e]]
    BY <1>3, ClientStepIs DEF IInv, Calls
  <2>2. ASSUME NEW path, NEW content, NEW base, WriteFile(c, path, content, base)
        PROVE  Becomes(c, op'[c])
    <3>1. \A o : Begin(c, o) => op'[c] = o
      BY OpOf DEF Begin, IInv
    <3>. QED
      BY <2>2, <3>1 DEF WriteFile, Idle, Becomes
  <2>3. Becomes(c, op'[c])
    BY <1>3, <2>2, CallBecomes, StepBecomes DEF ClientStep
  <2>. QED
    BY <2>1, <2>3
<1>4. ASSUME NEW p \in Peers, Deliver(p) \/ Crash(p), NEW d \in Clients
      PROVE  op'[d] \in {op[d], Idle}
  BY <1>4 DEF Deliver, DeliverRecord, DeliverVersion, DeliverChunk, Crash
<1>. QED
  BY <1>2, <1>3, <1>4 DEF FsStep, CopiesStored

\* No step takes a chunk away.
LEMMA ChunksGrow ==
    ASSUME IInv, FsStep PROVE \A p \in Peers : chunks[p] \subseteq chunks'[p]
<1>1. ASSUME NEW p \in Peers, NEW x, chunks' = [chunks EXCEPT ![p] = @ \cup {x}]
      PROVE  \A q \in Peers : chunks[q] \subseteq chunks'[q]
  <2>1. chunks = [q \in Peers |-> chunks[q]]
    BY DEF IInv, Documents
  <2>. QED
    BY <1>1, <2>1
<1>2. ASSUME NEW c \in Clients, NEW path, NEW content, NEW base,
             WriteFile(c, path, content, base)
      PROVE  UNCHANGED chunks
  BY <1>2 DEF WriteFile
<1>3. ASSUME NEW c \in Clients, Call(c) PROVE UNCHANGED chunks
  BY <1>2, <1>3 DEF Call, MakeDirectory, RemovePath, Rename, ResolveConflict, documents
<1>4. ASSUME NEW c \in Clients, Step(c) PROVE UNCHANGED chunks \/ PutChunks(c)
  BY <1>4
  DEF Step, ReadHeads, ReadHeadsFor, PutVersion, PutRecord, ListChildren, CheckDestination,
      RemoveDestination, documents
<1>5. ASSUME NEW c \in Clients, ClientStep(c) PROVE UNCHANGED chunks \/ PutChunks(c)
  BY <1>2, <1>3, <1>4, <1>5 DEF ClientStep, Return, ReadHeadsFor, documents
<1>6. ASSUME NEW p \in Peers, Deliver(p) \/ Crash(p) PROVE UNCHANGED chunks \/ DeliverChunk(p)
  BY <1>6 DEF Deliver, DeliverRecord, DeliverVersion, Crash, documents
<1>7. ASSUME NEW c \in Clients, PutChunks(c)
      PROVE  \A q \in Peers : chunks[q] \subseteq chunks'[q]
  BY <1>1, <1>7, PeerOfClient DEF PutChunks
<1>8. ASSUME NEW p \in Peers, DeliverChunk(p)
      PROVE  \A q \in Peers : chunks[q] \subseteq chunks'[q]
  BY <1>1, <1>8 DEF DeliverChunk
<1>. QED
  BY <1>5, <1>6, <1>7, <1>8 DEF FsStep, documents

LEMMA SettledStep == ASSUME IInv, TypeInv, SettledInv, FsStep PROVE SettledInv'
<1>1. Grown /\ \A p \in Peers : chunks[p] \subseteq chunks'[p]
  BY FsGrows, ChunksGrow
<1>2. \A x : Stored(x) => Stored(x)'
  BY <1>1 DEF Stored
<1>3. ASSUME UNCHANGED versions PROVE ReplacesOlder' /\ ContentStored'
  BY <1>2, <1>3 DEF SettledInv, ReplacesOlder, ContentStored
<1>4. ASSUME NEW c \in Clients, PutVersion(c) PROVE ReplacesOlder' /\ ContentStored'
  <2>1. PICK N : N = Len(versions')
    OBVIOUS
  <2>2. /\ DOMAIN versions' = DOMAIN versions \cup {N}
        /\ versions'[N].content = op[c].content /\ versions'[N].parents = op[c].parents
    BY <1>4, <2>1, VersionPut
  <2>3. op[c].parents \subseteq 1..(N - 1)
    <3>1. op[c].parents \subseteq DOMAIN versions
      BY DEF TypeInv, CallIn
    <3>2. N \in Nat /\ N = Len(versions) + 1 /\ DOMAIN versions = 1..Len(versions)
      BY <1>4, <2>1, <2>2, VersionsCounted, AppendSequence DEF PutVersion, IInv, Documents
    <3>. QED
      BY <3>1, <3>2, VersionsCounted
  <2>4. op[c].content # Deleted => Stored(op[c].content)
    <3>1. ChunksFirst(c) /\ op[c].phase = "version" /\ PeerOf[c] \in Peers
      BY <1>4, PeerOfClient DEF PutVersion, IInv, Calls, CallOK
    <3>2. CASE op[c].call = "write"
      BY <3>1, <3>2 DEF ChunksFirst, Stored
    <3>3. CASE op[c].call = "resolve"
      BY <3>3 DEF SettledInv, CopiesStored, CopyOf, ContentStored
    <3>. QED
      BY <3>1, <3>2, <3>3 DEF ChunksFirst
  <2>. QED
    BY <1>1, <1>2, <2>2, <2>3, <2>4 DEF SettledInv, ReplacesOlder, ContentStored, Grown
<1>5. (\E c \in Clients : PutVersion(c)) \/ UNCHANGED versions
  <2>1. \A c \in Clients : PutRecord(c) => UNCHANGED versions
    BY DEF PutRecord
  <2>2. \A p \in Peers : DeliverRecord(p) \/ DeliverVersion(p) => UNCHANGED versions
    BY DEF DeliverRecord, DeliverVersion
  <2>. QED
    BY <2>1, <2>2, FsStepIs DEF Quiet
<1>6. ReplacesOlder' /\ ContentStored'
  BY <1>3, <1>4, <1>5
<1>. QED
  BY <1>6, CopiesStay DEF SettledInv

\* The newest version of a file that a peer holds is a head.
LEMMA NewestIsHead == IInv /\ TypeInv /\ ReplacesOlder => FilesHaveHeads
<1>. SUFFICES ASSUME IInv, TypeInv, ReplacesOlder,
                     NEW p \in Peers, NEW n \in NodeIds, HeadDocuments(p, n) # {}
              PROVE  Heads(p, n) # {}
  BY DEF FilesHaveHeads
<1>. DEFINE docs == HeadDocuments(p, n)
            m == Max(docs)
<1>1. docs \subseteq 1..Len(versions) /\ docs \subseteq DOMAIN versions /\ Len(versions) \in Nat
  BY HeadsTyped, VersionsCounted
<1>2. m \in docs /\ \A w \in docs : m >= w
  BY <1>1, MaxIs
<1>. HIDE DEF docs, m
<1>3. ASSUME NEW w \in docs PROVE m \notin versions[w].parents
  <2>1. versions[w].parents \subseteq 1..(w - 1) /\ m >= w /\ m \in Nat /\ w \in Nat
    BY <1>1, <1>2 DEF ReplacesOlder
  <2>. QED
    BY <2>1
<1>. QED
  BY <1>2, <1>3, Zenon DEF Heads, docs

\* Where all has arrived, what shows is read.
LEMMA SettledReads ==
    ASSUME IInv, TypeInv, ContentStored, NEW p \in Peers, Settled(p), NEW n
    PROVE  ReadVersion(p, n, chunks[p]) = Visible(p, n)
<1>. DEFINE tried == ReadCandidates(p, n)
            complete == {i \in DOMAIN tried : versions[tried[i]].content \in chunks[p]}
<1>1. /\ IsSequence(tried)
      /\ Visible(p, n) = None => tried = <<>>
      /\ Visible(p, n) # None => 1 \in DOMAIN tried /\ tried[1] = Visible(p, n)
  BY VersionsCounted, CandidatesAre DEF TypeInv, DocumentsTyped
<1>2. complete = {} => ReadVersion(p, n, chunks[p]) = None
  BY Zenon DEF ReadVersion
<1>3. complete # {} => ReadVersion(p, n, chunks[p]) = tried[Min(complete)]
  BY Zenon DEF ReadVersion
<1>4. CASE Visible(p, n) = None
  BY <1>1, <1>2, <1>4
<1>5. CASE Visible(p, n) # None
  <2>1. /\ Heads(p, n) \in (SUBSET DOMAIN versions) \ {{}}
        /\ Visible(p, n) = Max(Heads(p, n))
    BY <1>5, VisibleIs, Zenon DEF Visible
  <2>2. Visible(p, n) \in DOMAIN versions
    BY <2>1, VersionsCounted, MaxIs
  <2>3. versions[Visible(p, n)].content \in Contents
    BY <1>5, VisibleIs
  <2>4. versions[Visible(p, n)].content # Deleted
    BY <2>3, SharedFsAssumption
  <2>5. versions[Visible(p, n)].content \in chunks[p]
    BY <2>2, <2>4 DEF ContentStored, Stored, Settled
  <2>6. complete \subseteq 1..Len(tried) /\ Len(tried) \in Nat
    BY <1>1, AppendSequence
  <2>7. 1 \in complete
    BY <1>1, <1>5, <2>5
  <2>. HIDE DEF complete
  <2>8. Min(complete) = 1
    <3>1. complete \subseteq Nat /\ complete # {}
      BY <2>6, <2>7
    <3>2. PICK m \in Nat : m = Min(complete) /\ m \in complete /\ m <= 1
      BY <2>7, <3>1, MinIs
    <3>3. m >= 1
      BY <2>6, <3>2
    <3>. QED
      BY <3>2, <3>3
  <2>. QED
    BY <1>1, <1>3, <1>5, <2>7, <2>8
<1>. QED
  BY <1>4, <1>5

\* The last record of a node is the one that shows where all has arrived.
LEMMA SettledRecords ==
    ASSUME IInv, TypeInv, NEW p \in Peers, NEW q \in Peers, Settled(p), Settled(q)
    PROVE  \A n \in NodeIds : recs[p][n] = recs[q][n]
<1>1. ASSUME NEW a \in Peers, NEW b \in Peers, Settled(b), NEW n \in NodeIds
      PROVE  recs[a][n] \in Nat /\ recs[a][n] <= recs[b][n]
  <2>1. recs[a][n] \in Nat /\ recs[b][n] \in Nat
    BY DEF IInv, Documents
  <2>2. CASE recs[a][n] = 0
    BY <2>1, <2>2
  <2>3. CASE recs[a][n] # 0
    <3>1. recs[a][n] \in DOMAIN log /\ log[recs[a][n]].at.node = n
      BY <2>3 DEF IInv, Documents
    <3>2. recs[b][n] >= recs[a][n]
      BY <1>1, <3>1 DEF Settled
    <3>. QED
      BY <2>1, <3>2
  <2>. QED
    BY <2>2, <2>3
<1>. QED
  BY <1>1

LEMMA SettledShowTheSame ==
    ASSUME IInv, TypeInv, SettledInv PROVE SettledPeersAgree
<1>. SUFFICES ASSUME NEW p \in Peers, NEW q \in Peers, Settled(p), Settled(q)
              PROVE  /\ View(p) = View(q)
                     /\ \A n \in NodeIds : ReadVersion(p, n, chunks[p]) = Visible(p, n)
  BY DEF SettledPeersAgree
<1>1. \A n \in NodeIds : recs[p][n] = recs[q][n]
  BY SettledRecords
<1>2. Live(p) = Live(q) /\ \A n \in NodeIds : PlaceOf(p, n) = PlaceOf(q, n)
  BY <1>1 DEF Live, PlaceOf
<1>3. \A n : HeadDocuments(p, n) = HeadDocuments(q, n)
  BY DEF Settled, HeadDocuments
<1>4. \A n : Heads(p, n) = Heads(q, n)
  BY <1>3 DEF Heads
<1>5. ASSUME NEW n PROVE Visible(p, n) = Visible(q, n)
  <2>1. PICK heads : heads = Heads(p, n) /\ heads = Heads(q, n)
    BY <1>4
  <2>2. Visible(p, n) = IF heads = {} \/ versions[Max(heads)].content = Deleted
                        THEN None ELSE Max(heads)
    BY <2>1, Zenon DEF Visible
  <2>3. Visible(q, n) = IF heads = {} \/ versions[Max(heads)].content = Deleted
                        THEN None ELSE Max(heads)
    BY <2>1, Zenon DEF Visible
  <2>. QED
    BY <2>2, <2>3
<1>6. \A n : /\ ReadVersion(p, n, chunks[p]) = Visible(p, n)
             /\ ReadVersion(q, n, chunks[q]) = Visible(q, n)
  BY SettledReads DEF SettledInv
<1>7. \A n \in Live(p) : /\ PlaceOf(p, n) = PlaceOf(q, n)
                         /\ Heads(p, n) = Heads(q, n)
                         /\ ReadVersion(p, n, chunks[p]) = ReadVersion(q, n, chunks[q])
  BY <1>2, <1>4, <1>5, <1>6 DEF Live
<1>8. View(p) = View(q)
  BY <1>2, <1>7 DEF View
<1>. QED
  BY <1>6, <1>8

\* Whatever has happened, peers that have received all that was put show the same tree,
\* the same conflicts and the same contents, and read what they show; and no file that has
\* versions at a peer is without a head there, even while documents are on their way.
THEOREM SettledPeersShowTheSame == Spec => [](SettledPeersAgree /\ FilesHaveHeads)
<1>1. Init => IInv /\ TypeInv /\ SettledInv
  BY InitIInv, TypedInit, SettledInit
<1>2. IInv /\ TypeInv /\ SettledInv /\ [Next]_vars => IInv' /\ TypeInv' /\ SettledInv'
  BY NextIInv, NextIsFsStep, TypedFsStep, SettledStep
<1>3. IInv /\ TypeInv /\ SettledInv => SettledPeersAgree /\ FilesHaveHeads
  BY SettledShowTheSame, NewestIsHead DEF SettledInv
<1>. QED
  BY <1>1, <1>2, <1>3, PTL DEF Spec

\* So it is when clients use the filesystem through their mounts: what a save replaces
\* was there when its handle was opened or last saved.
THEOREM MountedPeersShowTheSame ==
    ASSUME NoneIsNoSet PROVE MountSpec => [](SettledPeersAgree /\ FilesHaveHeads)
<1>1. MountInit => MountInv /\ TypeInv /\ HandlesTyped /\ SettledInv
  BY MountStarts, MountTypesStart, SettledInit DEF MountInit
<1>2. MountInv /\ TypeInv /\ HandlesTyped /\ SettledInv /\ [MountNext]_mountVars
      => MountInv' /\ TypeInv' /\ HandlesTyped' /\ SettledInv'
  <2>. SUFFICES ASSUME MountInv, TypeInv, HandlesTyped, SettledInv, [MountNext]_mountVars
                PROVE  MountInv' /\ TypeInv' /\ HandlesTyped' /\ SettledInv'
    OBVIOUS
  <2>1. IInv /\ FsStep
    BY MountStepIsFs DEF MountInv
  <2>2. SettledInv'
    BY <2>1, SettledStep
  <2>. QED
    BY <2>2, MountTypesStay
<1>3. MountInv /\ TypeInv /\ SettledInv => SettledPeersAgree /\ FilesHaveHeads
  BY SettledShowTheSame, NewestIsHead DEF SettledInv, MountInv
<1>. QED
  BY <1>1, <1>2, <1>3, PTL DEF MountSpec
=============================================================================
