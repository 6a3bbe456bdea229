-------------------- MODULE FairTransferSchedulerProofs --------------------
(***************************************************************************)
(* Proofs about the permit scheduler, for any owners, requests, lanes and  *)
(* budgets.                                                                *)
(***************************************************************************)
EXTENDS FairTransferScheduler, SequenceFacts

-----------------------------------------------------------------------------
\* The structure of the queues.

\* RotationExact, one owner at a time.
Exact(o) ==
    /\ scheduled[o] <=> o \in ToSet(rotation)
    /\ scheduled[o] <=> queue[o] # <<>>
    /\ IsInjective(queue[o])
    /\ ToSet(queue[o]) = {r \in Requests : status[r] = "queued" /\ Owner[r] = o}

\* pump scans only while nothing is reserved.
ScanUnreserved == pc = "scan" => reserved = NoRequest

Structure ==
    /\ TypeOK
    /\ RotationExact
    /\ ReservedIsHead
    /\ ScanUnreserved

LEMMA RotationExactSplit ==
    RotationExact <=> IsInjective(rotation) /\ \A o \in Owners : Exact(o)
BY DEF RotationExact, Exact

LEMMA EmptySequence ==
    ASSUME NEW S
    PROVE  <<>> \in Seq(S) /\ IsInjective(<<>>) /\ ToSet(<<>>) = {}
BY DEF IsInjective, ToSet

LEMMA InitStructure == Init => Structure
<1>. SUFFICES ASSUME Init PROVE Structure
  OBVIOUS
<1>1. TypeOK
  <2>1. queue \in [Owners -> Seq(Requests)] /\ rotation \in Seq(Owners)
    BY EmptySequence DEF Init
  <2>2. held \in [Requests -> [count : Nat, bytes : Nat]]
    BY DEF Init, Nothing
  <2>3. scheduled \in [Owners -> BOOLEAN] /\ laneCount \in [Lanes -> Int]
    BY DEF Init
  <2>4. status \in [Requests -> {"new", "queued", "held"}]
    BY DEF Init
  <2>5. /\ reserved = NoRequest /\ lastGranted = NoOwner
        /\ activeCount = 0 /\ activeBytes = 0 /\ pendingCount = 0
        /\ pc = "idle" /\ examined = 0
    BY DEF Init
  <2>6. closed \in BOOLEAN
    BY DEF Init
  <2>7. QED
    BY <2>1, <2>2, <2>3, <2>4, <2>5, <2>6 DEF TypeOK
<1>2. RotationExact
  BY EmptySequence DEF Init, RotationExact
<1>. QED
  BY <1>1, <1>2 DEF Init, Structure, ReservedIsHead, ScanUnreserved

\* A queued request is in the queue of its owner, and its owner is served.
LEMMA QueuedRequest ==
    ASSUME Structure, NEW r \in Requests, status[r] = "queued"
    PROVE  /\ Owner[r] \in Owners
           /\ r \in ToSet(queue[Owner[r]])
           /\ queue[Owner[r]] # <<>>
BY SchedulerAssumption, EmptySequence DEF Structure, RotationExact

\* The head of a queue is a queued request of that owner.
LEMMA HeadRequest ==
    ASSUME Structure, NEW o \in Owners, queue[o] # <<>>
    PROVE  /\ Head(queue[o]) \in Requests
           /\ status[Head(queue[o])] = "queued"
           /\ Owner[Head(queue[o])] = o
<1>1. queue[o] \in Seq(Requests) /\ IsInjective(queue[o])
  BY DEF Structure, TypeOK, RotationExact
<1>2. Head(queue[o]) \in ToSet(queue[o])
  BY <1>1, TailElements
<1>. QED
  BY <1>2 DEF Structure, RotationExact

\* The owner at the front of the rotation waits for a permit.
LEMMA FrontOwner ==
    ASSUME Structure, rotation # <<>>
    PROVE  Head(rotation) \in Owners /\ queue[Head(rotation)] # <<>>
<1>1. Head(rotation) \in ToSet(rotation) /\ Head(rotation) \in Owners
  BY TailElements DEF Structure, TypeOK, RotationExact
<1>. QED
  BY <1>1 DEF Structure, RotationExact

\* The queues after a request is appended.
LEMMA AcquireStructure ==
    ASSUME Structure, NEW r \in Requests, Acquire(r)
    PROVE  Structure'
<1>. DEFINE o == Owner[r]
            joined == IF scheduled[o] THEN rotation ELSE Append(rotation, o)
<1>1. o \in Owners
  BY SchedulerAssumption
<1>2. queue[o] \in Seq(Requests) /\ IsInjective(queue[o]) /\ r \notin ToSet(queue[o])
  BY <1>1 DEF Acquire, Structure, TypeOK, RotationExact
<1>3. /\ Append(queue[o], r) \in Seq(Requests)
      /\ IsInjective(Append(queue[o], r))
      /\ ToSet(Append(queue[o], r)) = ToSet(queue[o]) \cup {r}
  BY <1>2, AppendElements
<1>4. Append(queue[o], r) # <<>>
      /\ (queue[o] # <<>> => Head(Append(queue[o], r)) = Head(queue[o]))
  BY <1>2, AppendProperties, HeadTailAppend
<1>5. rotation \in Seq(Owners) /\ IsInjective(rotation)
      /\ (scheduled[o] <=> o \in ToSet(rotation))
  BY <1>1 DEF Structure, TypeOK, RotationExact
<1>6. /\ joined \in Seq(Owners) /\ IsInjective(joined) /\ joined # <<>>
      /\ ToSet(joined) = ToSet(rotation) \cup {o}
  <2>1. CASE scheduled[o]
    BY <1>5, <2>1, EmptySequence
  <2>2. CASE ~scheduled[o]
    <3>1. Append(rotation, o) # <<>>
      BY <1>5
    <3>. QED
      BY <1>1, <1>5, <2>2, <3>1, AppendElements
  <2>. QED
    BY <2>1, <2>2
<1>7. /\ ToTheEnd(joined) \in Seq(Owners) /\ IsInjective(ToTheEnd(joined))
      /\ ToSet(ToTheEnd(joined)) = ToSet(joined)
  BY <1>6, ToTheEndElements
<1>8. /\ rotation' \in Seq(Owners) /\ IsInjective(rotation')
      /\ ToSet(rotation') = ToSet(rotation) \cup {o}
  BY <1>6, <1>7 DEF Acquire
<1>. HIDE DEF joined
<1>9. /\ queue' = [queue EXCEPT ![o] = Append(@, r)]
      /\ status' = [status EXCEPT ![r] = "queued"]
      /\ scheduled' = [scheduled EXCEPT ![o] = TRUE]
      /\ pc' = "reserved"
      /\ reserved' \in {reserved, NoRequest}
  BY DEF Acquire, Pump, ReservationWithout
<1>10. TypeOK'
  <2>1. queue' \in [Owners -> Seq(Requests)]
    BY <1>1, <1>3, <1>9 DEF Structure, TypeOK
  <2>. QED
    BY <1>8, <1>9, <2>1 DEF Structure, TypeOK, Acquire, Pump, grantVars
<1>11. ASSUME NEW p \in Owners PROVE Exact(p)'
  <2>1. CASE p = o
    <3>1. queue'[p] = Append(queue[o], r) /\ scheduled'[p] = TRUE
      BY <1>1, <1>9, <2>1 DEF Structure, TypeOK
    <3>2. {q \in Requests : status'[q] = "queued" /\ Owner[q] = p}
             = {q \in Requests : status[q] = "queued" /\ Owner[q] = p} \cup {r}
      BY <1>9, <2>1 DEF Structure, TypeOK
    <3>. QED
      BY <1>1, <1>3, <1>4, <1>8, <2>1, <3>1, <3>2
      DEF Exact, Structure, RotationExact
  <2>2. CASE p # o
    <3>1. queue'[p] = queue[p] /\ scheduled'[p] = scheduled[p]
      BY <1>9, <2>2 DEF Structure, TypeOK
    <3>2. {q \in Requests : status'[q] = "queued" /\ Owner[q] = p}
             = {q \in Requests : status[q] = "queued" /\ Owner[q] = p}
      BY <1>9, <2>2 DEF Structure, TypeOK
    <3>. QED
      BY <1>8, <2>2, <3>1, <3>2 DEF Exact, Structure, RotationExact
  <2>. QED
    BY <2>1, <2>2
<1>12. ReservedIsHead'
  <2>. SUFFICES ASSUME reserved' # NoRequest
                PROVE  /\ queue'[Owner[reserved']] # <<>>
                       /\ reserved' = Head(queue'[Owner[reserved']])
    BY DEF ReservedIsHead
  <2>1. reserved' = reserved /\ reserved \in Requests /\ Owner[reserved] \in Owners
    BY <1>9, SchedulerAssumption DEF Structure, TypeOK
  <2>2. queue[Owner[reserved]] # <<>> /\ reserved = Head(queue[Owner[reserved]])
    BY <2>1 DEF Structure, ReservedIsHead
  <2>. QED
    BY <1>4, <1>9, <2>1, <2>2 DEF Structure, TypeOK
<1>. QED
  BY <1>8, <1>9, <1>10, <1>11, <1>12 DEF Structure, RotationExact, Exact, ScanUnreserved

\* What unscheduleOwner does to the rotation.
LEMMA Unscheduled ==
    ASSUME Structure, NEW o \in Owners
    PROVE  /\ Without(rotation, o) \in Seq(Owners)
           /\ IsInjective(Without(rotation, o))
           /\ ToSet(Without(rotation, o)) = ToSet(rotation) \ {o}
BY WithoutElements DEF Structure, TypeOK, RotationExact

\* The queues after a pending request is aborted.
LEMMA AbortStructure ==
    ASSUME Structure, NEW r \in Requests, Abort(r)
    PROVE  Structure'
<1>. DEFINE o == Owner[r]
            rest == Without(queue[o], r)
<1>1. o \in Owners /\ r \in ToSet(queue[o]) /\ queue[o] # <<>>
  BY QueuedRequest DEF Abort
<1>2. /\ rest \in Seq(Requests) /\ IsInjective(rest)
      /\ ToSet(rest) = ToSet(queue[o]) \ {r}
      /\ Head(queue[o]) # r => rest # <<>> /\ Head(rest) = Head(queue[o])
  <2>1. queue[o] \in Seq(Requests) /\ IsInjective(queue[o])
    BY <1>1 DEF Structure, TypeOK, RotationExact
  <2>. QED
    BY <1>1, <2>1, WithoutElements
<1>. HIDE DEF rest
<1>3. /\ queue' = [queue EXCEPT ![o] = rest]
      /\ status' = [status EXCEPT ![r] = "new"]
      /\ pc' = "reserved"
      /\ reserved' = IF reserved = r THEN NoRequest ELSE reserved
      /\ IF rest = <<>> THEN UnscheduleOwner(o) ELSE UNCHANGED <<scheduled, rotation>>
  BY DEF Abort, Pump, ReservationWithout, rest
<1>4. /\ rotation' \in Seq(Owners) /\ IsInjective(rotation')
      /\ ToSet(rotation') = IF rest = <<>> THEN ToSet(rotation) \ {o} ELSE ToSet(rotation)
      /\ scheduled' = [scheduled EXCEPT ![o] = @ /\ rest # <<>>]
  <2>1. CASE rest = <<>>
    BY <1>1, <1>3, <2>1, Unscheduled DEF UnscheduleOwner
  <2>2. CASE rest # <<>>
    <3>1. scheduled[o] = TRUE
      BY <1>1 DEF Structure, TypeOK, RotationExact
    <3>2. scheduled' = scheduled /\ rotation' = rotation
      BY <1>3, <2>2
    <3>. QED
      BY <1>1, <2>2, <3>1, <3>2 DEF Structure, TypeOK, RotationExact
  <2>. QED
    BY <2>1, <2>2
<1>5. TypeOK'
  <2>1. queue' \in [Owners -> Seq(Requests)]
    BY <1>1, <1>2, <1>3 DEF Structure, TypeOK
  <2>2. scheduled' \in [Owners -> BOOLEAN]
    BY <1>1, <1>4 DEF Structure, TypeOK
  <2>. QED
    BY <1>3, <1>4, <2>1, <2>2 DEF Structure, TypeOK, Abort, Pump, grantVars
<1>6. ASSUME NEW p \in Owners PROVE Exact(p)'
  <2>1. CASE p = o
    <3>1. queue'[p] = rest /\ (scheduled'[p] <=> scheduled[o] /\ rest # <<>>)
      BY <1>1, <1>3, <1>4, <2>1 DEF Structure, TypeOK
    <3>2. {q \in Requests : status'[q] = "queued" /\ Owner[q] = p}
             = {q \in Requests : status[q] = "queued" /\ Owner[q] = p} \ {r}
      BY <1>3, <2>1 DEF Structure, TypeOK
    <3>. QED
      BY <1>1, <1>2, <1>4, <2>1, <3>1, <3>2
      DEF Exact, Structure, RotationExact
  <2>2. CASE p # o
    <3>1. queue'[p] = queue[p] /\ scheduled'[p] = scheduled[p]
      BY <1>3, <1>4, <2>2 DEF Structure, TypeOK
    <3>2. {q \in Requests : status'[q] = "queued" /\ Owner[q] = p}
             = {q \in Requests : status[q] = "queued" /\ Owner[q] = p}
      BY <1>3, <2>2 DEF Structure, TypeOK
    <3>. QED
      BY <1>4, <2>2, <3>1, <3>2 DEF Exact, Structure, RotationExact
  <2>. QED
    BY <2>1, <2>2
<1>7. ReservedIsHead'
  <2>. SUFFICES ASSUME reserved' # NoRequest
                PROVE  /\ queue'[Owner[reserved']] # <<>>
                       /\ reserved' = Head(queue'[Owner[reserved']])
    BY DEF ReservedIsHead
  <2>1. reserved' = reserved /\ reserved # r /\ Owner[reserved] \in Owners
    BY <1>3, SchedulerAssumption DEF Structure, TypeOK
  <2>2. queue[Owner[reserved]] # <<>> /\ reserved = Head(queue[Owner[reserved]])
    BY <2>1 DEF Structure, ReservedIsHead
  <2>. QED
    BY <1>1, <1>2, <1>3, <2>1, <2>2 DEF Structure, TypeOK
<1>. QED
  BY <1>3, <1>4, <1>5, <1>6, <1>7 DEF Structure, RotationExact, Exact, ScanUnreserved

\* The queues after an owner's pending requests are cancelled.
LEMMA CancelStructure ==
    ASSUME Structure, NEW o \in Owners, CancelOwner(o)
    PROVE  Structure'
<1>1. /\ queue' = [queue EXCEPT ![o] = <<>>]
      /\ scheduled' = [scheduled EXCEPT ![o] = FALSE]
      /\ rotation' = Without(rotation, o)
      /\ status' = [q \in Requests |->
             IF status[q] = "queued" /\ Owner[q] = o THEN "new" ELSE status[q]]
      /\ pc' = "reserved"
      /\ reserved' \in {reserved, NoRequest}
      /\ reserved' # NoRequest => Owner[reserved] # o
  BY SchedulerAssumption
  DEF CancelOwner, UnscheduleOwner, Cancelled, ReservationWithout, RequestsOf,
      Pump, Structure, TypeOK
<1>2. /\ rotation' \in Seq(Owners) /\ IsInjective(rotation')
      /\ ToSet(rotation') = ToSet(rotation) \ {o}
  BY <1>1, Unscheduled
<1>3. TypeOK'
  <2>1. queue' \in [Owners -> Seq(Requests)]
    BY <1>1, EmptySequence DEF Structure, TypeOK
  <2>2. pendingCount' \in Int
    BY DEF CancelOwner, Structure, TypeOK
  <2>. QED
    BY <1>1, <1>2, <2>1, <2>2 DEF Structure, TypeOK, CancelOwner, Pump, grantVars
<1>4. ASSUME NEW p \in Owners PROVE Exact(p)'
  <2>1. CASE p = o
    <3>1. queue'[p] = <<>> /\ scheduled'[p] = FALSE
      BY <1>1, <2>1 DEF Structure, TypeOK
    <3>2. {q \in Requests : status'[q] = "queued" /\ Owner[q] = p} = {}
      BY <1>1, <2>1 DEF Structure, TypeOK
    <3>. QED
      BY <1>2, <2>1, <3>1, <3>2, EmptySequence DEF Exact
  <2>2. CASE p # o
    <3>1. queue'[p] = queue[p] /\ scheduled'[p] = scheduled[p]
      BY <1>1, <2>2 DEF Structure, TypeOK
    <3>2. {q \in Requests : status'[q] = "queued" /\ Owner[q] = p}
             = {q \in Requests : status[q] = "queued" /\ Owner[q] = p}
      BY <1>1, <2>2 DEF Structure, TypeOK
    <3>. QED
      BY <1>2, <2>2, <3>1, <3>2 DEF Exact, Structure, RotationExact
  <2>. QED
    BY <2>1, <2>2
<1>5. ReservedIsHead'
  BY <1>1, SchedulerAssumption DEF ReservedIsHead, Structure, TypeOK
<1>. QED
  BY <1>1, <1>2, <1>3, <1>4, <1>5 DEF Structure, RotationExact, Exact, ScanUnreserved

\* The queues after the scheduler is closed.
LEMMA CloseStructure ==
    ASSUME Structure, Close
    PROVE  Structure'
<1>1. /\ queue' = [o \in Owners |-> <<>>]
      /\ scheduled' = [o \in Owners |-> FALSE]
      /\ rotation' = <<>>
      /\ status' = [q \in Requests |-> IF status[q] = "queued" THEN "new" ELSE status[q]]
      /\ pc' = "idle"
      /\ reserved' = NoRequest
  BY DEF Close, Cancelled, ReservationWithout, Structure, TypeOK
<1>2. TypeOK'
  <2>1. queue' \in [Owners -> Seq(Requests)] /\ rotation' \in Seq(Owners)
    BY <1>1, EmptySequence
  <2>2. closed' \in BOOLEAN
    BY DEF Close
  <2>3. scheduled' \in [Owners -> BOOLEAN]
    BY <1>1
  <2>. QED
    BY <1>1, <2>1, <2>2, <2>3 DEF Structure, TypeOK, Close, grantVars
<1>3. ASSUME NEW p \in Owners PROVE Exact(p)'
  <2>1. {q \in Requests : status'[q] = "queued" /\ Owner[q] = p} = {}
    BY <1>1 DEF Structure, TypeOK
  <2>. QED
    BY <1>1, <2>1, EmptySequence DEF Exact
<1>. QED
  BY <1>1, <1>2, <1>3, EmptySequence
  DEF Structure, RotationExact, Exact, ScanUnreserved, ReservedIsHead

\* A release does not touch the queues.
LEMMA ReleaseStructure ==
    ASSUME Structure, NEW r \in Requests, ReleaseSome(r)
    PROVE  Structure'
<1>1. PICK count \in 0 .. held[r].count, bytes \in 0 .. held[r].bytes :
          Release(r, count, bytes)
  BY DEF ReleaseSome
<1>2. held[r].count \in Nat /\ held[r].bytes \in Nat
  BY DEF Structure, TypeOK
<1>3. /\ status' \in [Requests -> {"new", "queued", "held"}]
      /\ \A q \in Requests : status'[q] = "queued" <=> status[q] = "queued"
  BY <1>1 DEF Release, Structure, TypeOK
<1>4. held' \in [Requests -> [count : Nat, bytes : Nat]]
  BY <1>1, <1>2 DEF Release, Structure, TypeOK
<1>5. laneCount' \in [Lanes -> Int]
  <2>1. Lane[r] \in Lanes /\ laneCount \in [Lanes -> Int]
    BY SchedulerAssumption DEF Structure, TypeOK
  <2>2. laneCount[Lane[r]] - count \in Int
    BY <1>2, <2>1
  <2>3. laneCount' = [laneCount EXCEPT ![Lane[r]] = laneCount[Lane[r]] - count]
    BY <1>1 DEF Release, LaneCountAfter
  <2>. QED
    BY <2>1, <2>2, <2>3
<1>6. /\ UNCHANGED <<admissionVars, lastGranted, closed, examined>>
      /\ pc' = "reserved"
      /\ activeCount' \in Int /\ activeBytes' \in Int
  BY <1>1, <1>2 DEF Release, Pump, Structure, TypeOK
<1>7. TypeOK'
  BY <1>3, <1>4, <1>5, <1>6 DEF Structure, TypeOK, admissionVars
<1>8. RotationExact'
  BY <1>3, <1>6 DEF Structure, RotationExact, admissionVars
<1>. QED
  BY <1>6, <1>7, <1>8 DEF Structure, ReservedIsHead, ScanUnreserved, admissionVars

LEMMA ReopenStructure ==
    ASSUME Structure, Reopen
    PROVE  Structure'
<1>1. TypeOK'
  BY DEF Reopen, Structure, TypeOK, grantVars
<1>2. RotationExact'
  BY DEF Reopen, Structure, RotationExact
<1>. QED
  BY <1>1, <1>2 DEF Reopen, Structure, ReservedIsHead, ScanUnreserved

\* The queues after the request at the head of a queue is granted.
LEMMA GrantStructure ==
    ASSUME Structure, NEW r \in Requests, Grant(r),
           queue[Owner[r]] # <<>>, r = Head(queue[Owner[r]]),
           reserved' = NoRequest, pc' = "scan", examined' \in Nat
    PROVE  Structure'
<1>. DEFINE o == Owner[r]
            more == Tail(queue[o]) # <<>>
            others == Without(rotation, o)
<1>1. /\ o \in Owners /\ queue[o] \in Seq(Requests) /\ IsInjective(queue[o])
      /\ scheduled[o] = TRUE
  BY SchedulerAssumption DEF Structure, TypeOK, RotationExact
<1>2. /\ Tail(queue[o]) \in Seq(Requests) /\ IsInjective(Tail(queue[o]))
      /\ ToSet(Tail(queue[o])) = ToSet(queue[o]) \ {r}
  BY <1>1, TailElements
<1>3. /\ others \in Seq(Owners) /\ IsInjective(others)
      /\ ToSet(others) = ToSet(rotation) \ {o}
      /\ o \in ToSet(rotation)
  BY <1>1, Unscheduled DEF Structure, RotationExact
<1>4. /\ rotation' \in Seq(Owners) /\ IsInjective(rotation')
      /\ ToSet(rotation') = IF more THEN ToSet(rotation) ELSE ToSet(rotation) \ {o}
  <2>. HIDE DEF others, more
  <2>1. /\ Append(others, o) \in Seq(Owners) /\ IsInjective(Append(others, o))
        /\ ToSet(Append(others, o)) = ToSet(others) \cup {o}
    BY <1>1, <1>3, AppendElements
  <2>2. rotation' = IF more THEN Append(others, o) ELSE others
    BY DEF Grant, more, others
  <2>. QED
    BY <1>3, <2>1, <2>2
<1>5. /\ queue' = [queue EXCEPT ![o] = Tail(@)]
      /\ scheduled' = [scheduled EXCEPT ![o] = more]
      /\ status' = [status EXCEPT ![r] = "held"]
      /\ UNCHANGED closed
  BY DEF Grant
<1>6. TypeOK'
  <2>1. queue' \in [Owners -> Seq(Requests)]
    BY <1>1, <1>2, <1>5 DEF Structure, TypeOK
  <2>2. scheduled' \in [Owners -> BOOLEAN]
    BY <1>1, <1>5 DEF Structure, TypeOK
  <2>3. held' \in [Requests -> [count : Nat, bytes : Nat]]
    BY SchedulerAssumption DEF Grant, Structure, TypeOK
  <2>4. Lane[r] \in Lanes /\ Count[r] \in Nat /\ Bytes[r] \in Nat
    BY SchedulerAssumption
  <2>5. laneCount' \in [Lanes -> Int]
    <3>1. laneCount' = [laneCount EXCEPT ![Lane[r]] = laneCount[Lane[r]] + Count[r]]
      BY DEF Grant
    <3>2. laneCount \in [Lanes -> Int] /\ laneCount[Lane[r]] + Count[r] \in Int
      BY <2>4 DEF Structure, TypeOK
    <3>. QED
      BY <2>4, <3>1, <3>2
  <2>6. /\ activeCount' \in Int /\ activeBytes' \in Int /\ pendingCount' \in Int
        /\ lastGranted' \in Owners \cup {NoOwner}
    <3>1. /\ activeCount' = activeCount + Count[r]
          /\ activeBytes' = activeBytes + Bytes[r]
          /\ pendingCount' = pendingCount - 1
          /\ lastGranted' = o
      BY DEF Grant
    <3>2. activeCount \in Int /\ activeBytes \in Int /\ pendingCount \in Int
      BY DEF Structure, TypeOK
    <3>. QED
      BY <1>1, <2>4, <3>1, <3>2
  <2>. QED
    BY <1>4, <1>5, <2>1, <2>2, <2>3, <2>5, <2>6 DEF Structure, TypeOK
<1>7. ASSUME NEW p \in Owners PROVE Exact(p)'
  <2>1. CASE p = o
    <3>1. queue'[p] = Tail(queue[o]) /\ (scheduled'[p] <=> more)
      BY <1>1, <1>5, <2>1 DEF Structure, TypeOK
    <3>2. {q \in Requests : status'[q] = "queued" /\ Owner[q] = p}
             = {q \in Requests : status[q] = "queued" /\ Owner[q] = p} \ {r}
      BY <1>5, <2>1 DEF Structure, TypeOK
    <3>. QED
      BY <1>1, <1>2, <1>3, <1>4, <2>1, <3>1, <3>2
      DEF Exact, Structure, RotationExact
  <2>2. CASE p # o
    <3>1. queue'[p] = queue[p] /\ scheduled'[p] = scheduled[p]
      BY <1>5, <2>2 DEF Structure, TypeOK
    <3>2. {q \in Requests : status'[q] = "queued" /\ Owner[q] = p}
             = {q \in Requests : status[q] = "queued" /\ Owner[q] = p}
      BY <1>5, <2>2 DEF Structure, TypeOK
    <3>. QED
      BY <1>4, <2>2, <3>1, <3>2 DEF Exact, Structure, RotationExact
  <2>. QED
    BY <2>1, <2>2
<1>. QED
  BY <1>4, <1>6, <1>7
  DEF Structure, RotationExact, Exact, ScanUnreserved, ReservedIsHead

\* The request a round of the scan looks at is the oldest of a waiting owner.
LEMMA ScannedRequest ==
    ASSUME Structure, NEW r \in Requests, Scanned(r)
    PROVE  /\ rotation # <<>>
           /\ Owner[r] = Head(rotation)
           /\ Owner[r] \in Owners
           /\ queue[Owner[r]] # <<>>
           /\ r = Head(queue[Owner[r]])
           /\ status[r] = "queued"
           /\ reserved = NoRequest
<1>1. rotation # <<>>
  BY DEF Scanned, Structure, TypeOK
<1>. QED
  BY <1>1, FrontOwner, HeadRequest DEF Scanned, Structure, ScanUnreserved

\* A reservation is for a request that waits.
LEMMA ReservedRequest ==
    ASSUME Structure, reserved # NoRequest
    PROVE  reserved \in Requests /\ status[reserved] = "queued"
<1>1. /\ reserved \in Requests /\ Owner[reserved] \in Owners
      /\ queue[Owner[reserved]] # <<>>
      /\ reserved = Head(queue[Owner[reserved]])
  BY SchedulerAssumption DEF Structure, TypeOK, ReservedIsHead
<1>. QED
  BY <1>1, HeadRequest

\* Moving the front owner to the end keeps the queues exact.
LEMMA RotatePastStructure ==
    ASSUME Structure, rotation # <<>>, RotatePast,
           UNCHANGED <<status, queue, scheduled>>
    PROVE  rotation' \in Seq(Owners) /\ RotationExact'
<1>1. /\ rotation' \in Seq(Owners) /\ IsInjective(rotation')
      /\ ToSet(rotation') = ToSet(rotation)
  BY ToTheEndElements DEF RotatePast, Structure, TypeOK, RotationExact
<1>. QED
  BY <1>1 DEF Structure, RotationExact

LEMMA PumpStructure ==
    ASSUME Structure, PumpStep
    PROVE  Structure'
<1>1. CASE PumpStops
  BY <1>1 DEF PumpStops, Structure, TypeOK, RotationExact, ReservedIsHead,
              ScanUnreserved, admissionVars, grantVars
<1>2. CASE PumpGrantsReserved
  <2>1. reserved \in Requests /\ queue[Owner[reserved]] # <<>>
        /\ reserved = Head(queue[Owner[reserved]])
    BY <1>2 DEF PumpGrantsReserved, Structure, TypeOK, ReservedIsHead
  <2>2. Grant(reserved) /\ reserved' = NoRequest /\ pc' = "scan" /\ examined' \in Nat
    BY <1>2 DEF PumpGrantsReserved, PumpContinues
  <2>. QED
    BY <2>1, <2>2, GrantStructure
<1>3. CASE PumpReservesNothing
  BY <1>3 DEF PumpReservesNothing, PumpContinues, Structure, TypeOK,
              RotationExact, ReservedIsHead, ScanUnreserved, grantVars
<1>4. CASE ScanEnds
  BY <1>4 DEF ScanEnds, Structure, TypeOK, RotationExact, ReservedIsHead,
              ScanUnreserved, admissionVars, grantVars
<1>5. ASSUME NEW r \in Requests, ScanGrants(r) PROVE Structure'
  BY <1>5, ScannedRequest, GrantStructure DEF ScanGrants, Scanned
<1>6. ASSUME NEW r \in Requests, ScanReserves(r) PROVE Structure'
  <2>1. Scanned(r) /\ RotatePast /\ UNCHANGED <<status, queue, scheduled>>
    BY <1>6 DEF ScanReserves
  <2>2. rotation' \in Seq(Owners) /\ RotationExact'
    BY <2>1, ScannedRequest, RotatePastStructure
  <2>3. TypeOK'
    BY <1>6, <2>2 DEF ScanReserves, Structure, TypeOK, grantVars
  <2>. QED
    BY <1>6, <2>1, <2>2, <2>3, ScannedRequest
    DEF ScanReserves, Structure, ReservedIsHead, ScanUnreserved
<1>7. ASSUME NEW r \in Requests, ScanPasses(r) PROVE Structure'
  <2>1. Scanned(r) /\ RotatePast /\ UNCHANGED <<status, queue, scheduled>>
    BY <1>7 DEF ScanPasses
  <2>2. rotation' \in Seq(Owners) /\ RotationExact'
    BY <2>1, ScannedRequest, RotatePastStructure
  <2>3. TypeOK'
    BY <1>7, <2>2 DEF ScanPasses, Structure, TypeOK, grantVars
  <2>. QED
    BY <1>7, <2>1, <2>2, <2>3, ScannedRequest
    DEF ScanPasses, Structure, ReservedIsHead, ScanUnreserved
<1>. QED
  BY <1>1, <1>2, <1>3, <1>4, <1>5, <1>6, <1>7 DEF PumpStep

LEMMA StructureStep == Structure /\ [Next]_vars => Structure'
<1>. SUFFICES ASSUME Structure, [Next]_vars PROVE Structure'
  OBVIOUS
<1>1. CASE UNCHANGED vars
  BY <1>1 DEF vars, admissionVars, grantVars, Structure, TypeOK, RotationExact,
              ReservedIsHead, ScanUnreserved
<1>. QED
  BY <1>1, AcquireStructure, AbortStructure, ReleaseStructure, CancelStructure,
     CloseStructure, ReopenStructure, PumpStructure
  DEF Next

-----------------------------------------------------------------------------
\* The budgets.

\* What waits was admitted by acquire.
QueuedAdmissible ==
    \A r \in Requests : status[r] = "queued" => Admissible(r)

Budgets == QueuedAdmissible /\ WithinBudget

\* Budgets of the current state bound what a grant adds; a release only lowers
\* the counters.
LEMMA GrantBudget ==
    ASSUME Structure, Budgets, NEW r \in Requests, status[r] = "queued",
           CanGrant(r), Grant(r)
    PROVE  Budgets'
<1>1. /\ Count[r] \in Nat /\ Bytes[r] \in Nat /\ Lane[r] \in Lanes
      /\ ByteLimit \in Nat /\ DOMAIN LaneLimit \subseteq Lanes
  BY SchedulerAssumption
<1>2. /\ activeCount \in Int /\ activeBytes \in Int
      /\ laneCount \in [Lanes -> Int]
      /\ status \in [Requests -> {"new", "queued", "held"}]
  BY DEF Structure, TypeOK
<1>3. /\ activeCount' = activeCount + Count[r]
      /\ activeBytes' = activeBytes + Bytes[r]
      /\ laneCount' = [laneCount EXCEPT ![Lane[r]] = @ + Count[r]]
      /\ status' = [status EXCEPT ![r] = "held"]
  BY DEF Grant
<1>4. activeCount' <= CountLimit
  BY <1>3 DEF CanGrant, HasSharedCapacity
<1>5. activeBytes' <= ByteLimit
  <2>1. Bytes[r] <= ByteLimit
    BY DEF Budgets, QueuedAdmissible, Admissible
  <2>. QED
    BY <1>1, <1>2, <1>3, <2>1 DEF CanGrant, HasSharedCapacity
<1>6. ASSUME NEW lane \in DOMAIN LaneLimit PROVE laneCount'[lane] <= LaneLimit[lane]
  <2>1. CASE lane = Lane[r]
    BY <1>1, <1>2, <1>3, <2>1 DEF CanGrant, HasLaneCapacity
  <2>2. CASE lane # Lane[r]
    BY <1>1, <1>2, <1>3, <2>2 DEF Budgets, WithinBudget
  <2>. QED
    BY <2>1, <2>2
<1>7. QueuedAdmissible'
  BY <1>2, <1>3 DEF Budgets, QueuedAdmissible, Admissible
<1>. QED
  BY <1>4, <1>5, <1>6, <1>7 DEF Budgets, WithinBudget

LEMMA ReleaseBudget ==
    ASSUME Structure, Budgets, NEW r \in Requests, ReleaseSome(r)
    PROVE  Budgets'
<1>1. PICK count \in 0 .. held[r].count, bytes \in 0 .. held[r].bytes :
          Release(r, count, bytes)
  BY DEF ReleaseSome
<1>2. count \in Nat /\ bytes \in Nat
  BY DEF Structure, TypeOK
<1>3. /\ activeCount \in Int /\ activeBytes \in Int
      /\ laneCount \in [Lanes -> Int]
      /\ status \in [Requests -> {"new", "queued", "held"}]
  BY DEF Structure, TypeOK
<1>4. /\ activeCount' = activeCount - count
      /\ activeBytes' = activeBytes - bytes
      /\ laneCount' = [laneCount EXCEPT ![Lane[r]] = @ - count]
  BY <1>1 DEF Release, LaneCountAfter
<1>5. \A q \in Requests : status'[q] = "queued" => status[q] = "queued"
  BY <1>1, <1>3 DEF Release
<1>6. activeCount' <= CountLimit /\ activeBytes' <= ByteLimit
  BY <1>2, <1>3, <1>4, SchedulerAssumption DEF Budgets, WithinBudget
<1>7. ASSUME NEW lane \in DOMAIN LaneLimit PROVE laneCount'[lane] <= LaneLimit[lane]
  <2>1. /\ lane \in Lanes /\ Lane[r] \in Lanes /\ LaneLimit[lane] \in Nat
        /\ laneCount[lane] <= LaneLimit[lane] /\ laneCount[lane] \in Int
    BY <1>3, SchedulerAssumption DEF Budgets, WithinBudget
  <2>. QED
    BY <1>2, <1>3, <1>4, <2>1
<1>. QED
  BY <1>5, <1>6, <1>7 DEF Budgets, WithinBudget, QueuedAdmissible, Admissible

LEMMA BudgetsStep == Structure /\ Budgets /\ [Next]_vars => Budgets'
<1>. SUFFICES ASSUME Structure, Budgets, [Next]_vars PROVE Budgets'
  OBVIOUS
<1>. DEFINE Counters == <<activeCount, activeBytes, laneCount>>
<1>1. ASSUME UNCHANGED Counters,
             \A q \in Requests : status'[q] = "queued" => status[q] = "queued" \/ Admissible(q)
      PROVE  Budgets'
  BY <1>1 DEF Budgets, WithinBudget, QueuedAdmissible, Admissible
<1>2. ASSUME NEW r \in Requests, Acquire(r) PROVE Budgets'
  BY <1>1, <1>2 DEF Acquire, grantVars, Structure, TypeOK
<1>3. ASSUME NEW r \in Requests, Abort(r) PROVE Budgets'
  BY <1>1, <1>3 DEF Abort, grantVars, Structure, TypeOK
<1>4. ASSUME NEW o \in Owners, CancelOwner(o) PROVE Budgets'
  BY <1>1, <1>4 DEF CancelOwner, Cancelled, grantVars, Structure, TypeOK
<1>5. CASE Close \/ Reopen
  BY <1>1, <1>5 DEF Close, Reopen, Cancelled, grantVars, Structure, TypeOK
<1>6. CASE PumpStops \/ PumpReservesNothing \/ ScanEnds
  BY <1>1, <1>6 DEF PumpStops, PumpReservesNothing, ScanEnds, grantVars
<1>7. CASE PumpGrantsReserved
  BY <1>7, ReservedRequest, GrantBudget DEF PumpGrantsReserved
<1>8. ASSUME NEW r \in Requests, ScanGrants(r) PROVE Budgets'
  BY <1>8, ScannedRequest, GrantBudget DEF ScanGrants
<1>9. ASSUME NEW r \in Requests, ScanReserves(r) \/ ScanPasses(r) PROVE Budgets'
  BY <1>1, <1>9 DEF ScanReserves, ScanPasses, grantVars
<1>10. CASE UNCHANGED vars
  BY <1>1, <1>10 DEF vars, grantVars
<1>. QED
  BY <1>2, <1>3, <1>4, <1>5, <1>6, <1>7, <1>8, <1>9, <1>10, ReleaseBudget
  DEF Next, PumpStep

-----------------------------------------------------------------------------
\* What pump leaves behind.

ClosedIsEmpty == closed => rotation = <<>>

\* While pump scans, the owners it has passed since the last grant are the last
\* ones of the rotation, and each waits for its lane.
PassedOwners ==
    pc = "scan" =>
        /\ ~closed
        /\ \A i \in 1 .. Len(rotation) :
               i > Len(rotation) - examined =>
                   ~HasLaneCapacity(Head(queue[rotation[i]]))

Progress == ClosedIsEmpty /\ PassedOwners /\ ReservedLaneOpen /\ WorkConserving

\* An entry point hands over to pump, which has not looked at anything yet.
LEMMA EntryProgress ==
    ASSUME Structure, Progress, pc' = "reserved",
           closed' => rotation' = <<>>,
           reserved' # NoRequest => reserved' = reserved,
           \A r \in Requests : HasLaneCapacity(r) => HasLaneCapacity(r)'
    PROVE  Progress'
BY DEF Progress, ClosedIsEmpty, PassedOwners, ReservedLaneOpen, WorkConserving,
       Structure, TypeOK

LEMMA ReleaseLaneCapacity ==
    ASSUME Structure, NEW r \in Requests, ReleaseSome(r), NEW q \in Requests,
           HasLaneCapacity(q)
    PROVE  HasLaneCapacity(q)'
<1>1. PICK count \in 0 .. held[r].count, bytes \in 0 .. held[r].bytes :
          Release(r, count, bytes)
  BY DEF ReleaseSome
<1>2. count \in Nat
  BY DEF Structure, TypeOK
<1>3. /\ laneCount \in [Lanes -> Int]
      /\ laneCount' = [laneCount EXCEPT ![Lane[r]] = @ - count]
  BY <1>1 DEF Release, LaneCountAfter, Structure, TypeOK
<1>4. Lane[r] \in Lanes /\ Lane[q] \in Lanes /\ Count[q] \in Nat
  BY SchedulerAssumption
<1>5. laneCount'[Lane[q]] \in Int /\ laneCount'[Lane[q]] <= laneCount[Lane[q]]
  BY <1>2, <1>3, <1>4
<1>6. Lane[q] \in DOMAIN LaneLimit => LaneLimit[Lane[q]] \in Nat
  BY SchedulerAssumption
<1>. QED
  BY <1>3, <1>4, <1>5, <1>6 DEF HasLaneCapacity

\* An empty queue is not in the rotation, so cancelling or closing empties it.
LEMMA EntriesProgress ==
    ASSUME Structure, Progress,
           \/ \E r \in Requests : Acquire(r) \/ Abort(r) \/ ReleaseSome(r)
           \/ \E o \in Owners : CancelOwner(o)
           \/ Close \/ Reopen
    PROVE  Progress'
<1>1. ASSUME NEW r \in Requests, Acquire(r) PROVE Progress'
  <2>1. \A q \in Requests : HasLaneCapacity(q)' = HasLaneCapacity(q)
    BY <1>1 DEF Acquire, grantVars, HasLaneCapacity
  <2>. QED
    BY <1>1, <2>1, EntryProgress DEF Acquire, Pump, ReservationWithout
<1>2. ASSUME NEW r \in Requests, Abort(r) PROVE Progress'
  <2>1. \A q \in Requests : HasLaneCapacity(q)' = HasLaneCapacity(q)
    BY <1>2 DEF Abort, grantVars, HasLaneCapacity
  <2>2. ~closed
    <3>1. Owner[r] \in ToSet(rotation)
      BY <1>2, QueuedRequest DEF Abort, Structure, RotationExact
    <3>. QED
      BY <3>1, EmptySequence DEF Progress, ClosedIsEmpty
  <2>. QED
    BY <1>2, <2>1, <2>2, EntryProgress DEF Abort, Pump, ReservationWithout
<1>3. ASSUME NEW r \in Requests, ReleaseSome(r) PROVE Progress'
  <2>1. /\ pc' = "reserved"
        /\ UNCHANGED <<closed, rotation, reserved>>
    BY <1>3 DEF ReleaseSome, Release, Pump, admissionVars
  <2>. QED
    BY <1>3, <2>1, ReleaseLaneCapacity, EntryProgress DEF Progress, ClosedIsEmpty
<1>4. ASSUME NEW o \in Owners, CancelOwner(o) PROVE Progress'
  <2>1. \A q \in Requests : HasLaneCapacity(q)' = HasLaneCapacity(q)
    BY <1>4 DEF CancelOwner, grantVars, HasLaneCapacity
  <2>2. ~closed
    <3>1. o \in ToSet(rotation)
      BY <1>4 DEF CancelOwner, Structure, RotationExact
    <3>. QED
      BY <3>1, EmptySequence DEF Progress, ClosedIsEmpty
  <2>. QED
    BY <1>4, <2>1, <2>2, EntryProgress
    DEF CancelOwner, Cancelled, Pump, ReservationWithout
<1>5. CASE Close
  <2>1. closed' = TRUE /\ rotation' = <<>> /\ pc' = "idle" /\ reserved' = NoRequest
    BY <1>5 DEF Close, Cancelled, ReservationWithout, Structure, TypeOK
  <2>. QED
    BY <2>1 DEF Progress, ClosedIsEmpty, PassedOwners, ReservedLaneOpen, WorkConserving
<1>6. CASE Reopen
  <2>1. closed' = FALSE /\ rotation' = <<>> /\ pc' = "idle" /\ reserved' = NoRequest
    BY <1>6 DEF Reopen, Progress, ClosedIsEmpty
  <2>. QED
    BY <2>1, EmptySequence
    DEF Progress, ClosedIsEmpty, PassedOwners, ReservedLaneOpen, WorkConserving
<1>. QED
  BY <1>1, <1>2, <1>3, <1>4, <1>5, <1>6

\* The end of a scan: every owner has been passed.
LEMMA ScanEndsProgress ==
    ASSUME Structure, Progress, ScanEnds
    PROVE  Progress'
<1>1. /\ pc = "scan" /\ examined >= Len(rotation) /\ pc' = "idle"
      /\ UNCHANGED <<closed, rotation, reserved, queue, laneCount>>
  BY DEF ScanEnds, admissionVars, grantVars
<1>2. rotation \in Seq(Owners) /\ examined \in Nat /\ reserved = NoRequest
  BY <1>1 DEF Structure, TypeOK, ScanUnreserved
<1>3. \A o \in ToSet(rotation) : ~HasLaneCapacity(Head(queue[o]))
  BY <1>1, <1>2 DEF Progress, PassedOwners, ToSet
<1>4. (\A o \in ToSet(rotation) : ~HasLaneCapacity(Head(queue[o])))'
  BY <1>1, <1>3 DEF HasLaneCapacity
<1>. QED
  BY <1>1, <1>2, <1>4
  DEF Progress, ClosedIsEmpty, PassedOwners, ReservedLaneOpen, WorkConserving

\* A passed owner joins the passed ones at the end of the rotation.
LEMMA ScanPassesProgress ==
    ASSUME Structure, Progress, NEW r \in Requests, ScanPasses(r)
    PROVE  Progress'
<1>1. /\ pc = "scan" /\ rotation # <<>> /\ r = Head(queue[Head(rotation)])
      /\ reserved = NoRequest /\ rotation \in Seq(Owners) /\ examined \in Nat
  BY ScannedRequest DEF ScanPasses, Scanned, Structure, TypeOK
<1>2. /\ ~HasLaneCapacity(r)
      /\ rotation' = ToTheEnd(rotation)
      /\ examined' = examined + 1
      /\ UNCHANGED <<queue, laneCount, closed, pc, reserved>>
  BY DEF ScanPasses, RotatePast, grantVars
<1>3. /\ Len(ToTheEnd(rotation)) = Len(rotation)
      /\ \A i \in 1 .. Len(rotation) - 1 : ToTheEnd(rotation)[i] = rotation[i + 1]
      /\ ToTheEnd(rotation)[Len(rotation)] = Head(rotation)
      /\ Len(rotation) \in Nat
  BY <1>1 DEF ToTheEnd
<1>4. ASSUME NEW i \in 1 .. Len(rotation'), i > Len(rotation') - examined'
      PROVE  ~HasLaneCapacity(Head(queue[rotation'[i]]))
  <2>1. CASE i = Len(rotation)
    BY <1>1, <1>2, <1>3, <2>1
  <2>2. CASE i # Len(rotation)
    <3>1. /\ i \in 1 .. Len(rotation) - 1 /\ rotation'[i] = rotation[i + 1]
          /\ i + 1 \in 1 .. Len(rotation) /\ i + 1 > Len(rotation) - examined
      BY <1>1, <1>2, <1>3, <1>4, <2>2
    <3>. QED
      BY <1>1, <3>1 DEF Progress, PassedOwners
  <2>. QED
    BY <2>1, <2>2
<1>5. (\A i \in 1 .. Len(rotation) :
          i > Len(rotation) - examined => ~HasLaneCapacity(Head(queue[rotation[i]])))'
  BY <1>2, <1>4 DEF HasLaneCapacity
<1>. QED
  BY <1>1, <1>2, <1>5
  DEF Progress, ClosedIsEmpty, PassedOwners, ReservedLaneOpen, WorkConserving

\* After a grant pump starts a new round of the scan.
LEMMA GrantProgress ==
    ASSUME Structure', ~closed, UNCHANGED closed, pc' = "scan", examined' = 0,
           reserved' = NoRequest
    PROVE  Progress'
<1>1. rotation' \in Seq(Owners)
  BY DEF Structure, TypeOK
<1>. QED
  BY <1>1 DEF Progress, ClosedIsEmpty, PassedOwners, ReservedLaneOpen, WorkConserving

LEMMA PumpProgress ==
    ASSUME Structure, Structure', Progress, PumpStep
    PROVE  Progress'
<1>1. CASE PumpStops
  <2>1. /\ pc' = "idle"
        /\ UNCHANGED <<closed, rotation, reserved, queue, laneCount, activeCount,
                       activeBytes>>
        /\ \/ closed
           \/ rotation = <<>>
           \/ reserved # NoRequest /\ ~HasSharedCapacity(reserved)
    BY <1>1 DEF PumpStops, admissionVars, grantVars
  <2>2. rotation = <<>> => reserved = NoRequest
    <3>. SUFFICES ASSUME rotation = <<>>, reserved # NoRequest PROVE FALSE
      OBVIOUS
    <3>1. Owner[reserved] \in Owners /\ queue[Owner[reserved]] # <<>>
      BY SchedulerAssumption DEF Structure, TypeOK, ReservedIsHead
    <3>. QED
      BY <3>1, EmptySequence DEF Structure, RotationExact
  <2>3. WorkConserving'
    BY <2>1, <2>2, EmptySequence DEF WorkConserving, HasSharedCapacity
  <2>. QED
    BY <2>1, <2>3
    DEF Progress, ClosedIsEmpty, PassedOwners, ReservedLaneOpen, HasLaneCapacity
<1>2. CASE PumpGrantsReserved
  BY <1>2, GrantProgress DEF PumpGrantsReserved, PumpContinues, Grant
<1>3. CASE PumpReservesNothing
  BY <1>3, GrantProgress DEF PumpReservesNothing, PumpContinues
<1>4. CASE ScanEnds
  BY <1>4, ScanEndsProgress
<1>5. ASSUME NEW r \in Requests, ScanGrants(r) PROVE Progress'
  <2>1. pc = "scan" /\ ~closed /\ reserved = NoRequest
    BY <1>5 DEF ScanGrants, Scanned, Progress, PassedOwners, Structure, ScanUnreserved
  <2>. QED
    BY <1>5, <2>1, GrantProgress DEF ScanGrants, Grant
<1>6. ASSUME NEW r \in Requests, ScanReserves(r) PROVE Progress'
  <2>1. /\ pc = "scan" /\ ~closed /\ pc' = "idle" /\ reserved' = r
        /\ ~HasSharedCapacity(r) /\ HasLaneCapacity(r)
        /\ UNCHANGED <<closed, laneCount, activeCount, activeBytes>>
    BY <1>6 DEF ScanReserves, Scanned, Progress, PassedOwners, grantVars
  <2>2. r # NoRequest
    BY SchedulerAssumption
  <2>3. ~HasSharedCapacity(reserved)' /\ HasLaneCapacity(reserved)'
    BY <2>1 DEF HasSharedCapacity, HasLaneCapacity
  <2>. QED
    BY <2>1, <2>2, <2>3
    DEF Progress, ClosedIsEmpty, PassedOwners, ReservedLaneOpen, WorkConserving
<1>7. ASSUME NEW r \in Requests, ScanPasses(r) PROVE Progress'
  BY <1>7, ScanPassesProgress
<1>. QED
  BY <1>1, <1>2, <1>3, <1>4, <1>5, <1>6, <1>7 DEF PumpStep

-----------------------------------------------------------------------------
\* What the counters count.

Queued == {r \in Requests : status[r] = "queued"}
OfLane(lane) == {r \in Requests : Lane[r] = lane}
Counts(h) == [r \in Requests |-> h[r].count]
Sizes(h) == [r \in Requests |-> h[r].bytes]

\* A request covers something just while it holds a permit.
HeldIsCovered == \A r \in Requests : held[r] = Nothing <=> status[r] # "held"

SumsCounted ==
    /\ activeCount = Total(Counts(held), Requests)
    /\ activeBytes = Total(Sizes(held), Requests)
    /\ \A lane \in Lanes : laneCount[lane] = Total(Counts(held), OfLane(lane))

PendingCounted == pendingCount = Cardinality(Queued)

Counted == HeldIsCovered /\ SumsCounted /\ PendingCounted

LEMMA LanesFinite == \A lane : IsFiniteSet(OfLane(lane)) /\ OfLane(lane) \subseteq Requests
BY SchedulerAssumption, FS_Subset DEF OfLane

LEMMA PermitTypes ==
    ASSUME TypeOK, NEW r \in Requests
    PROVE  /\ held[r].count \in Nat /\ held[r].bytes \in Nat
           /\ Counts(held)[r] = held[r].count /\ Sizes(held)[r] = held[r].bytes
BY DEF TypeOK, Counts, Sizes

\* When one permit changes and the counters follow, they count all permits.
LEMMA PermitChanges ==
    ASSUME TypeOK, TypeOK', SumsCounted, NEW r \in Requests,
           \A q \in Requests \ {r} : held'[q] = held[q],
           activeCount' = activeCount - held[r].count + held'[r].count,
           activeBytes' = activeBytes - held[r].bytes + held'[r].bytes,
           laneCount' = [laneCount EXCEPT ![Lane[r]] = @ - held[r].count + held'[r].count]
    PROVE  SumsCounted'
<1>. DEFINE v == Counts(held')
            w == Counts(held)
<1>1. \A q \in Requests : /\ v[q] \in Nat /\ w[q] \in Nat
                          /\ v[q] = held'[q].count /\ w[q] = held[q].count
  BY DEF TypeOK, Counts
<1>2. \A q \in Requests \ {r} : v[q] = w[q]
  BY <1>1
<1>. HIDE DEF v, w
<1>3. Total(v, Requests) = Total(w, Requests) - w[r] + v[r]
  BY <1>1, <1>2, TotalChange, SchedulerAssumption
<1>4. activeCount' = Total(v, Requests)
  BY <1>1, <1>3 DEF SumsCounted, w
<1>5. activeBytes' = Total(Sizes(held'), Requests)
  <2>1. \A q \in Requests : /\ Sizes(held')[q] \in Nat /\ Sizes(held)[q] \in Nat
                            /\ Sizes(held')[q] = held'[q].bytes
                            /\ Sizes(held)[q] = held[q].bytes
    BY DEF TypeOK, Sizes
  <2>2. \A q \in Requests \ {r} : Sizes(held')[q] = Sizes(held)[q]
    BY <2>1
  <2>3. Total(Sizes(held'), Requests)
            = Total(Sizes(held), Requests) - Sizes(held)[r] + Sizes(held')[r]
    BY <2>1, <2>2, TotalChange, SchedulerAssumption
  <2>. QED
    BY <2>1, <2>3 DEF SumsCounted
<1>6. ASSUME NEW lane \in Lanes PROVE laneCount'[lane] = Total(v, OfLane(lane))
  <2>1. IsFiniteSet(OfLane(lane)) /\ OfLane(lane) \subseteq Requests
    BY LanesFinite
  <2>2. laneCount[lane] = Total(w, OfLane(lane)) /\ laneCount \in [Lanes -> Int]
    BY DEF SumsCounted, TypeOK, w
  <2>3. CASE lane = Lane[r]
    <3>1. r \in OfLane(lane)
      BY <2>3 DEF OfLane
    <3>2. Total(v, OfLane(lane)) = Total(w, OfLane(lane)) - w[r] + v[r]
      BY <1>1, <1>2, <2>1, <3>1, TotalChange
    <3>3. laneCount'[lane] = laneCount[lane] - held[r].count + held'[r].count
      BY <2>2, <2>3
    <3>. QED
      BY <1>1, <2>2, <3>2, <3>3
  <2>4. CASE lane # Lane[r]
    <3>1. r \notin OfLane(lane)
      BY <2>4 DEF OfLane
    <3>2. Total(v, OfLane(lane)) = Total(w, OfLane(lane))
      BY <1>2, <2>1, <3>1, TotalSame
    <3>. QED
      BY <2>2, <2>4, <3>2
  <2>. QED
    BY <2>3, <2>4
<1>. QED
  BY <1>4, <1>5, <1>6 DEF SumsCounted, v

\* The permits of those who hold one are all that is held.
LEMMA CountedConserves ==
    ASSUME TypeOK, Counted
    PROVE  Conservation
<1>. DEFINE InUse == {r \in Requests : status[r] = "held"}
<1>1. ASSUME NEW S \in SUBSET Requests, NEW T, T = {r \in S : status[r] = "held"}
      PROVE  /\ MapThenSumSet(LAMBDA r : held[r].count, T) = Total(Counts(held), S)
             /\ MapThenSumSet(LAMBDA r : held[r].bytes, T) = Total(Sizes(held), S)
  <2>1. IsFiniteSet(T) /\ T \in SUBSET S
    BY <1>1, SchedulerAssumption, FS_Subset
  <2>2. \A r \in T : held[r].count \in Nat /\ held[r].bytes \in Nat
    BY <1>1 DEF TypeOK
  <2>3. \A r \in S \ T : held[r].count = 0 /\ held[r].bytes = 0
    BY <1>1 DEF Counted, HeldIsCovered, Nothing
  <2>4. Total(Counts(held), S) = Total([r \in T |-> held[r].count], T)
    <3>1. \A r \in T : Counts(held)[r] = [q \in T |-> held[q].count][r]
      BY <1>1 DEF Counts
    <3>2. \A r \in S \ T : Counts(held)[r] = 0
      BY <2>3 DEF Counts
    <3>. QED
      BY <2>1, <3>1, <3>2, TotalSame
  <2>5. Total(Sizes(held), S) = Total([r \in T |-> held[r].bytes], T)
    <3>1. \A r \in T : Sizes(held)[r] = [q \in T |-> held[q].bytes][r]
      BY <1>1 DEF Sizes
    <3>2. \A r \in S \ T : Sizes(held)[r] = 0
      BY <2>3 DEF Sizes
    <3>. QED
      BY <2>1, <3>1, <3>2, TotalSame
  <2>6. MapThenSumSet(LAMBDA r : held[r].count, T) = Total([r \in T |-> held[r].count], T)
    BY <2>1, <2>2, SumOfCounts
  <2>7. MapThenSumSet(LAMBDA r : held[r].bytes, T) = Total([r \in T |-> held[r].bytes], T)
    BY <2>1, <2>2, SumOfBytes
  <2>. QED
    BY <2>4, <2>5, <2>6, <2>7
<1>2. /\ activeCount = MapThenSumSet(LAMBDA r : held[r].count, InUse)
      /\ activeBytes = MapThenSumSet(LAMBDA r : held[r].bytes, InUse)
  BY <1>1 DEF Counted, SumsCounted
<1>3. ASSUME NEW lane \in Lanes
      PROVE  laneCount[lane] = MapThenSumSet(LAMBDA r : held[r].count,
                                             {r \in InUse : Lane[r] = lane})
  <2>1. {r \in InUse : Lane[r] = lane} = {r \in OfLane(lane) : status[r] = "held"}
    BY DEF OfLane
  <2>. QED
    BY <1>1, <2>1, LanesFinite DEF Counted, SumsCounted
<1>. QED
  BY <1>2, <1>3, Zenon DEF Conservation, Counted, PendingCounted, Queued

\* A grant takes one request from those that wait, and counts its permit.
LEMMA GrantCounted ==
    ASSUME Structure, Structure', Counted, NEW r \in Requests, status[r] = "queued", Grant(r)
    PROVE  Counted'
<1>1. /\ status' = [status EXCEPT ![r] = "held"]
      /\ held' = [held EXCEPT ![r] = [count |-> Count[r], bytes |-> Bytes[r]]]
      /\ pendingCount' = pendingCount - 1
      /\ activeCount' = activeCount + Count[r]
      /\ activeBytes' = activeBytes + Bytes[r]
      /\ laneCount' = [laneCount EXCEPT ![Lane[r]] = @ + Count[r]]
  BY DEF Grant
<1>2. /\ Count[r] \in Nat \ {0} /\ Bytes[r] \in Nat /\ Lane[r] \in Lanes
      /\ IsFiniteSet(Requests)
  BY SchedulerAssumption
<1>3. /\ held'[r] = [count |-> Count[r], bytes |-> Bytes[r]]
      /\ status'[r] = "held"
      /\ \A q \in Requests \ {r} : held'[q] = held[q] /\ status'[q] = status[q]
      /\ held[r] = Nothing
  BY <1>1 DEF Structure, TypeOK, Counted, HeldIsCovered
<1>4. HeldIsCovered'
  BY <1>2, <1>3 DEF Counted, HeldIsCovered, Nothing
<1>5. /\ held[r].count = 0 /\ held[r].bytes = 0
      /\ held'[r].count = Count[r] /\ held'[r].bytes = Bytes[r]
  BY <1>3 DEF Nothing
<1>6. /\ activeCount \in Int /\ activeBytes \in Int /\ laneCount[Lane[r]] \in Int
      /\ TypeOK /\ TypeOK'
  BY <1>2 DEF Structure, TypeOK
<1>7. /\ activeCount' = activeCount - held[r].count + held'[r].count
      /\ activeBytes' = activeBytes - held[r].bytes + held'[r].bytes
      /\ laneCount' = [laneCount EXCEPT ![Lane[r]] = @ - held[r].count + held'[r].count]
  <2>1. /\ activeCount' = activeCount - held[r].count + held'[r].count
        /\ activeBytes' = activeBytes - held[r].bytes + held'[r].bytes
    BY <1>1, <1>2, <1>5, <1>6
  <2>2. laneCount[Lane[r]] + Count[r] = laneCount[Lane[r]] - held[r].count + held'[r].count
    BY <1>2, <1>5, <1>6
  <2>3. laneCount' = [laneCount EXCEPT ![Lane[r]] = laneCount[Lane[r]] + Count[r]]
    BY <1>1
  <2>. QED
    BY <2>1, <2>2, <2>3
<1>8. SumsCounted'
  BY <1>3, <1>6, <1>7, PermitChanges DEF Counted
<1>9. PendingCounted'
  <2>1. Queued' = Queued \ {r} /\ r \in Queued
    BY <1>3 DEF Queued
  <2>2. IsFiniteSet(Queued)
    BY <1>2, FS_Subset DEF Queued
  <2>3. Cardinality(Queued \ {r}) = Cardinality(Queued) - 1
    BY <2>1, <2>2, FS_RemoveElement
  <2>. QED
    BY <1>1, <2>1, <2>3 DEF Counted, PendingCounted
<1>. QED
  BY <1>4, <1>8, <1>9 DEF Counted

\* A release, in part or whole, is taken off the counters.
LEMMA ReleaseCounted ==
    ASSUME Structure, Structure', Counted, NEW r \in Requests, ReleaseSome(r)
    PROVE  Counted'
<1>1. PICK count \in 0 .. held[r].count, bytes \in 0 .. held[r].bytes :
          Release(r, count, bytes)
  BY DEF ReleaseSome
<1>2. held[r].count \in Nat /\ held[r].bytes \in Nat /\ Lane[r] \in Lanes
  BY SchedulerAssumption DEF Structure, TypeOK
<1>3. /\ held' = [held EXCEPT ![r] = [count |-> @.count - count, bytes |-> @.bytes - bytes]]
      /\ status' = [status EXCEPT ![r] = IF held'[r] = Nothing THEN "new" ELSE "held"]
      /\ activeCount' = activeCount - count
      /\ activeBytes' = activeBytes - bytes
      /\ laneCount' = [laneCount EXCEPT ![Lane[r]] = @ - count]
      /\ UNCHANGED pendingCount
      /\ status[r] = "held"
  BY <1>1 DEF Release, LaneCountAfter, admissionVars
<1>4. /\ held'[r] = [count |-> held[r].count - count, bytes |-> held[r].bytes - bytes]
      /\ status'[r] = IF held'[r] = Nothing THEN "new" ELSE "held"
      /\ \A q \in Requests \ {r} : held'[q] = held[q] /\ status'[q] = status[q]
  BY <1>3 DEF Structure, TypeOK
<1>5. HeldIsCovered'
  BY <1>4 DEF Counted, HeldIsCovered
<1>6. /\ activeCount \in Int /\ activeBytes \in Int /\ laneCount[Lane[r]] \in Int
      /\ TypeOK /\ TypeOK' /\ count \in Nat /\ bytes \in Nat
  <2>1. count \in Nat /\ bytes \in Nat
    BY <1>2
  <2>2. TypeOK /\ TypeOK'
    BY DEF Structure
  <2>. QED
    BY <1>2, <2>1, <2>2 DEF TypeOK
<1>7. held'[r].count = held[r].count - count /\ held'[r].bytes = held[r].bytes - bytes
  BY <1>4
<1>8. /\ activeCount' = activeCount - held[r].count + held'[r].count
      /\ activeBytes' = activeBytes - held[r].bytes + held'[r].bytes
      /\ laneCount' = [laneCount EXCEPT ![Lane[r]] = @ - held[r].count + held'[r].count]
  <2>1. /\ activeCount' = activeCount - held[r].count + held'[r].count
        /\ activeBytes' = activeBytes - held[r].bytes + held'[r].bytes
    BY <1>2, <1>3, <1>6, <1>7
  <2>2. laneCount[Lane[r]] - count = laneCount[Lane[r]] - held[r].count + held'[r].count
    BY <1>2, <1>6, <1>7
  <2>3. laneCount' = [laneCount EXCEPT ![Lane[r]] = laneCount[Lane[r]] - count]
    BY <1>3
  <2>. QED
    BY <2>1, <2>2, <2>3
<1>9. SumsCounted'
  BY <1>4, <1>6, <1>8, PermitChanges DEF Counted
<1>10. Queued' = Queued
  BY <1>3, <1>4 DEF Queued
<1>. QED
  BY <1>3, <1>5, <1>9, <1>10 DEF Counted, PendingCounted

\* What only requests that wait or come are concerned by leaves the permits.
LEMMA QueuesCounted ==
    ASSUME Structure, Counted, UNCHANGED grantVars,
           \A q \in Requests : status'[q] = "held" <=> status[q] = "held",
           PendingCounted'
    PROVE  Counted'
<1>1. HeldIsCovered'
  BY DEF Counted, HeldIsCovered, grantVars
<1>2. SumsCounted'
  BY DEF Counted, SumsCounted, grantVars
<1>. QED
  BY <1>1, <1>2 DEF Counted

LEMMA CountedStep == Structure /\ Counted /\ [Next]_vars => Counted'
<1>. SUFFICES ASSUME Structure, Counted, [Next]_vars PROVE Counted'
  OBVIOUS
<1>1. Structure' /\ IsFiniteSet(Requests) /\ IsFiniteSet(Queued)
  BY StructureStep, SchedulerAssumption, FS_Subset DEF Queued
<1>2. pendingCount = Cardinality(Queued) /\ status \in [Requests -> {"new", "queued", "held"}]
  BY DEF Counted, PendingCounted, Structure, TypeOK
<1>3. ASSUME UNCHANGED <<grantVars, status, pendingCount>> PROVE Counted'
  BY <1>3, QueuesCounted DEF Counted, PendingCounted, Queued
<1>4. ASSUME NEW r \in Requests, Acquire(r) PROVE Counted'
  <2>1. /\ status' = [status EXCEPT ![r] = "queued"] /\ status[r] = "new"
        /\ pendingCount' = pendingCount + 1
        /\ UNCHANGED grantVars
    BY <1>4 DEF Acquire
  <2>2. Queued' = Queued \cup {r} /\ r \notin Queued
    BY <1>2, <2>1 DEF Queued
  <2>3. Cardinality(Queued \cup {r}) = Cardinality(Queued) + 1
    BY <1>1, <2>2, FS_AddElement
  <2>. QED
    BY <1>2, <2>1, <2>2, <2>3, QueuesCounted DEF PendingCounted
<1>5. ASSUME NEW r \in Requests, Abort(r) PROVE Counted'
  <2>1. /\ status' = [status EXCEPT ![r] = "new"] /\ status[r] = "queued"
        /\ pendingCount' = pendingCount - 1
        /\ UNCHANGED grantVars
    BY <1>5 DEF Abort
  <2>2. Queued' = Queued \ {r} /\ r \in Queued
    BY <1>2, <2>1 DEF Queued
  <2>3. Cardinality(Queued \ {r}) = Cardinality(Queued) - 1
    BY <1>1, <2>2, FS_RemoveElement
  <2>. QED
    BY <1>2, <2>1, <2>2, <2>3, QueuesCounted DEF PendingCounted
<1>6. ASSUME NEW o \in Owners, CancelOwner(o) PROVE Counted'
  <2>1. /\ status' = [q \in Requests |->
               IF status[q] = "queued" /\ Owner[q] = o THEN "new" ELSE status[q]]
        /\ pendingCount' = pendingCount - Len(queue[o])
        /\ UNCHANGED grantVars
    BY <1>6 DEF CancelOwner, Cancelled, RequestsOf
  <2>2. /\ queue[o] \in Seq(Requests) /\ IsInjective(queue[o])
        /\ ToSet(queue[o]) = {q \in Requests : status[q] = "queued" /\ Owner[q] = o}
    BY DEF Structure, TypeOK, RotationExact
  <2>3. Queued' = Queued \ ToSet(queue[o]) /\ Queued \cap ToSet(queue[o]) = ToSet(queue[o])
    BY <1>2, <2>1, <2>2 DEF Queued
  <2>4. Cardinality(ToSet(queue[o])) = Len(queue[o])
    BY <2>2, InjectiveLength
  <2>5. Cardinality(Queued \ ToSet(queue[o])) = Cardinality(Queued) - Cardinality(Queued \cap ToSet(queue[o]))
    BY <1>1, FS_Difference
  <2>6. \A q \in Requests : status'[q] = "held" <=> status[q] = "held"
    BY <2>1
  <2>7. PendingCounted'
    BY <1>2, <2>1, <2>3, <2>4, <2>5 DEF PendingCounted
  <2>. QED
    BY <2>1, <2>6, <2>7, QueuesCounted
<1>7. CASE Close
  <2>1. /\ status' = [q \in Requests |-> IF status[q] = "queued" THEN "new" ELSE status[q]]
        /\ pendingCount' = 0
        /\ UNCHANGED grantVars
    BY <1>7, <1>2 DEF Close, Cancelled
  <2>2. Queued' = {}
    BY <2>1 DEF Queued
  <2>3. \A q \in Requests : status'[q] = "held" <=> status[q] = "held"
    BY <2>1
  <2>. QED
    BY <2>1, <2>2, <2>3, FS_EmptySet, QueuesCounted DEF PendingCounted
<1>8. CASE Reopen
  BY <1>3, <1>8 DEF Reopen
<1>9. CASE PumpStops \/ PumpReservesNothing \/ ScanEnds
  BY <1>3, <1>9 DEF PumpStops, PumpReservesNothing, ScanEnds, admissionVars
<1>10. CASE PumpGrantsReserved
  BY <1>1, <1>10, ReservedRequest, GrantCounted DEF PumpGrantsReserved
<1>11. ASSUME NEW r \in Requests, ScanGrants(r) PROVE Counted'
  BY <1>1, <1>11, ScannedRequest, GrantCounted DEF ScanGrants
<1>12. ASSUME NEW r \in Requests, ScanReserves(r) \/ ScanPasses(r) PROVE Counted'
  BY <1>3, <1>12 DEF ScanReserves, ScanPasses
<1>13. CASE UNCHANGED vars
  BY <1>3, <1>13 DEF vars, admissionVars
<1>. QED
  BY <1>1, <1>4, <1>5, <1>6, <1>7, <1>8, <1>9, <1>10, <1>11, <1>12, <1>13, ReleaseCounted
  DEF Next, PumpStep

LEMMA InitCounted == Init => Counted
<1>. SUFFICES ASSUME Init PROVE Counted
  OBVIOUS
<1>1. /\ status = [r \in Requests |-> "new"] /\ held = [r \in Requests |-> Nothing]
      /\ activeCount = 0 /\ activeBytes = 0 /\ laneCount = [lane \in Lanes |-> 0]
      /\ pendingCount = 0
  BY DEF Init
<1>2. HeldIsCovered
  BY <1>1 DEF HeldIsCovered
<1>3. ASSUME NEW S \in SUBSET Requests
      PROVE  Total(Counts(held), S) = 0 /\ Total(Sizes(held), S) = 0
  <2>1. \A r \in S \ {} : Counts(held)[r] = 0 /\ Sizes(held)[r] = 0
    BY <1>1 DEF Counts, Sizes, Nothing
  <2>2. Total(Counts(held), S) = Total(Counts(held), {})
    BY <2>1, TotalSame
  <2>3. Total(Sizes(held), S) = Total(Sizes(held), {})
    BY <2>1, TotalSame
  <2>. QED
    BY <2>2, <2>3, TotalOfNone
<1>4. SumsCounted
  BY <1>1, <1>3, LanesFinite DEF SumsCounted
<1>5. Queued = {}
  BY <1>1 DEF Queued
<1>. QED
  BY <1>1, <1>2, <1>4, <1>5, FS_EmptySet DEF Counted, PendingCounted

-----------------------------------------------------------------------------
\* The invariant and the theorems.

\* WithinBudget is not inductive: what a grant adds is bounded only because
\* queued requests were admitted, which needs the queues to be exact.
\* WorkConserving needs to know what the scan has passed, and Conservation that
\* only a request that holds a permit covers anything.
IInv == Structure /\ Budgets /\ Progress /\ Counted

LEMMA InitIInv == Init => IInv
<1>. SUFFICES ASSUME Init PROVE IInv
  OBVIOUS
<1>1. Budgets
  BY SchedulerAssumption DEF Init, Budgets, QueuedAdmissible, WithinBudget
<1>2. Progress
  BY EmptySequence
  DEF Init, Progress, ClosedIsEmpty, PassedOwners, ReservedLaneOpen, WorkConserving
<1>. QED
  BY <1>1, <1>2, InitStructure, InitCounted DEF IInv

LEMMA ProgressStep == Structure /\ Progress /\ [Next]_vars => Progress'
<1>. SUFFICES ASSUME Structure, Progress, [Next]_vars PROVE Progress'
  OBVIOUS
<1>1. CASE UNCHANGED vars
  BY <1>1 DEF vars, admissionVars, grantVars, Progress, ClosedIsEmpty,
              PassedOwners, ReservedLaneOpen, WorkConserving, HasLaneCapacity,
              HasSharedCapacity
<1>2. Structure'
  BY StructureStep
<1>. QED
  BY <1>1, <1>2, EntriesProgress, PumpProgress DEF Next

\* The inductive invariant holds of every reachable state.
THEOREM SchedulerInvariant == Spec => []IInv
<1>1. IInv /\ [Next]_vars => IInv'
  BY StructureStep, BudgetsStep, ProgressStep, CountedStep DEF IInv
<1>2. QED
  BY InitIInv, <1>1, PTL DEF Spec

\* Type correctness of the scheduler's state.
THEOREM SchedulerTypeOK == Spec => []TypeOK
<1>1. IInv => TypeOK
  BY DEF IInv, Structure
<1>2. QED
  BY SchedulerInvariant, <1>1, PTL

\* No sequence of acquire, release, abort, cancel, close and reopen makes the
\* scheduler exceed its slot, byte or lane budget.
THEOREM SchedulerWithinBudget == Spec => []WithinBudget
<1>1. IInv => WithinBudget
  BY DEF IInv, Budgets
<1>2. QED
  BY SchedulerInvariant, <1>1, PTL

\* The rotation never forgets a waiting owner and never holds a stale one: the
\* branch of pump for owners without requests is dead.
THEOREM SchedulerRotationExact == Spec => []RotationExact
<1>1. IInv => RotationExact
  BY DEF IInv, Structure
<1>2. QED
  BY SchedulerInvariant, <1>1, PTL

\* The branch of pump for a reservation that is not a head is dead.
THEOREM SchedulerReservedIsHead == Spec => []ReservedIsHead
<1>1. IInv => ReservedIsHead
  BY DEF IInv, Structure
<1>2. QED
  BY SchedulerInvariant, <1>1, PTL

\* The branch of pump for a reservation whose lane is saturated is dead.
THEOREM SchedulerReservedLaneOpen == Spec => []ReservedLaneOpen
<1>1. IInv => ReservedLaneOpen
  BY DEF IInv, Progress
<1>2. QED
  BY SchedulerInvariant, <1>1, PTL

\* When pump returns, no request that fits is left waiting, unless capacity is
\* being kept for a reservation.
THEOREM SchedulerWorkConserving == Spec => []WorkConserving
<1>1. IInv => WorkConserving
  BY DEF IInv, Progress
<1>2. QED
  BY SchedulerInvariant, <1>1, PTL

\* The counters are what the permits cover, whatever is released in part, cancelled
\* while it waits, or still held through a close and a reopen.
THEOREM SchedulerConservation == Spec => []Conservation
<1>1. IInv => Conservation
  BY CountedConserves DEF IInv, Structure
<1>2. QED
  BY SchedulerInvariant, <1>1, PTL

-----------------------------------------------------------------------------
\* The scheduler as a permit pool.

\* What all permits cover, and those of a lane, is what the counters say.
LEMMA PoolSums ==
    ASSUME TypeOK, Counted
    PROVE  /\ Pool!SlotsHeld(Requests) = activeCount
           /\ Pool!BytesHeld(Requests) = activeBytes
           /\ \A lane \in Lanes : Pool!SlotsHeld(Pool!InLane(lane)) = laneCount[lane]
<1>1. ASSUME NEW S \in SUBSET Requests
      PROVE  /\ Pool!SlotsHeld(S) = Total(Counts(held), S)
             /\ Pool!BytesHeld(S) = Total(Sizes(held), S)
  <2>1. IsFiniteSet(S) /\ \A r \in S : held[r].count \in Nat /\ held[r].bytes \in Nat
    BY SchedulerAssumption, FS_Subset DEF TypeOK
  <2>2. Pool!SlotsHeld(S) = Total([r \in S |-> held[r].count], S)
    <3>1. MapThenSumSet(LAMBDA r : held[r].count, S) = Total([r \in S |-> held[r].count], S)
      BY <2>1, SumOfCounts
    <3>2. Pool!SlotsHeld(S) = MapThenSumSet(LAMBDA r : held[r].count, S)
      BY Zenon DEF Pool!SlotsHeld, Pool!MapThenSumSet, Pool!MapThenFoldSet, MapThenSumSet, MapThenFoldSet
    <3>. QED
      BY <3>1, <3>2
  <2>3. Pool!BytesHeld(S) = Total([r \in S |-> held[r].bytes], S)
    <3>1. MapThenSumSet(LAMBDA r : held[r].bytes, S) = Total([r \in S |-> held[r].bytes], S)
      BY <2>1, SumOfBytes
    <3>2. Pool!BytesHeld(S) = MapThenSumSet(LAMBDA r : held[r].bytes, S)
      BY Zenon DEF Pool!BytesHeld, Pool!MapThenSumSet, Pool!MapThenFoldSet, MapThenSumSet, MapThenFoldSet
    <3>. QED
      BY <3>1, <3>2
  <2>4. Total(Counts(held), S) = Total([r \in S |-> held[r].count], S)
    <3>1. \A r \in S : Counts(held)[r] = [q \in S |-> held[q].count][r]
      BY DEF Counts
    <3>. QED
      BY <3>1, TotalSame
  <2>5. Total(Sizes(held), S) = Total([r \in S |-> held[r].bytes], S)
    <3>1. \A r \in S : Sizes(held)[r] = [q \in S |-> held[q].bytes][r]
      BY DEF Sizes
    <3>. QED
      BY <3>1, TotalSame
  <2>. QED
    BY <2>2, <2>3, <2>4, <2>5
<1>2. \A lane : Pool!InLane(lane) = OfLane(lane) /\ OfLane(lane) \subseteq Requests
  BY DEF Pool!InLane, OfLane
<1>. QED
  BY <1>1, <1>2 DEF Counted, SumsCounted

\* A grant of the scheduler is one of the pool, also when the byte check was skipped.
LEMMA GrantIsGrant ==
    ASSUME IInv, NEW r \in Requests, status[r] = "queued", ~closed, CanGrant(r), Grant(r)
    PROVE  Pool!Grant(r)
<1>1. /\ Count[r] \in Nat /\ Bytes[r] \in Nat /\ Lane[r] \in Lanes
  BY SchedulerAssumption
<1>2. /\ Pool!SlotsHeld(Requests) = activeCount
      /\ Pool!BytesHeld(Requests) = activeBytes
      /\ Pool!SlotsHeld(Pool!InLane(Lane[r])) = laneCount[Lane[r]]
  BY <1>1, PoolSums DEF IInv, Structure
<1>3. activeBytes + Bytes[r] <= ByteLimit
  <2>1. Bytes[r] <= ByteLimit
    BY DEF IInv, Budgets, QueuedAdmissible, Admissible
  <2>. QED
    BY <1>1, <2>1 DEF CanGrant, HasSharedCapacity
<1>4. /\ activeCount + Count[r] <= CountLimit
      /\ Lane[r] \in DOMAIN LaneLimit => laneCount[Lane[r]] + Count[r] <= LaneLimit[Lane[r]]
  BY DEF CanGrant, HasSharedCapacity, HasLaneCapacity
<1>5. /\ status' = [status EXCEPT ![r] = "held"]
      /\ held' = [held EXCEPT ![r] = [count |-> Count[r], bytes |-> Bytes[r]]]
      /\ UNCHANGED closed
  BY DEF Grant
<1>. QED
  BY <1>2, <1>3, <1>4, <1>5 DEF Pool!Grant

\* What a request may do without the pool granting anything.
Recedes(r) ==
    \/ UNCHANGED <<status[r], held[r]>>
    \/ status[r] = "queued" /\ status'[r] = "new" /\ UNCHANGED held[r]
    \/ /\ status[r] = "held" /\ status'[r] \in {"held", "new"}
       /\ held'[r].count \in 0 .. held[r].count
       /\ held'[r].bytes \in 0 .. held[r].bytes

LEMMA RequestsRecede ==
    ASSUME IInv, IInv', \A r \in Requests : Recedes(r)
    PROVE  Pool!Recede
<1>1. /\ TypeOK /\ TypeOK' /\ HeldIsCovered /\ HeldIsCovered'
  BY DEF IInv, Structure, Counted
<1>2. Pool!Nothing = Nothing
  BY DEF Pool!Nothing, Nothing
<1>3. ASSUME NEW r \in Requests, status[r] = "held"
      PROVE  /\ held'[r].count \in 0 .. held[r].count
             /\ held'[r].bytes \in 0 .. held[r].bytes
             /\ status'[r] = IF held'[r] = Nothing THEN "new" ELSE "held"
  <2>1. held[r].count \in Nat /\ held[r].bytes \in Nat
    BY <1>1 DEF TypeOK
  <2>2. held'[r] = Nothing <=> status'[r] # "held"
    BY <1>1 DEF HeldIsCovered
  <2>. QED
    BY <1>3, <2>1, <2>2 DEF Recedes
<1>4. ASSUME NEW r \in Requests, status[r] = "queued"
      PROVE  status'[r] \in {"new", "queued"} /\ held'[r] = Nothing
  BY <1>1, <1>4 DEF HeldIsCovered, Recedes
<1>5. ASSUME NEW r \in Requests, status[r] = "new"
      PROVE  status'[r] = "new" /\ held'[r] = Nothing
  BY <1>1, <1>5 DEF HeldIsCovered, Recedes
<1>6. /\ \A r \in Requests : status[r] \in {"new", "queued", "held"}
      /\ DOMAIN status' = Requests /\ DOMAIN held' = Requests
  BY <1>1 DEF TypeOK
<1>. QED
  BY <1>2, <1>3, <1>4, <1>5, <1>6 DEF Pool!Recede

LEMMA SchedulerPoolStep ==
    ASSUME IInv, IInv', [Next]_vars
    PROVE  [Pool!Next]_<<status, held, closed>>
<1>1. /\ status \in [Requests -> {"new", "queued", "held"}]
      /\ held \in [Requests -> [count : Nat, bytes : Nat]]
  BY DEF IInv, Structure, TypeOK
<1>2. ASSUME \A r \in Requests : Recedes(r), UNCHANGED closed
      PROVE  Pool!Next
  BY <1>2, RequestsRecede DEF Pool!Next, Pool!Withdraw
<1>3. ASSUME NEW r \in Requests, Acquire(r) PROVE Pool!Next
  <2>1. Pool!Ask(r)
    BY <1>3 DEF Acquire, grantVars, Pool!Ask
  <2>. QED
    BY <2>1 DEF Pool!Next
<1>4. ASSUME NEW r \in Requests, Abort(r) PROVE Pool!Next
  BY <1>1, <1>2, <1>4 DEF Abort, grantVars, Recedes
<1>5. ASSUME NEW r \in Requests, ReleaseSome(r) PROVE Pool!Next
  <2>1. PICK count \in 0 .. held[r].count, bytes \in 0 .. held[r].bytes :
            Release(r, count, bytes)
    BY <1>5 DEF ReleaseSome
  <2>2. /\ held' = [held EXCEPT ![r] = [count |-> @.count - count, bytes |-> @.bytes - bytes]]
        /\ status' = [status EXCEPT ![r] = IF held'[r] = Nothing THEN "new" ELSE "held"]
        /\ status[r] = "held" /\ UNCHANGED closed
    BY <2>1 DEF Release
  <2>3. held[r].count \in Nat /\ held[r].bytes \in Nat
    BY <1>1
  <2>4. Recedes(r)
    <3>1. held'[r] = [count |-> held[r].count - count, bytes |-> held[r].bytes - bytes]
      BY <1>1, <2>2
    <3>2. status'[r] \in {"held", "new"}
      BY <1>1, <2>2
    <3>. QED
      BY <2>2, <2>3, <3>1, <3>2 DEF Recedes
  <2>5. \A q \in Requests \ {r} : Recedes(q)
    BY <1>1, <2>2 DEF Recedes
  <2>. QED
    BY <1>2, <2>2, <2>4, <2>5
<1>6. ASSUME NEW o \in Owners, CancelOwner(o) PROVE Pool!Next
  BY <1>1, <1>2, <1>6 DEF CancelOwner, Cancelled, grantVars, Recedes
<1>7. CASE Close
  <2>1. /\ status' = [q \in Requests |-> IF status[q] = "queued" THEN "new" ELSE status[q]]
        /\ UNCHANGED held /\ ~closed /\ closed'
    BY <1>1, <1>7 DEF Close, Cancelled, grantVars
  <2>2. \A r \in Requests : Recedes(r) /\ status'[r] # "queued"
    BY <1>1, <2>1 DEF Recedes
  <2>. QED
    BY <2>1, <2>2, RequestsRecede DEF Pool!Next, Pool!Close
<1>8. CASE Reopen
  BY <1>8, Zenon DEF Reopen, grantVars, Pool!Next, Pool!Reopen
<1>9. CASE PumpStops \/ PumpReservesNothing \/ ScanEnds
  BY <1>9 DEF PumpStops, PumpReservesNothing, ScanEnds, admissionVars, grantVars
<1>10. CASE PumpGrantsReserved
  <2>1. /\ reserved \in Requests /\ status[reserved] = "queued" /\ ~closed
        /\ CanGrant(reserved) /\ Grant(reserved)
    BY <1>10, ReservedRequest DEF PumpGrantsReserved, PumpContinues, IInv
  <2>2. Pool!Grant(reserved)
    BY <2>1, GrantIsGrant
  <2>. QED
    BY <2>1, <2>2 DEF Pool!Next
<1>11. ASSUME NEW r \in Requests, ScanGrants(r) PROVE Pool!Next
  <2>1. /\ status[r] = "queued" /\ CanGrant(r) /\ Grant(r) /\ pc = "scan"
    BY <1>11, ScannedRequest DEF ScanGrants, Scanned, IInv
  <2>2. ~closed
    BY <2>1 DEF IInv, Progress, PassedOwners
  <2>3. Pool!Grant(r)
    BY <2>1, <2>2, GrantIsGrant
  <2>. QED
    BY <2>3 DEF Pool!Next
<1>12. ASSUME NEW r \in Requests, ScanReserves(r) \/ ScanPasses(r)
       PROVE  UNCHANGED <<status, held, closed>>
  BY <1>12 DEF ScanReserves, ScanPasses, grantVars
<1>13. CASE UNCHANGED vars
  BY <1>13 DEF vars, grantVars
<1>. QED
  BY <1>3, <1>4, <1>5, <1>6, <1>7, <1>8, <1>9, <1>10, <1>11, <1>12, <1>13
  DEF Next, PumpStep

\* To those who ask it for permits the scheduler is a permit pool: the byte check it
\* skips, the counters and the permits that outlive a close never let more be held
\* than the budgets allow.
THEOREM SchedulerIsPool == Spec => PoolSpec
<1>1. Init => Pool!Init
  BY DEF Init, Pool!Init, Nothing, Pool!Nothing
<1>2. IInv /\ IInv' /\ [Next]_vars => [Pool!Next]_<<status, held, closed>>
  BY SchedulerPoolStep
<1>. QED
  BY <1>1, <1>2, SchedulerInvariant, PTL DEF Spec, PoolSpec, Pool!Spec
=============================================================================
