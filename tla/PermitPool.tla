----------------------------- MODULE PermitPool -----------------------------
(***************************************************************************)
(* What a transfer scheduler promises to those who ask it for permits,     *)
(* whatever the order in which it grants them: what is held at any time    *)
(* fits the slot, byte and lane budgets, a closed pool grants nothing and  *)
(* keeps nobody waiting, and closing and reopening it takes no permit away *)
(* from its holder and gives no held slot to somebody else.                *)
(***************************************************************************)
EXTENDS Integers, FiniteSetsExt

CONSTANTS
    Requests,
    Count, Bytes, Lane,       \* what each request asks for
    CountLimit, ByteLimit, LaneLimit

VARIABLES
    status,   \* "new", "queued" or "held"
    held,     \* the slots and bytes that a permit still covers
    closed

Nothing == [count |-> 0, bytes |-> 0]

Init ==
    /\ status = [r \in Requests |-> "new"]
    /\ held = [r \in Requests |-> Nothing]
    /\ closed = FALSE

SlotsHeld(requests) == MapThenSumSet(LAMBDA r : held[r].count, requests)
BytesHeld(requests) == MapThenSumSet(LAMBDA r : held[r].bytes, requests)
InLane(lane) == {r \in Requests : Lane[r] = lane}

Ask(r) ==
    /\ ~closed
    /\ status[r] = "new"
    /\ status' = [status EXCEPT ![r] = "queued"]
    /\ UNCHANGED <<held, closed>>

Grant(r) ==
    /\ ~closed
    /\ status[r] = "queued"
    /\ SlotsHeld(Requests) + Count[r] <= CountLimit
    /\ BytesHeld(Requests) + Bytes[r] <= ByteLimit
    /\ Lane[r] \in DOMAIN LaneLimit =>
           SlotsHeld(InLane(Lane[r])) + Count[r] <= LaneLimit[Lane[r]]
    /\ status' = [status EXCEPT ![r] = "held"]
    /\ held' = [held EXCEPT ![r] = [count |-> Count[r], bytes |-> Bytes[r]]]
    /\ UNCHANGED closed

\* Requests are withdrawn and permits given back, in part or whole.
Recede ==
    /\ \A r \in Requests :
           CASE status[r] = "held" ->
                    /\ held'[r].count \in 0 .. held[r].count
                    /\ held'[r].bytes \in 0 .. held[r].bytes
                    /\ status'[r] = IF held'[r] = Nothing THEN "new" ELSE "held"
             [] status[r] = "queued" ->
                    status'[r] \in {"new", "queued"} /\ held'[r] = Nothing
             [] OTHER -> status'[r] = "new" /\ held'[r] = Nothing
    /\ DOMAIN status' = Requests
    /\ DOMAIN held' = Requests

Withdraw == Recede /\ UNCHANGED closed

Close ==
    /\ ~closed
    /\ closed'
    /\ Recede
    /\ \A r \in Requests : status'[r] # "queued"

Reopen ==
    /\ closed
    /\ ~closed'
    /\ UNCHANGED <<status, held>>

Next ==
    \/ \E r \in Requests : Ask(r) \/ Grant(r)
    \/ Withdraw
    \/ Close
    \/ Reopen

Spec == Init /\ [][Next]_<<status, held, closed>>
=============================================================================
