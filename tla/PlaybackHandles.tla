--------------------------- MODULE PlaybackHandles ---------------------------
(***************************************************************************)
(* What the coordinator of a viewer's playback promises: a handle that has *)
(* been created is owned until it is retired, a retired handle is closed   *)
(* once, and no late registration brings it back.                          *)
(***************************************************************************)
CONSTANT Handles

VARIABLE handle     \* handle[h]: its stage

HandleStages == {"unborn", "owned", "retired", "closed"}

HandlesInit == handle = [h \in Handles |-> "unborn"]

In(stages) == {h \in Handles : handle[h] \in stages}
Owned == In({"owned"})
Pending == In({"retired"})

Register(h) ==
    /\ handle[h] \in {"unborn", "owned"}
    /\ handle' = [handle EXCEPT ![h] = "owned"]

\* Retiring what is retired or closed already changes nothing.
RetiredWith(handles) ==
    [h \in Handles |-> IF h \in handles /\ handle[h] \in {"unborn", "owned"}
                       THEN "retired" ELSE handle[h]]
Retire(handles) == handle' = RetiredWith(handles)

CloseHandle(h) == handle[h] = "retired" /\ handle' = [handle EXCEPT ![h] = "closed"]

HandlesNext ==
    \/ \E h \in Handles : Register(h) \/ CloseHandle(h)
    \/ \E handles \in SUBSET Handles : Retire(handles)

HandlesSpec == HandlesInit /\ [][HandlesNext]_handle
=============================================================================
