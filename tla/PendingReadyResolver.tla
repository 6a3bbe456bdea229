------------------------- MODULE PendingReadyResolver -------------------------
(***************************************************************************)
(* createPendingReadyResolver (pending-ready-resolver.ts): for each listed *)
(* file that is not ready yet, a task that asks the peers for it again and *)
(* again, until it is ready, no longer of interest, cancelled, or too old. *)
(* A cancelled task goes on until the call that it awaits is over.         *)
(***************************************************************************)
EXTENDS Integers, FiniteSets

CONSTANTS
    Programs, Names,    \* a task is for a key: a file of a program
    MaxEntries,         \* options.maxEntries
    Tasks               \* bound: the tasks that may be started

NoTask == "none"

ASSUME ResolverAssumption ==
    /\ MaxEntries \in Nat \ {0}
    /\ Programs # {} /\ Names # {}
    /\ NoTask \notin Tasks

VARIABLES
    tasks,              \* tasks[k]: the task of key k, or NoTask
    taskCount,
    cooldowns,          \* the keys that have one
    task,               \* task[t]: its key, its stage and whether it was aborted
    active              \* the keys for which options.isActive holds

resolverVars == <<tasks, taskCount, cooldowns, task, active>>

Keys == Programs \X Names
NotStarted == [key |-> CHOOSE k \in Keys : TRUE, stage |-> "unused", aborted |-> FALSE]

ResolverInit ==
    /\ tasks = [k \in Keys |-> NoTask] /\ taskCount = 0
    /\ cooldowns = {}
    /\ task = [t \in Tasks |-> NotStarted]
    /\ active \in SUBSET Keys

Running(t) == task[t].stage \in {"resolving", "waiting"}
Listed == {k \in Keys : tasks[k] # NoTask}

ResolverTypeOK ==
    /\ tasks \in [Keys -> Tasks \cup {NoTask}]
    /\ taskCount \in Int /\ cooldowns \subseteq Keys /\ active \subseteq Keys
    /\ task \in [Tasks -> [key : Keys, aborted : BOOLEAN,
                           stage : {"unused", "resolving", "waiting", "ended"}]]

\* The list of the page changes.
ActivityChanges(k) ==
    /\ active' = IF k \in active THEN active \ {k} ELSE active \cup {k}
    /\ UNCHANGED <<tasks, taskCount, cooldowns, task>>

\* start, for a key that has neither a task nor a cooldown.  The task runs at once
\* to its first call, or ends there when nobody is interested.
Start(k, t) ==
    /\ tasks[k] = NoTask /\ k \notin cooldowns /\ taskCount < MaxEntries
    /\ task[t].stage = "unused"
    /\ IF k \in active
       THEN /\ tasks' = [tasks EXCEPT ![k] = t] /\ taskCount' = taskCount + 1
            /\ task' = [task EXCEPT ![t] = [key |-> k, stage |-> "resolving", aborted |-> FALSE]]
       ELSE /\ task' = [task EXCEPT ![t] = [key |-> k, stage |-> "ended", aborted |-> FALSE]]
            /\ UNCHANGED <<tasks, taskCount>>
    /\ UNCHANGED <<cooldowns, active>>

\* The finally of a task: deleteTask(key, program, task).
MutEnd(t) ==
    LET k == task[t].key
    IN /\ tasks' = [tasks EXCEPT ![k] = NoTask]
       /\ taskCount' = IF tasks[k] = NoTask THEN taskCount ELSE taskCount - 1
       /\ task' = [task EXCEPT ![t].stage = "ended"]

End(t) ==
    LET k == task[t].key
        listed == tasks[k] = t
    IN /\ tasks' = IF listed THEN [tasks EXCEPT ![k] = NoTask] ELSE tasks
       /\ taskCount' = IF listed THEN taskCount - 1 ELSE taskCount
       /\ task' = [task EXCEPT ![t].stage = "ended"]

Interesting(t) == ~task[t].aborted /\ task[t].key \in active

\* resolve has returned: a ready file is handed to the page.
Resolved(t, ready) ==
    /\ task[t].stage = "resolving"
    /\ IF Interesting(t) /\ ~ready
       THEN /\ task' = [task EXCEPT ![t].stage = "waiting"]
            /\ UNCHANGED <<tasks, taskCount, cooldowns, active>>
       ELSE /\ End(t)
            /\ IF Interesting(t)        \* onReady
               THEN /\ cooldowns' = cooldowns \ {task[t].key}
                    /\ active' = active \ {task[t].key}
               ELSE UNCHANGED <<cooldowns, active>>

\* resolve has thrown.
ResolveFails(t) ==
    /\ task[t].stage = "resolving"
    /\ IF task[t].aborted THEN End(t)
       ELSE task' = [task EXCEPT ![t].stage = "waiting"] /\ UNCHANGED <<tasks, taskCount>>
    /\ UNCHANGED <<cooldowns, active>>

\* waitForRetry is over: once more, or the task is too old and its key cools down.
Retry(t, expired) ==
    /\ task[t].stage = "waiting"
    /\ IF Interesting(t) /\ ~expired
       THEN task' = [task EXCEPT ![t].stage = "resolving"] /\ UNCHANGED <<tasks, taskCount>>
       ELSE End(t)
    /\ cooldowns' = IF Interesting(t) /\ expired THEN cooldowns \cup {task[t].key} ELSE cooldowns
    /\ UNCHANGED active

AbortTasks(keys) ==
    task' = [t \in Tasks |-> IF \E k \in keys : tasks[k] = t
                             THEN [task[t] EXCEPT !.aborted = TRUE] ELSE task[t]]

\* cancel(key, program), cancel(key) of all programs, cancelProgram and cancelAll
\* differ in the keys that they cancel.
CancelKeys(keys) ==
    /\ AbortTasks(keys)
    /\ tasks' = [k \in Keys |-> IF k \in keys THEN NoTask ELSE tasks[k]]
    /\ taskCount' = taskCount - Cardinality(keys \cap Listed)
    /\ cooldowns' = cooldowns \ keys
    /\ UNCHANGED active

Cancel ==
    \/ \E k \in Keys : CancelKeys({k})
    \/ \E n \in Names : CancelKeys(Programs \X {n})
    \/ \E p \in Programs : CancelKeys({p} \X Names)
    \/ CancelKeys(Keys)

\* pruneExpiredCooldowns, once the time has come.
CooldownEnds(k) ==
    /\ k \in cooldowns /\ cooldowns' = cooldowns \ {k}
    /\ UNCHANGED <<tasks, taskCount, task, active>>

TaskStep(t) ==
    \/ \E ready \in BOOLEAN : Resolved(t, ready)
    \/ ResolveFails(t)
    \/ \E expired \in BOOLEAN : Retry(t, expired)

ResolverNext ==
    \/ \E k \in Keys : ActivityChanges(k) \/ CooldownEnds(k) \/ \E t \in Tasks : Start(k, t)
    \/ \E t \in Tasks : TaskStep(t)
    \/ Cancel

ResolverSpec == ResolverInit /\ [][ResolverNext]_resolverVars

-----------------------------------------------------------------------------
\* The tasks that run and were not cancelled are those that are listed, one for
\* each key, and taskCount is their number: whatever way a task or a program ends,
\* capacity is neither lost nor given twice, and a task that is late to end does
\* not take its successor off the list.
TasksAreExact ==
    /\ {t \in Tasks : Running(t) /\ ~task[t].aborted} = {tasks[k] : k \in Listed}
    /\ \A k \in Listed : task[tasks[k]].key = k
    /\ taskCount = Cardinality(Listed) /\ taskCount <= MaxEntries
=============================================================================
