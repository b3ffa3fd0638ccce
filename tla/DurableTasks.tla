---------------------------- MODULE DurableTasks ----------------------------
(***************************************************************************)
(* The background tasks of one workspace: what OperationManager holds in   *)
(* its map, the rows of `durable_tasks`, the `docker exec` children of the *)
(* runner, and the count of mutation locks that keeps the workspace from   *)
(* expiring under a task.                                                  *)
(*                                                                         *)
(* A task is numbered in the order of creation; what it depends on was     *)
(* created before it.  The map forgets tasks, the table does not.  The     *)
(* `exit` of a child precedes its `close`, which is what the manager       *)
(* records.  A row is changed under its generation; whoever changes one    *)
(* read the generation in the same turn or was the last to change it, so   *)
(* the guard never fails and is left out.  A repeated request returns the  *)
(* task there is and changes nothing.                                      *)
(***************************************************************************)
EXTENDS Naturals, FiniteSets, FiniteSetsExt

CONSTANTS
    MaxTasks,      \* bound: tasks of the workspace
    MaxStale,      \* bound: tasks whose request did not find the record it had read
    MapLimit,      \* tasks the map may hold for it
    MaxFaults,     \* bound: logs that cannot be written
    MaxRestarts,   \* bound: restarts of the runner
    MaxBadCloses,  \* bound: closes that fail
    MaxExpiries    \* bound: expiries

ASSUME TasksAssumption ==
    /\ MaxTasks \in Nat \ {0} /\ MapLimit \in Nat \ {0} /\ MaxFaults \in Nat /\ MaxStale \in Nat
    /\ MaxRestarts \in Nat /\ MaxBadCloses \in Nat /\ MaxExpiries \in Nat

Tasks == 1 .. MaxTasks

VARIABLES
    task,     \* by number: entry of the map, row, event and child
    cancel,   \* tasks of which a cancel awaits the end of the process group
    stop,     \* what a stop of the workspace found in the map, and the children it waits for
    stale,    \* a tasks_run request may wait that has read the record before it was claimed
    locks,    \* mutation_lock_count
    ws,       \* status of the workspace
    faults, restarts, badCloses, expiries

bounds == <<faults, restarts, badCloses, expiries>>
vars == <<task, cancel, stop, stale, locks, ws, bounds>>

-----------------------------------------------------------------------------
FinalRow == {"SUCCEEDED", "FAILED", "CANCELLED", "BLOCKED"}
Failure == {"failed", "cancelled", "blocked"}

\* `mem` is "none" for a task the map does not hold; `start` is how its request found the record:
\* "locked" when it took its lock, "unlocked" when the record had expired since the request looked at
\* it, "late" when a close had claimed it.
NoTask == [mem |-> "none", row |-> "NONE", child |-> "none", settled |-> FALSE, deps |-> {},
           start |-> "none"]

NoStop == [of |-> {}, waits |-> {}]

Created == {t \in Tasks : task[t].row # "NONE"}
InMap(T) == {t \in Tasks : T[t].mem # "none"}
Unsettled == {t \in InMap(task) : ~task[t].settled}

Init ==
    /\ task = [t \in Tasks |-> NoTask]
    /\ cancel = {} /\ stop = NoStop /\ stale = FALSE
    /\ locks = 0 /\ ws = "ACTIVE"
    /\ faults = 0 /\ restarts = 0 /\ badCloses = 0 /\ expiries = 0

\* updateDurableTaskStatus.  The one event of a task is EventDelivery's.
Row(x, status) == [x EXCEPT !.row = status]

\* A task that is not in the map any more changes no row.
RowIfHeld(x, status) == IF x.mem = "none" THEN x ELSE Row(x, status)

\* A task is recorded as over, and settled, in the map or on the object that was its entry.
SettledAs(x, mem, status) ==
    [RowIfHeld(x, status) EXCEPT !.mem = IF x.mem = "none" THEN "none" ELSE mem, !.settled = TRUE]

BlockedTask(x) == [Row(x, "BLOCKED") EXCEPT !.mem = "blocked", !.settled = TRUE]
StartedTask(x) == [Row(x, "RUNNING") EXCEPT !.mem = "running", !.child = "live"]

\* Mutant: a dependency the map does not hold counts as one that succeeded.
ReconciledLax(T) ==
    LET mem[t \in Tasks] ==
            IF T[t].mem # "queued" THEN T[t].mem
            ELSE IF \E d \in T[t].deps : mem[d] \in Failure THEN "blocked"
            ELSE IF \A d \in T[t].deps : mem[d] \in {"succeeded", "none"} THEN "running" ELSE "queued"
    IN [t \in Tasks |->
            IF mem[t] = T[t].mem THEN T[t]
            ELSE IF mem[t] = "blocked" THEN BlockedTask(T[t]) ELSE StartedTask(T[t])]

\* reconcileQueued: one pass in the order of creation.
Reconciled(T) ==
    LET mem[t \in Tasks] ==
            IF T[t].mem # "queued" THEN T[t].mem
            ELSE IF \E d \in T[t].deps : mem[d] \in Failure \union {"none"} THEN "blocked"
            ELSE IF \A d \in T[t].deps : mem[d] = "succeeded" THEN "running" ELSE "queued"
    IN [t \in Tasks |->
            IF mem[t] = T[t].mem THEN T[t]
            ELSE IF mem[t] = "blocked" THEN BlockedTask(T[t]) ELSE StartedTask(T[t])]

\* settleTask: the locks the tasks that are settled for the first time give back.
Freed(T) == Cardinality({s \in Tasks : T[s].settled /\ ~task[s].settled})

\* clearMutationLock: on the generation the record has by now, if it is ACTIVE.
Without(n, k) == IF ws # "ACTIVE" THEN n ELSE IF n > k THEN n - k ELSE 0

\* Mutant: a change of one task is not passed on to those that wait for it.
BecomeAlone(t, T) == task' = T /\ locks' = Without(locks, Freed(T))

\* What follows a change of the task t: the others are looked at and locks given back.
Become(t, T) == task' = Reconciled(T) /\ locks' = Without(locks, Freed(Reconciled(T)))

-----------------------------------------------------------------------------
(* Requests: tasks_run, tasks_cancel *)

\* reserve: the oldest entry that ended and that no queued task depends on is forgotten.
Evictable(T) ==
    {t \in InMap(T) : /\ T[t].mem \notin {"running", "queued"}
                      /\ \A q \in InMap(T) : T[q].mem = "queued" => t \notin T[q].deps}

Roomy(T) == Cardinality(InMap(T)) < MapLimit

\* A stale request is one that has seen the record ACTIVE (requireWorkspace), and while it waited for
\* enforceActiveLimits the record was claimed.
MayBeStale == stale \/ ws = "ACTIVE"

\* setMutationLock finds the generation that the request has read, if it is still the record's.
Start(found) ==
    IF found THEN "locked" ELSE IF ws \in {"ACTIVE", "EXPIRED"} THEN "unlocked" ELSE "late"

Unfound == {t \in Tasks : task[t].start \in {"unlocked", "late"}}

\* The status is not looked at again: the task starts whether its lock was taken or not.  Without room
\* the request fails and gives back what it took.
RunTask(found, D) ==
    LET t == Cardinality(Created) + 1
        room == IF Roomy(task) THEN task ELSE [task EXCEPT ![Min(Evictable(task))].mem = "none"]
        T == [room EXCEPT ![t] = [Row(NoTask, "QUEUED") EXCEPT !.mem = "queued", !.deps = D,
                                                               !.start = Start(found)]]
    IN /\ IF found THEN ws = "ACTIVE" ELSE stale /\ Cardinality(Unfound) < MaxStale
       /\ t \in Tasks /\ D \subseteq Created
       /\ Roomy(task) \/ Evictable(task) # {}
       /\ task' = Reconciled(T)
       /\ locks' = Without(IF found THEN locks + 1 ELSE locks, Freed(Reconciled(T)))
       /\ UNCHANGED <<cancel, stop, stale, ws, bounds>>

CancelQueued(t) ==
    /\ ws = "ACTIVE" /\ task[t].mem = "queued"
    /\ Become(t, [task EXCEPT ![t] = SettledAs(@, "cancelled", "CANCELLED")])
    /\ UNCHANGED <<cancel, stop, stale, ws, bounds>>

CancelRunning(t) ==
    /\ ws = "ACTIVE" /\ task[t].mem = "running" /\ t \notin cancel
    /\ cancel' = cancel \union {t}
    /\ UNCHANGED <<task, stop, stale, locks, ws, bounds>>

\* The process group is gone; the status the task has by now is not looked at.
Cancelled(t) ==
    /\ t \in cancel
    /\ cancel' = cancel \ {t}
    /\ Become(t, [task EXCEPT ![t] = SettledAs(@, "cancelled", "CANCELLED")])
    /\ UNCHANGED <<stop, stale, ws, bounds>>

\* It could not be terminated, or there was none any more.
CancelFails(t) ==
    /\ t \in cancel
    /\ cancel' = cancel \ {t}
    /\ UNCHANGED <<task, stop, stale, locks, ws, bounds>>

-----------------------------------------------------------------------------
(* Children: track *)

Exit(t) ==
    /\ task[t].child = "live"
    /\ \E code \in {"ok", "err"} : task' = [task EXCEPT ![t].child = code]
    /\ UNCHANGED <<cancel, stop, stale, locks, ws, bounds>>

Ended(x) == IF x.mem # "running" THEN x.mem ELSE IF x.child = "ok" THEN "succeeded" ELSE "failed"

\* The entry when its child has closed: a task cancelled before stays cancelled there.
ClosedEntry(x) ==
    LET mem == Ended(x)
        status == IF mem = "succeeded" THEN "SUCCEEDED" ELSE "FAILED"
    IN [RowIfHeld(x, status) EXCEPT !.mem = mem, !.child = "none", !.settled = x.settled \/ mem # "none"]

Close(t) ==
    /\ task[t].child \in {"ok", "err"}
    /\ Become(t, [task EXCEPT ![t] = ClosedEntry(@)])
    /\ UNCHANGED <<cancel, stop, stale, ws, bounds>>

\* The log cannot be written: the task has failed, its child is told to end.
LogFails(t) ==
    /\ task[t].child = "live" /\ faults < MaxFaults
    /\ faults' = faults + 1
    /\ Become(t, [task EXCEPT ![t] = SettledAs(@, "failed", "FAILED")])
    /\ UNCHANGED <<cancel, stop, stale, ws, restarts, badCloses, expiries>>

-----------------------------------------------------------------------------
(* The workspace: stopWorkspace, expiry, recovery; the runner *)

\* Mutant: only the tasks that run are stopped.
ToStopRunning == {t \in Tasks : task[t].mem = "running"}

ToStop == {t \in Tasks : task[t].mem \in {"running", "queued"}}

\* A close claims the record, which drops its locks, and signals the children there are.
StopBegin ==
    /\ ws \in {"ACTIVE", "EXPIRED"}
    /\ ws' = "REAPING" /\ locks' = 0 /\ stale' = MayBeStale
    /\ stop' = [of |-> ToStop, waits |-> {t \in ToStop : task[t].child = "live"}]
    /\ UNCHANGED <<task, cancel, bounds>>

\* The children it waited for have exited.  The map is emptied.
StopFinish ==
    /\ ws = "REAPING"
    /\ \A t \in stop.waits : task[t].child # "live"
    /\ ws' = "STOPPED" /\ stop' = NoStop
    /\ task' = [t \in Tasks |-> [(IF t \in stop.of THEN RowIfHeld(task[t], "CANCELLED") ELSE task[t])
                                     EXCEPT !.mem = "none"]]
    /\ UNCHANGED <<cancel, stale, locks, bounds>>

\* A child outlives the deadline of the stop, or the logs cannot be spooled after it.
CloseFails ==
    /\ badCloses < MaxBadCloses
    /\ \/ ws = "REAPING" /\ \E t \in stop.waits : task[t].child = "live"
       \/ ws = "STOPPED"
    /\ ws' = "EXPIRED" /\ stop' = NoStop
    /\ badCloses' = badCloses + 1
    /\ UNCHANGED <<task, cancel, stale, locks, faults, restarts, expiries>>

\* The executor is removed, and every process in it.
Closed ==
    /\ ws = "STOPPED"
    /\ ws' = "CLOSED"
    /\ task' = [t \in Tasks |-> [task[t] EXCEPT !.child = IF @ = "live" THEN "err" ELSE @]]
    /\ UNCHANGED <<cancel, stop, stale, locks, bounds>>

\* Mutant: a lock that is held does not keep a workspace from expiring.
ExpireLocked ==
    /\ ws = "ACTIVE" /\ expiries < MaxExpiries
    /\ ws' = "EXPIRED" /\ locks' = 0 /\ stale' = MayBeStale
    /\ expiries' = expiries + 1
    /\ task' = [t \in Tasks |-> [task[t] EXCEPT !.child = IF @ = "live" THEN "err" ELSE @]]
    /\ UNCHANGED <<cancel, stop, faults, restarts, badCloses>>

\* A hold is longer than the task it covers; one that was left behind elapses.
Expire ==
    /\ ws = "ACTIVE" /\ expiries < MaxExpiries
    /\ locks = 0 \/ Unsettled = {}
    /\ ws' = "EXPIRED" /\ locks' = 0 /\ stale' = MayBeStale
    /\ expiries' = expiries + 1
    /\ task' = [t \in Tasks |-> [task[t] EXCEPT !.child = IF @ = "live" THEN "err" ELSE @]]
    /\ UNCHANGED <<cancel, stop, faults, restarts, badCloses>>

Recover ==
    /\ ws = "EXPIRED"
    /\ ws' = "ACTIVE"
    /\ UNCHANGED <<task, cancel, stop, stale, locks, bounds>>

\* A crash and the next start: reconcileRunningTasks, the restart of the executor, and the end of a
\* close that was under way.
Restart ==
    /\ restarts < MaxRestarts
    /\ restarts' = restarts + 1
    /\ task' = [t \in Tasks |-> [(IF task[t].row \in {"QUEUED", "RUNNING"} THEN Row(task[t], "FAILED") ELSE task[t])
                                     EXCEPT !.mem = "none", !.child = "none"]]
    /\ cancel' = {} /\ stop' = NoStop /\ stale' = FALSE
    /\ ws' = IF ws \in {"REAPING", "STOPPED"} THEN "CLOSED" ELSE ws
    /\ UNCHANGED <<locks, faults, badCloses, expiries>>

Next ==
    \/ \E found \in BOOLEAN, D \in SUBSET Tasks : RunTask(found, D)
    \/ \E t \in Tasks : \/ CancelQueued(t) \/ CancelRunning(t) \/ Cancelled(t) \/ CancelFails(t)
                        \/ Exit(t) \/ Close(t) \/ LogFails(t)
    \/ StopBegin \/ StopFinish \/ CloseFails \/ Closed \/ Expire \/ Recover \/ Restart

Spec == Init /\ [][Next]_vars

-----------------------------------------------------------------------------
(* Properties *)

\* A task that starts finds every task it depends on recorded as succeeded, whatever was evicted,
\* cancelled or lost in a restart before (reconcileQueued, reserve).
RunsAfterDependencies ==
    [][\A t \in Tasks : task[t].row # "RUNNING" /\ task'[t].row = "RUNNING"
          => \A d \in task'[t].deps : task'[d].row = "SUCCEEDED"]_vars

\* A workspace none of whose closes failed, and all of whose tasks found the record they lock, never
\* expires under a task that waits or runs (setMutationLock, onTaskSettle, claimForExpiry).
NoExpiryUnderTask ==
    [][ws = "ACTIVE" /\ ws' = "EXPIRED" /\ badCloses = 0 /\ Unfound = {} => Unsettled = {}]_vars

\* Once a workspace is stopped every row is final but those of the tasks whose requests had seen it
\* ACTIVE and began after the close had claimed it: what exits, cancels and restarts of others do while
\* the stop waits leaves none of the tasks it found, or could have found, open (stopWorkspace).
StoppedIsFinal ==
    ws \in {"STOPPED", "CLOSED"} =>
        \A t \in Tasks : task[t].row \in {"QUEUED", "RUNNING"} => task[t].start = "late"

\* A task that waits in the map waits for one that waits or runs there, and one that runs has a child
\* whose close is yet to come: no way a task can end forgets those that wait for it, whatever is
\* evicted, cancelled or stopped meanwhile (reconcileQueued, reserve, track).
NobodyForgotten ==
    \A t \in Tasks :
        /\ task[t].mem = "queued" => \E d \in task[t].deps : task[d].mem \in {"queued", "running"}
        /\ task[t].mem = "running" => task[t].child # "none"

=============================================================================
