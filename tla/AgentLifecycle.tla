--------------------------- MODULE AgentLifecycle ---------------------------
(***************************************************************************)
(* The agent runs of one workspace: how the runner launches, cancels,      *)
(* cleans up and, after a restart, reconciles them.                        *)
(*                                                                         *)
(* Every launch, cancel, timer, exit of a container, cleanup retry, close  *)
(* of the workspace, shutdown and start of the runner is a task, at one of *)
(* its awaits.  Tasks interleave there, share the cleanup promise of a     *)
(* runtime and wait for one another's launches.  Calls to the gateway and  *)
(* to Docker may fail.                                                     *)
(***************************************************************************)
EXTENDS Naturals, FiniteSets

CONSTANTS
    Agents,       \* ids of agent runs
    None,         \* no agent and no task
    Tasks,        \* bound: tasks at once
    MaxGen,       \* bound: generations of the workspace
    MaxFaults,    \* bound: failed calls
    MaxRestarts   \* bound: crashes of the runner

ASSUME AgentAssumption ==
    /\ IsFiniteSet(Agents)
    /\ None \notin Agents \union Tasks
    /\ Tasks \intersect {"none", "open", "failed"} = {}
    /\ MaxGen \in Nat \ {0} /\ MaxFaults \in Nat /\ MaxRestarts \in Nat

VARIABLES
    status,    \* column of `agents`; "NONE" before the reservation
    parent,    \* parent_agent_id
    agentGen,  \* workspace_generation of an agent
    epoch,     \* runner_epoch of an agent
    retry,     \* has a row in `agent_cleanup_retries`
    ws,        \* status and generation of the workspace
    gate,      \* row of `agent_workspace_admission`: generation, and whether it is open
    lease,     \* the gateway holds a lease of the agent
    box,       \* the agent's container and network exist
    runtime,   \* the manager's RuntimeContext and its cleanup promise
    task,      \* tasks of the runner
    up,        \* state of the runner process: "starting", "up", "stopping", or why it is down
    faults,    \* calls that failed so far
    restarts   \* starts of the runner so far

rows == <<status, parent, agentGen, epoch, retry, ws, gate>>
world == <<lease, box>>
process == <<runtime, task, up, restarts>>
vars == <<rows, world, process, faults>>

-----------------------------------------------------------------------------
(* Agents and their descendants *)

Active == {"SPAWNING", "RUNNING", "CANCELLING"}
ActiveAgents == {a \in Agents : status[a] \in Active}

\* Mutant: an agent is its own descendant.
SelfAndDescendants(a) ==
    {d \in Agents : d = a \/ \A S \in SUBSET Agents :
        (\A e \in Agents : parent[e] \in S \union {a} => e \in S) => d \in S}

\* The least set with the children of `a` and of its members.
Descendants(a) ==
    {d \in Agents : \A S \in SUBSET Agents :
        (\A e \in Agents : parent[e] \in S \union {a} => e \in S) => d \in S}

\* Mutant: parents before their children.
Parents(S) == {d \in S : parent[d] \notin S}

\* Those of a list that may come first: children stand before their parents.
First(S) == {d \in S : \A e \in S : parent[e] # d}

-----------------------------------------------------------------------------
(* Tasks *)

\* At step `do` of agent `of`; `left` are the agents still to be ended, before the task ends `own`
\* or goes on with `then`; `by` is the task whose cleanup it awaits, `gen` the claim of a close.
Idle == [mode |-> "idle", do |-> "none", of |-> None, own |-> None, left |-> {}, then |-> "none",
         by |-> None, gen |-> 0]

Free(t) == task[t].mode = "idle"
At(t, do) == task[t].do = do
Goto(t, do) == task' = [task EXCEPT ![t].do = do]
End(t) == task' = [task EXCEPT ![t] = Idle]

\* A task about agent `a` alone.
About(mode, a, do, then) == [Idle EXCEPT !.mode = mode, !.of = a, !.own = a, !.do = do, !.then = then]

\* What a task does once an agent has ended: it is done, or goes on with its list.
After(t) == IF task[t].of = task[t].own THEN Idle
            ELSE [task[t] EXCEPT !.do = "next", !.by = None]

Marked(S) == [a \in Agents |-> IF a \in S THEN "CANCELLING" ELSE status[a]]

\* Task `t` becomes `r` and cancels `S`; the first is marked in the same step, with `also`.
Cancelling(t, r, S, also) ==
    \/ /\ S = {}
       /\ status' = Marked(also)
       /\ task' = [task EXCEPT ![t] = [r EXCEPT !.do = r.then, !.of = r.own, !.left = {}]]
    \/ \E d \in First(S) :
         /\ status' = Marked(also \union {d})
         /\ task' = [task EXCEPT ![t] = [r EXCEPT !.do = "await", !.of = d, !.left = S \ {d}]]

\* Mutant: a cancel does not wait for the launch it cancels.
NobodyLaunching(a) == FALSE

\* The entry `launches` of an agent: its launch has not settled.
Launching(a) == \E t \in Tasks : task[t].mode = "launch" /\ task[t].own = a

Downs == {"stopped", "killed", "unhandled", "failed start"}
Alive == up \notin Downs

\* The process ends.  A call that was under way may still be carried out.
Fall(why) ==
    /\ up' = why
    /\ task' = [t \in Tasks |-> Idle]
    /\ runtime' = [a \in Agents |-> "none"]
    /\ \E granted \in SUBSET {task[t].of : t \in {u \in Tasks : At(u, "issue")}} :
         lease' = [a \in Agents |-> lease[a] \/ a \in granted]

\* A task whose failure nobody handles ends the process; so does a failed start.
EndOf(mode) == CASE mode = "loose" -> "unhandled" [] mode = "boot" -> "failed start" [] OTHER -> "stopped"

\* Those that await the cleanup by task `t`, or the launch that it is.
Awaits(v, t) ==
    \/ At(v, "join") /\ task[v].by = t
    \/ At(v, "await") /\ task[t].mode = "launch" /\ task[v].of = task[t].own

\* A throw ends the task, and those that await it throw next.  A close that fails leaves the
\* workspace recoverable.
Throw(t, afterwards) ==
    \/ /\ task[t].mode \in {"call", "launch", "close"}
       /\ task' = [v \in Tasks |-> IF v = t THEN Idle
                                   ELSE IF Awaits(v, t) THEN [task[v] EXCEPT !.do = "rethrow"]
                                   ELSE task[v]]
       /\ runtime' = afterwards
       /\ ws' = IF task[t].mode = "close" /\ ws = [status |-> "REAPING", gen |-> task[t].gen]
                THEN [ws EXCEPT !.status = "EXPIRED_RECOVERABLE"] ELSE ws
       /\ UNCHANGED <<lease, up>>
    \/ /\ task[t].mode \in {"loose", "boot", "stop"}
       /\ Fall(EndOf(task[t].mode))
       /\ UNCHANGED ws

Fault == faults < MaxFaults /\ faults' = faults + 1

-----------------------------------------------------------------------------
Init ==
    /\ status = [a \in Agents |-> "NONE"]
    /\ parent = [a \in Agents |-> None]
    /\ agentGen = [a \in Agents |-> 0]
    /\ epoch = [a \in Agents |-> 0]
    /\ retry = [a \in Agents |-> FALSE]
    /\ ws = [status |-> "ACTIVE", gen |-> 1]
    /\ gate = [gen |-> 0, open |-> FALSE]
    /\ lease = [a \in Agents |-> FALSE]
    /\ box = [a \in Agents |-> FALSE]
    /\ runtime = [a \in Agents |-> "none"]
    /\ task = [t \in Tasks |-> Idle]
    /\ up = "up" /\ faults = 0 /\ restarts = 0

-----------------------------------------------------------------------------
(* Admission and launch *)

Admits == gate.gen = 0 \/ (gate.open /\ gate.gen = ws.gen)

\* The reservation is one transaction; the launch begins with it.
Spawn(t, a, p) ==
    /\ Free(t) /\ up = "up" /\ ws.status = "ACTIVE" /\ Admits
    /\ status[a] = "NONE"
    /\ p # None => status[p] = "RUNNING" /\ agentGen[p] = ws.gen
    /\ status' = [status EXCEPT ![a] = "SPAWNING"]
    /\ parent' = [parent EXCEPT ![a] = p]
    /\ agentGen' = [agentGen EXCEPT ![a] = ws.gen]
    /\ epoch' = [epoch EXCEPT ![a] = restarts]
    /\ gate' = [gen |-> ws.gen, open |-> TRUE]
    /\ task' = [task EXCEPT ![t] = About("launch", a, "prepare", "start")]
    /\ UNCHANGED <<retry, ws, world, runtime, up, restarts, faults>>

\* Up to markIssuing: a launch that finds itself cancelled stops before any lease exists.
Prepare(t) ==
    /\ At(t, "prepare")
    /\ \/ status[task[t].of] = "SPAWNING" /\ Goto(t, "issue") /\ UNCHANGED faults
       \/ status[task[t].of] # "SPAWNING" /\ End(t) /\ UNCHANGED faults
       \/ Fault /\ Goto(t, "fail")
    /\ UNCHANGED <<rows, world, runtime, up, restarts>>

\* A failed issue may have left a lease.
Issue(t) ==
    /\ At(t, "issue")
    /\ \/ /\ lease' = [lease EXCEPT ![task[t].of] = TRUE]
          /\ Goto(t, "box") /\ UNCHANGED faults
       \/ /\ Fault /\ Goto(t, "fail")
          /\ \E kept \in BOOLEAN : lease' = [lease EXCEPT ![task[t].of] = kept]
    /\ UNCHANGED <<rows, box, runtime, up, restarts>>

\* A launch that was cancelled meanwhile registers its runtime, then fails its transition.
Launch(t) ==
    LET a == task[t].of IN
    /\ At(t, "box")
    /\ \/ /\ box' = [box EXCEPT ![a] = TRUE]
          /\ runtime' = [runtime EXCEPT ![a] = "open"]
          /\ \/ status[a] = "SPAWNING" /\ status' = [status EXCEPT ![a] = "RUNNING"] /\ Goto(t, "begin")
             \/ status[a] # "SPAWNING" /\ UNCHANGED status /\ Goto(t, "fail")
          /\ UNCHANGED faults
       \/ /\ Fault /\ Goto(t, "fail")
          /\ \E kept \in BOOLEAN : box' = [box EXCEPT ![a] = kept]
          /\ UNCHANGED <<status, runtime>>
    /\ UNCHANGED <<parent, agentGen, epoch, retry, ws, gate, lease, up, restarts>>

\* The dangling tool calls are settled and the start record is sent.
SendStart(t) ==
    /\ At(t, "begin")
    /\ \/ End(t) /\ UNCHANGED faults
       \/ Fault /\ Goto(t, "fail")
    /\ UNCHANGED <<rows, world, runtime, up, restarts>>

\* cancelDescendants.
Cascade(t, a, r, also) == Cancelling(t, r, Descendants(a) \intersect ActiveAgents, also)

\* failLaunch leaves the cleanup to whoever cancelled the launch.
FailLaunch(t) ==
    LET a == task[t].of IN
    /\ At(t, "fail")
    /\ \/ status[a] \in {"CANCELLING", "ENDED"} /\ End(t) /\ UNCHANGED status
       \/ status[a] \notin {"CANCELLING", "ENDED"} /\ Cascade(t, a, task[t], {a})
    /\ UNCHANGED <<parent, agentGen, epoch, retry, ws, gate, world, runtime, up, restarts, faults>>

-----------------------------------------------------------------------------
(* Cancels *)

\* cancelOne up to its first await.
CancelOne(t, a, mode) ==
    /\ Free(t) /\ status[a] \in Active
    /\ status' = Marked({a})
    /\ task' = [task EXCEPT ![t] = About(mode, a, "await", "clean")]
    /\ UNCHANGED <<parent, agentGen, epoch, retry, ws, gate, world, runtime, up, restarts, faults>>

\* agent_cancel, and the reaper for an agent past its expiry.
Cancel(t, a) == up = "up" /\ CancelOne(t, a, "call")

\* The deadline timer of a running agent, and a limit that its output meets.  Nobody awaits them.
CancelLoose(t, a) == Alive /\ runtime[a] # "none" /\ CancelOne(t, a, "loose")

\* The cancel of an agent goes on with its descendants, if it is the one the task is about.
AwaitLaunch(t) ==
    LET a == task[t].of IN
    /\ At(t, "await") /\ ~Launching(a)
    /\ \/ a = task[t].own /\ Cascade(t, a, task[t], {})
       \/ a # task[t].own /\ Goto(t, "clean") /\ UNCHANGED status
    /\ UNCHANGED <<parent, agentGen, epoch, retry, ws, gate, world, runtime, up, restarts, faults>>

\* The next of the list that has not ended.
CancelNext(t) ==
    /\ At(t, "next") /\ task[t].mode # "boot"
    /\ Cancelling(t, task[t], task[t].left \intersect ActiveAgents, {})
    /\ UNCHANGED <<parent, agentGen, epoch, retry, ws, gate, world, runtime, up, restarts, faults>>

\* The runtime's container exits or breaks the protocol: interrupt, on behalf of nobody.
Interrupt(t, a) ==
    /\ Free(t) /\ Alive /\ runtime[a] # "none" /\ status[a] = "RUNNING"
    /\ Cascade(t, a, About("loose", a, "none", "start"), {a})
    /\ UNCHANGED <<parent, agentGen, epoch, retry, ws, gate, world, runtime, up, restarts, faults>>

\* The runtime reports its terminal state: finishTerminal.
FinishTerminal(t, a) ==
    /\ Free(t) /\ Alive /\ runtime[a] = "open" /\ status[a] \in {"RUNNING", "CANCELLING"}
    /\ Cascade(t, a, About("call", a, "none", "start"), {a})
    /\ UNCHANGED <<parent, agentGen, epoch, retry, ws, gate, world, runtime, up, restarts, faults>>

-----------------------------------------------------------------------------
(* Cleanup *)

\* What follows a cleanup: a task names itself as the one whose promise the runtime keeps.
Registered(t, a) == IF runtime[a] = "none" THEN runtime ELSE [runtime EXCEPT ![a] = t]

\* The end of cancelOne: a cleanup that is under way, or that failed, is awaited.
CleanOrJoin(t) ==
    LET a == task[t].of IN
    /\ At(t, "clean")
    /\ \/ /\ runtime[a] \in Tasks
          /\ task' = [task EXCEPT ![t] = [@ EXCEPT !.do = "join", !.by = runtime[a]]]
          /\ UNCHANGED <<ws, lease, runtime, up>>
       \/ runtime[a] = "failed" /\ Throw(t, runtime)
       \/ /\ runtime[a] \in {"none", "open"}
          /\ runtime' = Registered(t, a)
          /\ Goto(t, "revoke")
          /\ UNCHANGED <<ws, lease, up>>
    /\ UNCHANGED <<status, parent, agentGen, epoch, retry, gate, box, restarts, faults>>

\* interrupt, finishTerminal, failLaunch and the reaper begin a cleanup of their own.  Their
\* callers handle its failure, which they do not for the descendants that interrupt cancels.
Start(t) ==
    /\ At(t, "start")
    /\ runtime' = Registered(t, task[t].of)
    /\ task' = [task EXCEPT ![t].do = "revoke", ![t].mode = IF @ = "loose" THEN "call" ELSE @]
    /\ UNCHANGED <<rows, world, up, restarts, faults>>

\* A failed revoke is remembered; the container is removed all the same.
Revoke(t) ==
    LET a == task[t].of IN
    /\ At(t, "revoke")
    /\ \/ /\ lease' = [lease EXCEPT ![a] = FALSE]
          /\ Goto(t, "remove") /\ UNCHANGED faults
       \/ /\ Fault
          /\ \E kept \in BOOLEAN : lease' = [lease EXCEPT ![a] = kept /\ @]
          /\ Goto(t, "removeFailed")
    /\ UNCHANGED <<rows, box, runtime, up, restarts>>

\* The promise of a cleanup that failed stays with the runtime.
Failed(t) == LET a == task[t].of IN IF runtime[a] = t THEN [runtime EXCEPT ![a] = "failed"] ELSE runtime

\* Mutant: a failed cleanup is not scheduled again.
FailForGood(t) == UNCHANGED retry /\ Throw(t, Failed(t))

FailCleanup(t) ==
    /\ retry' = [retry EXCEPT ![task[t].of] = TRUE]
    /\ Throw(t, Failed(t))

RemoveBox(t) ==
    LET a == task[t].of IN
    /\ At(t, "remove") \/ At(t, "removeFailed")
    /\ \/ /\ box' = [box EXCEPT ![a] = FALSE] /\ UNCHANGED faults
          /\ \/ At(t, "remove") /\ Goto(t, "finish") /\ UNCHANGED <<retry, ws, lease, runtime, up>>
             \/ At(t, "removeFailed") /\ FailCleanup(t)
       \/ /\ Fault
          /\ \E kept \in BOOLEAN : box' = [box EXCEPT ![a] = kept /\ @]
          /\ FailCleanup(t)
    /\ UNCHANGED <<status, parent, agentGen, epoch, gate, restarts>>

\* The end of a run is recorded, and those that joined the cleanup go on.
Finish(t) ==
    LET a == task[t].of IN
    /\ At(t, "finish")
    /\ runtime' = [runtime EXCEPT ![a] = "none"]
    /\ retry' = [retry EXCEPT ![a] = FALSE]
    /\ status' = [status EXCEPT ![a] = "ENDED"]
    /\ task' = [v \in Tasks |-> IF v = t \/ (At(v, "join") /\ task[v].by = t) THEN After(v) ELSE task[v]]
    /\ UNCHANGED <<parent, agentGen, epoch, ws, gate, world, up, restarts, faults>>

\* A promise this task awaited was rejected.
Rethrow(t) ==
    /\ At(t, "rethrow")
    /\ Throw(t, runtime)
    /\ UNCHANGED <<status, parent, agentGen, epoch, retry, gate, box, restarts, faults>>

\* reap: the rows of `agent_cleanup_retries` that are due.
RetryCleanup(t, a) ==
    /\ Free(t) /\ up = "up" /\ ws.status \in {"ACTIVE", "REAPING"}
    /\ retry[a] /\ status[a] = "CANCELLING"
    /\ task' = [task EXCEPT ![t] = About("call", a, "start", "start")]
    /\ UNCHANGED <<rows, world, runtime, up, restarts, faults>>

-----------------------------------------------------------------------------
(* The workspace *)

\* closeRecord claims the workspace; stopWorkspace cancels its agents one by one.
Close(t) ==
    LET claimed == IF ws.status = "REAPING" THEN ws ELSE [status |-> "REAPING", gen |-> ws.gen + 1] IN
    /\ Free(t) /\ up = "up" /\ ws.status # "CLOSED" /\ claimed.gen <= MaxGen
    /\ ws' = claimed
    /\ gate' = [gate EXCEPT !.open = FALSE]
    /\ Cancelling(t, [Idle EXCEPT !.mode = "close", !.then = "closed", !.gen = claimed.gen], ActiveAgents, {})
    /\ UNCHANGED <<parent, agentGen, epoch, retry, world, runtime, up, restarts, faults>>

\* The rest of the close may fail as well.
Closed(t) ==
    /\ At(t, "closed")
    /\ \E s \in {"CLOSED", "EXPIRED_RECOVERABLE"} :
         ws' = IF ws = [status |-> "REAPING", gen |-> task[t].gen] THEN [ws EXCEPT !.status = s] ELSE ws
    /\ End(t)
    /\ UNCHANGED <<status, parent, agentGen, epoch, retry, gate, world, runtime, up, restarts, faults>>

\* Mutant: an expiry keeps the generation.
ExpireInPlace(t) ==
    /\ Free(t) /\ up = "up" /\ ws.status = "ACTIVE" /\ ws.gen < MaxGen
    /\ ws' = [ws EXCEPT !.status = "REAPING"]
    /\ task' = [task EXCEPT ![t] = [Idle EXCEPT !.mode = "call", !.do = "expired", !.gen = ws.gen]]
    /\ UNCHANGED <<status, parent, agentGen, epoch, retry, gate, world, runtime, up, restarts, faults>>

\* claimForExpiry, then markExpiredRecoverable: an expiry leaves the agents alone.
Expire(t) ==
    /\ Free(t) /\ up = "up" /\ ws.status = "ACTIVE" /\ ws.gen < MaxGen
    /\ ws' = [status |-> "REAPING", gen |-> ws.gen + 1]
    /\ task' = [task EXCEPT ![t] = [Idle EXCEPT !.mode = "call", !.do = "expired", !.gen = ws.gen + 1]]
    /\ UNCHANGED <<status, parent, agentGen, epoch, retry, gate, world, runtime, up, restarts, faults>>

Expired(t) ==
    /\ At(t, "expired")
    /\ ws' = IF ws = [status |-> "REAPING", gen |-> task[t].gen] THEN [ws EXCEPT !.status = "EXPIRED_RECOVERABLE"] ELSE ws
    /\ End(t)
    /\ UNCHANGED <<status, parent, agentGen, epoch, retry, gate, world, runtime, up, restarts, faults>>

Recover ==
    /\ up = "up" /\ ws.status = "EXPIRED_RECOVERABLE"
    /\ ws' = [ws EXCEPT !.status = "ACTIVE"]
    /\ UNCHANGED <<status, parent, agentGen, epoch, retry, gate, world, process, faults>>

-----------------------------------------------------------------------------
(* The runner *)

\* stop: admission closes, the agents of a workspace that is not expired are cancelled.
Shutdown(t) ==
    LET here == ws.status \in {"ACTIVE", "REAPING"} IN
    /\ Free(t) /\ up = "up" /\ restarts < MaxRestarts
    /\ up' = "stopping"
    /\ gate' = IF here THEN [gate EXCEPT !.open = FALSE] ELSE gate
    /\ Cancelling(t, [Idle EXCEPT !.mode = "stop", !.then = "exit"], IF here THEN ActiveAgents ELSE {}, {})
    /\ UNCHANGED <<parent, agentGen, epoch, retry, ws, world, runtime, restarts, faults>>

Exit(t) ==
    /\ At(t, "exit")
    /\ Fall("stopped")
    /\ UNCHANGED <<rows, box, restarts, faults>>

Crash ==
    /\ Alive /\ restarts < MaxRestarts
    /\ Fall("killed")
    /\ UNCHANGED <<rows, box, restarts, faults>>

\* The agents of an active workspace, of its present generation, that have not ended.
Unreconciled == IF ws.status = "ACTIVE" THEN {a \in ActiveAgents : agentGen[a] = ws.gen} ELSE {}

\* start: every agent container of this runner is removed, then the agents that have not ended are
\* to be cleaned up, children first.
Boot(t) ==
    /\ ~Alive
    /\ restarts' = restarts + 1
    /\ \/ /\ up' = "starting"
          /\ box' = [a \in Agents |-> FALSE]
          /\ gate' = IF ws.status = "ACTIVE" /\ gate.gen = ws.gen THEN [gate EXCEPT !.open = FALSE] ELSE gate
          /\ task' = [task EXCEPT ![t] = [Idle EXCEPT !.mode = "boot", !.do = "next", !.left = Unreconciled]]
          /\ UNCHANGED faults
       \/ Fault /\ up' = "failed start" /\ UNCHANGED <<box, gate, task>>
    /\ UNCHANGED <<status, parent, agentGen, epoch, retry, ws, lease, runtime>>

\* reconcileInterrupted.
Repair(t) ==
    /\ At(t, "next") /\ task[t].mode = "boot"
    /\ \/ /\ task[t].left = {}
          /\ Goto(t, "admit")
          /\ UNCHANGED status
       \/ \E a \in First(task[t].left) :
          /\ status' = Marked({a})
          /\ task' = [task EXCEPT ![t].do = "revoke", ![t].of = a, ![t].left = @ \ {a}]
    /\ UNCHANGED <<parent, agentGen, epoch, retry, ws, gate, world, runtime, up, restarts, faults>>

\* The workspace admits agents again, unless one of them has not ended.
Admit(t) ==
    /\ At(t, "admit")
    /\ IF Unreconciled = {}
       THEN /\ up' = "up"
            /\ gate' = IF ws.status = "ACTIVE" /\ gate.gen = ws.gen THEN [gate EXCEPT !.open = TRUE] ELSE gate
            /\ End(t)
            /\ UNCHANGED <<lease, runtime>>
       ELSE Fall("failed start") /\ UNCHANGED gate
    /\ UNCHANGED <<status, parent, agentGen, epoch, retry, ws, box, restarts, faults>>

-----------------------------------------------------------------------------
Run(t) == \/ Prepare(t) \/ Issue(t) \/ Launch(t) \/ SendStart(t) \/ FailLaunch(t)
          \/ AwaitLaunch(t) \/ CancelNext(t)
          \/ CleanOrJoin(t) \/ Start(t) \/ Revoke(t) \/ RemoveBox(t) \/ Finish(t) \/ Rethrow(t)
          \/ Closed(t) \/ Expired(t) \/ Exit(t) \/ Repair(t) \/ Admit(t)

Next ==
    \/ Recover \/ Crash
    \/ \E t \in Tasks :
         \/ Run(t) \/ Close(t) \/ Expire(t) \/ Shutdown(t) \/ Boot(t)
         \/ \E a \in Agents : \/ \E p \in Agents \union {None} : Spawn(t, a, p)
                              \/ Cancel(t, a) \/ CancelLoose(t, a) \/ Interrupt(t, a)
                              \/ FinishTerminal(t, a) \/ RetryCleanup(t, a)

Spec == Init /\ [][Next]_vars

-----------------------------------------------------------------------------
(* Properties *)

\* A run whose end is recorded has no lease, no container and no runtime, whichever cancels, exits,
\* failures and restarts met; a run it started goes on only while a run above it is being cancelled
\* or was, by a list that did not yet have the run (cleanup, cancelDescendants).
EndedIsGone ==
    \A a \in Agents : status[a] = "ENDED" =>
        /\ ~lease[a] /\ ~box[a] /\ runtime[a] = "none"
        /\ \A d \in Agents : parent[d] = a /\ status[d] # "ENDED" =>
             \E x \in Agents : a \in Descendants(x) /\ status[x] \in {"CANCELLING", "ENDED"}

\* A closed workspace has no agent that goes on or holds anything (closeRecord, stopWorkspace).
ClosedHasNoAgents ==
    ws.status = "CLOSED" => \A a \in Agents : status[a] \in {"NONE", "ENDED"} /\ ~lease[a] /\ ~box[a]

\* Nothing of an agent outlives the end that is recorded of it or of its workspace.
NothingOutlivesItsEnd == EndedIsGone /\ ClosedHasNoAgents

\* While an active workspace admits agents, none of an earlier runner process goes on in its
\* generation: a restart cleaned them up first (prepareWorkspaceStartupRepair, openWorkspaceAdmission),
\* and a workspace that a restart skipped admits agents only in a new generation (claimForExpiry).
ReconciledBeforeAdmission ==
    up = "up" /\ ws.status = "ACTIVE" /\ gate.open /\ gate.gen = ws.gen =>
        \A a \in ActiveAgents : agentGen[a] = ws.gen => epoch[a] = restarts

Contract == INSTANCE AgentContract WITH
    phase <- [a \in Agents |-> CASE status[a] = "NONE" -> "absent" [] status[a] = "CANCELLING" -> "ending"
                                  [] status[a] = "ENDED" -> "ended" [] OTHER -> "live"],
    holds <- [a \in Agents |-> {h \in {"lease", "container"} : IF h = "lease" THEN lease[a] ELSE box[a]}]

\* The runner keeps the contract of agent runs (spawn, launch, cancelOne, cleanup, start).
ImplementsContract == Contract!ContractSpec

\* Task `v` can go on only after task `u` has: it awaits the launch that `u` is, or joined the cleanup
\* that `u` runs.
WaitsFor(v, u) == \/ At(v, "await") /\ task[u].mode = "launch" /\ task[u].own = task[v].of
                  \/ At(v, "join") /\ task[v].by = u

\* The awaits of launches and of shared cleanups never form a circle, whichever cancels, failed
\* launches, closes and shutdowns meet (cancelOne, failLaunch, cancelDescendants).
NoWaitCycle ==
    \A S \in (SUBSET Tasks) \ {{}} : \E v \in S : \A u \in S : ~WaitsFor(v, u)

\* While its workspace is active, a run that has not ended is one that somebody will end: a task is
\* at it, a retry of its cleanup is recorded, or its runtime's deadline timer still runs, although a
\* cancel that fails for a descendant leaves the run itself without a cleanup or a retry
\* (cancelOne, cancelDescendants, cleanup, reap, launch's deadline).
NobodyForgotten ==
    \A a \in ActiveAgents : up = "up" /\ ws.status = "ACTIVE" /\ agentGen[a] = ws.gen =>
        \/ retry[a] \/ runtime[a] = "open"
        \/ \E t \in Tasks : a \in {task[t].of, task[t].own} \union task[t].left

=============================================================================
