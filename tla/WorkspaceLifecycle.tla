------------------------- MODULE WorkspaceLifecycle -------------------------
(***************************************************************************)
(* The life of a workspace in the runner: apps/runner/src/workspace-       *)
(* service.ts over the table of WorkspaceStore, the Docker executor of     *)
(* each workspace and its checkout on disk.                                *)
(*                                                                         *)
(* The runner is one Node.js process.  What runs between two awaits is one *)
(* action here; at an await the request keeps what it read in a job record *)
(* and other requests, the reaper, a firewall change or a crash may run.   *)
(* A request is one of Clients, the periodic reaper (never two at a time)  *)
(* is Reaper, and Boot is WorkspaceService.start, which finishes before    *)
(* the process listens.                                                    *)
(***************************************************************************)
EXTENDS WorkspaceStore, FiniteSets

CONSTANTS
    Workspaces,   \* one per idempotency key an owner may open with
    Owner,        \* the owner of each
    Dependency,   \* those on the dependency-access network profile; the rest have no network
    Clients,      \* concurrent API requests
    Reaper, Boot,
    Requests,     \* which operations the clients issue
    Events,       \* what may happen outside the runner: failures, and the deadlines that can pass
    MaxLimit,     \* the largest quota an operator sets
    MaxGen,       \* bound: no new recovery or failing stop from this generation on
    MaxLocks      \* bound: no client starts an operation that leases past this count

RequestKinds == {"open", "recover", "renew", "export", "exec", "async", "task", "close",
                 "closeFenced", "quota"}
EventKinds   == {"clone", "docker", "stop", "files", "check", "size", "firewall", "network", "crash",
                  "wall", "overrun"}

Actors == Clients \cup {Reaper, Boot}

ASSUME ActorsAssumption ==
    /\ Reaper \notin Clients /\ Boot \notin Clients /\ Reaper # Boot
    /\ IsFiniteSet(Clients)
ASSUME WorkspacesAssumption ==
    IsFiniteSet(Workspaces) /\ Workspaces # {} /\ Dependency \subseteq Workspaces
ASSUME BoundsAssumption ==
    /\ MaxLimit \in Nat \ {0} /\ MaxGen \in Nat \ {0} /\ MaxLocks \in Nat
    /\ Requests \subseteq RequestKinds /\ Events \subseteq EventKinds

VARIABLES
    row,      \* workspaces table
    box,      \* the container cloud-harness-ws-<id> exists (one name per workspace)
    disk,     \* the job directory of the workspace exists, with what was cloned
    dirty,    \* the checkout holds work that is on no remote
    stray,    \* a removal nobody waits for is on its way to Docker
    job,      \* what each actor is doing, with what it read before its last await
    runner,   \* "up" (listening), "boot" (inside start) or "down"
    toVisit,  \* records start() has listed and not reached
    limit,    \* effective active-workspace limit
    drift     \* the host firewall no longer matches the policy

vars == <<row, box, disk, dirty, stray, job, runner, toVisit, limit, drift>>
world == <<box, disk, dirty, stray>>
environment == <<runner, toVisit, limit, drift>>

Steps == {"idle", "capacity", "expire_box", "expire_mark", "admit", "clone", "create", "launch",
          "activate", "undo", "abandon", "inspect", "unstale", "stat", "finish", "export",
          "measure", "write", "return", "stop", "unbox", "files", "commit", "weigh",
          "sweep", "unname", "check", "decide"}

Operations == RequestKinds \cup {"none", "reap", "autoClose", "quarantine", "boot"}

\* w is the workspace of the request, v the one its step works on; the rest is what it read.
Jobs == [step : Steps, op : Operations,
         w : Workspaces, v : Workspaces, gen : Nat, named : BOOLEAN,
         quarantined : BOOLEAN, holds : BOOLEAN, unsaved : BOOLEAN]

TypeOK ==
    /\ row \in [Workspaces -> Rows]
    /\ box \in [Workspaces -> BOOLEAN] /\ disk \in [Workspaces -> BOOLEAN]
    /\ dirty \in [Workspaces -> BOOLEAN] /\ stray \in [Workspaces -> BOOLEAN]
    /\ job \in [Actors -> Jobs]
    /\ runner \in {"up", "boot", "down"} /\ toVisit \subseteq Workspaces
    /\ limit \in 1..MaxLimit /\ drift \in BOOLEAN

AnyWorkspace == CHOOSE w \in Workspaces : TRUE

Idle == [step |-> "idle", op |-> "none", w |-> AnyWorkspace, v |-> AnyWorkspace, gen |-> 0,
         named |-> FALSE, quarantined |-> FALSE, holds |-> FALSE, unsaved |-> FALSE]

Init ==
    /\ row = [w \in Workspaces |-> NoRow]
    /\ box = [w \in Workspaces |-> FALSE] /\ disk = [w \in Workspaces |-> FALSE]
    /\ dirty = [w \in Workspaces |-> FALSE] /\ stray = [w \in Workspaces |-> FALSE]
    /\ job = [p \in Actors |-> Idle]
    /\ runner = "up" /\ toVisit = {} /\ limit \in 1..MaxLimit /\ drift = FALSE

-----------------------------------------------------------------------------
(* Helpers *)

Counted(o) == {w \in Workspaces : Owner[w] = o /\ row[w].status \in CountedStatuses}

\* The slot check of admit and activateWithLimit.
SlotFree(w) == Cardinality(Counted(Owner[w])) < limit

\* The requests that took a mutation lease on the current generation and have not released it.
LeaseHolders(w) ==
    {p \in Actors : job[p].holds /\ job[p].w = w /\ job[p].gen = row[w].gen}

At(p, step) == job[p].step = step /\ runner # "down"

Goto(p, step) == job' = [job EXCEPT ![p].step = step]
Done(p)       == job' = [job EXCEPT ![p] = Idle]
Start(p, j)   == job' = [job EXCEPT ![p] = j]

SetRow(w, r) == row' = [row EXCEPT ![w] = r]

\* A request arrives: the server listens, and this client is not waiting for another answer.
Arrives(p, kind) == kind \in Requests /\ p \in Clients /\ runner = "up" /\ job[p].step = "idle"

\* An error reaches the caller.  A client or the reaper goes on; start() does not survive it.
Throws(p) ==
    /\ runner' = IF p = Boot THEN "down" ELSE runner
    /\ toVisit' = IF p = Boot THEN {} ELSE toVisit
    /\ UNCHANGED <<limit, drift>>

\* removeContainer: docker rm --force, or a Docker failure that leaves the container.
RemoveBox(w) == \/ box' = [box EXCEPT ![w] = FALSE]
                \/ "docker" \in Events /\ box[w] /\ UNCHANGED box

\* What a job reads of the row of w at the moment it starts on it.
Reading(op, step, w) ==
    [Idle EXCEPT !.op = op, !.step = step, !.w = w, !.v = w, !.gen = row[w].gen,
                 !.named = row[w].named, !.quarantined = row[w].status = "NETWORK_QUARANTINED"]

-----------------------------------------------------------------------------
(* Time, and the world outside the runner *)

LeaseElapses(w) ==
    /\ row[w].status \in {"CREATING", "ACTIVE"} /\ ~row[w].leaseDue
    /\ row' = [row EXCEPT ![w].leaseDue = TRUE]
    /\ UNCHANGED <<world, job, environment>>

WallDeadlinePasses(w) ==
    /\ {"wall", "overrun"} \cap Events # {}
    /\ row[w].status \notin {"NONE", "CLOSED", "FAILED"} /\ row[w].hard = "ahead"
    /\ row' = [row EXCEPT ![w].hard = "passed"]
    /\ UNCHANGED <<world, job, environment>>

WallDeadlineOverruns(w) ==
    /\ "overrun" \in Events
    /\ row[w].status \notin {"NONE", "CLOSED", "FAILED"} /\ row[w].hard = "passed"
    /\ row' = [row EXCEPT ![w].hard = "overrun"]
    /\ UNCHANGED <<world, job, environment>>

\* A hold is longer than the operation it covers, so only a lock that somebody left behind elapses,
\* unless operations overrun their hold.
LockElapses(w) ==
    /\ row[w].lock = "held"
    /\ "overrun" \in Events \/ LeaseHolders(w) = {}
    /\ row' = [row EXCEPT ![w].lock = "elapsed"]
    /\ UNCHANGED <<world, job, environment>>

WindowElapses(w) ==
    /\ row[w].status = "EXPIRED_RECOVERABLE" /\ ~row[w].windowDue
    /\ row' = [row EXCEPT ![w].windowDue = TRUE]
    /\ UNCHANGED <<world, job, environment>>

StrayRemovalLands(w) ==
    /\ stray[w] /\ stray' = [stray EXCEPT ![w] = FALSE] /\ RemoveBox(w)
    /\ UNCHANGED <<row, disk, dirty, job, environment>>

FirewallChanges ==
    /\ "firewall" \in Events /\ drift' = ~drift
    /\ UNCHANGED <<row, world, job, runner, toVisit, limit>>

\* Mutant: the override is not validated.
SetQuotaUnchecked ==
    /\ "quota" \in Requests /\ runner = "up" /\ limit' \in 0..MaxLimit
    /\ UNCHANGED <<row, world, job, runner, toVisit, drift>>

\* A Dashboard override of the quota.
SetQuota ==
    /\ "quota" \in Requests /\ runner = "up" /\ limit' \in 1..MaxLimit
    /\ UNCHANGED <<row, world, job, runner, toVisit, drift>>

-----------------------------------------------------------------------------
(* Expiry, inlined in ensureCapacity, reapExpired and requireWorkspace *)

ExpiryClaim(p, v, j) ==
    /\ Expirable(row[v]) /\ SetRow(v, Claimed(row[v]))
    /\ Start(p, [j EXCEPT !.v = v, !.step = "expire_box", !.gen = row[v].gen + 1,
                          !.named = row[v].named])
    /\ UNCHANGED <<world, environment>>

ExpireRemoveBox(p) ==
    /\ At(p, "expire_box")
    /\ IF job[p].named THEN RemoveBox(job[p].v) ELSE UNCHANGED box
    /\ Goto(p, "expire_mark") /\ UNCHANGED <<row, disk, dirty, stray, environment>>

\* markExpiredRecoverable, fenced on the claim.
ExpireMark(p) ==
    LET v == job[p].v IN
    /\ At(p, "expire_mark")
    /\ IF Fenced(row[v], job[p].gen, {"REAPING"})
       THEN SetRow(v, MarkedRecoverable(row[v])) ELSE UNCHANGED row
    /\ IF job[p].op = "open" THEN Goto(p, "capacity") ELSE Done(p)
    /\ UNCHANGED <<world, environment>>

-----------------------------------------------------------------------------
(* workspace_open *)

\* The key is new: a known one is answered from its record and changes nothing.
Open(p, w) ==
    /\ Arrives(p, "open") /\ row[w].status = "NONE"
    /\ Start(p, [Idle EXCEPT !.op = "open", !.step = "capacity", !.w = w, !.v = w])
    /\ UNCHANGED <<row, world, environment>>

OwnExpirable(w) == {v \in Workspaces : Owner[v] = Owner[w] /\ Expirable(row[v])}

CapacityExpire(p) ==
    /\ At(p, "capacity")
    /\ \E v \in OwnExpirable(job[p].w) : ExpiryClaim(p, v, job[p])

\* The early check; what it saw may be stale by the time of Admit.
CapacityCheck(p) ==
    /\ At(p, "capacity") /\ OwnExpirable(job[p].w) = {}
    /\ IF SlotFree(job[p].w) THEN Goto(p, "admit") ELSE Done(p)
    /\ UNCHANGED <<row, world, environment>>

\* Mutant: the early check is not repeated.
AdmitUnchecked(p) ==
    LET w == job[p].w IN
    /\ At(p, "admit") /\ SetRow(w, NewRow)
    /\ Start(p, [job[p] EXCEPT !.step = "clone", !.v = w, !.gen = 1, !.named = FALSE])
    /\ UNCHANGED <<world, environment>>

\* A concurrent open of the same key got there first, the limit is reached, or the row is inserted.
Admit(p) ==
    LET w == job[p].w IN
    /\ At(p, "admit")
    /\ IF row[w].status = "NONE" /\ SlotFree(w)
       THEN /\ SetRow(w, NewRow)
            /\ Start(p, [job[p] EXCEPT !.step = "clone", !.v = w, !.gen = 1, !.named = FALSE])
       ELSE UNCHANGED row /\ Done(p)
    /\ UNCHANGED <<world, environment>>

\* The catch block of open up to its await: CREATING becomes FAILED unless somebody claimed the row.
FailOpen(p) ==
    LET w == job[p].w IN
    /\ row' = [row EXCEPT ![w] = IF Fenced(@, job[p].gen, {"CREATING"})
                                  THEN [@ EXCEPT !.status = "FAILED"] ELSE @]
    /\ Goto(p, "abandon")

\* Toolkits, clone, size check; a failed clone may leave part of the directory.
Clone(p) ==
    /\ At(p, "clone") /\ disk' = [disk EXCEPT ![job[p].w] = TRUE]
    /\ \/ Goto(p, "create") /\ UNCHANGED row
       \/ "clone" \in Events /\ FailOpen(p)
    /\ UNCHANGED <<box, dirty, stray, environment>>

\* Mutant: an open that lost its fence just returns.
OpenActivateOrGiveUp(p) ==
    LET w == job[p].w IN
    /\ At(p, "activate") /\ job[p].op = "open" /\ Done(p)
    /\ row' = [row EXCEPT ![w] = IF Fenced(@, job[p].gen, {"CREATING"})
                                  THEN [@ EXCEPT !.status = "ACTIVE", !.named = TRUE] ELSE @]
    /\ UNCHANGED <<world, environment>>

\* The first fenced write after the container runs.
OpenActivate(p) ==
    LET w == job[p].w IN
    /\ At(p, "activate") /\ job[p].op = "open"
    /\ IF Fenced(row[w], job[p].gen, {"CREATING"})
       THEN SetRow(w, [row[w] EXCEPT !.status = "ACTIVE", !.named = TRUE]) /\ Done(p)
       ELSE UNCHANGED row /\ Goto(p, "undo")
    /\ UNCHANGED <<world, environment>>

\* safeRemovePath at the end of the catch block.
Abandon(p) ==
    LET w == job[p].w IN
    /\ At(p, "abandon")
    /\ \/ disk' = [disk EXCEPT ![w] = FALSE] /\ dirty' = [dirty EXCEPT ![w] = FALSE]
       \/ "files" \in Events /\ UNCHANGED <<disk, dirty>>
    /\ Done(p) /\ UNCHANGED <<row, box, stray, environment>>

-----------------------------------------------------------------------------
(* createExecutor, and ensureActiveExecutor around it *)

\* The end of a recovery that failed: its lease is released; start() gives up altogether.
FailRecovery(p) ==
    LET w == job[p].w IN
    /\ SetRow(w, IF job[p].holds THEN Released(row[w], job[p].gen) ELSE row[w])
    /\ Done(p) /\ Throws(p)

Fail(p) == IF job[p].op = "open" THEN FailOpen(p) /\ UNCHANGED environment ELSE FailRecovery(p)

\* Every launch starts by removing whatever bears the name; a failure is ignored.
CreateRemovesOld(p) ==
    /\ At(p, "create") /\ RemoveBox(job[p].w) /\ Goto(p, "launch")
    /\ UNCHANGED <<row, disk, dirty, stray, environment>>

\* docker create and start: the name must be free, and the firewall attested for dependency-access.
Launch(p) ==
    LET w == job[p].w IN
    /\ At(p, "launch") /\ ~box[w] /\ (w \in Dependency => ~drift)
    /\ box' = [box EXCEPT ![w] = TRUE] /\ Goto(p, "activate")
    /\ UNCHANGED <<row, disk, dirty, stray, environment>>

\* A container that was created and did not start is removed, if Docker lets it.
LaunchFails(p) ==
    LET w == job[p].w IN
    /\ At(p, "launch")
    /\ \/ (box[w] \/ (w \in Dependency /\ drift)) /\ UNCHANGED box
       \/ "docker" \in Events /\ \E left \in BOOLEAN : box' = [box EXCEPT ![w] = @ \/ left]
    /\ Fail(p) /\ UNCHANGED <<disk, dirty, stray>>

\* The container of an activation that lost its fence is removed again.
UndoLaunch(p) ==
    /\ At(p, "undo") /\ RemoveBox(job[p].w) /\ Fail(p)
    /\ UNCHANGED <<disk, dirty, stray>>

\* Mutant: only a record that was quarantined when it was read is rebuilt.
RebuildIfQuarantined(p) == job[p].quarantined

\* A container behind a drifted firewall is never resumed; another one is, if it still starts.
MustRebuild(p) == job[p].w \in Dependency \/ job[p].quarantined

InspectReuse(p) ==
    /\ At(p, "inspect") /\ job[p].named /\ ~MustRebuild(p) /\ box[job[p].w]
    /\ Goto(p, "finish") /\ UNCHANGED <<row, world, environment>>

InspectRebuild(p) ==
    /\ At(p, "inspect")
    /\ ~job[p].named \/ MustRebuild(p) \/ ~box[job[p].w] \/ "docker" \in Events
    /\ Goto(p, IF job[p].named THEN "unstale" ELSE "stat") /\ UNCHANGED <<row, world, environment>>

RemoveStaleBox(p) ==
    /\ At(p, "unstale") /\ RemoveBox(job[p].w) /\ Goto(p, "stat")
    /\ UNCHANGED <<row, disk, dirty, stray, environment>>

\* Without the checkout on disk there is nothing to recover.
StatRepository(p) ==
    /\ At(p, "stat")
    /\ IF disk[job[p].w] THEN Goto(p, "create") /\ UNCHANGED <<row, environment>>
                         ELSE FailRecovery(p)
    /\ UNCHANGED world

-----------------------------------------------------------------------------
(* workspace_recover, workspace_lease_renew *)

\* activateWithLimit: only a row that holds no slot yet is charged one.
MayActivate(w, g, statuses) ==
    /\ Fenced(row[w], g, statuses)
    /\ row[w].status \notin CountedStatuses => SlotFree(w)

RecoverFrom == {"ACTIVE", "EXPIRED_RECOVERABLE", "NETWORK_QUARANTINED"}
RenewFrom   == {"ACTIVE", "EXPIRED_RECOVERABLE"}

BeginRecovery(p, w, op, statuses) ==
    LET recoverable == row[w].status = "EXPIRED_RECOVERABLE" IN
    /\ Arrives(p, op) /\ row[w].status \in statuses /\ row[w].hard = "ahead"
    /\ row[w].gen < MaxGen /\ row[w].locks < MaxLocks
    /\ recoverable => SlotFree(w)
    /\ SetRow(w, IF recoverable THEN Locked(row[w]) ELSE row[w])
    /\ Start(p, [Reading(op, "inspect", w) EXCEPT !.holds = recoverable])
    /\ UNCHANGED <<world, environment>>

Recover(p, w) == BeginRecovery(p, w, "recover", RecoverFrom)

\* Renewing an ACTIVE workspace touches no container and awaits nothing.
Renew(p, w) ==
    \/ BeginRecovery(p, w, "renew", {"EXPIRED_RECOVERABLE"})
    \/ /\ Arrives(p, "renew") /\ row[w].status = "ACTIVE" /\ row[w].hard = "ahead"
       /\ SetRow(w, Activated(row[w])) /\ UNCHANGED <<world, job, environment>>

\* ensureActiveExecutor's activation, then the caller's own, which renews the idle lease, and the
\* release of the caller's mutation lease.  start() renews nothing.
RecoverActivate(p) ==
    LET w == job[p].w
        r == [Activated(row[w]) EXCEPT !.named = TRUE,
                                       !.leaseDue = job[p].op = "boot" /\ row[w].leaseDue] IN
    /\ At(p, "activate") /\ job[p].op # "open"
    /\ IF MayActivate(w, job[p].gen, RecoverFrom)
       THEN SetRow(w, IF job[p].holds THEN Released(r, job[p].gen) ELSE r) /\ Done(p)
       ELSE UNCHANGED row /\ Goto(p, "undo")
    /\ UNCHANGED <<world, environment>>

\* The container was reused, so only the caller activates; start() leaves the row as it is.
RecoverFinish(p) ==
    LET w == job[p].w
        g == job[p].gen
        from == IF job[p].op = "renew" THEN RenewFrom ELSE RecoverFrom
        r == IF job[p].op # "boot" /\ MayActivate(w, g, from) THEN Activated(row[w]) ELSE row[w] IN
    /\ At(p, "finish")
    /\ SetRow(w, IF job[p].holds THEN Released(r, g) ELSE r)
    /\ Done(p) /\ UNCHANGED <<world, environment>>

\* workspace_recover, mode export: commit and push under a recoverable lease.
Export(p, w) ==
    /\ Arrives(p, "export") /\ row[w].locks < MaxLocks
    /\ LeasableRecoverable(row[w], row[w].gen) /\ SetRow(w, Locked(row[w]))
    /\ Start(p, [Reading("export", "export", w) EXCEPT !.holds = TRUE])
    /\ UNCHANGED <<world, environment>>

ExportReturns(p) ==
    LET w == job[p].w IN
    /\ At(p, "export")
    /\ \/ dirty' = [dirty EXCEPT ![w] = FALSE]
       \/ UNCHANGED dirty
    /\ SetRow(w, Released(row[w], job[p].gen)) /\ Done(p)
    /\ UNCHANGED <<box, disk, stray, environment>>

-----------------------------------------------------------------------------
(* Tool calls that change the checkout: requireWorkspace, touch,            *)
(* enforceActiveLimits, then withMutationLease around a call the caller     *)
(* waits for, or a mutation lock for a background exec_run or a task        *)

ToolCalls == {"exec", "async", "task"}

\* An elapsed lease is noticed on access; the container removal is not awaited.
ExpireOnAccess(p, w) ==
    /\ \E op \in ToolCalls : Arrives(p, op)
    /\ Expirable(row[w])
    /\ SetRow(w, MarkedRecoverable(Claimed(row[w])))
    /\ stray' = [stray EXCEPT ![w] = @ \/ row[w].named]
    /\ UNCHANGED <<box, disk, dirty, job, environment>>

Exec(p, w) ==
    /\ row[w].status = "ACTIVE" /\ ~Expirable(row[w]) /\ row[w].locks < MaxLocks
    /\ SetRow(w, Touched(row[w]))
    /\ \E op \in ToolCalls : Arrives(p, op) /\ Start(p, Reading(op, "measure", w))
    /\ UNCHANGED <<world, environment>>

ExecLease(p) ==
    LET w == job[p].w IN
    /\ At(p, "measure") /\ job[p].op = "exec"
    /\ IF Leasable(row[w], job[p].gen)
       THEN /\ SetRow(w, Leased(row[w]))
            /\ Start(p, [job[p] EXCEPT !.step = "write", !.holds = TRUE])
       ELSE UNCHANGED row /\ Done(p)
    /\ UNCHANGED <<world, environment>>

\* Background work starts whether setMutationLock found the row or not.
BackgroundLocks(p) ==
    LET w == job[p].w
        found == Leasable(row[w], job[p].gen) IN
    /\ At(p, "measure") /\ job[p].op \in {"async", "task"}
    /\ SetRow(w, IF found THEN Locked(row[w]) ELSE row[w])
    /\ Start(p, [job[p] EXCEPT !.step = "write", !.holds = found])
    /\ UNCHANGED <<world, environment>>

\* The worker runs in the container, and may or may not change the checkout.
ExecWrites(p) ==
    LET w == job[p].w IN
    /\ At(p, "write")
    /\ \/ box[w] /\ disk[w] /\ dirty' = [dirty EXCEPT ![w] = TRUE]
       \/ UNCHANGED dirty
    /\ Goto(p, "return") /\ UNCHANGED <<row, box, disk, stray, environment>>

\* Released either way; a success is activity and extends the idle lease.
ExecReturns(p) ==
    LET w == job[p].w
        r == Released(row[w], job[p].gen) IN
    /\ At(p, "return") /\ job[p].op = "exec"
    /\ SetRow(w, r) \/ SetRow(w, Touch(r, job[p].gen))
    /\ Done(p) /\ UNCHANGED <<world, environment>>

\* clearMutationLock: a background exec_run passes the generation it read, onTaskSettle the
\* generation the row has by now.
BackgroundSettles(p) ==
    LET w == job[p].w
        g == IF job[p].op = "task" THEN row[w].gen ELSE job[p].gen IN
    /\ At(p, "return") /\ job[p].op \in {"async", "task"}
    /\ SetRow(w, IF Fenced(row[w], g, {"ACTIVE"}) THEN Unleased(row[w]) ELSE row[w])
    /\ Done(p) /\ UNCHANGED <<world, environment>>

-----------------------------------------------------------------------------
(* closeRecord: called by workspace_close, the fenced dashboard close, a    *)
(* resource violation, auto-close and start()                              *)

\* A REAPING row is joined at its generation, any other open one is claimed.
CloseRecord(p, w, op) ==
    LET joined == row[w].status = "REAPING" IN
    /\ joined \/ ForceClaimable(row[w])
    /\ SetRow(w, IF joined THEN row[w] ELSE Claimed(row[w]))
    /\ Start(p, [Idle EXCEPT !.op = op, !.step = "stop", !.w = w, !.v = w,
                             !.gen = IF joined THEN row[w].gen ELSE row[w].gen + 1,
                             !.named = row[w].named])

Close(p, w) ==
    /\ Arrives(p, "close") /\ CloseRecord(p, w, "close") /\ UNCHANGED <<world, environment>>

CloseFenced(p, w) ==
    /\ Arrives(p, "closeFenced") /\ row[w].status # "REAPING"
    /\ ~(row[w].status = "ACTIVE" /\ row[w].leaseDue)
    /\ CloseRecord(p, w, "closeFenced") /\ UNCHANGED <<world, environment>>

\* resourceViolation before the lease, after the write, or in a reaper pass; the row is read afresh.
OversizeClose(p) ==
    /\ "size" \in Events /\ runner = "up"
    /\ job[p].step \in {"measure", "weigh"} \/ (job[p].step = "return" /\ job[p].op = "exec")
    /\ CloseRecord(p, job[p].w, job[p].op) /\ UNCHANGED <<world, environment>>

CloseThrows(p) == Done(p) /\ Throws(p)

\* Stopping agents and tasks and archiving their output come before anything is removed.
CloseStopsWork(p) ==
    /\ At(p, "stop") /\ Goto(p, IF job[p].named THEN "unbox" ELSE "files")
    /\ UNCHANGED <<row, world, environment>>

CloseStopFails(p) ==
    LET w == job[p].w IN
    /\ At(p, "stop") /\ "stop" \in Events /\ job[p].gen < MaxGen
    /\ SetRow(w, IF Fenced(row[w], job[p].gen, {"REAPING"}) THEN CloseFailed(row[w]) ELSE row[w])
    /\ CloseThrows(p) /\ UNCHANGED world

CloseRemovesBox(p) ==
    /\ At(p, "unbox")
    /\ \/ box' = [box EXCEPT ![job[p].w] = FALSE] /\ Goto(p, "files") /\ UNCHANGED environment
       \/ "docker" \in Events /\ UNCHANGED box /\ CloseThrows(p)
    /\ UNCHANGED <<row, disk, dirty, stray>>

CloseRemovesFiles(p) ==
    LET w == job[p].w IN
    /\ At(p, "files")
    /\ \/ /\ disk' = [disk EXCEPT ![w] = FALSE] /\ dirty' = [dirty EXCEPT ![w] = FALSE]
          /\ Goto(p, "commit") /\ UNCHANGED environment
       \/ "files" \in Events /\ UNCHANGED <<disk, dirty>> /\ CloseThrows(p)
    /\ UNCHANGED <<row, box, stray>>

\* Fenced on the claim; a closer that lost it reports a conflict unless the row is CLOSED already.
CloseCommits(p) ==
    LET w == job[p].w IN
    /\ At(p, "commit")
    /\ IF Fenced(row[w], job[p].gen, {"REAPING"})
       THEN SetRow(w, Closed(row[w])) /\ Done(p) /\ UNCHANGED environment
       ELSE /\ UNCHANGED row
            /\ IF row[w].status = "CLOSED" THEN Done(p) /\ UNCHANGED environment
                                           ELSE CloseThrows(p)
    /\ UNCHANGED world

-----------------------------------------------------------------------------
(* reapExpired: one pass visits every record; here one record at a time    *)

ReaperIdle == runner = "up" /\ job[Reaper].step = "idle"

ReapExpire(w) ==
    ReaperIdle /\ ExpiryClaim(Reaper, w, [Idle EXCEPT !.op = "reap", !.w = w])

\* resourceViolation is awaited for a record that was ACTIVE and not due.
ReapWeigh(w) ==
    /\ ReaperIdle /\ "size" \in Events /\ row[w].status = "ACTIVE" /\ ~Due(row[w])
    /\ Start(Reaper, Reading("reap", "weigh", w)) /\ UNCHANGED <<row, world, environment>>

ReapWeighed ==
    /\ At(Reaper, "weigh") /\ Done(Reaper) /\ UNCHANGED <<row, world, environment>>

\* Drift: the row is fenced first, without a new generation, then its containers are removed.
Quarantine(w) ==
    /\ ReaperIdle /\ drift /\ w \in Dependency /\ row[w].status = "ACTIVE"
    /\ SetRow(w, Quarantined(row[w]))
    /\ Start(Reaper, [Reading("quarantine", "sweep", w) EXCEPT !.named = TRUE])
    /\ UNCHANGED <<world, environment>>

\* A later pass removes again whatever still carries the label.
QuarantineRetry(w) ==
    /\ ReaperIdle /\ row[w].status = "NETWORK_QUARANTINED" /\ (row[w].named \/ box[w])
    /\ Start(Reaper, Reading("quarantine", "sweep", w)) /\ UNCHANGED <<row, world, environment>>

QuarantineSweep ==
    /\ At(Reaper, "sweep")
    /\ \/ box' = [box EXCEPT ![job[Reaper].w] = FALSE] /\ Goto(Reaper, "unname")
       \/ "docker" \in Events /\ UNCHANGED box /\ Done(Reaper)
    /\ UNCHANGED <<row, disk, dirty, stray, environment>>

\* store.update is not fenced: it clears the name of whatever the row is by now.
QuarantineUnname ==
    LET w == job[Reaper].w IN
    /\ At(Reaper, "unname")
    /\ row' = [row EXCEPT ![w].named = @ /\ ~job[Reaper].named]
    /\ Done(Reaper) /\ UNCHANGED <<world, environment>>

\* autoCloseRecoverable: lease, look for unsaved work, release, then claim or defer.
AutoCheck(w) ==
    /\ ReaperIdle /\ AutoClosable(row[w]) /\ row[w].locks <= MaxLocks
    /\ SetRow(w, Locked(row[w]))
    /\ Start(Reaper, [Reading("autoClose", "check", w) EXCEPT !.holds = TRUE])
    /\ UNCHANGED <<world, environment>>

\* The check reads the checkout; one that cannot run counts as unsaved work.
AutoRead ==
    /\ At(Reaper, "check")
    /\ \E unsaved \in {dirty[job[Reaper].w]} \cup {b \in {TRUE} : "check" \in Events} :
          Start(Reaper, [job[Reaper] EXCEPT !.step = "decide", !.unsaved = unsaved])
    /\ UNCHANGED <<row, world, environment>>

\* Mutant: the claim trusts what the check found, the record is not looked at again.
AutoDecideOnce ==
    LET w == job[Reaper].w
        g == job[Reaper].gen
        r == Released(row[w], g) IN
    /\ At(Reaper, "decide")
    /\ IF job[Reaper].unsaved
       THEN SetRow(w, Deferred(r)) /\ Done(Reaper)
       ELSE /\ SetRow(w, AutoClaimed(r))
            /\ Start(Reaper, [job[Reaper] EXCEPT !.step = "stop", !.gen = r.gen + 1, !.holds = FALSE,
                                                 !.named = r.named])
    /\ UNCHANGED <<world, environment>>

\* Released, then deferred or claimed, if the record is still the one that was looked at.
AutoDecide ==
    LET w == job[Reaper].w
        g == job[Reaper].gen
        r == Released(row[w], g) IN
    /\ At(Reaper, "decide")
    /\ CASE job[Reaper].unsaved /\ Fenced(r, g, {"EXPIRED_RECOVERABLE"}) ->
              SetRow(w, Deferred(r)) /\ Done(Reaper)
         [] ~job[Reaper].unsaved /\ r.gen = g /\ AutoClosable(r) ->
              /\ SetRow(w, AutoClaimed(r))
              /\ Start(Reaper, [job[Reaper] EXCEPT !.step = "stop", !.gen = g + 1, !.holds = FALSE,
                                                   !.named = r.named])
         [] OTHER -> SetRow(w, r) /\ Done(Reaper)
    /\ UNCHANGED <<world, environment>>

-----------------------------------------------------------------------------
(* Crash, and WorkspaceService.start *)

\* Every request in flight is gone; the database, the containers and the disk stay.
Crash ==
    /\ "crash" \in Events /\ runner # "down"
    /\ job' = [p \in Actors |-> Idle] /\ runner' = "down" /\ toVisit' = {}
    /\ UNCHANGED <<row, world, limit, drift>>

Restart ==
    /\ runner = "down" /\ runner' = "boot"
    /\ toVisit' = {w \in Workspaces : row[w].status \in EnumeratedStatuses}
    /\ UNCHANGED <<row, world, job, limit, drift>>

Visiting(w) == runner = "boot" /\ job[Boot].step = "idle" /\ w \in toVisit

Visited(w) == toVisit' = toVisit \ {w} /\ UNCHANGED <<limit, drift>>

\* Neither interrupted while creating nor missing its executor.
Resumable(w) ==
    row[w].status \in {"ACTIVE", "REAPING"} /\ row[w].named /\ box[w]

BootQuarantined(w) ==
    /\ Visiting(w) /\ row[w].status = "NETWORK_QUARANTINED"
    /\ \/ /\ box' = [box EXCEPT ![w] = box[w] /\ ~row[w].named]
          /\ row' = [row EXCEPT ![w].named = FALSE]
       \/ "docker" \in Events /\ row[w].named /\ UNCHANGED <<row, box>>
    /\ Visited(w) /\ UNCHANGED <<disk, dirty, stray, job, runner>>

\* An inspection that fails counts as a missing executor.
BootCloses(w) ==
    /\ Visiting(w) /\ row[w].status # "NETWORK_QUARANTINED"
    /\ ~Resumable(w) \/ "docker" \in Events
    /\ CloseRecord(Boot, w, "boot") /\ Visited(w) /\ UNCHANGED <<world, runner>>

\* The container is on the wrong network, or behind a firewall that no longer attests.
BootQuarantines(w) ==
    /\ Visiting(w) /\ Resumable(w) /\ w \in Dependency /\ drift
    /\ RemoveBox(w) /\ row' = [row EXCEPT ![w] = [Quarantined(@) EXCEPT !.named = FALSE]]
    /\ Visited(w) /\ UNCHANGED <<disk, dirty, stray, job, runner>>

\* The configured network changed: the container is replaced through ensureActiveExecutor.
BootRebuilds(w) ==
    /\ Visiting(w) /\ Resumable(w) /\ "network" \in Events /\ ~(w \in Dependency /\ drift)
    /\ RemoveBox(w) /\ Start(Boot, Reading("boot", "inspect", w))
    /\ Visited(w) /\ UNCHANGED <<row, disk, dirty, stray, runner>>

\* docker restart; a failure ends start().
BootResumes(w) ==
    /\ Visiting(w) /\ Resumable(w) /\ ~(w \in Dependency /\ drift)
    /\ \/ Visited(w) /\ UNCHANGED runner
       \/ "docker" \in Events /\ Throws(Boot)
    /\ UNCHANGED <<row, world, job>>

\* Mutant: only running workspaces keep their directory.
KeepsNoRecoverable(w) == row[w].status \in EnumeratedStatuses

\* The job directories that startup keeps.
KeepsDirectory(w) == row[w].status \in EnumeratedStatuses \cup {"EXPIRED_RECOVERABLE"}

\* reconcileContainers and reconcileJobDirectories, then the server listens.
BootReconciles ==
    /\ runner = "boot" /\ job[Boot].step = "idle" /\ toVisit = {}
    /\ box' = [w \in Workspaces |-> box[w] /\ row[w].named /\ row[w].status \in EnumeratedStatuses]
    /\ disk' = [w \in Workspaces |-> disk[w] /\ KeepsDirectory(w)]
    /\ dirty' = [w \in Workspaces |-> dirty[w] /\ KeepsDirectory(w)]
    /\ runner' = "up"
    /\ UNCHANGED <<row, stray, job, toVisit, limit, drift>>

\* One of the removals fails, and start() with it.
BootFails ==
    /\ Events \cap {"docker", "files"} # {}
    /\ runner = "boot" /\ job[Boot].step = "idle" /\ toVisit = {} /\ runner' = "down"
    /\ UNCHANGED <<row, world, job, toVisit, limit, drift>>

-----------------------------------------------------------------------------

Arrivals(p, w) ==
    \/ Open(p, w) \/ Recover(p, w) \/ Renew(p, w) \/ Export(p, w)
    \/ ExpireOnAccess(p, w) \/ Exec(p, w) \/ Close(p, w) \/ CloseFenced(p, w)

\* What an actor does when the await it is at returns.
Continues(p) ==
    \/ ExpireRemoveBox(p) \/ ExpireMark(p)
    \/ CapacityExpire(p) \/ CapacityCheck(p) \/ Admit(p) \/ Clone(p) \/ OpenActivate(p) \/ Abandon(p)
    \/ CreateRemovesOld(p) \/ Launch(p) \/ LaunchFails(p) \/ UndoLaunch(p)
    \/ InspectReuse(p) \/ InspectRebuild(p) \/ RemoveStaleBox(p) \/ StatRepository(p)
    \/ RecoverActivate(p) \/ RecoverFinish(p) \/ ExportReturns(p)
    \/ ExecLease(p) \/ ExecWrites(p) \/ ExecReturns(p) \/ BackgroundLocks(p) \/ BackgroundSettles(p)
    \/ OversizeClose(p)
    \/ CloseStopsWork(p) \/ CloseStopFails(p) \/ CloseRemovesBox(p) \/ CloseRemovesFiles(p)
    \/ CloseCommits(p)

ReaperContinues ==
    ReapWeighed \/ QuarantineSweep \/ QuarantineUnname \/ AutoRead \/ AutoDecide

Reaps(w) ==
    ReapExpire(w) \/ ReapWeigh(w) \/ Quarantine(w) \/ QuarantineRetry(w) \/ AutoCheck(w)

Boots(w) ==
    BootQuarantined(w) \/ BootCloses(w) \/ BootQuarantines(w) \/ BootRebuilds(w) \/ BootResumes(w)

TimePasses(w) ==
    \/ LeaseElapses(w) \/ WallDeadlinePasses(w) \/ WallDeadlineOverruns(w)
    \/ LockElapses(w) \/ WindowElapses(w)

Next ==
    \/ \E p \in Clients, w \in Workspaces : Arrivals(p, w)
    \/ \E p \in Actors : Continues(p)
    \/ ReaperContinues
    \/ \E w \in Workspaces : Reaps(w) \/ Boots(w) \/ TimePasses(w) \/ StrayRemovalLands(w)
    \/ FirewallChanges \/ SetQuota \/ Crash \/ Restart \/ BootReconciles \/ BootFails

Spec == Init /\ [][Next]_vars

-----------------------------------------------------------------------------
(* What the code promises *)

\* A request that took a mutation lease on the current generation is still counted, and no release
\* by another request has cleared the deadline that protects it from expiry and auto-close
\* (releaseMutationLease under overlapping requests, quarantine, close and crash).
LeaseSound ==
    \A w \in Workspaces :
        /\ Cardinality(LeaseHolders(w)) <= row[w].locks
        /\ LeaseHolders(w) # {} => row[w].lock # "none"

\* While the server listens, a workspace takes a slot only if its owner had one free under the limit
\* in force at that moment, whatever was checked before earlier awaits (admit, activateWithLimit).
QuotaRespected ==
    [][\A w \in Workspaces :
          (runner = "up" /\ row[w].status \notin CountedStatuses /\ row'[w].status \in CountedStatuses)
          => SlotFree(w)]_vars

\* A CREATING record holds a slot; while the server listens somebody is still working on it, so the
\* slot cannot leak through a failed open, a lost fence, or a crash in the middle of an open.
CreatingHasOpener ==
    runner = "up" =>
        \A w \in Workspaces : row[w].status = "CREATING" =>
            \E p \in Clients : /\ job[p].op = "open" /\ job[p].w = w
                               /\ job[p].step \in {"clone", "create", "launch", "activate"}

\* Whoever is about to remove the container of w, or to record it.
Minding(p, w) ==
    \/ job[p].w = w /\ job[p].step \in {"create", "activate", "undo"}
    \/ job[p].w = w /\ job[p].step \in {"stop", "unbox"} /\ job[p].named
    \/ job[p].v = w /\ job[p].step = "expire_box" /\ job[p].named

\* No executor runs that neither its record names nor anybody is about to remove: an interrupted
\* open, a recovery that lost its fence and two recoveries at once leave nothing behind.
NoOrphanExecutor ==
    runner = "up" =>
        \A w \in Workspaces :
            box[w] => row[w].named \/ stray[w] \/ \E p \in Actors : Minding(p, w)

\* A workspace that is active or offered for recovery still has its checkout.
RecoverableKeepsData ==
    \A w \in Workspaces : row[w].status \in {"ACTIVE", "EXPIRED_RECOVERABLE"} => disk[w]

\* While the server listens, the checkout of a closed workspace is gone unless an open that was
\* overtaken by the close is still going to remove what it cloned.
ClosedLeavesNothing ==
    runner = "up" =>
        \A w \in Workspaces : row[w].status = "CLOSED" /\ disk[w] =>
            \E p \in Clients : job[p].op = "open" /\ job[p].w = w /\ job[p].step # "idle"

\* What an operation leaves behind when it ends, fails, loses its fence or crashes is either recorded
\* or about to be removed (open's catch block, ensureActiveExecutor, closeRecord, start).
NothingLeftBehind == NoOrphanExecutor /\ ClosedLeavesNothing

\* Auto-close takes a workspace only if the checkout holds nothing that is on no remote, although it
\* looked before an await and anything may have happened since: a recovery, and a tool call that has
\* written (autoCloseRecoverable).
AutoCloseKeepsWork ==
    [][\A w \in Workspaces :
          (job[Reaper].step = "decide" /\ job[Reaper].w = w /\ job'[Reaper].step = "stop")
          => ~dirty[w]]_vars

\* A quarantined workspace becomes active again only through a container its recovery created: the one
\* it had is never resumed, not even by a recovery that began before the quarantine
\* (ensureActiveExecutor's forced rebuild).
QuarantineRebuilds ==
    [][\A w \in Workspaces :
          (row[w].status = "NETWORK_QUARANTINED" /\ row'[w].status = "ACTIVE")
          => \E p \in Actors : job[p].step = "activate" /\ job[p].w = w /\ job'[p].step = "idle"]_vars

-----------------------------------------------------------------------------
(* Progress *)

\* Background work takes its lock: setMutationLock moves the deadline of the hold whatever the wall
\* deadline, and a locked workspace that is past it lets further calls through (requireWorkspace).
\* refreshMutationLock moves it again, at most once for each task that has taken the lock.
BackgroundHolds(w) ==
    \E p \in Actors : job[p].w = w /\ BackgroundLocks(p) /\ row'[w].locks > row[w].locks

\* The deadline of the hold moves: by a mutation lease before the wall deadline, or by background work.
HoldMoves(w) == \/ Holdable(row[w]) /\ row'[w].locks > row[w].locks
                \/ BackgroundHolds(w)

\* The event loop runs every continuation, the reaper's interval never stops and a pass visits every
\* record, deadlines pass (that of a hold unless it is moved again and again), and a runner that
\* exited is started again.
Fairness ==
    /\ \A p \in Actors : WF_vars(Continues(p))
    /\ WF_vars(ReaperContinues)
    /\ \A w \in Workspaces :
          /\ SF_vars(ReapExpire(w)) /\ SF_vars(AutoCheck(w)) /\ SF_vars(Quarantine(w))
          /\ SF_vars(QuarantineRetry(w)) /\ WF_vars(Boots(w)) /\ WF_vars(StrayRemovalLands(w))
          /\ []<><<HoldMoves(w)>>_vars \/ WF_vars(LockElapses(w))
          /\ WF_vars(WallDeadlinePasses(w)) /\ WF_vars(WallDeadlineOverruns(w))
    /\ WF_vars(Restart) /\ WF_vars(BootReconciles)

LiveSpec == Spec /\ Fairness

\* Nobody can keep an executor by always having a tool call under way: past its wall deadline and
\* one hold, an ACTIVE workspace is taken down (withMutationLease's cap on the hold, the reaper),
\* unless background work is started in it again and again, whose lock nothing caps.
OverrunIsTaken ==
    \A w \in Workspaces :
        \/ (row[w].status = "ACTIVE" /\ row[w].hard = "overrun") ~> (row[w].status # "ACTIVE")
        \/ []<><<BackgroundHolds(w)>>_vars

\* A due recoverable workspace is closed, deferred or recovered.
DueIsSettled ==
    \A w \in Workspaces :
        (row[w].status = "EXPIRED_RECOVERABLE" /\ row[w].windowDue)
        ~> ~(row[w].status = "EXPIRED_RECOVERABLE" /\ row[w].windowDue)

\* While the firewall no longer matches the policy, no executor on the dependency network keeps
\* running, whoever was creating or recovering it when the drift was noticed (reapExpired).
DriftIsContained ==
    \A w \in Dependency : (drift /\ box[w]) ~> (~drift \/ ~box[w])

=============================================================================
