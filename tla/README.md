# A verification development for cloud-harness-mcp

TLA+ models of the runner and the model gateway, TLC configurations that check
them on small instances, and TLAPS proofs of what matters most for every instance.
Every definition is translated from the source; `PROJECT.json` maps each one to
the lines it stands for. Paths are relative to the repository. `WS`, `ST`, `AM`,
`OM` and `ES` are `workspace-service.ts`, `state-store.ts`, `agent-manager.ts`,
`operation-manager.ts` and `mcp-event-service.ts` under `apps/runner/src/`.

Contents: 1 the system · 2 the modules · 3 what is checked · 4 what is proved ·
5 disagreements found · 6 what is not modelled · 7 plan

## 1. The system

cloud-harness-mcp gives an MCP client workspaces: a Git checkout in a hardened
Docker container on one host. The API process (`apps/api`) authenticates and
forwards; the **runner** (`apps/runner`), one Node.js process over one SQLite
database, owns all state. Beside it run a model gateway (`apps/model-gateway`) and
the agent runtimes inside the sandboxes.

| Component | State it keeps | Operations | What makes it correct |
| --- | --- | --- | --- |
| Workspace records (`ST`, `principal-store.ts`) | a row per workspace: status, generation, container name, lease and wall deadlines, mutation-lock count and deadline, recoverable window; quota overrides | `admit`, `activateWithLimit`, `updateFenced`, the mutation leases, `claimForExpiry`, `claimForReaping`, `claimRecoverableForAutoClose` | the quota is never exceeded by a check that went stale; a lease protects its holder; a claim fences everybody who read the row before |
| Workspace lifecycle (`WS`, `docker-engine.ts`, `index.ts`) | containers and job directories, requests in flight, the host firewall's attestation | open, recover, renew, export, tool calls, close, fenced close, the reaper, `start()` | no executor without a record; no recoverable record without its checkout; unsaved work is not deleted; slots come back; a quarantined container is never resumed |
| Durable tasks (`OM`) | a bounded map of tasks, their rows, the `docker exec` children | run with dependencies, cancel, settle, stop a workspace's work, restart | a task starts after what it depends on, ends, is never forgotten, and keeps its workspace alive while it runs |
| Event outbox and delivery (`event-outbox.ts`, `ES`, `apps/api/src/events`) | events and deliveries with attempts and leases; subscriptions | record in the producer's transaction, claim, send, report, retry, abandon, purge | at-least-once within the window; a stale report changes nothing |
| Model gateway (`apps/model-gateway/src`) | leases, budgets, requests in flight | issue, accept, reserve, settle, cancel, revoke and drain | a settlement is the bill, and final |
| Model profiles (`model-spend-ledger.ts`) | a ledger row per run, a daily limit | reserve, issue, settle, release, prune | the ledger covers what providers bill, through lost answers and restarts |
| Agent manager (`AM`, its repositories) | runs with their parents, epochs, cleanup retries; an effect ledger of tool calls | spawn, cancel, clean up, reconcile; dispatch, complete, reconcile an effect | nothing outlives the end of a run; a mutation is sent once; what a model is told is true |
| Managed packages (`package-service.ts`, `package-store.ts`) | plans, applies, releases, bindings with their history, trees on disk, mounts | resolve, review, apply, roll back, remove, collect, restore | what is mounted stays; what was reviewed is what happens |
| MCP OAuth, artifacts, knowledge, skills, toolkits, GitHub, secrets | their tables | transactional CRUD, and I/O to other services | mostly transactional |
| API, contracts, Dashboard, site, deployment | none of their own | routing, schemas, rendering, images | – |

**How they interact.** The API calls the runner over HTTP. Inside the runner all
components share the database through synchronous statements, so what runs
between two `await`s is atomic and everything else interleaves: requests with each
other, with the reaper's interval, with Docker, with the firewall, and with a
crash. Tasks and agents call back into the lifecycle (`onTaskSettle`) and are
stopped by it (`closeRecord`). The runner reaches the model gateway and the
webhook receivers over the network, where calls are lost, late or carried out after
their caller gave up.

**What is hard.** State read before an await and used after it; a lock that is a
counter shared by overlapping calls; claims that fence by generation; a close that
joins somebody else's claim; a crash between any two statements followed by a
startup reconciliation; a call whose answer is lost; several ends of the same run at
once; a collection of files beside those who mount them. `PROJECT.json` lists each of
these hazards at its line, with the property that covers it or the reason why none
does.

## 2. The modules

| Module | Models | Source |
| --- | --- | --- |
| `WorkspaceStore` | one row of `workspaces` and the statements that change it, as functions on a row | `ST`, parts of `WS` |
| `WorkspaceLifecycle` | workspaces, containers, directories, requests in flight, the reaper, the firewall, crash and restart | `WS`, `docker-engine.ts` |
| `DurableTasks` | the tasks of one workspace in map, table and processes, and the count of mutation locks | `OM`, `worker/task-runner.sh` |
| `EventDelivery` | subscriptions, outbox, queue, the worker in the API process, the calls between them | `event-outbox.ts`, `ES`, `event-delivery-worker.ts` |
| `LeaseAccount` | abstractly, the account behind a lease: opened once, billed, closed, stated once | the promise of `apps/model-gateway` |
| `ModelGateway` | leases, budgets with rounded costs, requests through all their stages, revokes | `lease-registry.ts`, `budget.ts`, `gateway.ts`, `control.ts` |
| `ModelSpend` | the runner's ledger, launches and cleanups, control calls, over `LeaseAccount` | `model-spend-ledger.ts`, `AM` |
| `AgentContract` | abstractly, the life of a run and what it may hold | the promise of `AM` |
| `AgentLifecycle` | the runner's tasks between their awaits: launches, cancels, cleanups, retries, closes, restarts | `AM`, `agent-state-repository.ts`, `agent-gateway-control.ts` |
| `AgentEffects` | the ledger of tool calls of a lineage of runs | `AM`, `agent-effect-reconciler.ts` |
| `Packages` | plans, applies, releases, bindings, trees, launches, collection | `package-service.ts`, `package-store.ts` |

`MC*` modules give the constants of the small instances, `*Proofs` modules hold the
theorems. `ModelGateway` implements `LeaseAccount` and `ModelSpend` is built on it;
`AgentLifecycle` implements `AgentContract`. The modules meet in shared facts of the
code: the mutation lock of `WorkspaceLifecycle` is what `DurableTasks` counts, the
terminal update of a task is `EventDelivery`'s `Settle`, the lease of a run in
`AgentLifecycle` is an account of `ModelSpend`.

### Workspaces

Each SQL statement is a function from the row it finds to the row it leaves
(`Leased`, `Released`, `Claimed`, ...) and its WHERE clause a predicate (`Leasable`,
`Expirable`, `Fenced`, ...). Timestamps are abstracted to what the code asks of them,
"has this moment passed": `leaseDue` for `expires_at`, `hard` for `hard_expires_at`,
`windowDue` for `recoverable_until`, `lock` for `mutation_locked_until`. `hard` has
a third value, `"overrun"`, for the moment past which `withMutationLease` can no longer
move the lock forward: that cap is what ends a chain of overlapping calls.

A request is a client; the reaper is one more actor, because its passes never
overlap; `start()` is another, and the server listens only when it has ended.
`job[p]` is the continuation of actor `p`: the await it is at (`step`) and the locals
that live across it. Everything between two awaits is one action. So `Admit` is the
quota check *and* the insert (one transaction); `CapacityCheck` is another action,
because disk space and the repository URL are looked at in between.

| Code | Actions |
| --- | --- |
| `open` | `Open`, `CapacityExpire`, `CapacityCheck`, `Admit`, `Clone`, `CreateRemovesOld`, `Launch`/`LaunchFails`, `OpenActivate`, `UndoLaunch`, `Abandon` |
| `ensureActiveExecutor` | `InspectReuse`, `InspectRebuild`, `RemoveStaleBox`, `StatRepository`, then as above, `RecoverActivate` |
| `workspace_recover`, `workspace_lease_renew` | `Recover`, `Renew`, `RecoverActivate`, `RecoverFinish`, `FailRecovery`; mode export: `Export`, `ExportReturns` |
| a tool call | `ExpireOnAccess`, `Exec`, `ExecLease`, `ExecWrites`, `ExecReturns`; in the background `BackgroundLocks`, `BackgroundSettles` |
| `closeRecord` and its callers | `Close`, `CloseFenced`, `OversizeClose`, `AutoDecide`, `BootCloses`; `CloseStopsWork`, `CloseStopFails`, `CloseRemovesBox`, `CloseRemovesFiles`, `CloseCommits` |
| `reapExpired` | `ReapExpire`, `ExpireRemoveBox`, `ExpireMark`, `ReapWeigh`, `Quarantine`, `QuarantineRetry`, `QuarantineSweep`, `QuarantineUnname`, `AutoCheck`, `AutoRead`, `AutoDecide` |
| `start` | `Restart`, `BootQuarantined`, `BootCloses`, `BootQuarantines`, `BootRebuilds`, `BootResumes`, `BootReconciles`, `BootFails` |
| the world | `LeaseElapses`, `WallDeadlinePasses`, `WallDeadlineOverruns`, `LockElapses`, `WindowElapses`, `StrayRemovalLands`, `FirewallChanges`, `SetQuota`, `Crash` |

- A reaper pass visits every record in order; here each visit is an action of its own
  and the order is free: more interleavings, no fewer.
- The stop of agents and tasks and the archiving of their output inside `closeRecord`
  is one step that succeeds or fails.
- The checkout is one bit, `dirty`: it holds work that is on no remote. The container
  of a workspace is one bit, as its name is a function of the workspace.
- `Requests` and `Events` say which operations the clients issue and what may go
  wrong; a run names its choice, the theorems hold for every choice but those their
  assumptions exclude (section 4).

### Durable tasks

A task is numbered in the order of creation. `task[t]` is its entry in the manager's
map (`mem`), its row (`row`), its child (`child`), whether it was settled and what it
depends on. `Become` is what follows every change of a task: `reconcileQueued`, which
goes over the queued tasks in the order of creation, and the locks that settled tasks
give back. The exit of a child (`Exit`) precedes its close (`Close`), which is what the
manager records; a cancel (`CancelRunning`, `Cancelled`, `CancelFails`) awaits the end of
the process group; a stop (`StopBegin`, `StopFinish`) awaits the children it found.
`CloseFails` is a close of the workspace whose stop or log spooling fails, `Expire` and
`Recover` the workspace's life around it, `Restart` a crash with
`reconcileRunningTasks`. `RunTask` is a request that has seen the record ACTIVE: it takes
the lock if the record is still the one it read, and starts the task in any case. `stale`
says that a request may have read the record before it was claimed (`requireWorkspace` and
the lock are an await apart), and `start` how each task's request found it: `"locked"`,
`"unlocked"` after an expiry, `"late"` after the claim of a close.

### Event delivery

Two processes. In the runner every operation is one transaction, so one action; in
the API a worker makes one pass at a time, and its awaits split it.

| Code | Actions |
| --- | --- |
| `subscribe`, `unsubscribe`, revocation | `Subscribe`, `Unsubscribe`, `Revoke`, `SubExpires`, `KeyExpires` |
| a task's terminal update, `reconcileRunningTasks` | `Settle`, `RunnerRestarts` (each with `Emit`) |
| `claim` with its `purge` | `ServeClaim`, in `ClaimAnswered` or, when nobody waits any more, `OrphanClaim` |
| `report` | `ServeReport`, in `ReportArrives` |
| `EventDeliveryWorker.pass` | `AskClaim`, `ClaimAnswered`, `Post`, `Stop`, `SendReport`, `ReportArrives` |
| a lost or late call, a dying API process | `PassLost` |
| the world | `Tick`, `RetentionPasses` |

- Time is counted in units; a column that holds a deadline holds the units left.
  `Lease`, `Delay` and `Window` are 60 s, (15, 60, 180, 480) s and 15 min in the code.
- Which due deliveries a claim takes first is left open, and whether a claim purges
  too (the code purges at most once a minute).
- A lease token is the number of the attempt it was given to: the code draws a random
  one for each attempt, and two attempts of one delivery never share one.
- A terminal status may overwrite another one; the second update emits nothing.
- `audience` and `received` are history: to whom the first end of a task was to go,
  and which deliveries were answered with a 2xx.

### The model gateway and the spend of runs

`LeaseAccount` is what the gateway owes the runner: an account is opened once with a
cap, billed while it is open and while its last requests drain, closed, and stated
once; the statement is the bill, and the bill is within the cap but for what providers
charge beyond a reservation.

`ModelGateway` is the code. A request is accepted (`Accept`), its body arrives and its
budget is reserved (`Reserve`), the upstream call starts (`Start`) and the request ends
(`Ends`): refused before it cost anything, completed with what the provider reports, or
failed by an error, a deadline or an abort (`Cancel`). A revoke retires the lease, cancels what runs on it and waits
(`RevokeStarts`, `RevokeAnswers`). Money is integer arithmetic as in `budget.ts`: a cost
is rounded up, an affordable number of tokens down.

`ModelSpend` composes the account with the runner: the ledger row (`row`), the launch
(`launch`), several cleanups (`cleaning`), and the calls between the processes (`issue`,
`revoke`), each of which may be carried out with its answer lost, or after its caller
gave up. The gateway has a boot id; a restart loses its accounts.

### Agent runs

`AgentContract`: a run is absent, live, ending, ended, in this order; it gains a lease or
a container only before its end is recorded, and its end is recorded only when it
holds neither. The end of a run a caller started is recorded when the runs it started
have ended; a run below it may end before one it started, while a cancel goes through
them (section 5).

`AgentLifecycle` is the code. Every launch, cancel, timer, exit, retry, close, shutdown
and start of the runner is a task, which is at one of its awaits: `do` names the step it
takes next, `of` the run that step is about, `own` the run the task is for, `left` the
runs it has still to come to, deepest first; each step is the code up to the next await; tasks share the cleanup promise of a runtime (`"join"`) and wait for
one another's launches (`"await"`). Any call to the gateway or to Docker may fail.

`AgentEffects` follows one tool call at a time through record, dispatch, execution and
completion, and through the repeats of a continuation: `row` is its row of
`agent_effects`, `worker` the executor's process, `target` what the workspace holds
where the call acts, which others write as well. `hits`, `landed`, `touched`, `told` are
history.

### Packages

A plan stands for its apply and its release too. `plan`, `apply`, `release`, `binding`
are tables, `job` is the apply's promise in the runner, `tree` is the directory on disk,
`profile`, `launch`, `executor` and `toolbox` are the mounts, `sweep` and `removal` the
two passes that collect, with the await between the row and the tree. Docker may refuse to
remove the executor of a launch before (`LaunchBegins`, trouble `"docker"`); the launch goes
on, and `tangled` keeps the workspaces whose recorded profile is not that of the executor.

## 3. What is checked

Deadlock is not checked where every workspace, run or task may be over for good: the
system rightly stops then.

| Run | Instance | Shows |
| --- | --- | --- |
| `lifecycle` | 1 workspace, 2 clients and the reaper; every operation but background tasks; wall deadlines, failing stops, size violations, a changed network, crashes | `LeaseSound`, `CreatingHasOpener`, `NothingLeftBehind` |
| `recovery` | 2 workspaces of one owner, one of a dependency bundle, 2 clients and the reaper; opens, recoveries, tool calls, a quota moving in 1..2; failing clones, files and Docker, firewall drift, crashes; constraint `QuotaApart` | `TypeOK`, `RecoverableKeepsData`, `QuarantineRebuilds`, `QuotaRespected`, `AutoCloseKeepsWork` |
| `progress` | 1 workspace on the dependency network, 2 clients, tool calls that outlive their hold, background work, checks that fail, fairness | `OverrunIsTaken`, `DueIsSettled`, `DriftIsContained` |
| `closerace` | 1 workspace, 2 clients; opens, tool calls and closes | a violation of `RecoverableKeepsData`, section 5 |
| `tasks` | 3 tasks with every dependency, a map of 2, 1 task of a stale request; 1 log failure, failed close, expiry and restart, two of these at a time (constraint `TwoTroubles`) | `StoppedIsFinal`, `RunsAfterDependencies`, `NoExpiryUnderTask`, `NobodyForgotten` |
| `events` | 2 tasks, 1 subscription whose secret may not open; 1 late call; a lease of 1, one retry after 2, a window of 3 | `NoReplay`, `DeliveredIsReceived`, `RevokedIsQuiet`, `LeaseHonoured`, `PendingIsKept` |
| `settles` | 1 task, 2 subscriptions, batches of one, fairness | `EveryDeliverySettles` |
| `gateway` | 2 leases, 2 requests; 3 + 3 tokens and a cost of 7 at prices of 1/2 and 3/2; usage below, above and beyond reservations; fairness | `BudgetBalances`, `FrozenIsQuiet`, `ImplementsAccount`, `RevokesAreAnswered` |
| `spend` | 1 run with 2 cleanups at once, 2 boots of the gateway, 1 restart of the runner, an overrun of 1, 2 days | `SpendIsCovered`, `BilledOnlyWhileOpen` |
| `agents` | a run and one it starts, 2 tasks of the runner at once, 1 failed call anywhere, 2 generations, 1 restart | `NothingOutlivesItsEnd`, `ReconciledBeforeAdmission`, `NoWaitCycle`, `NobodyForgotten`, `ImplementsContract` |
| `effects` | 1 call of any kind through 3 runs; 2 executor faults, 2 foreign writes, 2 crashes | `MutationOnce`, `ToldIsRecorded`, `AnswersAreTrue`, `NoWorkAfterTheEnd` |
| `packages` | 2 releases of an owner's package, 1 of a workspace's with the same binary; 1 workspace, 1 launch, 1 kind of trouble (a build or publication, a tree, the database, the storage, Docker, a restart); constraint `ToolboxApart` | `MountedIsKept`, `NoCollision`, `ReplacesWhatWasReviewed`, `NothingForgotten` |

### Bounds, and why they are enough

- **Workspaces.** Two clients and the reaper are three actors, the smallest number in
  which a third one releases or claims between the read and the write of a second.
  Workspaces share only the quota, so two are needed in `recovery` alone. `MaxGen` stops
  new recoveries and failing closes from that generation on. An open gives the record
  generation 1, an expiry 2, the recovery of it keeps 2, and a second claim makes 3: with
  `MaxGen = 3` a record expires, is recovered, and is claimed again while operations of the
  first recovery are still under way; with `MaxGen = 2`, in `progress` and `closerace`, an
  expired one is not recovered. `MaxLocks` is the count past
  which no client starts an operation that leases; it bites after a crash only, where
  counts are left behind. Client symmetry is used in safety runs, never with liveness.
  `QuotaApart` keeps the product of two workspaces, two clients and every failure apart,
  along the one thing workspaces share: both workspaces and both clients are explored with
  opens, recoveries, expiries and a moving quota, so that two that look for the last slot
  overlap; tool calls, drift, failures and what follows a claim at generation 3 (which touch
  one workspace and no slot of another) are explored on `w1`, which has a dependency bundle,
  with one client and the reaper. A state that breaks the constraint is still checked; it is its successors that
  are not explored.
- **Tasks.** Three tasks are a chain, a fork and a join; with a map of two the third
  evicts one that the others depended on. One stale request meets each state of a close or
  an expiry. The four kinds of trouble are bounded by one each, and by two in one behaviour:
  a failed close and an expiry, or either and a restart, are the pairs the properties are
  sensitive to.
- **Events.** Two tasks make two deliveries of one subscription, so that a claim that
  revokes it finds one outside its batch; two subscriptions of one task compete for a
  batch in `settles`. One late call is enough for a report to meet a newer attempt. As
  in the code, all waits together are shorter than the window.
- **Gateway.** Two requests on one lease compete for a budget that their rounded costs
  cut short; the second lease is the one whose requests are still accepted meanwhile.
- **Spend.** Runs share only the daily limit; two cleanups settle one row at once.
- **Agents.** A parent and a child are what makes cancels wait for one another; two
  tasks meet at every await, and a fault or a restart falls between any two of them.
- **Effects.** Calls of different ids share nothing but the run. Three runs are the
  first call, a repeat that reconciles, and a repeat that finds a receipt.
- **Packages.** Two releases of one binding make a history, the third plan a name that
  collides; one kind of trouble at a time, each at any moment. `ToolboxApart` explores
  toolbox commands while there is no executor and no launch: they hold their mounts
  themselves, whatever an executor mounts.

The theorems of section 4 need none of these bounds.

### What a passing run leaves out, and why

These are the places where the code does not promise the property; each is a
hazard in `PROJECT.json` or stands in section 5.

- `lifecycle` has no Docker failures: with them the code plainly leaves containers
  behind until the next restart. It has no `"task"`, and with `"async"` no firewall:
  background work settles a lock that it may not have taken.
- `recovery` has no closes: the plain one joins a REAPING record (`closerace`), and any
  close that fails makes a record without a checkout recoverable. It has no background
  work and no calls that outlive their hold, which may write after auto-close's check.
- `recovery` has no auto-close checks that fail (those are in `progress`, where a due
  checkout must be deferred).
- `progress` has no recoveries (an unfenced update forgets the name of a recovered
  container) and no exports (their hold has no wall-deadline cap, by design). Nor has the
  lock of a background command or a task (`WS` 4322, 456, 2457), and `requireWorkspace`
  admits further calls while one is held, so a client that starts tasks again and again
  does keep its workspace past the wall deadline. `OverrunIsTaken` therefore excepts the
  behaviours in which background work takes a lock infinitely often (`BackgroundHolds`).
- `NoExpiryUnderTask` speaks of workspaces none of whose closes failed, where a task that
  survived settles a lock that is not its own, and all of whose tasks found the record
  they lock. `StoppedIsFinal` excepts the tasks whose request came in before a close and
  began after its claim. Section 5 says what the code does in these cases.
- `AnswersAreTrue` and `NoWorkAfterTheEnd` except calls that went on in the executor
  after the runner had given them up: they say nothing of the effect of those.
- `MountedIsKept` excepts, for the mounts of executors, the workspaces two of whose
  launches overlap and those whose old executor Docker did not remove (`tangled`), until an
  executor is removed with no launch under way.
- `NothingForgotten` excepts what a failure leaves behind until the next start: the fence of
  an apply whose failure the database did not record, and a tree without a row after a
  removal that failed or while its storage was away. Its two halves are conditioned on
  that trouble (`"database"`, `"tree"`, `"storage"`) not having happened in the behaviour.

### Fairness

- `progress`: weak fairness of every continuation (the event loop runs each settled
  promise, and Docker, Git and file operations have timeouts); strong fairness of each
  kind of visit of the reaper per workspace (its interval never stops and a pass visits
  every record, but the record may change between passes). Deadlines pass, except that
  the lock deadline may be moved forward for ever (`HoldMoves`), by new leases until the
  cap in `withMutationLease` ends that, and by background work without end. A runner that exited is
  started again by its supervisor. Nothing is assumed of clients, of failures ending, or
  of the firewall.
- `settles`: the worker's interval fires again and again, a post ends (the sender has a
  timeout), a call ends answered or not, time passes. Strong fairness of `ClaimAnswered`:
  not every claim is lost, though any number in a row may be. Nothing is assumed of
  reports.
- `gateway`: every stage of a request has a deadline, and the promise of a revoke whose
  requests are gone is continued. Nothing is assumed of providers or callers.

### Mutants

Every property has a mutation of a mapped definition that a plausible bug would be (a
release that clears the deadline for all holders, a dependency the map does not hold
counted as one that succeeded, ancestors cancelled before their descendants, ...) and
TLC finds the property violated under it. They stand in the modules as definitions
introduced by "Mutant:" and are used by nothing else.

## 4. What is proved

All theorems hold for every value of the constants that meets the `ASSUME`s of their
module; the bounds (`Max...`) are parameters like the others. They are safety properties
of the full `Spec`, with every crash, failure and late call the module has. Where an
invariant is not inductive, the strengthening was model-checked on the module's instance
before it was proved. Each proof has one lemma per action, or per group of actions that
change the same thing, and a last step by temporal logic.

### Workspaces (`WorkspaceLifecycleProofs`)

- **`TypeCorrect`: `[]TypeOK`**, inductive as it stands. The lemmas about the statements
  of `WorkspaceStore` come first and serve all proofs.
- **`QuotaTheorem`: `QuotaRespected`.** Each statement keeps the status, leaves the
  counted statuses, stays among them, or is one of `Admit`, `RecoverActivate`,
  `RecoverFinish`, which look for the slot in the same transaction. The property speaks of
  the listening server because `start()` really violates it (section 5).
- **`LeaseTheorem`: `[]LeaseSound`**, if `Requests` has no background operation. A row's
  counter is never below the number of requests that hold a lease on its current
  generation, and while there is one the shared deadline is not cleared. `LeaseInv` adds
  that the steps reached with a lease hold one and the others do not, so a release comes
  from a holder; that nobody holds a lease on a generation the row has not reached, so a
  claim leaves no holder behind; that a workspace without a record has generation 0; and
  that, unless operations overrun, a deadline somebody works under has not elapsed.
  Four lemmas cover all actions: `QuietStep`, `AddStep`, `DropStep` (the deadline is
  cleared at a count of one, where nobody else is left) and `FenceStep`. The hypothesis is
  needed: with background work a workspace that is quarantined and recovered at one
  generation, or a task that outlives a failed close, gives back somebody else's lock.

The second part of the module first says of every action, field by field, what it does to
the rows and to the job of its actor (`RowStatements`, `OpenEffects`, `CloseEffects`, ...);
its theorems rest on that and expand no statement of the store.

- **`CreatingTheorem`: `[]CreatingHasOpener`** and **`QuarantineTheorem`:
  `QuarantineRebuilds`**, for every choice of requests and events. `LifeInv` says which
  operation may be at which step; that nobody but `start()` is at work while the server
  does not listen, and that what is still being created is then on its list; that a
  record is created at generation 1 and never gets a second opener, so the fence of the
  one it has holds until it is done; that a claim is on a generation the row has reached;
  and that only a workspace on the dependency network is quarantined, whose recovery
  therefore always rebuilds.
- **`BehindTheorem`: `[]NothingLeftBehind`**, if Docker, the file system and the firewall
  do not fail (`Reliable`, as in the run `lifecycle`). Each container without a name has a
  removal on its way or a job about to record or remove it, and each directory of a closed
  workspace has an open that will still remove it. What makes `BehindInv` inductive is what
  the closers rely on (`ClaimMinded`): whoever has removed the container it saw named works
  on a row no later fence can match, or one whose container somebody else still minds. The
  assumption is needed: a removal that fails is nobody's to repeat before the next start.
- **`DataTheorem`: `[]RecoverableKeepsData`**, if no close joins another one and no close
  fails to stop the work of its workspace (`Careful`, as in the run `recovery`). `DataInv`
  says what each job relies on: an open on its directory from the end of its clone, an
  expiry on a row that is `REAPING` at its generation and on the directory, a close on the
  row alone, a recovery on the directory as long as its fence matches; and that no two
  jobs on one workspace rely on what the other undoes (`Clash`). One lemma (`OthersRely`)
  then says that a step of one job keeps what another relies on. The assumption is needed:
  the run `closerace` is a close that joins an expiry (section 5).
- **`AutoCloseTheorem`: `AutoCloseKeepsWork`**, under `Careful`, without background work
  and without an operation that outlives its mutation lease (as in the run `recovery`).
  The property speaks of the step in which the reaper goes on to close, whatever the record
  has become since it looked; what the claim refuses is part of the argument.
  `AutoInv` says what the three steps between which the checkout may change have seen: a
  generation that was looked at as recoverable is still active, quarantined or recoverable;
  what was found saved is saved as long as the record is recoverable at that generation;
  and a tool call about to write works on an active record, or on one that a close has
  taken and that is on no way back. It rests on `LeaseInv` (nobody expires a record under
  a holder) and `DataInv` (who may bring a `REAPING` record back). In the model a stop that
  fails, background work and an overrun are each enough to break the property: the record
  is offered again while a call that began before still has its write to do. The other two
  parts of `Careful` are `DataInv`'s.

### Durable tasks (`DurableTasksProofs`)

`StoppedForGood`, `NoneIsForgotten`, `StartsInOrder` and `ExpiresWhenIdle` prove the four
properties of the run `tasks` for any number of tasks, late requests, any map and any
dependencies: `StoppedForGood` of every task but those whose request began after the claim of
the close, `ExpiresWhenIdle` as long as no close failed and every request found its record.
`TasksInv` says that the tasks created so far are 1..n and depend on earlier ones; that
map, row and child of a task agree; that a queued task waits for one that waits or runs;
that a stop has found every task that is not over and did not begin too late for it; and, as
long as no close failed and every request found the record it locks, that there are at least
as many locks as tasks that are not settled. The heart is
`reconcileQueued`, one pass in the order of creation, whose result is a function defined
by recursion over the tasks: the lemmas say that it settles queued tasks whose
dependencies ended and leaves all others alone, and how many locks it gives back.

### Event delivery (`EventDeliveryProofs`)

- **`DeliveryTypeCorrect`: `[]TypeOK`.** `TypeInv` adds that a token is the last attempt
  or none: a report counts only under a lease.
- **`NoReplayTheorem`: `[]NoReplay`.** `ReplayInv` adds that a task that still runs has no
  delivery. The end of a task makes deliveries for the recipients of that moment, which
  are the audience if it is the first end, and none if it is not (`EndsOnce`).
- **`RevokedQuietTheorem`: `[]RevokedIsQuiet`.** A subscription whose key lapsed is revoked
  with *all* its deliveries, and a granted one is active after the same transaction.
- **`DeliveredTheorem`: `[]DeliveredIsReceived`.** `ReceivedInv` follows the truth of a
  report from the post through the worker onto the wire, where it may outlive its sender
  and its lease.
- **`LeasesAreHonoured`: `LeaseHonoured`** and **`PendingStays`: `PendingIsKept`**.
  `KeepInv` adds to `ReplayInv` that a leased delivery waits, and that what retention has
  marked, in whichever order it then deletes it, is over and its task ended. `RowStep` lists
  what one step may do to a row; every action is shown to be one of its cases.

### The model gateway (`ModelGatewayProofs`)

- **`SettlementIsTheBill`: `[]BudgetBalances`.** The settlement is found by subtraction
  from what is left of the budget, the bill by addition over requests; the invariant
  relates the two through the sum of what the requests on a lease have reserved.
  `GatewayInv` adds that a request is on a lease the registry still holds and has
  reserved nothing before its body was read, and that the cost no budget absorbed is part
  of the cost beyond reservations. That such a sum over a finite set is a natural number,
  and what adding, removing or changing one member does to it, is proved from the fold's
  definition by taking a least counterexample (`LeastNatural`).
- **`ToldIsQuiet`: `[]FrozenIsQuiet`.**
- **`GatewayKeepsAccounts`: `Spec => ImplementsAccount`**: initial states map to initial
  states and each step to a step of `LeaseAccount` or a stutter.

### Spend (`ModelSpendProofs`)

- **`LedgerCoversTheSpend`: `[]SpendIsCovered`**, **`NoChargeAfterTheLedger`:
  `BilledOnlyWhileOpen`**, **`StatementsStand`: `[]StatementIsBill`** (what `LeaseAccount`
  promises survives its composition with the ledger). `SpendInv` has six parts for each
  lease: a row that knows no boot of the gateway belongs to a lease nobody was given; a
  container that holds a lease belongs to a run that goes on; while a run is launched its
  row is open and no cleanup has begun; a cleanup that removes the container for good has
  closed the row, and one that has an answer has it from a gateway that bills nothing
  more; a revoke's answer is the bill; the bill is within the cap but for the overruns.

### Agent runs (`AgentLifecycleProofs`)

All five properties of the run `agents`, for any number of runs, tasks, generations,
failed calls and restarts, from one invariant (`Invariance`: `[]IInv`) whose parts say

- what a task is about at each of its steps and what its runs have been through
  (`Shapes`, `TaskAgents`), which tasks there are in which state of the process
  (`Processes`), and that the runs form a forest (`Forest`);
- that whoever ends a run waits until its launch has settled (`LaunchFirst`), so that what
  a cleanup released stays released (`Released`); that the promise a runtime keeps is that
  of a task at a cleanup (`Promises`), and that a failed one has left a retry (`Failures`);
- that all runs have the generation that first admitted one (`Generations`), those that go
  on the epoch of the present process (`Epochs`);
- that a list of all runs, in a close, a shutdown or a start, still has each one that goes
  on (`Lists`), and the list of a cancel each child of its run (`ChildrenFirst`);
- who will end a run of the present process: its launch, the deadline timer of its runtime,
  a cancel or cleanup, or a retry (`Hands`).

- **`EndsProperly`: `[]NothingOutlivesItsEnd`** from `Released`, `ChildrenFirst` and
  `ClosedIsEmpty`.
- **`ReconcilesFirst`: `[]ReconciledBeforeAdmission`** from `Generations` and `Epochs`.
- **`NobodyDeadlocks`: `[]NoWaitCycle`.** A cleanup that is joined waits for nobody, so the
  tasks of a supposed circle all await launches, and each of these is itself cancelling a
  run below its own. One of their runs has none of the others below it (`Lowest`, by
  counting descendants), so what its launch awaits is not in the circle.
- **`EverybodyIsSeenTo`: `[]NobodyForgotten`** from `Hands`.
- **`KeepsContract`: `Spec => ImplementsContract`**: initial states map to initial states,
  and each step moves each run as `AgentContract` says or leaves it alone (`Moving`).

One lemma says what each action does (`LaunchIs`, `CleanOrJoinIs`, ...), and later ones
what any step may do to one kind of state (`StatusStep`, `GainsStep`, `LosesStep`,
`ContinuesStep`, `ReleasesStep`); most parts of the invariant follow from the latter.

### Effects (`AgentEffectsProofs`)

`MutationsHappenOnce`, `AnswersStand`, `LostAnswersAreTrue` and `EndedRunsRest` prove the
four properties of the run `effects`. The invariant speaks of one request: where its row
stands at each step of its call, how often it can have been sent in each state of the
row, what the recorded image says of the target as long as nobody else writes there, and
when an executor may still be at work. It is what makes the reconciler's inference sound:
with the image taken before the dispatch, what the workspace holds afterwards decides
whether the call landed.

### Packages (`PackagesProofs`)

`MountsStayWhole`, `NamesStayApart`, `NothingIsForgotten` and `PublishesWhatWasReviewed`
prove the four properties of the run `packages`. `PackagesInv` has four parts: a plan
relates to its binding through the binding's id and generation, so an apply under the
fence replaces what the plan was made against; names do not collide (inductive given the
types); a tree has a row or a pass at work on it; what is mounted is within the recorded
profile and is kept, in every workspace that is not tangled: one whose launches overlapped,
or whose old executor Docker did not remove, has an executor other than the recorded profile
says, and `MountsStayWhole` excepts it. What a toolbox command mounts is kept without
condition.

### Only model-checked

- All liveness (`OverrunIsTaken`, `DueIsSettled`, `DriftIsContained`,
  `EveryDeliverySettles`, `RevokesAreAnswered`): fairness is out of the prover's reach.
  Every safety property that a passing run checks is proved.

## 5. Disagreements found

One run is expected to end in a violation; the others were met while modelling, and
the models contain them.

- `closerace` (`WS` 4911; `docs/mcp-api.md` 1042). A `workspace_close` during an expiry
  joins the expiry's claim without a generation of its own and deletes the checkout; the
  expiry then offers the record for recovery.
- `WS` 612; `docs/configuration.md` 369, 375. A crash between an expiry's claim and its
  mark leaves the record REAPING, which holds no slot; startup quarantines it if the
  firewall drifted, and then it does: two counted workspaces under a limit of one.
- `WS` 5026; comment at `WS` 5018. The lease that auto-close's check takes is a counter
  and keeps nobody out: a recovery activates the workspace and a tool call writes while
  the check runs. (`AutoCloseKeepsWork` still holds: the claim that follows sees the row
  changed.)
- `WS` 616; comment at `principal-store.ts` 89. After a crash in the middle of an expiry,
  startup restarts the container of the REAPING record, and no sweep looks at it again.
- `ES` 321; comment at `ES` 21 ("the attempt after the last entry is final"). When reports
  are lost the lease lapses, and the next claim looks at the retry window only: attempts
  go on past the schedule, bounded by the window.
- `OM` 688; `docs/troubleshooting.md` 277 (a dependent task "remains `queued` while
  prerequisites are unfinished and becomes `blocked` if one fails or is cancelled"). A
  dependency that succeeded and was evicted from the map blocks the new task that names
  it.
- `WS` 462; `ux-improvements.test.ts` 865. `onTaskSettle` gives back a lock on the
  generation the record has by now: a task that outlived a failed close takes the lock of
  a later one.
- `OM` 430. While a stop awaits the children it found, the close of one of them starts the
  queued tasks that waited for it, in a workspace that is being stopped; the stop records
  them as cancelled without waiting for them, and they end with the executor.
- `WS` 4322. `tasks_run` checks that the record is ACTIVE (3281), awaits the enforcement of
  its limits (3282), and does not look at whether the lock it then asks for was granted. When
  the record was claimed meanwhile the task starts all the same. After an expiry it runs
  without a lock, and `onTaskSettle` gives back another task's when it ends, so the workspace
  may expire under that one once it is recovered. After a close it starts behind
  the stop: its row stays open until the next start, and its log makes the directory
  of the closed workspace again.
- `WS` 4322, 2457 against 1742. The locks of tasks and background commands are not
  capped by the wall deadline, and `requireWorkspace` (1711) admits calls while one is held:
  starting tasks again and again keeps a workspace past its wall deadline.
- `AM` 267; `docs/mcp-api.md` 187 ("Any active agent from a prior runner epoch is
  reconciled"). Startup reconciles the agents of ACTIVE workspaces; those of another one
  go on until it is recovered or closed.
- `WS` 1713; comment at `AM` 347 and `docs/security-model.md` 1363. The expiry of a
  workspace on access stops its terminals and removes its container, but not its agents
  and their sessions.
- `AM` 997 against `agent-state-repository.ts` 1429; `docs/mcp-api.md` 375 (a repeat "runs
  a call that never reached the executor for the first time"). A restart records such a
  call as UNKNOWN, and a repeat is told so instead of running it.
- `WS` 1926; `runner-api.ts` 328 and `docs/troubleshooting.md` 340 (`EFFECT_NOT_APPLIED`
  means "provably did not"). An executor call that timed out may land after the
  reconciler has read that it did not.
- `AM` 1270; `docs/mcp-api.md` 168 (`agent_cancel` "cancels descendants in post-order
  before the target"). The descendants are listed before the first is cancelled, and one
  that is not yet cancelled may start a run of its own while another one's cleanup is
  awaited. The new run is not on the list: its parent ends before it does, and so may the
  target of the cancel. (With four runs TLC finds it in seconds. The runs the target itself
  started do end first: it is marked before its descendants are listed.)
- `WS` 1018. `createExecutor` ignores that the old container could not be removed. The
  profile is recorded for the new one (1022), and `docker create` fails on the name that is
  taken (1063): the old executor runs on with mounts that no record names any more, and a
  collection may remove them under it. The removals at 1085 and 1098, whose failure is
  ignored as well, lead to the same launch.
- Packages. Two launches of one workspace at once may leave it with an executor that is
  not the one of its recorded profile; releases that come back after they were MISSING may
  take an owner past the limit of `docs/configuration.md` 595; and a plan made while its
  binding did not exist still applies after the binding was created and removed again.

## 6. What is not modelled

- **Workspaces.** The bodies of the tools, the content of files, secrets, privileged exec,
  finalize, terminals, toolkits; ownership merges and records imported from older schemas.
- **Tasks.** Shell sessions, terminals, generic operations; the directory, content and
  retention of logs; two closes at once; the generation guard of a row, which never fails.
- **Events.** The callback's verification, signatures and secret rotation, the error columns
  shown to the owner, the limit on retained rows, and agents as a second source of events.
- **Gateway.** Providers' protocols, the estimate of input tokens, the profile file,
  authentication.
- **Spend.** The sweep of open rows of ended runs, which never finds one (a part of
  `SpendIsCovered`); the daily limit over several runs; that a settlement ends.
- **Agents.** Messages between agents, snapshots and retention, the caps on agents, the
  spacing and number of cleanup retries, calls to proxies within a cleanup. Late issue
  calls are in `ModelSpend`. That a run ends is checked as safety: there is always
  somebody who will end it.
- **Effects.** A repeated id with another payload, two calls of one id in flight,
  redaction and bounds of results, the two looks of a move.
- **Packages.** Resolutions and builds themselves, staging and scratch directories, a tree
  whose digest is another one, the purge of old plans.
- The API, Dashboard, contracts, images and scripts are stateless or not code the
  properties depend on; OAuth connections and the other stores of the inventory have little
  concurrency of their own. Docker, the firewall, the clock and the clients are the
  environment. Clock steps backwards and a database that fails to commit are left out,
  except where a module says so.

## 7. Plan

1. `LeaseTheorem` with background commands, in instances without quarantine.
