---------------------------- MODULE AgentEffects ----------------------------
(***************************************************************************)
(* The effect ledger of a lineage of agent runs: what becomes of a tool    *)
(* call when the runner crashes, the run ends or the executor fails under  *)
(* it, and of the same call when a continuation finds it unanswered.       *)
(*                                                                         *)
(* A call is recorded before it reaches the executor and completed before  *)
(* the model hears of it.  A continuation of the coding runtime is told    *)
(* what became of the calls its transcript left open; one of the durable   *)
(* runtime issues them again under the same request id.  A mutation that   *)
(* was dispatched and whose outcome was lost is never issued again: its    *)
(* outcome is read off the workspace, where others write as well.          *)
(*                                                                         *)
(* The target of a request is "pre" while the request has something to do, *)
(* "post" once that is done, or "other".  For a write these are contents;  *)
(* an mkdir's target is absent, a directory or a file; a delete's target   *)
(* is gone in "post".  A move behaves like a delete.                       *)
(***************************************************************************)
EXTENDS Naturals, FiniteSets

CONSTANTS
    Requests,    \* request ids of the lineage's tool calls
    Kinds,       \* kinds of request that occur
    None,        \* no request, or no observation
    MaxRuns,     \* bound: runs of the lineage
    MaxFaults,   \* bound: executor calls that fail
    MaxOthers,   \* bound: changes by other writers
    MaxCrashes   \* bound: crashes of the runner

Mutations == {"write", "guarded", "patch", "mkdir", "delete"}

ASSUME EffectsAssumption ==
    /\ Kinds \subseteq Mutations \union {"read", "invalid"}
    /\ MaxRuns \in Nat \ {0} /\ MaxFaults \in Nat /\ MaxOthers \in Nat /\ MaxCrashes \in Nat
    /\ None \notin Requests \union {"pre", "post", "other"}

VARIABLES
    kind,     \* of a request
    target,   \* what the workspace holds where a request acts
    worker,   \* the executor's process for a request
    row,      \* row of `agent_effects`
    call,     \* the call the manager is at, and where; a run has one at a time
    asked,    \* the run that asked last; 0 before the first
    run,      \* number and phase of the lineage's latest run
    durable,  \* the lineage is of the durable runtime
    up,       \* the runner runs
    gone,     \* the workspace expired or closed
    told,     \* what the model was told of a request
    hits,     \* how often a request was sent to the executor
    landed,   \* a request changed its target
    touched,  \* another writer changed the target since
    late,     \* requests whose executor call timed out and went on inside the container
    faults, others, crashes

world == <<target, worker, landed>>
history == <<told, hits, touched, late>>
bounds == <<faults, others, crashes>>
vars == <<kind, world, row, call, asked, run, durable, up, gone, history, bounds>>

-----------------------------------------------------------------------------
States == {"NONE", "INTENT", "DISPATCHED", "APPLIED", "REJECTED", "UNKNOWN"}
Final == {"APPLIED", "REJECTED"}

\* `pre` and `intended` stand for the recorded images and pre-entry, `receipt` for the result text.
NoRow == [state |-> "NONE", pre |-> None, intended |-> FALSE, receipt |-> FALSE, reconciled |-> FALSE]

NoCall == [at |-> "idle", of |-> None, pre |-> None, intended |-> FALSE, seen |-> None]

Is(at, r) == call.at = at /\ call.of = r

Init ==
    /\ kind \in [Requests -> Kinds]
    /\ target \in [Requests -> {"pre", "post"}]
    /\ worker = [r \in Requests |-> "none"]
    /\ row = [r \in Requests |-> NoRow]
    /\ call = NoCall
    /\ asked = [r \in Requests |-> 0]
    /\ run = [n |-> 1, phase |-> "RUNNING"]
    /\ durable \in BOOLEAN
    /\ up = TRUE /\ gone = FALSE
    /\ told = [r \in Requests |-> {}]
    /\ hits = [r \in Requests |-> 0]
    /\ landed = [r \in Requests |-> FALSE]
    /\ touched = [r \in Requests |-> FALSE]
    /\ late = {}
    /\ faults = 0 /\ others = 0 /\ crashes = 0

Tell(r, what) == told' = [told EXCEPT ![r] = @ \union {what}]

\* isEffectWriterFenced: an outcome may still be recorded while the run is being cancelled.
Fenced(phases) == gone \/ run.phase \notin phases

\* requireRunnable.
Runnable == up /\ ~Fenced({"RUNNING"})

Fault == faults < MaxFaults /\ faults' = faults + 1

-----------------------------------------------------------------------------
(* A call: runProxyTool, executeEffect *)

\* What a row that is final says to one who asks again.
Replay(r) == IF ~row[r].receipt THEN "unavailable"
             ELSE IF row[r].reconciled THEN (IF row[r].state = "APPLIED" THEN "applied" ELSE "notApplied")
             ELSE IF row[r].state = "APPLIED" THEN "ok" ELSE "rejected"

Observed(r) == kind[r] \in {"patch", "mkdir", "delete"}

\* An intent never reached the executor, and a read may run again.
MayExecute(r) == row[r].state \in {"NONE", "INTENT"} \/ kind[r] = "read"

ToExecute(r) == call' = [NoCall EXCEPT !.at = IF Observed(r) THEN "observe" ELSE "dispatch", !.of = r,
                                       !.pre = IF kind[r] = "guarded" THEN "pre" ELSE None,
                                       !.intended = kind[r] \in {"guarded", "write"}]

ToReconcile(r) == call' = [NoCall EXCEPT !.at = "reconcile", !.of = r]

\* A first request, or that of a resumed durable run for a call it has no answer of.
Request(r) ==
    /\ Runnable /\ call = NoCall
    /\ asked[r] = 0 \/ (durable /\ asked[r] < run.n)
    /\ asked' = [asked EXCEPT ![r] = run.n]
    /\ \/ /\ row[r].state \in Final /\ (row[r].receipt \/ kind[r] # "read")
          /\ Tell(r, Replay(r))
          /\ UNCHANGED <<row, call>>
       \/ /\ ~(row[r].state \in Final /\ row[r].receipt) /\ MayExecute(r) /\ kind[r] # "invalid"
          /\ row' = IF row[r].state = "NONE" THEN [row EXCEPT ![r] = [@ EXCEPT !.state = "INTENT"]] ELSE row
          /\ ToExecute(r)
          /\ UNCHANGED told
       \/ /\ MayExecute(r) /\ kind[r] = "invalid"
          /\ \E kept \in BOOLEAN : row' = [row EXCEPT ![r] = [NoRow EXCEPT !.state = "REJECTED", !.receipt = kept]]
          /\ Tell(r, "rejected")
          /\ UNCHANGED call
       \/ /\ row[r].state \notin Final /\ ~MayExecute(r)
          /\ ToReconcile(r)
          /\ UNCHANGED <<row, told>>
    /\ UNCHANGED <<kind, world, run, durable, up, gone, hits, touched, late, bounds>>

\* The target is read through the executor; a failed read records nothing.
Observe(r) ==
    /\ Is("observe", r)
    /\ \/ /\ call' = [call EXCEPT !.at = "dispatch", !.pre = target[r],
                                  !.intended = kind[r] = "patch" /\ target[r] = "pre"]
          /\ UNCHANGED faults
       \/ Fault /\ call' = [call EXCEPT !.at = "dispatch"]
    /\ UNCHANGED <<kind, world, row, asked, run, durable, up, gone, history, others, crashes>>

\* dispatchEffect, then the call to the executor.
Dispatch(r) ==
    /\ Is("dispatch", r)
    /\ IF Fenced({"RUNNING"})
       THEN Tell(r, "lost") /\ call' = NoCall /\ UNCHANGED <<row, hits, worker>>
       ELSE /\ row' = [row EXCEPT ![r] = [@ EXCEPT !.state = "DISPATCHED", !.pre = call.pre,
                                                  !.intended = call.intended]]
            /\ hits' = [hits EXCEPT ![r] = @ + 1]
            /\ worker' = [worker EXCEPT ![r] = "running"]
            /\ call' = [call EXCEPT !.at = "execute"]
            /\ UNCHANGED told
    /\ UNCHANGED <<kind, target, landed, asked, run, durable, up, gone, touched, late, bounds>>

\* completeEffect: a writer that lost its fence changes nothing.  Past the cap of the lineage's
\* receipts, or without a session, no text is kept.
Complete(r, state, reconciled) ==
    IF Fenced({"RUNNING", "CANCELLING"}) THEN UNCHANGED row
    ELSE \E kept \in (IF state = "UNKNOWN" THEN {FALSE} ELSE BOOLEAN) :
           row' = [row EXCEPT ![r] = [@ EXCEPT !.state = state, !.receipt = kept, !.reconciled = reconciled]]

\* Mutant: the answer is passed on without another look at the fence.
AnsweredUnchecked(r) ==
    /\ Is("execute", r) /\ worker[r] \in {"done", "refused"}
    /\ Complete(r, IF worker[r] = "done" THEN "APPLIED" ELSE "REJECTED", FALSE)
    /\ Tell(r, IF worker[r] = "done" THEN "ok" ELSE "rejected")
    /\ worker' = [worker EXCEPT ![r] = "none"]
    /\ call' = NoCall
    /\ UNCHANGED <<kind, target, landed, asked, run, durable, up, gone, hits, touched, late, bounds>>

\* The executor answered.
Answered(r) ==
    /\ Is("execute", r) /\ worker[r] \in {"done", "refused"}
    /\ Complete(r, IF worker[r] = "done" THEN "APPLIED" ELSE "REJECTED", FALSE)
    /\ Tell(r, IF ~Runnable THEN "lost" ELSE IF worker[r] = "done" THEN "ok" ELSE "rejected")
    /\ worker' = [worker EXCEPT ![r] = "none"]
    /\ call' = NoCall
    /\ UNCHANGED <<kind, target, landed, asked, run, durable, up, gone, hits, touched, late, bounds>>

\* The executor failed: by itself, by a fence or limit found after it, by the abort of a run that is
\* cancelled, which kills it first, or by a timeout, after which it may go on.
Failed(r) ==
    /\ Is("execute", r)
    /\ \/ run.phase = "CANCELLING" /\ worker' = [worker EXCEPT ![r] = "none"] /\ UNCHANGED <<late, faults>>
       \/ gone /\ worker' = [worker EXCEPT ![r] = "none"] /\ UNCHANGED <<late, faults>>
       \/ Fault /\ worker' = [worker EXCEPT ![r] = "none"] /\ UNCHANGED late
       \/ Fault /\ late' = late \union {r} /\ UNCHANGED worker
    /\ Complete(r, "UNKNOWN", FALSE)
    /\ Tell(r, IF kind[r] = "read" THEN "rejected" ELSE "unknown")
    /\ call' = NoCall
    /\ UNCHANGED <<kind, target, landed, asked, run, durable, up, gone, hits, touched, others, crashes>>

-----------------------------------------------------------------------------
(* The executor and the other writers of the workspace *)

Lands(r) == CASE kind[r] \in {"guarded", "patch", "mkdir"} -> target[r] = "pre"
              [] kind[r] = "write" -> TRUE
              [] kind[r] = "delete" -> target[r] # "post"
              [] OTHER -> FALSE

Accepts(r) == Lands(r) \/ kind[r] = "read" \/ (kind[r] = "mkdir" /\ target[r] = "post")

Work(r) ==
    /\ worker[r] = "running"
    /\ worker' = [worker EXCEPT ![r] = IF Accepts(r) THEN "done" ELSE "refused"]
    /\ IF Lands(r) THEN target' = [target EXCEPT ![r] = "post"] /\ landed' = [landed EXCEPT ![r] = TRUE]
                   ELSE UNCHANGED <<target, landed>>
    /\ UNCHANGED <<kind, row, call, asked, run, durable, up, gone, history, bounds>>

OtherWrites(r) ==
    /\ others < MaxOthers /\ asked[r] > 0
    /\ \E v \in {"pre", "post", "other"} : target' = [target EXCEPT ![r] = v]
    /\ touched' = [touched EXCEPT ![r] = TRUE]
    /\ others' = others + 1
    /\ UNCHANGED <<kind, worker, landed, row, call, asked, run, durable, up, gone, told, hits, late, faults, crashes>>

-----------------------------------------------------------------------------
(* An outcome that was lost: settleLostEffect, danglingOutcome *)

\* Mutant: an end state is taken for the outcome.
EndState(r, seen) ==
    CASE kind[r] \in {"write", "guarded", "patch", "mkdir", "delete"} /\ seen = "post" -> "APPLIED"
      [] kind[r] \in {"write", "guarded", "patch", "mkdir"} /\ seen = "pre" -> "NOT_APPLIED"
      [] OTHER -> "UNKNOWN"

\* reconcileEffect.
Verdict(r, seen) ==
    CASE kind[r] \in {"write", "guarded", "patch"} ->
             IF row[r].intended /\ seen = "post" THEN "APPLIED"
             ELSE IF row[r].pre # None /\ seen = row[r].pre THEN "NOT_APPLIED" ELSE "UNKNOWN"
      [] kind[r] = "mkdir" ->
             IF seen = "pre" THEN "NOT_APPLIED"
             ELSE IF seen = "post" /\ row[r].pre = "pre" THEN "APPLIED" ELSE "UNKNOWN"
      [] kind[r] = "delete" ->
             IF seen = "post" /\ row[r].pre \notin {None, "post"} THEN "APPLIED" ELSE "UNKNOWN"
      [] OTHER -> "UNKNOWN"

Look(r) ==
    /\ Is("reconcile", r)
    /\ \/ call' = [call EXCEPT !.at = "settle", !.seen = target[r]] /\ UNCHANGED faults
       \/ Fault /\ call' = [call EXCEPT !.at = "settle", !.seen = None]
    /\ UNCHANGED <<kind, world, row, asked, run, durable, up, gone, history, others, crashes>>

Settle(r) ==
    LET verdict == IF call.seen = None THEN "UNKNOWN" ELSE Verdict(r, call.seen) IN
    /\ Is("settle", r)
    /\ IF ~Runnable THEN Tell(r, "lost") /\ UNCHANGED row
       ELSE /\ Complete(r, IF verdict = "NOT_APPLIED" THEN "REJECTED" ELSE verdict, TRUE)
            /\ Tell(r, CASE verdict = "APPLIED" -> "applied" [] verdict = "NOT_APPLIED" -> "notApplied"
                         [] OTHER -> "unknown")
    /\ call' = NoCall
    /\ UNCHANGED <<kind, world, asked, run, durable, up, gone, hits, touched, late, bounds>>

\* A continuation of the coding runtime closes a call its transcript left unanswered.
Dangling(r) ==
    /\ Runnable /\ call = NoCall /\ ~durable
    /\ 0 < asked[r] /\ asked[r] < run.n
    /\ asked' = [asked EXCEPT ![r] = run.n]
    /\ \/ /\ row[r].state \in Final
          /\ Tell(r, IF kind[r] = "read" /\ ~row[r].receipt THEN "interrupted" ELSE Replay(r))
          /\ UNCHANGED call
       \/ /\ row[r].state \notin Final /\ MayExecute(r)
          /\ Tell(r, "interrupted") /\ UNCHANGED call
       \/ /\ row[r].state \notin Final /\ ~MayExecute(r)
          /\ ToReconcile(r) /\ UNCHANGED told
    /\ UNCHANGED <<kind, world, row, run, durable, up, gone, hits, touched, late, bounds>>

-----------------------------------------------------------------------------
(* Runs, the workspace and the runner *)

EndRun ==
    /\ up /\ run.phase = "RUNNING"
    /\ run' = [run EXCEPT !.phase = "CANCELLING"]
    /\ UNCHANGED <<kind, world, row, call, asked, durable, up, gone, history, bounds>>

\* Mutant: the end of a run does not wait for the call it was at.
RunEndedEarly ==
    /\ up /\ run.phase = "CANCELLING"
    /\ run' = [run EXCEPT !.phase = "ENDED"]
    /\ UNCHANGED <<kind, world, row, call, asked, durable, up, gone, history, bounds>>

\* The end of a run aborts the call it was at and waits for it.
RunEnded ==
    /\ up /\ run.phase = "CANCELLING" /\ call = NoCall
    /\ run' = [run EXCEPT !.phase = "ENDED"]
    /\ UNCHANGED <<kind, world, row, call, asked, durable, up, gone, history, bounds>>

Continue ==
    /\ up /\ ~gone /\ run.phase = "ENDED" /\ run.n < MaxRuns
    /\ run' = [n |-> run.n + 1, phase |-> "RUNNING"]
    /\ UNCHANGED <<kind, world, row, call, asked, durable, up, gone, history, bounds>>

\* purgeExpiredReceipts.
Purge(r) ==
    /\ up /\ row[r].receipt
    /\ row' = [row EXCEPT ![r] = [@ EXCEPT !.receipt = FALSE]]
    /\ UNCHANGED <<kind, world, call, asked, run, durable, up, gone, history, bounds>>

WorkspaceGone ==
    /\ up /\ ~gone /\ gone' = TRUE
    /\ UNCHANGED <<kind, world, row, call, asked, run, durable, up, history, bounds>>

Crash ==
    /\ up /\ crashes < MaxCrashes
    /\ crashes' = crashes + 1
    /\ up' = FALSE
    /\ call' = NoCall
    /\ UNCHANGED <<kind, world, row, asked, run, durable, gone, history, faults, others>>

\* Mutant: a dispatched effect counts as one that never was.
RepairedToIntent(r) == IF row[r].state = "DISPATCHED" THEN [row[r] EXCEPT !.state = "INTENT"] ELSE row[r]

\* prepareWorkspaceStartupRepair: no call is under way any more.
Repaired(r) == IF row[r].state \in {"INTENT", "DISPATCHED"} THEN [row[r] EXCEPT !.state = "UNKNOWN"] ELSE row[r]

\* A start restarts the executors, repairs the rows and marks the run INTERRUPTED.
Boot ==
    /\ ~up /\ up' = TRUE
    /\ IF gone THEN UNCHANGED <<row, run, worker>>
       ELSE /\ row' = [r \in Requests |-> Repaired(r)]
            /\ run' = [run EXCEPT !.phase = "ENDED"]
            /\ worker' = [r \in Requests |-> "none"]
    /\ UNCHANGED <<kind, target, landed, call, asked, durable, gone, history, bounds>>

Next ==
    \/ EndRun \/ RunEnded \/ Continue \/ WorkspaceGone \/ Crash \/ Boot
    \/ \E r \in Requests : \/ Request(r) \/ Observe(r) \/ Dispatch(r) \/ Answered(r) \/ Failed(r)
                           \/ Look(r) \/ Settle(r) \/ Dangling(r) \/ Purge(r)
                           \/ Work(r) \/ OtherWrites(r)

Spec == Init /\ [][Next]_vars

-----------------------------------------------------------------------------
(* Properties *)

\* Rows, calls and history have their types; a call is about a request that was asked
\* (AgentStateRepository, runProxyTool).
TypeOK ==
    /\ kind \in [Requests -> Kinds]
    /\ target \in [Requests -> {"pre", "post", "other"}]
    /\ worker \in [Requests -> {"none", "running", "done", "refused"}]
    /\ row \in [Requests -> [state : States, pre : {None, "pre", "post", "other"}, intended : BOOLEAN,
                             receipt : BOOLEAN, reconciled : BOOLEAN]]
    /\ call.at \in {"idle", "observe", "dispatch", "execute", "reconcile", "settle"}
    /\ call # NoCall => up /\ asked[call.of] = run.n
    /\ asked \in [Requests -> 0 .. MaxRuns]
    /\ run \in [n : 1 .. MaxRuns, phase : {"RUNNING", "CANCELLING", "ENDED"}]
    /\ told \in [Requests -> SUBSET {"ok", "rejected", "applied", "notApplied", "unknown", "unavailable",
                                     "interrupted", "lost"}]
    /\ \A r \in Requests : row[r].receipt => row[r].state \in Final

\* A mutation is sent to the executor at most once in its lineage, whatever crashes, ends and
\* repeats it meets (runProxyTool, dispatchEffect, prepareWorkspaceStartupRepair).
MutationOnce == \A r \in Requests : kind[r] # "read" => hits[r] <= 1

\* What a model is told of a mutation is on record before, and stays so: nothing told is ever
\* contradicted by a later repeat (completeEffect, settleLostEffect).
ToldIsRecorded ==
    \A r \in Requests : kind[r] # "read" =>
        /\ {"ok", "applied"} \intersect told[r] # {} => row[r].state = "APPLIED"
        /\ {"rejected", "notApplied"} \intersect told[r] # {} => row[r].state = "REJECTED"

\* An outcome read off the workspace is true of the request itself, as long as nobody else wrote
\* there; a whole-file write may also have found its content in place (reconcileEffect).
AppliedIsTrue ==
    \A r \in Requests : "applied" \in told[r] /\ ~touched[r] =>
        landed[r] \/ (kind[r] \in {"guarded", "write"} /\ target[r] = "post")

\* A mutation that is reported as not applied never changes the workspace, before the report or
\* after it, as long as nobody else wrote there and its own executor call did not time out and go on:
\* such a call may land after it was reported (settleLostEffect, start, runWorker).
NotAppliedIsTrue ==
    \A r \in Requests : "notApplied" \in told[r] /\ ~touched[r] /\ r \notin late => ~landed[r]

\* A call of which the model hears only that it was interrupted, so that it may issue it again under
\* a new id, never reached the executor (danglingOutcome).
InterruptedNeverRan ==
    \A r \in Requests : kind[r] # "read" /\ "interrupted" \in told[r] => hits[r] = 0 /\ ~landed[r]

\* What a model is told of a call it lost the answer to is what happened in the workspace.
AnswersAreTrue == AppliedIsTrue /\ NotAppliedIsTrue /\ InterruptedNeverRan

\* An executor process works for a call of a run that goes on, or was cut off by a crash that the
\* next start has not cleared up: none works for an ended run, but one that outlived its timeout
\* (cleanup, executeAgentProxy, start).
NoWorkAfterTheEnd ==
    \A r \in Requests : up /\ run.phase = "ENDED" /\ ~gone /\ r \notin late => worker[r] # "running"

=============================================================================
