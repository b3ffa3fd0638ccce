---------------------------- MODULE EventDelivery ----------------------------
(***************************************************************************)
(* MCP events: the outbox a task's terminal transition writes, the queue   *)
(* of deliveries in the runner, and the worker in the API process that     *)
(* claims deliveries under a lease, posts them to the callback of their    *)
(* subscription and reports what became of each.                           *)
(*                                                                         *)
(* Every operation of the runner is one SQLite transaction, hence one      *)
(* action.  The worker's pass is split at its awaits, and the calls        *)
(* between the two processes may be lost, answered too late for the        *)
(* caller, or carried out after the caller has given up.                   *)
(*                                                                         *)
(* Time is counted in units: a deadline is the number of units left, zero  *)
(* once it is past.                                                        *)
(***************************************************************************)
EXTENDS Integers, FiniteSets, FiniteSetsExt

CONSTANTS
    Sources,      \* tasks
    Subs,         \* subscription ids: callback, event name and filter
    Wants,        \* <<s, t, status>>: s filters in the event of t ending so
    Unsealable,   \* subscriptions whose signing secret may fail to open
    Lease,        \* how long a claim holds a delivery
    MaxAttempts,  \* a failure of this attempt is final
    Delay,        \* Delay[n]: the wait after the failure of attempt n
    Window,       \* a delivery this old is not retried
    BatchLimit,   \* deliveries in one claim
    Credentials,  \* what subscriptions are made with: TRUE for an API key
    MaxActive,    \* active subscriptions of one principal
    MaxLate       \* bound: calls still on their way after their caller left

Terminal == {"SUCCEEDED", "FAILED"}
Outcomes == {"delivered", "failed", "rejected"}
Deliveries == Sources \X Subs

ASSUME EventAssumption ==
    /\ Lease \in Nat \ {0} /\ Window \in Nat \ {0}
    /\ MaxAttempts \in Nat \ {0, 1}
    /\ Delay \in [1 .. MaxAttempts - 1 -> Nat \ {0}]
    /\ BatchLimit \in Nat \ {0} /\ MaxActive \in Nat /\ MaxLate \in Nat
    /\ Credentials \subseteq BOOLEAN
    /\ IsFiniteSet(Sources) /\ IsFiniteSet(Subs)

VARIABLES
    task,      \* status column of `durable_tasks`
    outbox,    \* tasks with a row in `event_outbox`
    sub,       \* table `event_subscriptions`
    delivery,  \* table `event_deliveries`, keyed by event and subscription
    aged,      \* rows past the retention horizon
    keyActive, \* the API key some subscriptions were made with is active
    worker,    \* the pass in flight in the API process
    orphans,   \* claims on their way to the runner that nobody waits for
    wire,      \* reports on their way to the runner
    audience,  \* history: recipients when the task first ended
    received   \* history: deliveries a callback answered with a 2xx

tables == <<task, outbox, sub, delivery, aged, keyActive, audience>>
calls == <<worker, orphans, wire, received>>
vars == <<tables, calls>>

(***************************************************************************)
(* Rows                                                                    *)
(***************************************************************************)
SubRows == [state : {"NONE", "ACTIVE", "REVOKED"}, live : BOOLEAN, viaKey : BOOLEAN]
NoSub == [state |-> "NONE", live |-> FALSE, viaKey |-> FALSE]

\* A revoked subscription is closed whatever its expiry says.
RevokedSub(row) == [row EXCEPT !.state = "REVOKED", !.live = FALSE]

Open(row) == row.state = "ACTIVE" /\ row.live
KeyDead(row) == row.viaKey /\ ~keyActive

\* `token` is the attempt the lease was given to, 0 when there is no lease.
DeliveryRows ==
    [status : {"NONE", "PENDING", "DELIVERED", "ABANDONED"}, attempts : Nat,
     due : Nat, lease : 0 .. Lease, token : Nat, age : 0 .. Window]
NoDelivery ==
    [status |-> "NONE", attempts |-> 0, due |-> 0, lease |-> 0, token |-> 0, age |-> 0]
NewDelivery == [NoDelivery EXCEPT !.status = "PENDING"]

Pending(row) == row.status = "PENDING"
Completed(row) == row.status \in {"DELIVERED", "ABANDONED"}
\* Mutant: a lease that was never reported is not taken over.
DueUnleased(row) == Pending(row) /\ row.due = 0 /\ row.token = 0

\* May be claimed: its time has come and no lease runs.
Due(row) == Pending(row) /\ row.due = 0 /\ row.lease = 0
\* Tried before, and too old to be tried again.
RetryOver(row) == row.attempts > 0 /\ row.age >= Window

\* No statement decides by the other columns of a completed delivery.
Settled(status) == [NoDelivery EXCEPT !.status = status]
AbandonedIfPending(row) == IF Pending(row) THEN Settled("ABANDONED") ELSE row
Granted(row) ==
    [row EXCEPT !.attempts = @ + 1, !.token = row.attempts + 1, !.lease = Lease]
Rescheduled(row) ==
    [row EXCEPT !.lease = 0, !.token = 0, !.due = Delay[row.attempts]]

(***************************************************************************)
(* The API worker's side                                                   *)
(***************************************************************************)
Claims == [d : Deliveries, token : Nat]
Reports == [d : Deliveries, token : Nat, outcome : Outcomes]
Workers == [pc : {"idle", "claiming", "posting", "reporting"},
            batch : SUBSET Claims, reports : SUBSET Reports]
NoPass == [pc |-> "idle", batch |-> {}, reports |-> {}]

Init ==
    /\ task = [t \in Sources |-> "RUNNING"]
    /\ outbox = {}
    /\ sub = [s \in Subs |-> NoSub]
    /\ delivery = [d \in Deliveries |-> NoDelivery]
    /\ aged = [d |-> {}, t |-> {}, s |-> {}]
    /\ keyActive = TRUE
    /\ worker = NoPass
    /\ orphans = 0 /\ wire = {}
    /\ audience = [t \in Sources |-> {}]
    /\ received = {}

(***************************************************************************)
(* Subscriptions                                                           *)
(***************************************************************************)
Unaged(s) == aged' = [aged EXCEPT !.s = @ \ {s}]

\* A first subscription, a refresh, or the return of a revoked or lapsed one.
Subscribe(s, viaKey) ==
    /\ Cardinality({x \in Subs \ {s} : Open(sub[x])}) < MaxActive
    /\ sub' = [sub EXCEPT ![s] = [state |-> "ACTIVE", live |-> TRUE, viaKey |-> viaKey]]
    /\ Unaged(s)
    /\ UNCHANGED <<task, outbox, delivery, keyActive, audience, calls>>

\* Deliveries go with their subscription: ON DELETE CASCADE.
Unsubscribe(s) ==
    /\ sub[s].state # "NONE"
    /\ sub' = [sub EXCEPT ![s] = NoSub]
    /\ delivery' = [d \in Deliveries |-> IF d[2] = s THEN NoDelivery ELSE delivery[d]]
    /\ Unaged(s)
    /\ UNCHANGED <<task, outbox, keyActive, audience, calls>>

Revoke(s) ==
    /\ sub[s].state = "ACTIVE"
    /\ sub' = [sub EXCEPT ![s] = RevokedSub(sub[s])]
    /\ delivery' = [d \in Deliveries |->
            IF d[2] = s THEN AbandonedIfPending(delivery[d]) ELSE delivery[d]]
    /\ Unaged(s)
    /\ UNCHANGED <<task, outbox, keyActive, audience, calls>>

(***************************************************************************)
(* The outbox                                                              *)
(***************************************************************************)
Recipients(t, status) == {s \in Subs : Open(sub[s]) /\ <<s, t, status>> \in Wants}

\* The tasks T enter the terminal status `status`, in one savepoint.
Emit(T, status) ==
    LET fresh == {t \in T : t \notin outbox /\ Recipients(t, status) # {}}
    IN  /\ outbox' = outbox \union fresh
        /\ delivery' = [d \in Deliveries |->
                IF d[1] \in fresh /\ d[2] \in Recipients(d[1], status)
                THEN NewDelivery ELSE delivery[d]]

FirstEnds(T, status) ==
    audience' = [t \in Sources |->
        IF t \in T /\ task[t] = "RUNNING" THEN Recipients(t, status) ELSE audience[t]]

\* Mutant: every terminal update emits.
SettleAgain(t, status) ==
    /\ task' = [task EXCEPT ![t] = status]
    /\ Emit({t}, status)
    /\ FirstEnds({t}, status)
    /\ UNCHANGED <<sub, aged, keyActive, calls>>

\* A terminal status may be overwritten by another one, which emits nothing.
Settle(t, status) ==
    /\ task' = [task EXCEPT ![t] = status]
    /\ Emit({t} \intersect {x \in Sources : task[x] = "RUNNING"}, status)
    /\ FirstEnds({t}, status)
    /\ UNCHANGED <<sub, aged, keyActive, calls>>

(***************************************************************************)
(* The queue                                                               *)
(***************************************************************************)
\* Mutant: an old event goes although a delivery of it still waits.
EventPurgedAnyway(t) == t \in aged.t

\* What a claim purges first, if the last purge is long enough ago.
EventPurged(t) == t \in aged.t /\ \A s \in Subs : ~Pending(delivery[<<t, s>>])
SubPurged(s) == s \in aged.s /\ ~Open(sub[s])
Purged(d) == d \in aged.d \/ EventPurged(d[1]) \/ SubPurged(d[2])

SubsAfter(purging) ==
    [s \in Subs |-> IF purging /\ SubPurged(s) THEN NoSub ELSE sub[s]]
RowsAfter(purging) ==
    [d \in Deliveries |-> IF purging /\ Purged(d) THEN NoDelivery ELSE delivery[d]]
Purge(purging) ==
    /\ outbox' = IF purging THEN {t \in outbox : ~EventPurged(t)} ELSE outbox
    /\ aged' = IF purging
               THEN [d |-> {},
                     t |-> {t \in aged.t : ~EventPurged(t)},
                     s |-> {}]
               ELSE aged

\* Which of the due deliveries come first is left open.
Batches(rows) ==
    LET due == {d \in Deliveries : Due(rows[d])}
    IN  kSubset(Min({BatchLimit, Cardinality(due)}), due)

\* Subscriptions a batch finds with a key that is no longer active.
Lapsed(subs, batch) ==
    {s \in Subs : Open(subs[s]) /\ KeyDead(subs[s]) /\ \E d \in batch : d[2] = s}

\* `lost` are the subscriptions whose secret does not open.
Sendable(subs, row, s, lost) ==
    Open(subs[s]) /\ ~KeyDead(subs[s]) /\ ~RetryOver(row) /\ s \notin lost

Leased(subs, rows, batch, lost) == {d \in batch : Sendable(subs, rows[d], d[2], lost)}

\* Mutant: a revocation settles only the deliveries of the batch.
AfterClaimBatchOnly(subs, rows, batch, lost) ==
    [d \in Deliveries |->
        IF d \in Leased(subs, rows, batch, lost) THEN Granted(rows[d])
        ELSE IF d \in batch THEN Settled("ABANDONED")
        ELSE rows[d]]

AfterClaim(subs, rows, batch, lost) ==
    [d \in Deliveries |->
        IF d[2] \in Lapsed(subs, batch) THEN AbandonedIfPending(rows[d])
        ELSE IF d \in Leased(subs, rows, batch, lost) THEN Granted(rows[d])
        ELSE IF d \in batch THEN Settled("ABANDONED")
        ELSE rows[d]]

\* The runner serves a claim, and what it answers.
ServeClaim(purging, batch, lost) ==
    LET subs == SubsAfter(purging)
    IN  /\ Purge(purging)
        /\ sub' = [s \in Subs |->
                IF s \in Lapsed(subs, batch)
                THEN RevokedSub(subs[s]) ELSE subs[s]]
        /\ delivery' = AfterClaim(subs, RowsAfter(purging), batch, lost)
        /\ UNCHANGED <<task, keyActive, audience>>

Answer(purging, batch, lost) ==
    LET rows == RowsAfter(purging)
    IN  {[d |-> d, token |-> rows[d].attempts + 1] :
            d \in Leased(SubsAfter(purging), rows, batch, lost)}

\* Mutant: any report of the delivery counts.
HoldsAnyLease(row, r) == Pending(row) /\ row.token # 0

\* A report counts only for the lease the delivery is under now.
Holds(row, r) == Pending(row) /\ row.token # 0 /\ row.token = r.token

Final(row, outcome) ==
    outcome = "rejected" \/ row.attempts >= MaxAttempts \/ row.age >= Window

AfterReport(row, r) ==
    IF ~Holds(row, r) THEN row
    ELSE IF r.outcome = "delivered" THEN Settled("DELIVERED")
    ELSE IF Final(row, r.outcome) THEN Settled("ABANDONED")
    ELSE Rescheduled(row)

ServeReport(results) ==
    /\ delivery' = [d \in Deliveries |->
            IF \E r \in results : r.d = d
            THEN AfterReport(delivery[d], CHOOSE r \in results : r.d = d)
            ELSE delivery[d]]
    /\ UNCHANGED <<task, outbox, sub, aged, keyActive, audience>>

(***************************************************************************)
(* The worker's pass: claim, post every delivery of the batch, report      *)
(***************************************************************************)
AskClaim ==
    /\ worker.pc = "idle"
    /\ worker' = [worker EXCEPT !.pc = "claiming"]
    /\ UNCHANGED <<tables, orphans, wire, received>>

ClaimAnswered ==
    /\ worker.pc = "claiming"
    /\ \E purging \in BOOLEAN, lost \in SUBSET Unsealable :
       \E batch \in Batches(RowsAfter(purging)) :
          /\ ServeClaim(purging, batch, lost)
          /\ worker' = IF Answer(purging, batch, lost) = {} THEN NoPass
                       ELSE [worker EXCEPT !.pc = "posting",
                                           !.batch = Answer(purging, batch, lost)]
    /\ UNCHANGED <<orphans, wire, received>>

\* The runner serves a claim whose answer reaches nobody.
OrphanClaim ==
    /\ orphans > 0
    /\ orphans' = orphans - 1
    /\ \E purging \in BOOLEAN, lost \in SUBSET Unsealable :
       \E batch \in Batches(RowsAfter(purging)) :
          ServeClaim(purging, batch, lost)
    /\ UNCHANGED <<worker, wire, received>>

\* Mutant: a callback that refuses for good counts as served.
ReportedAsServed(c, outcome) ==
    IF outcome = "none" THEN {}
    ELSE {[d |-> c.d, token |-> c.token,
           outcome |-> IF outcome = "rejected" THEN "delivered" ELSE outcome]}

\* The sender may throw, which leaves the delivery to its lease.
Reported(c, outcome) ==
    IF outcome = "none" THEN {}
    ELSE {[d |-> c.d, token |-> c.token, outcome |-> outcome]}

\* The callback may accept a request whose answer is lost.
Post(c, outcome, reached) ==
    /\ worker.pc = "posting" /\ c \in worker.batch
    /\ outcome = "delivered" => reached
    /\ outcome = "rejected" => ~reached
    /\ worker' = [worker EXCEPT !.batch = @ \ {c},
                                !.reports = @ \union Reported(c, outcome)]
    /\ received' = IF reached THEN received \union {c.d} ELSE received
    /\ UNCHANGED <<tables, orphans, wire>>

\* Shutdown: what is queued is not sent, what is in flight is cut short, and
\* neither is reported.
Stop(cut) ==
    /\ worker.pc = "posting" /\ worker.batch # {}
    /\ worker' = [worker EXCEPT !.batch = {}]
    /\ received' = received \union {c.d : c \in cut}
    /\ UNCHANGED <<tables, orphans, wire>>

SendReport ==
    /\ worker.pc = "posting" /\ worker.batch = {}
    /\ IF worker.reports = {}
       THEN worker' = NoPass /\ UNCHANGED wire
       ELSE /\ worker' = [worker EXCEPT !.pc = "reporting"]
            /\ wire' = wire \union {worker.reports}
    /\ UNCHANGED <<tables, orphans, received>>

ReportArrives(m) ==
    /\ m \in wire
    /\ wire' = wire \ {m}
    /\ ServeReport(m)
    /\ worker' = IF worker.pc = "reporting" /\ worker.reports = m THEN NoPass ELSE worker
    /\ UNCHANGED <<orphans, received>>

(***************************************************************************)
(* Failures                                                                *)
(***************************************************************************)
\* The API process dies, or a call of its worker fails or times out: the pass
\* is over.  The call may still be carried out, at any later time.
PassLost(delivered) ==
    /\ worker.pc # "idle"
    /\ worker' = NoPass
    /\ LET mine == worker.pc = "reporting" /\ worker.reports \in wire
           kept == delivered /\ Cardinality(wire) + orphans < MaxLate
       IN  /\ wire' = IF mine /\ ~kept THEN wire \ {worker.reports} ELSE wire
           /\ orphans' = IF worker.pc = "claiming" /\ kept THEN orphans + 1 ELSE orphans
    /\ UNCHANGED <<tables, received>>

\* The runner restarts: calls on their way fail, and the tasks that ran fail
\* in one savepoint with their events.
RunnerRestarts ==
    LET running == {t \in Sources : task[t] = "RUNNING"}
    IN  /\ task' = [t \in Sources |-> IF t \in running THEN "FAILED" ELSE task[t]]
        /\ Emit(running, "FAILED") /\ FirstEnds(running, "FAILED")
        /\ wire' = {} /\ orphans' = 0
        /\ worker' = IF worker.pc \in {"claiming", "reporting"} THEN NoPass ELSE worker
        /\ UNCHANGED <<sub, aged, keyActive, received>>

(***************************************************************************)
(* Time                                                                    *)
(***************************************************************************)
Older(row) ==
    IF ~Pending(row) THEN row
    ELSE [row EXCEPT !.due = IF @ > 0 THEN @ - 1 ELSE 0,
                     !.lease = IF @ > 0 THEN @ - 1 ELSE 0,
                     !.age = IF @ < Window THEN @ + 1 ELSE Window]

Tick ==
    /\ delivery' = [d \in Deliveries |-> Older(delivery[d])]
    /\ UNCHANGED <<task, outbox, sub, aged, keyActive, audience, calls>>

SubExpires(s) ==
    /\ Open(sub[s])
    /\ sub' = [sub EXCEPT ![s].live = FALSE]
    /\ UNCHANGED <<task, outbox, delivery, aged, keyActive, audience, calls>>

KeyExpires ==
    /\ keyActive
    /\ keyActive' = FALSE
    /\ UNCHANGED <<task, outbox, sub, delivery, aged, audience, calls>>

\* Seven days without a claim: every call of before is long over.
RetentionPasses ==
    /\ worker.pc = "idle" /\ orphans = 0 /\ wire = {}
    /\ aged' = [d |-> {d \in Deliveries : Completed(delivery[d])},
                t |-> outbox,
                s |-> {s \in Subs : sub[s].state # "NONE" /\ ~Open(sub[s])}]
    /\ delivery' = [d \in Deliveries |->
            IF Pending(delivery[d])
            THEN [delivery[d] EXCEPT !.due = 0, !.lease = 0, !.age = Window]
            ELSE delivery[d]]
    /\ UNCHANGED <<task, outbox, sub, keyActive, audience, calls>>

(***************************************************************************)
(* The specification                                                       *)
(***************************************************************************)
Client ==
    \E s \in Subs : \/ \E viaKey \in Credentials : Subscribe(s, viaKey)
                    \/ Unsubscribe(s)
                    \/ Revoke(s)

Producer ==
    \/ \E t \in Sources, status \in Terminal : Settle(t, status)
    \/ RunnerRestarts

Posts ==
    \/ \E c \in worker.batch, outcome \in Outcomes \union {"none"}, reached \in BOOLEAN :
          Post(c, outcome, reached)
    \/ \E cut \in SUBSET worker.batch : Stop(cut)

Passes == AskClaim \/ ClaimAnswered \/ Posts \/ SendReport

Late == OrphanClaim \/ \E m \in wire : ReportArrives(m)

Clock == Tick \/ KeyExpires \/ RetentionPasses \/ \E s \in Subs : SubExpires(s)

Next ==
    \/ Client \/ Producer \/ Passes \/ Late \/ Clock
    \/ \E delivered \in BOOLEAN : PassLost(delivered)

\* A call of the worker ends: answered, failed or timed out.
ReportCallEnds ==
    /\ worker.pc = "reporting"
    /\ \/ \E m \in wire : ReportArrives(m)
       \/ \E delivered \in BOOLEAN : PassLost(delivered)

\* The worker's timer fires again and again, its calls end, time passes, and
\* not every claim is lost.
Fairness ==
    /\ WF_vars(AskClaim) /\ WF_vars(Posts) /\ WF_vars(SendReport)
    /\ WF_vars(ReportCallEnds) /\ WF_vars(Tick)
    /\ SF_vars(ClaimAnswered)

Spec == Init /\ [][Next]_vars
FairSpec == Spec /\ Fairness

(***************************************************************************)
(* Properties                                                              *)
(***************************************************************************)
\* The columns, the worker's pass and the calls in flight have their types.
\* (event_deliveries, event_subscriptions, EventDeliveryWorker.pass)
TypeOK ==
    /\ task \in [Sources -> Terminal \union {"RUNNING"}]
    /\ outbox \subseteq Sources
    /\ sub \in [Subs -> SubRows]
    /\ delivery \in [Deliveries -> DeliveryRows]
    /\ aged \in [d : SUBSET Deliveries, t : SUBSET Sources, s : SUBSET Subs]
    /\ keyActive \in BOOLEAN
    /\ worker \in Workers
    /\ orphans \in 0 .. MaxLate
    /\ wire \subseteq SUBSET Reports
    /\ audience \in [Sources -> SUBSET Subs]
    /\ received \subseteq Deliveries

\* No replay, and one event per task: a delivery exists only for a subscription
\* that was active and matched when the task first ended, however often the
\* terminal status is overwritten and whatever the purge has deleted since.
\* (updateDurableTaskStatus, recordEvent)
NoReplay ==
    \A d \in Deliveries : delivery[d].status # "NONE" => d[2] \in audience[d[1]]

\* A delivery is marked DELIVERED only if its callback answered a 2xx, whatever
\* calls were lost, late or repeated. (report, classifyOutcome)
DeliveredIsReceived ==
    \A d \in Deliveries : delivery[d].status = "DELIVERED" => d \in received

\* A revoked subscription has no delivery left to send: revocation and fan-out
\* never leave one behind. (revokeInTransaction, claim, recordEvent)
RevokedIsQuiet ==
    \A d \in Deliveries : sub[d[2]].state = "REVOKED" => ~Pending(delivery[d])

\* While a lease runs, nothing but the report of the attempt it was given to,
\* or the end of the subscription, takes the delivery out of it: a late report
\* of an earlier attempt changes nothing. (claim, report)
LeaseHonoured ==
    [][\A d \in Deliveries :
          /\ delivery[d].lease > 0
          /\ delivery'[d].token # delivery[d].token
          => \/ sub'[d[2]].state # "ACTIVE"
             \/ \E m \in wire \ wire' : \E r \in m :
                   r.d = d /\ r.token = delivery[d].token]_vars

\* A delivery that waits is not lost while its subscription exists: neither the
\* purge of old events nor a restart takes it away. (purge, ON DELETE CASCADE)
PendingIsKept ==
    [][\A d \in Deliveries :
          Pending(delivery[d]) /\ delivery'[d].status = "NONE"
          => sub'[d[2]].state = "NONE"]_vars

\* Every delivery is settled in the end: delivered, abandoned or gone with its
\* subscription, although passes, reports and answers are lost. (claim, report)
EveryDeliverySettles ==
    \A d \in Deliveries : Pending(delivery[d]) ~> ~Pending(delivery[d])
=============================================================================
