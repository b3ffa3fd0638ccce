----------------------------- MODULE ModelSpend -----------------------------
(***************************************************************************)
(* The spend of agent runs: the runner's ledger, the calls by which an     *)
(* agent's launch and its cleanups issue and revoke the lease of the       *)
(* agent, and the gateway's accounts behind them.                          *)
(*                                                                         *)
(* The gateway is the abstract LeaseAccount, which ModelGateway            *)
(* implements.  A control call may be carried out and its answer lost, or  *)
(* be carried out after its caller has given up; either process may        *)
(* restart at any moment.  A ledger row reserves the cap of a run when the *)
(* run is admitted and is closed with what the gateway settles, or with    *)
(* the whole cap when that cannot be known.                                *)
(***************************************************************************)
EXTENDS LeaseAccount, FiniteSets, FiniteSetsExt

CONSTANTS
    Cleaners,    \* cleanups of one agent that may run at once
    Limit,       \* the spend policy: micros per day
    MaxDay,      \* bound: days
    MaxExcess,   \* bound: micros billed beyond the reservations
    MaxBoots,    \* bound: starts of the gateway
    MaxRestarts  \* bound: restarts of the runner

Callers == Cleaners \union {"nobody"}
Invalid == -2

ASSUME SpendAssumption ==
    /\ CostCap \in Nat /\ Limit \in Nat /\ MaxExcess \in Nat
    /\ MaxDay \in Nat \ {0} /\ MaxBoots \in Nat \ {0} /\ MaxRestarts \in Nat
    /\ IsFiniteSet(Leases) /\ "nobody" \notin Cleaners

VARIABLES
    day,       \* the policy window
    boot,      \* the gateway's boot id
    restarts,  \* of the runner so far
    up,        \* the runner has finished its startup repair
    row,       \* table `model_spend_ledger`
    agent,     \* status column of `agents`, for the agent of each lease
    launch,    \* where the launch of an agent is
    cleaning,  \* where each cleanup of an agent is
    holds,     \* agents whose container runs and was given the lease
    issue,     \* the issue call of a lease
    revoke     \* the revoke calls of a lease, one for each caller

gateway == <<accountVars, boot>>
runner == <<up, row, agent, launch, cleaning, holds>>
vars == <<gateway, runner, issue, revoke, day, restarts>>

(***************************************************************************)
(* Ledger rows                                                             *)
(***************************************************************************)
Rows ==
    [state : {"none", "reserved", "issuing", "settled", "unreconciled", "released", "pruned"},
     charged : Nat, boot : 0 .. MaxBoots, day : 0 .. MaxDay]
NoRow == [state |-> "none", charged |-> 0, boot |-> 0, day |-> 0]

OpenRow(r) == r.state \in {"reserved", "issuing"}
ClosedRow(r) == r.state \in {"settled", "unreconciled", "released"}

\* What a row counts for in its window.  A pruned row is gone.
Committed(r) ==
    CASE OpenRow(r) -> CostCap
      [] r.state \in {"settled", "unreconciled"} -> r.charged
      [] OTHER -> 0

AdmittedOn(d) == {l \in Leases : row[l].day = d}
CommittedOn(d) == MapThenSumSet(LAMBDA l : Committed(row[l]), AdmittedOn(d))

CloseRow(r, state, charge) == [r EXCEPT !.state = state, !.charged = charge]

\* The rows `r` may become when a revoke answers `said`, a settlement of the
\* gateway with boot id `from`, or NoStatement.  A run that reported no usage
\* for some request is charged at least its cap.
SettledRows(r, said, from) ==
    IF ~OpenRow(r) THEN {r}
    ELSE IF said \in Nat /\ (r.boot = 0 \/ r.boot = from)
    THEN {CloseRow(r, "settled", said), CloseRow(r, "settled", Max({said, CostCap}))}
    ELSE IF r.state = "reserved" /\ said = NoStatement
    THEN {CloseRow(r, "released", 0)}
    ELSE {CloseRow(r, "unreconciled", CostCap)}

(***************************************************************************)
(* Control calls                                                           *)
(***************************************************************************)
\* A call is on its way, waits for the drain, has its answer, or is lost with
\* the gateway that worked on it.
Calls == [at : {"none", "sent", "draining", "answered", "lost"},
          said : Nat \union {NoStatement, Invalid}, boot : 0 .. MaxBoots]
NoCall == [at |-> "none", said |-> NoStatement, boot |-> 0]
NewCall == [NoCall EXCEPT !.at = "sent"]
Answer(c, said) == [c EXCEPT !.at = "answered", !.said = said, !.boot = boot]

Pending(c) == c.at \in {"sent", "draining"}

\* The caller of a revoke leaves; the gateway may still carry it out.
Left(calls, who) ==
    [calls EXCEPT
        ![who] = NoCall,
        !["nobody"] = IF Pending(calls[who]) THEN calls[who] ELSE @]

\* Those of a runner that stopped; one of them stands for all.
AllLeft(calls) ==
    LET out == {who \in Callers : Pending(calls[who])} IN
    [who \in Callers |->
        IF who = "nobody" /\ out # {} THEN calls[CHOOSE w \in out : TRUE] ELSE NoCall]

Init ==
    /\ AccountInit
    /\ day = 1 /\ boot = 1 /\ restarts = 0 /\ up = TRUE
    /\ row = [l \in Leases |-> NoRow]
    /\ agent = [l \in Leases |-> "NONE"]
    /\ launch = [l \in Leases |-> "none"]
    /\ cleaning = [l \in Leases |-> [c \in Cleaners |-> "none"]]
    /\ holds = {}
    /\ issue = [l \in Leases |-> "none"]
    /\ revoke = [l \in Leases |-> [who \in Callers |-> NoCall]]

(***************************************************************************)
(* Launch                                                                  *)
(***************************************************************************)
Admitted == CommittedOn(day) + CostCap <= Limit

Spawn(l) ==
    /\ up /\ agent[l] = "NONE" /\ Admitted
    /\ agent' = [agent EXCEPT ![l] = "SPAWNING"]
    /\ launch' = [launch EXCEPT ![l] = "preparing"]
    /\ row' = [row EXCEPT ![l] = [NoRow EXCEPT !.state = "reserved", !.day = day]]
    /\ UNCHANGED <<gateway, up, cleaning, holds, issue, revoke, day, restarts>>

\* The status an agent gets when its launch fails: a cancel that came first
\* owns the cleanup.
FailedLaunch(status) == IF status = "SPAWNING" THEN "CANCELLING" ELSE status

\* Before any lease can exist the reservation is released, unless that fails.
LaunchFails(l) ==
    /\ launch[l] = "preparing"
    /\ row' \in {row, [row EXCEPT ![l] = CloseRow(@, "released", 0)]}
    /\ launch' = [launch EXCEPT ![l] = "none"]
    /\ agent' = [agent EXCEPT ![l] = FailedLaunch(@)]
    /\ UNCHANGED <<gateway, up, cleaning, holds, issue, revoke, day, restarts>>

LaunchStops(l) ==
    /\ launch[l] = "preparing" /\ agent[l] # "SPAWNING"
    /\ launch' = [launch EXCEPT ![l] = "none"]
    /\ UNCHANGED <<gateway, up, row, agent, cleaning, holds, issue, revoke, day, restarts>>

\* Mutant: the row is marked when the lease has been granted.
MarkedLate(r) == r

Marked(r) == [r EXCEPT !.state = "issuing"]

IssueSent(l) ==
    /\ launch[l] = "preparing" /\ agent[l] = "SPAWNING"
    /\ row' = [row EXCEPT ![l] = Marked(@)]
    /\ launch' = [launch EXCEPT ![l] = "issuing"]
    /\ issue' = [issue EXCEPT ![l] = "sent"]
    /\ UNCHANGED <<gateway, up, agent, cleaning, holds, revoke, day, restarts>>

\* Also when its caller has given up: then nobody learns the lease.
GatewayIssues(l) ==
    /\ issue[l] \in {"sent", "late"}
    /\ OpenAccount(l)
    /\ issue' = [issue EXCEPT ![l] = IF @ = "sent" THEN "granted" ELSE "none"]
    /\ UNCHANGED <<boot, runner, revoke, day, restarts>>

GatewayRefuses(l) ==
    /\ issue[l] \in {"sent", "late"}
    /\ issue' = [issue EXCEPT ![l] = IF @ = "sent" THEN "refused" ELSE "none"]
    /\ UNCHANGED <<gateway, runner, revoke, day, restarts>>

Granted(l) ==
    /\ launch[l] = "issuing" /\ issue[l] = "granted"
    /\ row' = [row EXCEPT ![l].boot = boot]
    /\ launch' = [launch EXCEPT ![l] = "starting"]
    /\ issue' = [issue EXCEPT ![l] = "none"]
    /\ UNCHANGED <<gateway, up, agent, cleaning, holds, revoke, day, restarts>>

Refused(l) ==
    /\ launch[l] = "issuing" /\ issue[l] = "refused"
    /\ row' = [row EXCEPT ![l] = CloseRow(@, "released", 0)]
    /\ launch' = [launch EXCEPT ![l] = "none"]
    /\ issue' = [issue EXCEPT ![l] = "none"]
    /\ agent' = [agent EXCEPT ![l] = FailedLaunch(@)]
    /\ UNCHANGED <<gateway, up, cleaning, holds, revoke, day, restarts>>

\* It timed out, or the answer was lost or makes no sense.  The lease may
\* exist, so the reservation stays.
IssueFails(l) ==
    /\ launch[l] = "issuing" /\ issue[l] \in {"sent", "granted", "lost"}
    /\ launch' = [launch EXCEPT ![l] = "none"]
    /\ issue' = [issue EXCEPT ![l] = IF @ = "sent" THEN "late" ELSE "none"]
    /\ agent' = [agent EXCEPT ![l] = FailedLaunch(@)]
    /\ UNCHANGED <<gateway, up, row, cleaning, holds, revoke, day, restarts>>

Starts(l) ==
    /\ launch[l] = "starting" /\ agent[l] = "SPAWNING"
    /\ launch' = [launch EXCEPT ![l] = "none"]
    /\ agent' = [agent EXCEPT ![l] = "RUNNING"]
    /\ holds' = holds \union {l}
    /\ UNCHANGED <<gateway, up, row, cleaning, issue, revoke, day, restarts>>

\* The container does not start, or a cancel came before it ran.
StartFails(l) ==
    /\ launch[l] = "starting"
    /\ launch' = [launch EXCEPT ![l] = "none"]
    /\ agent' = [agent EXCEPT ![l] = FailedLaunch(@)]
    /\ UNCHANGED <<gateway, up, row, cleaning, holds, issue, revoke, day, restarts>>

(***************************************************************************)
(* The end of an agent                                                     *)
(***************************************************************************)
\* A cancel, the agent's deadline, its own end or a broken channel.
Cancel(l) ==
    /\ up /\ agent[l] \in {"SPAWNING", "RUNNING"}
    /\ agent' = [agent EXCEPT ![l] = "CANCELLING"]
    /\ UNCHANGED <<gateway, up, row, launch, cleaning, holds, issue, revoke, day, restarts>>

LaunchOver(l) == launch[l] = "none"

\* The first cleanup of an agent, its retries, and those that a second cancel
\* or an overlapping tick of the reaper runs beside them.
CleanupStarts(l, c) ==
    /\ agent[l] = "CANCELLING" /\ cleaning[l][c] = "none" /\ LaunchOver(l)
    /\ cleaning' = [cleaning EXCEPT ![l][c] = "revoking"]
    /\ revoke' = [revoke EXCEPT ![l][c] = NewCall]
    /\ UNCHANGED <<gateway, up, row, agent, launch, holds, issue, day, restarts>>

\* The answer has come: the ledger row is settled from it.
CleanupSettles(l, c) ==
    LET answer == revoke[l][c] IN
    /\ cleaning[l][c] = "revoking" /\ answer.at = "answered"
    /\ \E r \in SettledRows(row[l], answer.said, answer.boot) : row' = [row EXCEPT ![l] = r]
    /\ revoke' = [revoke EXCEPT ![l][c] = NoCall]
    /\ cleaning' = [cleaning EXCEPT ![l][c] = "removing"]
    /\ UNCHANGED <<gateway, up, agent, launch, holds, issue, day, restarts>>

\* Mutant: a run whose lease cannot be revoked is charged its cap at once.
ClosedUnanswered(r) == IF OpenRow(r) THEN CloseRow(r, "unreconciled", CostCap) ELSE r

KeptUnanswered(r) == r

\* The revoke fails or is not answered in time; the container goes all the same.
CleanupUnanswered(l, c) ==
    /\ cleaning[l][c] = "revoking"
    /\ revoke' = [revoke EXCEPT ![l] = Left(@, c)]
    /\ row' = [row EXCEPT ![l] = KeptUnanswered(@)]
    /\ cleaning' = [cleaning EXCEPT ![l][c] = "unsettled"]
    /\ UNCHANGED <<gateway, up, agent, launch, holds, issue, day, restarts>>

Clean(l, c) == cleaning[l][c] = "removing"

CleanupEnds(l, c) ==
    /\ cleaning[l][c] \in {"removing", "unsettled"}
    /\ holds' = holds \ {l}
    /\ cleaning' = [cleaning EXCEPT ![l][c] = "none"]
    /\ agent' = [agent EXCEPT ![l] = IF Clean(l, c) THEN "ENDED" ELSE @]
    /\ UNCHANGED <<gateway, up, row, launch, issue, revoke, day, restarts>>

\* The agent stays as it is until a retry.  At startup the runner starts anew.
RemovalFails(l, c) ==
    /\ cleaning[l][c] \in {"removing", "unsettled"}
    /\ cleaning' = [cleaning EXCEPT ![l][c] = "none"]
    /\ UNCHANGED <<gateway, up, row, agent, launch, holds, issue, revoke, day, restarts>>

\* Retention is longer than any window.
Prunable(l) == ClosedRow(row[l]) /\ row[l].day < day

Prune(l) ==
    /\ up /\ Prunable(l)
    /\ row' = [row EXCEPT ![l].state = "pruned"]
    /\ UNCHANGED <<gateway, up, agent, launch, cleaning, holds, issue, revoke, day, restarts>>

(***************************************************************************)
(* The gateway                                                             *)
(***************************************************************************)
Asked(l, who) == revoke[l][who].at = "sent"
Told(l, who, said) == revoke' = [revoke EXCEPT ![l][who] = Answer(@, said)]

\* A lease the gateway does not know is answered for at once.
RevokeUnknown(l, who) ==
    /\ Asked(l, who) /\ phase[l] \in {"none", "lost"}
    /\ Told(l, who, NoStatement)
    /\ UNCHANGED <<gateway, runner, issue, day, restarts>>

RevokeArrives(l, who) ==
    /\ Asked(l, who) /\ phase[l] \in {"open", "closing", "final"}
    /\ IF phase[l] = "open" THEN CloseAccount(l) ELSE UNCHANGED accountVars
    /\ revoke' = [revoke EXCEPT ![l][who].at = "draining"]
    /\ UNCHANGED <<boot, runner, issue, day, restarts>>

\* What the runner makes of a settlement: it may fail its checks.
Read(said) == {said, Invalid}

RevokeAnswered(l, who) ==
    /\ revoke[l][who].at = "draining"
    /\ IF phase[l] = "closing" THEN SettleAccount(l) ELSE UNCHANGED accountVars
    /\ \E said \in Read(statement'[l]) : Told(l, who, said)
    /\ UNCHANGED <<boot, runner, issue, day, restarts>>

\* The caller has gone: nobody reads the answer.
AnswerDropped(l) ==
    /\ revoke[l]["nobody"].at \in {"answered", "lost"}
    /\ revoke' = [revoke EXCEPT ![l]["nobody"] = NoCall]
    /\ UNCHANGED <<gateway, runner, issue, day, restarts>>

\* Requests are billed while a container holds the lease.
Billed(l) ==
    /\ l \in holds /\ phase[l] \in {"open", "closing"}
    /\ \E more \in 1 .. CostCap + MaxExcess, over \in 0 .. MaxExcess :
        /\ bill[l] + more <= CostCap + excess[l] + over
        /\ excess[l] + over <= MaxExcess
        /\ bill' = [bill EXCEPT ![l] = @ + more]
        /\ excess' = [excess EXCEPT ![l] = @ + over]
    /\ UNCHANGED <<phase, statement, boot, runner, issue, revoke, day, restarts>>

Expires(l) ==
    /\ CloseAccount(l)
    /\ UNCHANGED <<boot, runner, issue, revoke, day, restarts>>

\* A day after it retired; no revoke waits for it that long.
Forgets(l) ==
    /\ \A who \in Callers : revoke[l][who].at # "draining"
    /\ ForgetAccount(l)
    /\ UNCHANGED <<boot, runner, issue, revoke, day, restarts>>

GatewayRestarts ==
    /\ boot < MaxBoots
    /\ boot' = boot + 1
    /\ LoseAll
    /\ issue' = [l \in Leases |->
        IF issue[l] \in {"sent", "granted", "refused"} THEN "lost"
        ELSE IF issue[l] = "late" THEN "none" ELSE issue[l]]
    /\ revoke' = [l \in Leases |-> [who \in Callers |->
        IF Pending(revoke[l][who]) THEN [revoke[l][who] EXCEPT !.at = "lost"]
        ELSE revoke[l][who]]]
    /\ UNCHANGED <<runner, day, restarts>>

(***************************************************************************)
(* The runner                                                              *)
(***************************************************************************)
\* The containers go, and every agent that had not ended is to be cleaned up
\* before the runner takes work.  Calls that were out are nobody's.
RunnerRestarts ==
    /\ restarts < MaxRestarts
    /\ restarts' = restarts + 1
    /\ up' = FALSE
    /\ holds' = {}
    /\ agent' = [l \in Leases |->
        IF agent[l] \in {"SPAWNING", "RUNNING"} THEN "CANCELLING" ELSE agent[l]]
    /\ launch' = [l \in Leases |-> "none"]
    /\ cleaning' = [l \in Leases |-> [c \in Cleaners |-> "none"]]
    /\ issue' = [l \in Leases |-> IF issue[l] \in {"sent", "late"} THEN "late" ELSE "none"]
    /\ revoke' = [l \in Leases |-> AllLeft(revoke[l])]
    /\ UNCHANGED <<gateway, row, day>>

\* Startup goes on when each of them has ended.
StartupEnds ==
    /\ ~up /\ \A l \in Leases : agent[l] # "CANCELLING"
    /\ up' = TRUE
    /\ UNCHANGED <<gateway, row, agent, launch, cleaning, holds, issue, revoke, day, restarts>>

NextDay ==
    /\ day < MaxDay
    /\ day' = day + 1
    /\ UNCHANGED <<gateway, runner, issue, revoke, restarts>>

Launching(l) ==
    \/ LaunchFails(l) \/ LaunchStops(l) \/ IssueSent(l) \/ Granted(l)
    \/ Refused(l) \/ IssueFails(l) \/ Starts(l) \/ StartFails(l)

Answering(l, who) ==
    RevokeUnknown(l, who) \/ RevokeArrives(l, who) \/ RevokeAnswered(l, who)

Cleaning(l, c) ==
    \/ CleanupStarts(l, c) \/ CleanupSettles(l, c) \/ CleanupUnanswered(l, c)
    \/ CleanupEnds(l, c) \/ RemovalFails(l, c)

Next ==
    \/ \E l \in Leases :
        \/ Spawn(l) \/ Launching(l) \/ Cancel(l)
        \/ \E c \in Cleaners : Cleaning(l, c)
        \/ Prune(l)
        \/ GatewayIssues(l) \/ GatewayRefuses(l)
        \/ \E who \in Callers : Answering(l, who)
        \/ AnswerDropped(l)
        \/ Billed(l) \/ Expires(l) \/ Forgets(l)
    \/ GatewayRestarts \/ RunnerRestarts \/ StartupEnds \/ NextDay

Spec == Init /\ [][Next]_vars

(***************************************************************************)
(* Properties                                                              *)
(***************************************************************************)
\* A run that has ended has its row closed: the sweep of open rows of ended
\* runs is a safety net only.  A closed row charges all that providers billed
\* the run, or all but what they billed beyond the reservations when the
\* settlement was lost: through lost answers, late issues and restarts on both
\* sides (cleanup, settle, releaseRefusedIssue, launch).
SpendIsCovered ==
    \A l \in Leases :
        /\ agent[l] = "ENDED" => ~OpenRow(row[l])
        /\ row[l].state \in {"settled", "released"} => bill[l] <= row[l].charged
        /\ row[l].state = "unreconciled" => bill[l] <= row[l].charged + excess[l]

\* Nothing is billed to a lease whose agent has ended or whose row is closed,
\* so no charge comes after the ledger was read (cleanup, failLaunch).
BilledOnlyWhileOpen ==
    [][\A l \in Leases :
        bill'[l] > bill[l] => OpenRow(row[l]) /\ agent[l] # "ENDED"]_vars

=============================================================================
