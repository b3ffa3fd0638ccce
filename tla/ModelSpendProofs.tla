-------------------------- MODULE ModelSpendProofs --------------------------
(***************************************************************************)
(* Theorems about ModelSpend for every set of leases and of cleanups that  *)
(* overlap, every cap and limit, and every number of days, of starts of    *)
(* the gateway and of restarts of the runner.                              *)
(***************************************************************************)
EXTENDS ModelSpend, TLAPS

-----------------------------------------------------------------------------
(* The inductive invariant *)

TypeOK ==
    /\ AccountType
    /\ boot \in 1 .. MaxBoots /\ day \in 1 .. MaxDay
    /\ row \in [Leases -> Rows]
    /\ agent \in [Leases -> {"NONE", "SPAWNING", "RUNNING", "CANCELLING", "ENDED"}]
    /\ launch \in [Leases -> {"none", "preparing", "issuing", "starting"}]
    /\ cleaning \in [Leases -> [Cleaners -> {"none", "revoking", "removing", "unsettled"}]]
    /\ holds \subseteq Leases
    /\ issue \in [Leases -> {"none", "sent", "granted", "refused", "lost", "late"}]
    /\ revoke \in [Leases -> [Callers -> Calls]]

\* Nothing is billed to the account any more, and nothing will be.
Over(l) == phase[l] \in {"final", "lost"}

\* A lease that no container was given costs nothing: its row knows no boot.
RowInv(l) ==
    /\ agent[l] = "NONE" => row[l] = NoRow /\ launch[l] = "none"
    /\ row[l].boot = 0 => bill[l] = 0 /\ l \notin holds /\ launch[l] # "starting"
    /\ row[l].state \in {"none", "reserved", "released"} => row[l].boot = 0
    /\ row[l].state = "settled" => Over(l) /\ bill[l] <= row[l].charged
    /\ row[l].state = "unreconciled" => row[l].charged = CostCap
    /\ agent[l] = "ENDED" => ~OpenRow(row[l])

\* A container that has a lease belongs to an agent that has not ended, and when the row of the run
\* is closed the account is over.
HoldInv(l) ==
    l \in holds => /\ phase[l] # "none" /\ launch[l] = "none"
                   /\ agent[l] \in {"RUNNING", "CANCELLING"}
                   /\ OpenRow(row[l]) \/ Over(l)

\* While an agent is launched its row is open and no cleanup has begun.
LaunchInv(l) ==
    /\ launch[l] = "preparing" => row[l].state = "reserved"
    /\ launch[l] = "issuing" => row[l].state = "issuing" /\ row[l].boot = 0
    /\ launch[l] = "starting" => row[l].state = "issuing" /\ phase[l] # "none"
    /\ launch[l] # "none" => agent[l] \in {"SPAWNING", "CANCELLING"} /\ \A c \in Cleaners : cleaning[l][c] = "none"
    /\ issue[l] = "granted" => phase[l] # "none"

\* A cleanup that removes a container for good has closed the row; one that has an answer has been
\* told by a gateway that bills nothing any more.
CleanInv(l) ==
    \A c \in Cleaners :
        /\ cleaning[l][c] # "none" => agent[l] \in {"CANCELLING", "ENDED"}
        /\ cleaning[l][c] = "removing" => ~OpenRow(row[l])
        /\ revoke[l][c].at # "none" => cleaning[l][c] = "revoking"
        /\ revoke[l][c].at = "answered" => l \notin holds \/ Over(l)

\* What a revoke says was billed is what was billed.
RevokeInv(l) ==
    \A who \in Callers :
        /\ revoke[l][who].at = "draining" => phase[l] \in {"closing", "final"}
        /\ revoke[l][who].at = "answered" /\ revoke[l][who].said \in Nat
           => Over(l) /\ revoke[l][who].said = bill[l]

AccountInv(l) ==
    /\ statement[l] # NoStatement <=> phase[l] = "final"
    /\ phase[l] = "final" => statement[l] = bill[l]
    /\ bill[l] <= CostCap + excess[l]

LeaseInv(l) ==
    /\ RowInv(l) /\ HoldInv(l) /\ LaunchInv(l) /\ CleanInv(l) /\ RevokeInv(l) /\ AccountInv(l)

SpendInv == TypeOK /\ \A l \in Leases : LeaseInv(l)

-----------------------------------------------------------------------------
(* One lease at a time *)

BilledStep ==
    \A l \in Leases : bill'[l] > bill[l] => OpenRow(row[l]) /\ agent[l] # "ENDED"

Sound == SpendInv' /\ BilledStep

\* Nothing has changed for the lease k.
SameAt(k) ==
    /\ phase'[k] = phase[k] /\ bill'[k] = bill[k] /\ excess'[k] = excess[k] /\ statement'[k] = statement[k]
    /\ row'[k] = row[k] /\ agent'[k] = agent[k] /\ launch'[k] = launch[k]
    /\ cleaning'[k] = cleaning[k] /\ (k \in holds' <=> k \in holds)
    /\ issue'[k] = issue[k] /\ revoke'[k] = revoke[k]

OnlyAt(l) == \A k \in Leases : k # l => SameAt(k)

LEMMA SameIsSound ==
    ASSUME NEW k \in Leases, LeaseInv(k), SameAt(k)
    PROVE  LeaseInv(k)'
<1>1. RowInv(k)' /\ HoldInv(k)' /\ AccountInv(k)'
  BY DEF LeaseInv, SameAt, RowInv, HoldInv, AccountInv, Over, OpenRow
<1>2. LaunchInv(k)'
  BY DEF LeaseInv, SameAt, LaunchInv
<1>3. CleanInv(k)' /\ RevokeInv(k)'
  BY DEF LeaseInv, SameAt, CleanInv, RevokeInv, Over, OpenRow
<1> QED
  BY <1>1, <1>2, <1>3 DEF LeaseInv

\* A step that concerns one lease, and bills nothing.
LEMMA OneLease ==
    ASSUME SpendInv, NEW l \in Leases, TypeOK', OnlyAt(l), LeaseInv(l)', bill' = bill
    PROVE  Sound
<1>1. \A k \in Leases : LeaseInv(k)'
  <2> SUFFICES ASSUME NEW k \in Leases PROVE LeaseInv(k)'
    OBVIOUS
  <2>1. CASE k = l
    BY <2>1
  <2>2. CASE k # l
    BY <2>2, SameIsSound DEF OnlyAt, SpendInv
  <2> QED
    BY <2>1, <2>2
<1>2. BilledStep
  BY DEF BilledStep, SpendInv, TypeOK, AccountType
<1> QED
  BY <1>1, <1>2 DEF Sound, SpendInv

LEMMA Bounds ==
    /\ CostCap \in Nat /\ MaxBoots \in Nat /\ MaxDay \in Nat /\ MaxBoots >= 1
    /\ "nobody" \notin Cleaners /\ Cleaners \subseteq Callers /\ "nobody" \in Callers
    /\ NoRow \in Rows /\ NoRow.state = "none" /\ NoRow.boot = 0 /\ NoRow.charged = 0
    /\ NoCall \in Calls /\ NoCall.at = "none"
  BY AccountAssumption, SpendAssumption DEF Callers, NoRow, Rows, NoCall, Calls

LEMMA Typed ==
    ASSUME SpendInv, NEW l \in Leases
    PROVE  /\ LeaseInv(l) /\ row[l] \in Rows /\ bill[l] \in Nat /\ excess[l] \in Nat
           /\ row[l].boot \in Nat /\ row[l].charged \in Nat /\ boot \in Nat \ {0}
           /\ phase[l] \in Phases /\ statement[l] \in Nat \union {NoStatement}
           /\ cleaning[l] \in [Cleaners -> {"none", "revoking", "removing", "unsettled"}]
           /\ revoke[l] \in [Callers -> Calls]
  BY Bounds DEF SpendInv, TypeOK, AccountType, Rows

-----------------------------------------------------------------------------
(* The launch of an agent *)

LEMMA SpawnIsSound ==
    ASSUME SpendInv, NEW l \in Leases, Spawn(l)
    PROVE  Sound
<1> DEFINE r == [NoRow EXCEPT !.state = "reserved", !.day = day]
<1>1. /\ agent[l] = "NONE" /\ row' = [row EXCEPT ![l] = r]
      /\ agent' = [agent EXCEPT ![l] = "SPAWNING"] /\ launch' = [launch EXCEPT ![l] = "preparing"]
      /\ UNCHANGED <<phase, bill, excess, statement, boot, cleaning, holds, issue, revoke, day>>
  BY DEF Spawn, gateway, accountVars
<1>2. r \in Rows /\ r.state = "reserved" /\ r.boot = 0 /\ r.charged = 0
  <2>1. day \in 0 .. MaxDay
    BY Bounds DEF SpendInv, TypeOK
  <2> QED
    BY <2>1, Bounds DEF Rows
<1> HIDE DEF r
<1>3. TypeOK'
  BY <1>1, <1>2 DEF SpendInv, TypeOK, AccountType
<1>4. OnlyAt(l)
  BY <1>1 DEF OnlyAt, SameAt, SpendInv, TypeOK, AccountType
<1>5. /\ row'[l] = r /\ agent'[l] = "SPAWNING" /\ launch'[l] = "preparing"
      /\ LeaseInv(l) /\ row[l] = NoRow /\ row[l].boot = 0 /\ bill[l] = 0 /\ l \notin holds
      /\ \A c \in Cleaners : cleaning[l][c] = "none"
  <2>1. row'[l] = r /\ agent'[l] = "SPAWNING" /\ launch'[l] = "preparing"
    BY <1>1 DEF SpendInv, TypeOK
  <2> QED
    BY <1>1, <2>1, Typed, Bounds DEF LeaseInv, RowInv, CleanInv
<1>6. RowInv(l)' /\ HoldInv(l)'
  BY <1>1, <1>2, <1>5 DEF RowInv, HoldInv, OpenRow
<1>7. LaunchInv(l)' /\ CleanInv(l)'
  BY <1>1, <1>2, <1>5 DEF LeaseInv, LaunchInv, CleanInv, Over
<1>8. RevokeInv(l)' /\ AccountInv(l)'
  BY <1>1, <1>5 DEF LeaseInv, RevokeInv, AccountInv, Over
<1> QED
  BY <1>1, <1>3, <1>4, <1>6, <1>7, <1>8, OneLease DEF LeaseInv

LEMMA Closing ==
    ASSUME NEW r \in Rows, NEW state \in {"settled", "unreconciled", "released"}, NEW charge \in Nat
    PROVE  LET x == CloseRow(r, state, charge) IN
           x \in Rows /\ x.state = state /\ x.charged = charge /\ x.boot = r.boot /\ ~OpenRow(x)
  BY DEF CloseRow, Rows, OpenRow

LEMMA LaunchFailsIsSound ==
    ASSUME SpendInv, NEW l \in Leases, LaunchFails(l)
    PROVE  Sound
<1> PICK r \in {row[l], CloseRow(row[l], "released", 0)} : row' = [row EXCEPT ![l] = r]
  BY DEF LaunchFails, SpendInv, TypeOK
<1>1. /\ launch[l] = "preparing" /\ launch' = [launch EXCEPT ![l] = "none"]
      /\ agent' = [agent EXCEPT ![l] = FailedLaunch(agent[l])]
      /\ UNCHANGED <<phase, bill, excess, statement, boot, cleaning, holds, issue, revoke, day>>
  BY DEF LaunchFails, gateway, accountVars
<1>2. /\ LeaseInv(l) /\ row[l].state = "reserved" /\ row[l].boot = 0 /\ bill[l] = 0 /\ l \notin holds
      /\ agent[l] \in {"SPAWNING", "CANCELLING"} /\ row[l] \in Rows
      /\ \A c \in Cleaners : cleaning[l][c] = "none"
  BY <1>1, Typed DEF LeaseInv, LaunchInv, RowInv
<1>3. r \in Rows /\ r.state \in {"reserved", "released"} /\ r.boot = 0
  BY <1>2, Closing, SMTT(30)
<1>4. TypeOK'
  BY <1>1, <1>2, <1>3 DEF SpendInv, TypeOK, AccountType, FailedLaunch
<1>5. OnlyAt(l)
  BY <1>1 DEF OnlyAt, SameAt, SpendInv, TypeOK, AccountType
<1>6. row'[l] = r /\ launch'[l] = "none" /\ agent'[l] = "CANCELLING"
  BY <1>1, <1>2 DEF SpendInv, TypeOK, FailedLaunch
<1>7. RowInv(l)' /\ HoldInv(l)'
  BY <1>1, <1>2, <1>3, <1>6 DEF RowInv, HoldInv
<1>8. LaunchInv(l)' /\ CleanInv(l)'
  BY <1>1, <1>2, <1>6 DEF LeaseInv, LaunchInv, CleanInv, Over
<1>9. RevokeInv(l)' /\ AccountInv(l)'
  BY <1>1, <1>2 DEF LeaseInv, RevokeInv, AccountInv, Over
<1> QED
  BY <1>1, <1>4, <1>5, <1>7, <1>8, <1>9, OneLease DEF LeaseInv

LEMMA LaunchStopsIsSound ==
    ASSUME SpendInv, NEW l \in Leases, LaunchStops(l)
    PROVE  Sound
<1>1. /\ launch[l] = "preparing" /\ launch' = [launch EXCEPT ![l] = "none"]
      /\ UNCHANGED <<phase, bill, excess, statement, boot, row, agent, cleaning, holds, issue, revoke, day>>
  BY DEF LaunchStops, gateway, accountVars
<1>2. LeaseInv(l) /\ launch'[l] = "none"
  BY <1>1, Typed DEF SpendInv, TypeOK
<1>3. TypeOK'
  BY <1>1 DEF SpendInv, TypeOK, AccountType
<1>4. OnlyAt(l)
  BY <1>1 DEF OnlyAt, SameAt, SpendInv, TypeOK, AccountType
<1>5. RowInv(l)' /\ HoldInv(l)' /\ LaunchInv(l)'
  BY <1>1, <1>2 DEF LeaseInv, RowInv, HoldInv, LaunchInv, Over
<1>6. CleanInv(l)' /\ RevokeInv(l)' /\ AccountInv(l)'
  BY <1>1, <1>2 DEF LeaseInv, CleanInv, RevokeInv, AccountInv, Over
<1> QED
  BY <1>1, <1>3, <1>4, <1>5, <1>6, OneLease DEF LeaseInv

LEMMA IssueSentIsSound ==
    ASSUME SpendInv, NEW l \in Leases, IssueSent(l)
    PROVE  Sound
<1> DEFINE r == [row[l] EXCEPT !.state = "issuing"]
<1>1. /\ launch[l] = "preparing" /\ agent[l] = "SPAWNING"
      /\ row' = [row EXCEPT ![l] = r]
      /\ launch' = [launch EXCEPT ![l] = "issuing"] /\ issue' = [issue EXCEPT ![l] = "sent"]
      /\ UNCHANGED <<phase, bill, excess, statement, boot, agent, cleaning, holds, revoke, day>>
  BY DEF IssueSent, Marked, gateway, accountVars
<1>2. /\ LeaseInv(l) /\ row[l].boot = 0 /\ bill[l] = 0 /\ l \notin holds /\ row[l] \in Rows
      /\ \A c \in Cleaners : cleaning[l][c] = "none"
  BY <1>1, Typed DEF LeaseInv, LaunchInv, RowInv
<1>3. r \in Rows /\ r.state = "issuing" /\ r.boot = 0
  BY <1>2 DEF Rows
<1> HIDE DEF r
<1>4. TypeOK'
  BY <1>1, <1>3 DEF SpendInv, TypeOK, AccountType
<1>5. OnlyAt(l)
  BY <1>1 DEF OnlyAt, SameAt, SpendInv, TypeOK, AccountType
<1>6. row'[l] = r /\ launch'[l] = "issuing" /\ issue'[l] = "sent"
  BY <1>1 DEF SpendInv, TypeOK
<1>7. RowInv(l)' /\ HoldInv(l)'
  BY <1>1, <1>2, <1>3, <1>6 DEF RowInv, HoldInv
<1>8. LaunchInv(l)' /\ CleanInv(l)'
  BY <1>1, <1>2, <1>3, <1>6 DEF LeaseInv, LaunchInv, CleanInv, Over
<1>9. RevokeInv(l)' /\ AccountInv(l)'
  BY <1>1, <1>2 DEF LeaseInv, RevokeInv, AccountInv, Over
<1> QED
  BY <1>1, <1>4, <1>5, <1>7, <1>8, <1>9, OneLease DEF LeaseInv

LEMMA GatewayIssuesIsSound ==
    ASSUME SpendInv, NEW l \in Leases, GatewayIssues(l)
    PROVE  Sound
<1> PICK i \in {"granted", "none"} : issue' = [issue EXCEPT ![l] = i]
  BY DEF GatewayIssues, SpendInv, TypeOK
<1>1. /\ phase[l] = "none" /\ phase' = [phase EXCEPT ![l] = "open"]
      /\ UNCHANGED <<bill, excess, statement, boot, row, agent, launch, cleaning, holds, revoke, day>>
  BY DEF GatewayIssues, OpenAccount, Move, runner
<1>2. LeaseInv(l) /\ l \notin holds
  BY <1>1, Typed DEF LeaseInv, HoldInv
<1>3. TypeOK'
  BY <1>1 DEF SpendInv, TypeOK, AccountType, Phases
<1>4. OnlyAt(l)
  BY <1>1 DEF OnlyAt, SameAt, SpendInv, TypeOK, AccountType
<1>5. phase'[l] = "open" /\ issue'[l] = i
  BY <1>1 DEF SpendInv, TypeOK, AccountType
<1>6. RowInv(l)' /\ HoldInv(l)'
  BY <1>1, <1>2, <1>5 DEF LeaseInv, RowInv, HoldInv, Over
<1>7. LaunchInv(l)' /\ CleanInv(l)'
  BY <1>1, <1>2, <1>5 DEF LeaseInv, LaunchInv, CleanInv, Over
<1>8. RevokeInv(l)' /\ AccountInv(l)'
  BY <1>1, <1>2, <1>5 DEF LeaseInv, RevokeInv, AccountInv, Over
<1> QED
  BY <1>1, <1>3, <1>4, <1>6, <1>7, <1>8, OneLease DEF LeaseInv

LEMMA GatewayRefusesIsSound ==
    ASSUME SpendInv, NEW l \in Leases, GatewayRefuses(l)
    PROVE  Sound
<1> PICK i \in {"refused", "none"} : issue' = [issue EXCEPT ![l] = i]
  BY DEF GatewayRefuses, SpendInv, TypeOK
<1>1. UNCHANGED <<phase, bill, excess, statement, boot, row, agent, launch, cleaning, holds, revoke, day>>
  BY DEF GatewayRefuses, gateway, accountVars, runner
<1>2. LeaseInv(l) /\ issue'[l] = i
  BY Typed DEF SpendInv, TypeOK
<1>3. TypeOK'
  BY <1>1 DEF SpendInv, TypeOK, AccountType
<1>4. OnlyAt(l)
  BY <1>1 DEF OnlyAt, SameAt, SpendInv, TypeOK, AccountType
<1>5. RowInv(l)' /\ HoldInv(l)' /\ LaunchInv(l)'
  BY <1>1, <1>2 DEF LeaseInv, RowInv, HoldInv, LaunchInv, Over
<1>6. CleanInv(l)' /\ RevokeInv(l)' /\ AccountInv(l)'
  BY <1>1, <1>2 DEF LeaseInv, CleanInv, RevokeInv, AccountInv, Over
<1> QED
  BY <1>1, <1>3, <1>4, <1>5, <1>6, OneLease DEF LeaseInv

LEMMA GrantedIsSound ==
    ASSUME SpendInv, NEW l \in Leases, Granted(l)
    PROVE  Sound
<1> DEFINE r == [row[l] EXCEPT !.boot = boot]
<1>1. /\ launch[l] = "issuing" /\ issue[l] = "granted"
      /\ row' = [row EXCEPT ![l] = r]
      /\ launch' = [launch EXCEPT ![l] = "starting"] /\ issue' = [issue EXCEPT ![l] = "none"]
      /\ UNCHANGED <<phase, bill, excess, statement, boot, agent, cleaning, holds, revoke, day>>
  BY DEF Granted, gateway, accountVars
<1>2. /\ LeaseInv(l) /\ row[l].state = "issuing" /\ bill[l] = 0 /\ l \notin holds /\ row[l] \in Rows
      /\ phase[l] # "none" /\ agent[l] \in {"SPAWNING", "CANCELLING"}
      /\ \A c \in Cleaners : cleaning[l][c] = "none"
  BY <1>1, Typed DEF LeaseInv, LaunchInv, RowInv
<1>3. r \in Rows /\ r.state = "issuing" /\ r.boot # 0
  <2>1. boot \in 0 .. MaxBoots /\ boot # 0
    BY Bounds DEF SpendInv, TypeOK
  <2> QED
    BY <1>2, <2>1 DEF Rows
<1> HIDE DEF r
<1>4. TypeOK'
  BY <1>1, <1>3 DEF SpendInv, TypeOK, AccountType
<1>5. OnlyAt(l)
  BY <1>1 DEF OnlyAt, SameAt, SpendInv, TypeOK, AccountType
<1>6. row'[l] = r /\ launch'[l] = "starting" /\ issue'[l] = "none"
  BY <1>1 DEF SpendInv, TypeOK
<1>7. RowInv(l)' /\ HoldInv(l)'
  BY <1>1, <1>2, <1>3, <1>6 DEF RowInv, HoldInv
<1>8. LaunchInv(l)' /\ CleanInv(l)'
  BY <1>1, <1>2, <1>3, <1>6 DEF LeaseInv, LaunchInv, CleanInv, Over
<1>9. RevokeInv(l)' /\ AccountInv(l)'
  BY <1>1, <1>2 DEF LeaseInv, RevokeInv, AccountInv, Over
<1> QED
  BY <1>1, <1>4, <1>5, <1>7, <1>8, <1>9, OneLease DEF LeaseInv

LEMMA RefusedIsSound ==
    ASSUME SpendInv, NEW l \in Leases, Refused(l)
    PROVE  Sound
<1> DEFINE r == CloseRow(row[l], "released", 0)
<1>1. /\ launch[l] = "issuing" /\ row' = [row EXCEPT ![l] = r]
      /\ launch' = [launch EXCEPT ![l] = "none"] /\ issue' = [issue EXCEPT ![l] = "none"]
      /\ agent' = [agent EXCEPT ![l] = FailedLaunch(agent[l])]
      /\ UNCHANGED <<phase, bill, excess, statement, boot, cleaning, holds, revoke, day>>
  BY DEF Refused, gateway, accountVars
<1>2. /\ LeaseInv(l) /\ row[l].boot = 0 /\ bill[l] = 0 /\ l \notin holds
      /\ agent[l] \in {"SPAWNING", "CANCELLING"} /\ row[l] \in Rows
      /\ \A c \in Cleaners : cleaning[l][c] = "none"
  BY <1>1, Typed DEF LeaseInv, LaunchInv, RowInv
<1>3. r \in Rows /\ r.state = "released" /\ r.boot = 0
  BY <1>2, Closing
<1> HIDE DEF r
<1>4. TypeOK'
  BY <1>1, <1>2, <1>3 DEF SpendInv, TypeOK, AccountType, FailedLaunch
<1>5. OnlyAt(l)
  BY <1>1 DEF OnlyAt, SameAt, SpendInv, TypeOK, AccountType
<1>6. row'[l] = r /\ launch'[l] = "none" /\ agent'[l] = "CANCELLING" /\ issue'[l] = "none"
  BY <1>1, <1>2 DEF SpendInv, TypeOK, FailedLaunch
<1>7. RowInv(l)' /\ HoldInv(l)'
  BY <1>1, <1>2, <1>3, <1>6 DEF RowInv, HoldInv
<1>8. LaunchInv(l)' /\ CleanInv(l)'
  BY <1>1, <1>2, <1>6 DEF LeaseInv, LaunchInv, CleanInv, Over
<1>9. RevokeInv(l)' /\ AccountInv(l)'
  BY <1>1, <1>2 DEF LeaseInv, RevokeInv, AccountInv, Over
<1> QED
  BY <1>1, <1>4, <1>5, <1>7, <1>8, <1>9, OneLease DEF LeaseInv

LEMMA IssueFailsIsSound ==
    ASSUME SpendInv, NEW l \in Leases, IssueFails(l)
    PROVE  Sound
<1> PICK i \in {"late", "none"} : issue' = [issue EXCEPT ![l] = i]
  BY DEF IssueFails, SpendInv, TypeOK
<1>1. /\ launch[l] = "issuing" /\ launch' = [launch EXCEPT ![l] = "none"]
      /\ agent' = [agent EXCEPT ![l] = FailedLaunch(agent[l])]
      /\ UNCHANGED <<phase, bill, excess, statement, boot, row, cleaning, holds, revoke, day>>
  BY DEF IssueFails, gateway, accountVars
<1>2. /\ LeaseInv(l) /\ agent[l] \in {"SPAWNING", "CANCELLING"} /\ l \notin holds
      /\ \A c \in Cleaners : cleaning[l][c] = "none"
  BY <1>1, Typed DEF LeaseInv, LaunchInv, RowInv
<1>3. TypeOK'
  BY <1>1, <1>2 DEF SpendInv, TypeOK, AccountType, FailedLaunch
<1>4. OnlyAt(l)
  BY <1>1 DEF OnlyAt, SameAt, SpendInv, TypeOK, AccountType
<1>5. launch'[l] = "none" /\ agent'[l] = "CANCELLING" /\ issue'[l] = i
  BY <1>1, <1>2 DEF SpendInv, TypeOK, FailedLaunch
<1>6. RowInv(l)' /\ HoldInv(l)'
  BY <1>1, <1>2, <1>5 DEF LeaseInv, RowInv, HoldInv, Over
<1>7. LaunchInv(l)' /\ CleanInv(l)'
  BY <1>1, <1>2, <1>5 DEF LeaseInv, LaunchInv, CleanInv, Over
<1>8. RevokeInv(l)' /\ AccountInv(l)'
  BY <1>1, <1>2 DEF LeaseInv, RevokeInv, AccountInv, Over
<1> QED
  BY <1>1, <1>3, <1>4, <1>6, <1>7, <1>8, OneLease DEF LeaseInv

LEMMA StartsIsSound ==
    ASSUME SpendInv, NEW l \in Leases, Starts(l)
    PROVE  Sound
<1>1. /\ launch[l] = "starting" /\ launch' = [launch EXCEPT ![l] = "none"]
      /\ agent' = [agent EXCEPT ![l] = "RUNNING"] /\ holds' = holds \union {l}
      /\ UNCHANGED <<phase, bill, excess, statement, boot, row, cleaning, issue, revoke, day>>
  BY DEF Starts, gateway, accountVars
<1>2. /\ LeaseInv(l) /\ row[l].state = "issuing" /\ row[l].boot # 0 /\ phase[l] # "none"
      /\ \A c \in Cleaners : cleaning[l][c] = "none"
  BY <1>1, Typed DEF LeaseInv, LaunchInv, RowInv
<1>3. TypeOK'
  BY <1>1 DEF SpendInv, TypeOK, AccountType
<1>4. OnlyAt(l)
  BY <1>1 DEF OnlyAt, SameAt, SpendInv, TypeOK, AccountType
<1>5. launch'[l] = "none" /\ agent'[l] = "RUNNING" /\ l \in holds'
  BY <1>1 DEF SpendInv, TypeOK
<1>6. RowInv(l)' /\ HoldInv(l)'
  BY <1>1, <1>2, <1>5 DEF RowInv, HoldInv, OpenRow
<1>7. LaunchInv(l)'
  BY <1>1, <1>2, <1>5 DEF LeaseInv, LaunchInv
<1>8. CleanInv(l)'
  <2>1. \A c \in Cleaners : revoke[l][c].at = "none"
    BY <1>2 DEF LeaseInv, CleanInv
  <2> QED
    BY <1>1, <1>2, <2>1 DEF CleanInv
<1>9. RevokeInv(l)' /\ AccountInv(l)'
  BY <1>1, <1>2 DEF LeaseInv, RevokeInv, AccountInv, Over
<1> QED
  BY <1>1, <1>3, <1>4, <1>6, <1>7, <1>8, <1>9, OneLease DEF LeaseInv

LEMMA StartFailsIsSound ==
    ASSUME SpendInv, NEW l \in Leases, StartFails(l)
    PROVE  Sound
<1>1. /\ launch[l] = "starting" /\ launch' = [launch EXCEPT ![l] = "none"]
      /\ agent' = [agent EXCEPT ![l] = FailedLaunch(agent[l])]
      /\ UNCHANGED <<phase, bill, excess, statement, boot, row, cleaning, holds, issue, revoke, day>>
  BY DEF StartFails, gateway, accountVars
<1>2. /\ LeaseInv(l) /\ agent[l] \in {"SPAWNING", "CANCELLING"} /\ l \notin holds
      /\ \A c \in Cleaners : cleaning[l][c] = "none"
  BY <1>1, Typed DEF LeaseInv, LaunchInv, HoldInv
<1>3. TypeOK'
  BY <1>1, <1>2 DEF SpendInv, TypeOK, AccountType, FailedLaunch
<1>4. OnlyAt(l)
  BY <1>1 DEF OnlyAt, SameAt, SpendInv, TypeOK, AccountType
<1>5. launch'[l] = "none" /\ agent'[l] = "CANCELLING"
  BY <1>1, <1>2 DEF SpendInv, TypeOK, FailedLaunch
<1>6. RowInv(l)' /\ HoldInv(l)'
  BY <1>1, <1>2, <1>5 DEF LeaseInv, RowInv, HoldInv, Over
<1>7. LaunchInv(l)' /\ CleanInv(l)'
  BY <1>1, <1>2, <1>5 DEF LeaseInv, LaunchInv, CleanInv, Over
<1>8. RevokeInv(l)' /\ AccountInv(l)'
  BY <1>1, <1>2 DEF LeaseInv, RevokeInv, AccountInv, Over
<1> QED
  BY <1>1, <1>3, <1>4, <1>6, <1>7, <1>8, OneLease DEF LeaseInv

-----------------------------------------------------------------------------
(* The end of an agent *)

LEMMA CancelIsSound ==
    ASSUME SpendInv, NEW l \in Leases, Cancel(l)
    PROVE  Sound
<1>1. /\ agent[l] \in {"SPAWNING", "RUNNING"} /\ agent' = [agent EXCEPT ![l] = "CANCELLING"]
      /\ UNCHANGED <<phase, bill, excess, statement, boot, row, launch, cleaning, holds, issue, revoke, day>>
  BY DEF Cancel, gateway, accountVars
<1>2. LeaseInv(l) /\ agent'[l] = "CANCELLING"
  BY <1>1, Typed DEF SpendInv, TypeOK
<1>3. TypeOK'
  BY <1>1 DEF SpendInv, TypeOK, AccountType
<1>4. OnlyAt(l)
  BY <1>1 DEF OnlyAt, SameAt, SpendInv, TypeOK, AccountType
<1>5. RowInv(l)' /\ HoldInv(l)' /\ LaunchInv(l)'
  BY <1>1, <1>2 DEF LeaseInv, RowInv, HoldInv, LaunchInv, Over
<1>6. CleanInv(l)' /\ RevokeInv(l)' /\ AccountInv(l)'
  BY <1>1, <1>2 DEF LeaseInv, CleanInv, RevokeInv, AccountInv, Over
<1> QED
  BY <1>1, <1>3, <1>4, <1>5, <1>6, OneLease DEF LeaseInv

LEMMA CleanupStartsIsSound ==
    ASSUME SpendInv, NEW l \in Leases, NEW c \in Cleaners, CleanupStarts(l, c)
    PROVE  Sound
<1>1. /\ agent[l] = "CANCELLING" /\ launch[l] = "none"
      /\ cleaning' = [cleaning EXCEPT ![l][c] = "revoking"]
      /\ revoke' = [revoke EXCEPT ![l][c] = NewCall]
      /\ UNCHANGED <<phase, bill, excess, statement, boot, row, agent, launch, holds, issue, day>>
  BY DEF CleanupStarts, LaunchOver, gateway, accountVars
<1>2. LeaseInv(l)
  BY Typed
<1>3. NewCall \in Calls /\ NewCall.at = "sent"
  BY Bounds DEF NewCall, Calls
<1>4. TypeOK'
  BY <1>1, <1>3, Bounds DEF SpendInv, TypeOK, AccountType
<1>5. OnlyAt(l)
  BY <1>1 DEF OnlyAt, SameAt, SpendInv, TypeOK, AccountType
<1>6. /\ \A d \in Cleaners : cleaning'[l][d] = IF d = c THEN "revoking" ELSE cleaning[l][d]
      /\ \A who \in Callers : revoke'[l][who] = IF who = c THEN NewCall ELSE revoke[l][who]
  BY <1>1, Bounds DEF SpendInv, TypeOK
<1>7. RowInv(l)' /\ HoldInv(l)'
  BY <1>1, <1>2 DEF LeaseInv, RowInv, HoldInv, Over
<1>8. LaunchInv(l)'
  BY <1>1, <1>2 DEF LeaseInv, LaunchInv
<1>9. CleanInv(l)'
  BY <1>1, <1>2, <1>3, <1>6, Bounds DEF LeaseInv, CleanInv, Over
<1>10. RevokeInv(l)' /\ AccountInv(l)'
  BY <1>1, <1>2, <1>3, <1>6 DEF LeaseInv, RevokeInv, AccountInv, Over
<1> QED
  BY <1>1, <1>4, <1>5, <1>7, <1>8, <1>9, <1>10, OneLease DEF LeaseInv

LEMMA Larger ==
    ASSUME NEW a \in Nat, NEW b \in Nat
    PROVE  Max({a, b}) \in Nat /\ Max({a, b}) >= a /\ Max({a, b}) >= b
<1>1. \E x \in {a, b} : \A y \in {a, b} : x >= y
  <2>1. CASE a >= b
    BY <2>1
  <2>2. CASE b >= a
    BY <2>2
  <2> QED
    BY <2>1, <2>2
<1>2. Max({a, b}) \in {a, b} /\ \A y \in {a, b} : Max({a, b}) >= y
  BY <1>1 DEF Max
<1> QED
  BY <1>2

\* An open row is closed with what was said or more, with the cap when that cannot be known, or, if
\* no lease was ever asked for, with nothing.
LEMMA Settling ==
    ASSUME NEW r \in Rows, NEW said \in Nat \union {NoStatement, Invalid}, NEW from,
           NEW x \in SettledRows(r, said, from)
    PROVE  /\ x \in Rows /\ x.boot = r.boot /\ ~OpenRow(x)
           /\ \/ x = r
              \/ x.state = "settled" /\ said \in Nat /\ x.charged >= said
              \/ x.state = "released" /\ r.state = "reserved"
              \/ x.state = "unreconciled" /\ x.charged = CostCap
<1>1. CostCap \in Nat
  BY Bounds
<1>2. CASE ~OpenRow(r)
  BY <1>2 DEF SettledRows
<1>3. CASE OpenRow(r) /\ said \in Nat /\ (r.boot = 0 \/ r.boot = from)
  <2>1. x \in {CloseRow(r, "settled", said), CloseRow(r, "settled", Max({said, CostCap}))}
    BY <1>3 DEF SettledRows
  <2>2. PICK charge \in Nat : charge >= said /\ x = CloseRow(r, "settled", charge)
    <3>1. CASE x = CloseRow(r, "settled", said)
      BY <1>3, <3>1
    <3>2. CASE x = CloseRow(r, "settled", Max({said, CostCap}))
      BY <1>1, <1>3, <3>2, Larger
    <3> QED
      BY <2>1, <3>1, <3>2
  <2>3. x \in Rows /\ x.state = "settled" /\ x.charged = charge /\ x.boot = r.boot /\ ~OpenRow(x)
    BY <2>2, Closing
  <2> QED
    BY <1>3, <2>2, <2>3
<1>4. CASE OpenRow(r) /\ ~(said \in Nat /\ (r.boot = 0 \/ r.boot = from))
  <2>1. \/ x = CloseRow(r, "released", 0) /\ r.state = "reserved"
        \/ x = CloseRow(r, "unreconciled", CostCap)
    BY <1>4 DEF SettledRows
  <2>2. CASE x = CloseRow(r, "released", 0) /\ r.state = "reserved"
    <3>1. x \in Rows /\ x.state = "released" /\ x.boot = r.boot /\ ~OpenRow(x)
      BY <2>2, Closing
    <3> QED
      BY <2>2, <3>1
  <2>3. CASE x = CloseRow(r, "unreconciled", CostCap)
    <3>1. x \in Rows /\ x.state = "unreconciled" /\ x.charged = CostCap /\ x.boot = r.boot /\ ~OpenRow(x)
      BY <1>1, <2>3, Closing
    <3> QED
      BY <3>1
  <2> QED
    BY <2>1, <2>2, <2>3
<1> QED
  BY <1>2, <1>3, <1>4

LEMMA CleanupSettlesIsSound ==
    ASSUME SpendInv, NEW l \in Leases, NEW c \in Cleaners, CleanupSettles(l, c)
    PROVE  Sound
<1>1. /\ cleaning[l][c] = "revoking" /\ revoke[l][c].at = "answered"
      /\ revoke' = [revoke EXCEPT ![l][c] = NoCall]
      /\ cleaning' = [cleaning EXCEPT ![l][c] = "removing"]
      /\ UNCHANGED <<phase, bill, excess, statement, boot, agent, launch, holds, issue, day>>
  BY DEF CleanupSettles, gateway, accountVars
<1>2. PICK r \in SettledRows(row[l], revoke[l][c].said, revoke[l][c].boot) : row' = [row EXCEPT ![l] = r]
  BY DEF CleanupSettles
<1>3. LeaseInv(l) /\ row[l] \in Rows /\ bill[l] \in Nat /\ revoke[l][c] \in Calls
  BY Typed, Bounds
<1>4. /\ r \in Rows /\ r.boot = row[l].boot /\ ~OpenRow(r)
      /\ \/ r = row[l]
         \/ r.state = "settled" /\ revoke[l][c].said \in Nat /\ r.charged >= revoke[l][c].said
         \/ r.state = "released" /\ row[l].state = "reserved"
         \/ r.state = "unreconciled" /\ r.charged = CostCap
  <2>1. PICK old \in Rows, said \in Nat \union {NoStatement, Invalid}, from \in 0 .. MaxBoots :
           old = row[l] /\ said = revoke[l][c].said /\ from = revoke[l][c].boot
    BY <1>3 DEF Calls
  <2>2. r \in SettledRows(old, said, from)
    BY <2>1
  <2> QED
    BY <2>1, <2>2, Settling
<1>5. /\ launch[l] = "none" /\ agent[l] \in {"CANCELLING", "ENDED"} /\ (l \in holds => Over(l))
      /\ revoke[l][c].said \in Nat => Over(l) /\ revoke[l][c].said = bill[l]
  BY <1>1, <1>3, Bounds DEF LeaseInv, LaunchInv, CleanInv, RevokeInv
<1>6. TypeOK'
  BY <1>1, <1>2, <1>4, Bounds DEF SpendInv, TypeOK, AccountType
<1>7. OnlyAt(l)
  BY <1>1, <1>2 DEF OnlyAt, SameAt, SpendInv, TypeOK, AccountType
<1>8. /\ row'[l] = r
      /\ \A d \in Cleaners : cleaning'[l][d] = IF d = c THEN "removing" ELSE cleaning[l][d]
      /\ \A who \in Callers : revoke'[l][who] = IF who = c THEN NoCall ELSE revoke[l][who]
  BY <1>1, <1>2, Bounds DEF SpendInv, TypeOK
<1>9. RowInv(l)'
  <2>1. r.charged \in Nat /\ (r.state = "settled" => Over(l) /\ bill[l] <= r.charged)
    BY <1>3, <1>4, <1>5 DEF LeaseInv, RowInv, Rows
  <2>2. r.state = "unreconciled" => r.charged = CostCap
    BY <1>3, <1>4 DEF LeaseInv, RowInv
  <2>3. r.boot = 0 => bill[l] = 0 /\ l \notin holds
    BY <1>3, <1>4 DEF LeaseInv, RowInv
  <2>4. r.state \in {"none", "reserved", "released"} => r.boot = 0
    BY <1>3, <1>4 DEF LeaseInv, RowInv
  <2> QED
    BY <1>1, <1>4, <1>5, <1>8, <2>1, <2>2, <2>3, <2>4 DEF RowInv, Over
<1>10. HoldInv(l)' /\ LaunchInv(l)'
  BY <1>1, <1>3, <1>5, <1>8 DEF LeaseInv, HoldInv, LaunchInv, Over
<1>11. CleanInv(l)'
  BY <1>1, <1>3, <1>4, <1>5, <1>8, Bounds DEF LeaseInv, CleanInv, Over
<1>12. RevokeInv(l)' /\ AccountInv(l)'
  BY <1>1, <1>3, <1>8, Bounds DEF LeaseInv, RevokeInv, AccountInv, Over
<1> QED
  BY <1>1, <1>6, <1>7, <1>9, <1>10, <1>11, <1>12, OneLease DEF LeaseInv

LEMMA CleanupUnansweredIsSound ==
    ASSUME SpendInv, NEW l \in Leases, NEW c \in Cleaners, CleanupUnanswered(l, c)
    PROVE  Sound
<1> DEFINE left == Left(revoke[l], c)
<1>1. /\ cleaning[l][c] = "revoking"
      /\ revoke' = [revoke EXCEPT ![l] = left]
      /\ cleaning' = [cleaning EXCEPT ![l][c] = "unsettled"]
      /\ row' = [row EXCEPT ![l] = row[l]]
      /\ UNCHANGED <<phase, bill, excess, statement, boot, agent, launch, holds, issue, day>>
  BY DEF CleanupUnanswered, KeptUnanswered, gateway, accountVars
<1>2. LeaseInv(l) /\ revoke[l] \in [Callers -> Calls]
  BY Typed
<1>3. /\ left \in [Callers -> Calls]
      /\ \A who \in Callers : \/ left[who] = NoCall /\ who = c
                              \/ left[who] = revoke[l][who] /\ who # c
                              \/ left[who] = revoke[l][c] /\ Pending(revoke[l][c]) /\ who = "nobody"
  BY <1>2, Bounds DEF Left
<1> HIDE DEF left
<1>4. /\ row' = row /\ revoke'[l] = left
      /\ \A d \in Cleaners : cleaning'[l][d] = IF d = c THEN "unsettled" ELSE cleaning[l][d]
  BY <1>1 DEF SpendInv, TypeOK
<1>5. TypeOK'
  BY <1>1, <1>3, <1>4 DEF SpendInv, TypeOK, AccountType
<1>6. OnlyAt(l)
  BY <1>1, <1>4 DEF OnlyAt, SameAt, SpendInv, TypeOK, AccountType
<1>7. launch[l] = "none" /\ agent[l] \in {"CANCELLING", "ENDED"}
  BY <1>1, <1>2 DEF LeaseInv, LaunchInv, CleanInv
<1>8. RowInv(l)' /\ HoldInv(l)' /\ LaunchInv(l)'
  BY <1>1, <1>2, <1>4, <1>7 DEF LeaseInv, RowInv, HoldInv, LaunchInv, Over
<1>9. CleanInv(l)'
  BY <1>1, <1>2, <1>3, <1>4, <1>7, Bounds DEF LeaseInv, CleanInv, Over
<1>10. RevokeInv(l)' /\ AccountInv(l)'
  <2>1. RevokeInv(l)'
    BY <1>1, <1>2, <1>3, <1>4, Bounds DEF LeaseInv, RevokeInv, Over
  <2> QED
    BY <1>1, <1>2, <2>1 DEF LeaseInv, AccountInv
<1> QED
  BY <1>1, <1>5, <1>6, <1>8, <1>9, <1>10, OneLease DEF LeaseInv

LEMMA CleanupEndsIsSound ==
    ASSUME SpendInv, NEW l \in Leases, NEW c \in Cleaners, CleanupEnds(l, c)
    PROVE  Sound
<1> DEFINE a == IF Clean(l, c) THEN "ENDED" ELSE agent[l]
<1>1. /\ cleaning[l][c] \in {"removing", "unsettled"}
      /\ holds' = holds \ {l}
      /\ cleaning' = [cleaning EXCEPT ![l][c] = "none"]
      /\ agent' = [agent EXCEPT ![l] = a]
      /\ UNCHANGED <<phase, bill, excess, statement, boot, row, launch, issue, revoke, day>>
  BY DEF CleanupEnds, gateway, accountVars
<1>2. LeaseInv(l) /\ launch[l] = "none" /\ agent[l] \in {"CANCELLING", "ENDED"}
  BY <1>1, Typed DEF LeaseInv, LaunchInv, CleanInv
<1>3. a \in {"CANCELLING", "ENDED"} /\ (a = "ENDED" => ~OpenRow(row[l]))
  BY <1>2 DEF Clean, LeaseInv, CleanInv, RowInv
<1> HIDE DEF a
<1>4. /\ agent'[l] = a /\ l \notin holds'
      /\ \A d \in Cleaners : cleaning'[l][d] = IF d = c THEN "none" ELSE cleaning[l][d]
  BY <1>1 DEF SpendInv, TypeOK
<1>5. TypeOK'
  BY <1>1, <1>3 DEF SpendInv, TypeOK, AccountType
<1>6. OnlyAt(l)
  BY <1>1 DEF OnlyAt, SameAt, SpendInv, TypeOK, AccountType
<1>7. RowInv(l)' /\ HoldInv(l)' /\ LaunchInv(l)'
  BY <1>1, <1>2, <1>3, <1>4 DEF LeaseInv, RowInv, HoldInv, LaunchInv, Over
<1>8. CleanInv(l)'
  BY <1>1, <1>2, <1>3, <1>4 DEF LeaseInv, CleanInv, Over
<1>9. RevokeInv(l)' /\ AccountInv(l)'
  BY <1>1, <1>2 DEF LeaseInv, RevokeInv, AccountInv, Over
<1> QED
  BY <1>1, <1>5, <1>6, <1>7, <1>8, <1>9, OneLease DEF LeaseInv

LEMMA RemovalFailsIsSound ==
    ASSUME SpendInv, NEW l \in Leases, NEW c \in Cleaners, RemovalFails(l, c)
    PROVE  Sound
<1>1. /\ cleaning[l][c] \in {"removing", "unsettled"}
      /\ cleaning' = [cleaning EXCEPT ![l][c] = "none"]
      /\ UNCHANGED <<phase, bill, excess, statement, boot, row, agent, launch, holds, issue, revoke, day>>
  BY DEF RemovalFails, gateway, accountVars
<1>2. LeaseInv(l)
  BY Typed
<1>3. \A d \in Cleaners : cleaning'[l][d] = IF d = c THEN "none" ELSE cleaning[l][d]
  BY <1>1 DEF SpendInv, TypeOK
<1>4. TypeOK'
  BY <1>1 DEF SpendInv, TypeOK, AccountType
<1>5. OnlyAt(l)
  BY <1>1 DEF OnlyAt, SameAt, SpendInv, TypeOK, AccountType
<1>6. RowInv(l)' /\ HoldInv(l)' /\ LaunchInv(l)'
  BY <1>1, <1>2, <1>3 DEF LeaseInv, RowInv, HoldInv, LaunchInv, Over
<1>7. CleanInv(l)'
  BY <1>1, <1>2, <1>3 DEF LeaseInv, CleanInv, Over
<1>8. RevokeInv(l)' /\ AccountInv(l)'
  BY <1>1, <1>2 DEF LeaseInv, RevokeInv, AccountInv, Over
<1> QED
  BY <1>1, <1>4, <1>5, <1>6, <1>7, <1>8, OneLease DEF LeaseInv

LEMMA PruneIsSound ==
    ASSUME SpendInv, NEW l \in Leases, Prune(l)
    PROVE  Sound
<1> DEFINE r == [row[l] EXCEPT !.state = "pruned"]
<1>1. /\ ClosedRow(row[l]) /\ row' = [row EXCEPT ![l] = r]
      /\ UNCHANGED <<phase, bill, excess, statement, boot, agent, launch, cleaning, holds, issue, revoke, day>>
  BY DEF Prune, Prunable, gateway, accountVars
<1>2. LeaseInv(l) /\ row[l] \in Rows
  BY Typed
<1>3. r \in Rows /\ r.state = "pruned" /\ r.boot = row[l].boot
  BY <1>2 DEF Rows
<1>4. /\ ~OpenRow(row[l]) /\ ~OpenRow(r) /\ row[l].state # "none" /\ launch[l] = "none" /\ agent[l] # "NONE"
  <2>1. ~OpenRow(row[l]) /\ row[l].state # "none"
    BY <1>1 DEF OpenRow, ClosedRow
  <2>2. launch[l] = "none" /\ agent[l] # "NONE"
    BY <1>2, <2>1, Bounds DEF LeaseInv, LaunchInv, RowInv, OpenRow, SpendInv, TypeOK
  <2> QED
    BY <1>3, <2>1, <2>2 DEF OpenRow
<1> HIDE DEF r
<1>5. TypeOK'
  BY <1>1, <1>3 DEF SpendInv, TypeOK, AccountType
<1>6. OnlyAt(l)
  BY <1>1 DEF OnlyAt, SameAt, SpendInv, TypeOK, AccountType
<1>7. row'[l] = r
  BY <1>1 DEF SpendInv, TypeOK
<1>8. RowInv(l)' /\ HoldInv(l)' /\ LaunchInv(l)'
  BY <1>1, <1>2, <1>3, <1>4, <1>7 DEF LeaseInv, RowInv, HoldInv, LaunchInv, Over
<1>9. CleanInv(l)'
  BY <1>1, <1>2, <1>4, <1>7 DEF LeaseInv, CleanInv, Over
<1>10. RevokeInv(l)' /\ AccountInv(l)'
  BY <1>1, <1>2 DEF LeaseInv, RevokeInv, AccountInv, Over
<1> QED
  BY <1>1, <1>5, <1>6, <1>8, <1>9, <1>10, OneLease DEF LeaseInv

-----------------------------------------------------------------------------
(* The gateway *)

LEMMA AnswerIs ==
    ASSUME NEW call \in Calls, NEW said \in Nat \union {NoStatement, Invalid}, boot \in 0 .. MaxBoots
    PROVE  LET x == Answer(call, said) IN x \in Calls /\ x.at = "answered" /\ x.said = said
  BY DEF Answer, Calls

LEMMA RevokeUnknownIsSound ==
    ASSUME SpendInv, NEW l \in Leases, NEW who \in Callers, RevokeUnknown(l, who)
    PROVE  Sound
<1> DEFINE x == Answer(revoke[l][who], NoStatement)
<1>1. /\ revoke[l][who].at = "sent" /\ phase[l] \in {"none", "lost"}
      /\ revoke' = [revoke EXCEPT ![l][who] = x]
      /\ UNCHANGED <<phase, bill, excess, statement, boot, row, agent, launch, cleaning, holds, issue, day>>
  BY DEF RevokeUnknown, Asked, Told, gateway, accountVars, runner
<1>2. LeaseInv(l) /\ revoke[l][who] \in Calls /\ boot \in 0 .. MaxBoots
  BY Typed, Bounds DEF SpendInv, TypeOK
<1>3. x \in Calls /\ x.at = "answered" /\ x.said \notin Nat
  <2>1. NoStatement \in Nat \union {NoStatement, Invalid} /\ NoStatement \notin Nat
    BY DEF NoStatement
  <2> QED
    BY <1>2, <2>1, AnswerIs
<1> HIDE DEF x
<1>4. TypeOK'
  BY <1>1, <1>3 DEF SpendInv, TypeOK, AccountType
<1>5. OnlyAt(l)
  BY <1>1 DEF OnlyAt, SameAt, SpendInv, TypeOK, AccountType
<1>6. \A w \in Callers : revoke'[l][w] = IF w = who THEN x ELSE revoke[l][w]
  BY <1>1 DEF SpendInv, TypeOK
<1>7. RowInv(l)' /\ HoldInv(l)' /\ LaunchInv(l)' /\ AccountInv(l)'
  BY <1>1, <1>2 DEF LeaseInv, RowInv, HoldInv, LaunchInv, AccountInv, Over
<1>8. CleanInv(l)'
  <2>1. l \in holds => Over(l)
    BY <1>1, <1>2 DEF LeaseInv, HoldInv, Over
  <2> QED
    BY <1>1, <1>2, <1>3, <1>6, <2>1, Bounds DEF LeaseInv, CleanInv, Over
<1>9. RevokeInv(l)'
  BY <1>1, <1>2, <1>3, <1>6 DEF LeaseInv, RevokeInv, Over
<1> QED
  BY <1>1, <1>4, <1>5, <1>7, <1>8, <1>9, OneLease DEF LeaseInv

\* A lease is closed by a revoke or by its deadline.
LEMMA Closes ==
    ASSUME SpendInv, NEW l \in Leases, phase[l] = "open", phase' = [phase EXCEPT ![l] = "closing"],
           UNCHANGED <<bill, excess, statement, row, agent, launch, cleaning, holds, issue>>
    PROVE  RowInv(l)' /\ HoldInv(l)' /\ LaunchInv(l)' /\ AccountInv(l)' /\ phase'[l] = "closing"
<1>1. LeaseInv(l) /\ phase'[l] = "closing"
  BY Typed DEF SpendInv, TypeOK, AccountType
<1>2. RowInv(l)' /\ HoldInv(l)'
  BY <1>1 DEF LeaseInv, RowInv, HoldInv, Over
<1>3. LaunchInv(l)' /\ AccountInv(l)'
  BY <1>1 DEF LeaseInv, LaunchInv, AccountInv
<1> QED
  BY <1>1, <1>2, <1>3

LEMMA RevokeArrivesIsSound ==
    ASSUME SpendInv, NEW l \in Leases, NEW who \in Callers, RevokeArrives(l, who)
    PROVE  Sound
<1> DEFINE x == [revoke[l][who] EXCEPT !.at = "draining"]
<1>1. /\ revoke[l][who].at = "sent" /\ phase[l] \in {"open", "closing", "final"}
      /\ IF phase[l] = "open" THEN CloseAccount(l) ELSE UNCHANGED accountVars
      /\ revoke' = [revoke EXCEPT ![l][who] = x]
      /\ UNCHANGED <<boot, row, agent, launch, cleaning, holds, issue, day>>
  BY DEF RevokeArrives, Asked, runner
<1>2. /\ LeaseInv(l) /\ revoke[l][who] \in Calls
      /\ UNCHANGED <<bill, excess, statement>>
      /\ \/ phase[l] = "open" /\ phase' = [phase EXCEPT ![l] = "closing"]
         \/ phase[l] \in {"closing", "final"} /\ phase' = phase
  BY <1>1, Typed DEF CloseAccount, Move, accountVars
<1>3. x \in Calls /\ x.at = "draining"
  BY <1>2 DEF Calls
<1> HIDE DEF x
<1>4. TypeOK'
  BY <1>1, <1>2, <1>3 DEF SpendInv, TypeOK, AccountType, Phases
<1>5. OnlyAt(l)
  BY <1>1, <1>2 DEF OnlyAt, SameAt, SpendInv, TypeOK, AccountType
<1>6. \A w \in Callers : revoke'[l][w] = IF w = who THEN x ELSE revoke[l][w]
  BY <1>1 DEF SpendInv, TypeOK
<1>7. RowInv(l)' /\ HoldInv(l)' /\ LaunchInv(l)' /\ AccountInv(l)'
  <2>1. CASE phase[l] = "open" /\ phase' = [phase EXCEPT ![l] = "closing"]
    BY <1>1, <1>2, <2>1, Closes
  <2>2. CASE phase' = phase
    BY <1>1, <1>2, <2>2 DEF LeaseInv, RowInv, HoldInv, LaunchInv, AccountInv, Over
  <2> QED
    BY <1>2, <2>1, <2>2
<1>8. phase'[l] \in {"closing", "final"} /\ (Over(l) => Over(l)')
  BY <1>1, <1>2 DEF Over, SpendInv, TypeOK, AccountType
<1>9. CleanInv(l)'
  BY <1>1, <1>2, <1>3, <1>6, <1>8, Bounds DEF LeaseInv, CleanInv
<1>10. RevokeInv(l)'
  BY <1>1, <1>2, <1>3, <1>6, <1>8 DEF LeaseInv, RevokeInv
<1> QED
  BY <1>2, <1>4, <1>5, <1>7, <1>9, <1>10, OneLease DEF LeaseInv

LEMMA RevokeAnsweredIsSound ==
    ASSUME SpendInv, NEW l \in Leases, NEW who \in Callers, RevokeAnswered(l, who)
    PROVE  Sound
<1>1. /\ revoke[l][who].at = "draining"
      /\ IF phase[l] = "closing" THEN SettleAccount(l) ELSE UNCHANGED accountVars
      /\ UNCHANGED <<boot, row, agent, launch, cleaning, holds, issue, day>>
  BY DEF RevokeAnswered, runner
<1>2. PICK said \in {statement'[l], Invalid} : revoke' = [revoke EXCEPT ![l][who] = Answer(revoke[l][who], said)]
  BY DEF RevokeAnswered, Told, Read
<1>3. /\ LeaseInv(l) /\ revoke[l][who] \in Calls /\ boot \in 0 .. MaxBoots /\ bill[l] \in Nat
      /\ UNCHANGED <<bill, excess>> /\ phase[l] \in {"closing", "final"}
      /\ \/ /\ phase[l] = "closing" /\ phase' = [phase EXCEPT ![l] = "final"]
            /\ statement' = [statement EXCEPT ![l] = bill[l]]
         \/ phase[l] = "final" /\ phase' = phase /\ statement' = statement
  BY <1>1, Typed, Bounds DEF SettleAccount, Move, accountVars, LeaseInv, RevokeInv, SpendInv, TypeOK
<1>4. phase'[l] = "final" /\ statement'[l] = bill[l]
  BY <1>3 DEF LeaseInv, AccountInv, SpendInv, TypeOK, AccountType
<1> DEFINE x == Answer(revoke[l][who], said)
<1>5. x \in Calls /\ x.at = "answered" /\ (x.said \in Nat => x.said = bill[l])
  <2>1. said \in Nat \union {NoStatement, Invalid} /\ (said \in Nat => said = bill[l])
    BY <1>3, <1>4 DEF Invalid
  <2> QED
    BY <1>3, <2>1, AnswerIs
<1> HIDE DEF x
<1>6. TypeOK'
  BY <1>1, <1>2, <1>3, <1>5 DEF SpendInv, TypeOK, AccountType, Phases, x
<1>7. OnlyAt(l)
  BY <1>1, <1>2, <1>3 DEF OnlyAt, SameAt, SpendInv, TypeOK, AccountType
<1>8. \A w \in Callers : revoke'[l][w] = IF w = who THEN x ELSE revoke[l][w]
  BY <1>2 DEF SpendInv, TypeOK, x
<1>9. RowInv(l)' /\ HoldInv(l)' /\ LaunchInv(l)'
  BY <1>1, <1>3, <1>4 DEF LeaseInv, RowInv, HoldInv, LaunchInv, Over
<1>10. AccountInv(l)'
  <2>1. bill[l] # NoStatement
    BY <1>3 DEF NoStatement
  <2> QED
    BY <1>3, <1>4, <2>1 DEF LeaseInv, AccountInv
<1>11. CleanInv(l)'
  BY <1>1, <1>3, <1>4, <1>5, <1>8, Bounds DEF LeaseInv, CleanInv, Over
<1>12. RevokeInv(l)'
  BY <1>1, <1>3, <1>4, <1>5, <1>8 DEF LeaseInv, RevokeInv, Over
<1> QED
  BY <1>3, <1>6, <1>7, <1>9, <1>10, <1>11, <1>12, OneLease DEF LeaseInv

LEMMA AnswerDroppedIsSound ==
    ASSUME SpendInv, NEW l \in Leases, AnswerDropped(l)
    PROVE  Sound
<1>1. /\ revoke' = [revoke EXCEPT ![l]["nobody"] = NoCall]
      /\ UNCHANGED <<phase, bill, excess, statement, boot, row, agent, launch, cleaning, holds, issue, day>>
  BY DEF AnswerDropped, gateway, accountVars, runner
<1>2. LeaseInv(l)
  BY Typed
<1>3. TypeOK'
  BY <1>1, Bounds DEF SpendInv, TypeOK, AccountType
<1>4. OnlyAt(l)
  BY <1>1 DEF OnlyAt, SameAt, SpendInv, TypeOK, AccountType
<1>5. \A w \in Callers : revoke'[l][w] = IF w = "nobody" THEN NoCall ELSE revoke[l][w]
  BY <1>1 DEF SpendInv, TypeOK
<1>6. RowInv(l)' /\ HoldInv(l)' /\ LaunchInv(l)' /\ AccountInv(l)'
  BY <1>1, <1>2 DEF LeaseInv, RowInv, HoldInv, LaunchInv, AccountInv, Over
<1>7. CleanInv(l)'
  BY <1>1, <1>2, <1>5, Bounds DEF LeaseInv, CleanInv, Over
<1>8. RevokeInv(l)'
  BY <1>1, <1>2, <1>5, Bounds DEF LeaseInv, RevokeInv, Over
<1> QED
  BY <1>1, <1>3, <1>4, <1>6, <1>7, <1>8, OneLease DEF LeaseInv

LEMMA ExpiresIsSound ==
    ASSUME SpendInv, NEW l \in Leases, Expires(l)
    PROVE  Sound
<1>1. /\ phase[l] = "open" /\ phase' = [phase EXCEPT ![l] = "closing"]
      /\ UNCHANGED <<bill, excess, statement, boot, row, agent, launch, cleaning, holds, issue, revoke, day>>
  BY DEF Expires, CloseAccount, Move, runner
<1>2. LeaseInv(l)
  BY Typed
<1>3. RowInv(l)' /\ HoldInv(l)' /\ LaunchInv(l)' /\ AccountInv(l)' /\ phase'[l] = "closing"
  BY <1>1, Closes
<1>4. TypeOK'
  BY <1>1 DEF SpendInv, TypeOK, AccountType, Phases
<1>5. OnlyAt(l)
  BY <1>1 DEF OnlyAt, SameAt, SpendInv, TypeOK, AccountType
<1>6. CleanInv(l)'
  BY <1>1, <1>2, <1>3 DEF LeaseInv, CleanInv, Over
<1>7. RevokeInv(l)'
  BY <1>1, <1>2, <1>3 DEF LeaseInv, RevokeInv, Over
<1> QED
  BY <1>1, <1>3, <1>4, <1>5, <1>6, <1>7, OneLease DEF LeaseInv

LEMMA ForgetsIsSound ==
    ASSUME SpendInv, NEW l \in Leases, Forgets(l)
    PROVE  Sound
<1>1. /\ phase[l] \in {"closing", "final"} /\ phase' = [phase EXCEPT ![l] = "lost"]
      /\ statement' = [statement EXCEPT ![l] = NoStatement]
      /\ \A who \in Callers : revoke[l][who].at # "draining"
      /\ UNCHANGED <<bill, excess, boot, row, agent, launch, cleaning, holds, issue, revoke, day>>
  BY DEF Forgets, ForgetAccount, Move, runner
<1>2. LeaseInv(l) /\ phase'[l] = "lost" /\ statement'[l] = NoStatement
  BY <1>1, Typed DEF SpendInv, TypeOK, AccountType
<1>3. TypeOK'
  BY <1>1 DEF SpendInv, TypeOK, AccountType, Phases
<1>4. OnlyAt(l)
  BY <1>1 DEF OnlyAt, SameAt, SpendInv, TypeOK, AccountType
<1>5. RowInv(l)' /\ HoldInv(l)' /\ LaunchInv(l)' /\ AccountInv(l)'
  BY <1>1, <1>2 DEF LeaseInv, RowInv, HoldInv, LaunchInv, AccountInv, Over
<1>6. CleanInv(l)' /\ RevokeInv(l)'
  BY <1>1, <1>2 DEF LeaseInv, CleanInv, RevokeInv, Over
<1> QED
  BY <1>1, <1>3, <1>4, <1>5, <1>6, OneLease DEF LeaseInv

LEMMA BilledIsSound ==
    ASSUME SpendInv, NEW l \in Leases, Billed(l)
    PROVE  Sound
<1>1. PICK more \in 1 .. CostCap + MaxExcess, over \in 0 .. MaxExcess :
        /\ bill[l] + more <= CostCap + excess[l] + over
        /\ bill' = [bill EXCEPT ![l] = bill[l] + more]
        /\ excess' = [excess EXCEPT ![l] = excess[l] + over]
  BY DEF Billed
<1>2. /\ l \in holds /\ phase[l] \in {"open", "closing"}
      /\ UNCHANGED <<phase, statement, boot, row, agent, launch, cleaning, holds, issue, revoke, day>>
  BY DEF Billed, runner
<1>3. /\ LeaseInv(l) /\ bill[l] \in Nat /\ excess[l] \in Nat /\ more \in Nat /\ over \in Nat
      /\ CostCap \in Nat
  BY <1>1, Typed, Bounds, SpendAssumption
<1>4. TypeOK'
  <2>1. bill[l] + more \in Nat /\ excess[l] + over \in Nat
    BY <1>3
  <2> QED
    BY <1>1, <1>2, <2>1 DEF SpendInv, TypeOK, AccountType
<1>5. OnlyAt(l)
  BY <1>1, <1>2 DEF OnlyAt, SameAt, SpendInv, TypeOK, AccountType
<1>6. bill'[l] = bill[l] + more /\ excess'[l] = excess[l] + over
  BY <1>1 DEF SpendInv, TypeOK, AccountType
<1>7. OpenRow(row[l]) /\ agent[l] # "ENDED" /\ row[l].boot # 0 /\ ~Over(l)
  BY <1>2, <1>3 DEF LeaseInv, HoldInv, RowInv, Over
<1>8. RowInv(l)' /\ HoldInv(l)' /\ LaunchInv(l)'
  BY <1>2, <1>3, <1>7 DEF LeaseInv, RowInv, HoldInv, LaunchInv, Over, OpenRow
<1>9. CleanInv(l)' /\ RevokeInv(l)'
  BY <1>2, <1>3, <1>7 DEF LeaseInv, CleanInv, RevokeInv, Over
<1>10. AccountInv(l)'
  BY <1>1, <1>2, <1>3, <1>6 DEF LeaseInv, AccountInv
<1>11. \A k \in Leases : LeaseInv(k)'
  <2> SUFFICES ASSUME NEW k \in Leases PROVE LeaseInv(k)'
    OBVIOUS
  <2>1. CASE k = l
    BY <1>8, <1>9, <1>10, <2>1 DEF LeaseInv
  <2>2. CASE k # l
    BY <1>5, <2>2, SameIsSound DEF OnlyAt, SpendInv
  <2> QED
    BY <2>1, <2>2
<1>12. BilledStep
  <2> SUFFICES ASSUME NEW k \in Leases, bill'[k] > bill[k]
               PROVE  OpenRow(row[k]) /\ agent[k] # "ENDED"
    BY DEF BilledStep
  <2>1. k = l
    BY <1>5 DEF OnlyAt, SameAt, SpendInv, TypeOK, AccountType
  <2> QED
    BY <1>7, <2>1
<1> QED
  BY <1>4, <1>11, <1>12 DEF Sound, SpendInv

LEMMA GatewayRestartsIsSound ==
    ASSUME SpendInv, GatewayRestarts
    PROVE  Sound
<1>1. /\ boot < MaxBoots /\ boot' = boot + 1
      /\ phase' = [l \in Leases |-> IF phase[l] = "none" THEN "none" ELSE "lost"]
      /\ statement' = [l \in Leases |-> NoStatement]
      /\ UNCHANGED <<bill, excess, row, agent, launch, cleaning, holds, day>>
  BY DEF GatewayRestarts, LoseAll, runner
<1>2. /\ issue' = [l \in Leases |-> IF issue[l] \in {"sent", "granted", "refused"} THEN "lost"
                                    ELSE IF issue[l] = "late" THEN "none" ELSE issue[l]]
      /\ revoke' = [l \in Leases |-> [who \in Callers |->
            IF Pending(revoke[l][who]) THEN [revoke[l][who] EXCEPT !.at = "lost"] ELSE revoke[l][who]]]
  BY DEF GatewayRestarts
<1>3. boot' \in 1 .. MaxBoots
  BY <1>1, Bounds DEF SpendInv, TypeOK
<1>4. ASSUME NEW l \in Leases, NEW who \in Callers
      PROVE  /\ revoke'[l][who] \in Calls
             /\ \/ revoke'[l][who] = revoke[l][who] /\ revoke[l][who].at # "draining"
                \/ revoke'[l][who].at = "lost" /\ revoke[l][who].at # "none"
  <2>1. revoke[l][who] \in Calls
    BY DEF SpendInv, TypeOK
  <2>2. CASE Pending(revoke[l][who])
    <3>1. revoke'[l][who] = [revoke[l][who] EXCEPT !.at = "lost"]
      BY <1>2, <2>2
    <3> QED
      BY <2>1, <2>2, <3>1 DEF Calls, Pending
  <2>3. CASE ~Pending(revoke[l][who])
    BY <1>2, <2>1, <2>3 DEF Pending
  <2> QED
    BY <2>2, <2>3
<1>5. revoke' \in [Leases -> [Callers -> Calls]]
  BY <1>2, <1>4
<1>6. TypeOK'
  <2>1. phase' \in [Leases -> Phases] /\ statement' \in [Leases -> Nat \union {NoStatement}]
    BY <1>1 DEF Phases
  <2>2. issue' \in [Leases -> {"none", "sent", "granted", "refused", "lost", "late"}]
    BY <1>2 DEF SpendInv, TypeOK
  <2> QED
    BY <1>1, <1>3, <1>5, <2>1, <2>2 DEF SpendInv, TypeOK, AccountType
<1>7. ASSUME NEW l \in Leases
      PROVE  LeaseInv(l)'
  <2>1. LeaseInv(l)
    BY Typed
  <2>2. /\ phase'[l] = IF phase[l] = "none" THEN "none" ELSE "lost"
        /\ statement'[l] = NoStatement /\ issue'[l] # "granted"
        /\ Over(l) => Over(l)'
    BY <1>1, <1>2 DEF SpendInv, TypeOK, Over
  <2>3. RowInv(l)' /\ HoldInv(l)' /\ LaunchInv(l)'
    BY <1>1, <2>1, <2>2 DEF LeaseInv, RowInv, HoldInv, LaunchInv
  <2>4. AccountInv(l)'
    BY <1>1, <2>1, <2>2 DEF LeaseInv, AccountInv
  <2>5. CleanInv(l)'
    BY <1>1, <1>4, <2>1, <2>2, Bounds DEF LeaseInv, CleanInv
  <2>6. RevokeInv(l)'
    BY <1>1, <1>4, <2>1, <2>2 DEF LeaseInv, RevokeInv
  <2> QED
    BY <2>3, <2>4, <2>5, <2>6 DEF LeaseInv
<1>8. BilledStep
  BY <1>1 DEF BilledStep, SpendInv, TypeOK, AccountType
<1> QED
  BY <1>6, <1>7, <1>8 DEF Sound, SpendInv

-----------------------------------------------------------------------------
(* The runner *)

LEMMA AllLeftIs ==
    ASSUME NEW calls \in [Callers -> Calls]
    PROVE  /\ AllLeft(calls) \in [Callers -> Calls]
           /\ \A who \in Callers :
                 \/ AllLeft(calls)[who] = NoCall
                 \/ who = "nobody" /\ \E w \in Callers : Pending(calls[w]) /\ AllLeft(calls)[who] = calls[w]
<1> DEFINE out == {who \in Callers : Pending(calls[who])}
           w == CHOOSE v \in out : TRUE
<1>1. out # {} => w \in out
  OBVIOUS
<1>2. AllLeft(calls) = [who \in Callers |-> IF who = "nobody" /\ out # {} THEN calls[w] ELSE NoCall]
  BY DEF AllLeft
<1>3. out # {} => w \in Callers /\ Pending(calls[w]) /\ calls[w] \in Calls
  BY <1>1
<1> HIDE DEF w, out
<1> QED
  BY <1>2, <1>3, Bounds

LEMMA RunnerRestartsIsSound ==
    ASSUME SpendInv, RunnerRestarts
    PROVE  Sound
<1>1. /\ holds' = {}
      /\ agent' = [l \in Leases |-> IF agent[l] \in {"SPAWNING", "RUNNING"} THEN "CANCELLING" ELSE agent[l]]
      /\ launch' = [l \in Leases |-> "none"]
      /\ cleaning' = [l \in Leases |-> [c \in Cleaners |-> "none"]]
      /\ issue' = [l \in Leases |-> IF issue[l] \in {"sent", "late"} THEN "late" ELSE "none"]
      /\ revoke' = [l \in Leases |-> AllLeft(revoke[l])]
      /\ UNCHANGED <<phase, bill, excess, statement, boot, row, day>>
  BY DEF RunnerRestarts, gateway, accountVars
<1>2. ASSUME NEW l \in Leases
      PROVE  /\ revoke'[l] \in [Callers -> Calls]
             /\ \A who \in Callers :
                   \/ revoke'[l][who] = NoCall
                   \/ who = "nobody" /\ \E w \in Callers : Pending(revoke[l][w]) /\ revoke'[l][who] = revoke[l][w]
  <2>1. revoke[l] \in [Callers -> Calls] /\ revoke'[l] = AllLeft(revoke[l])
    BY <1>1 DEF SpendInv, TypeOK
  <2> QED
    BY <2>1, AllLeftIs
<1>3. TypeOK'
  <2>1. revoke' \in [Leases -> [Callers -> Calls]]
    BY <1>1, <1>2
  <2> QED
    BY <1>1, <2>1 DEF SpendInv, TypeOK, AccountType
<1>4. ASSUME NEW l \in Leases
      PROVE  LeaseInv(l)'
  <2>1. LeaseInv(l)
    BY Typed
  <2>2. /\ agent'[l] = IF agent[l] \in {"SPAWNING", "RUNNING"} THEN "CANCELLING" ELSE agent[l]
        /\ launch'[l] = "none" /\ l \notin holds' /\ issue'[l] # "granted"
        /\ \A c \in Cleaners : cleaning'[l][c] = "none"
    BY <1>1
  <2>3. RowInv(l)' /\ HoldInv(l)' /\ LaunchInv(l)' /\ AccountInv(l)'
    BY <1>1, <2>1, <2>2 DEF LeaseInv, RowInv, HoldInv, LaunchInv, AccountInv, Over
  <2>4. CleanInv(l)'
    <3>1. \A c \in Cleaners : revoke'[l][c].at = "none"
      BY <1>2, Bounds
    <3> QED
      BY <2>2, <3>1 DEF CleanInv
  <2>5. RevokeInv(l)'
    BY <1>1, <1>2, <2>1, Bounds DEF LeaseInv, RevokeInv, Pending, Over
  <2> QED
    BY <2>3, <2>4, <2>5 DEF LeaseInv
<1>5. BilledStep
  BY <1>1 DEF BilledStep, SpendInv, TypeOK, AccountType
<1> QED
  BY <1>3, <1>4, <1>5 DEF Sound, SpendInv

\* The start of the runner ends, a day passes, or nothing happens.
LEMMA OtherwiseSound ==
    ASSUME SpendInv, StartupEnds \/ NextDay \/ UNCHANGED vars
    PROVE  Sound
<1>1. /\ UNCHANGED <<phase, bill, excess, statement, boot, row, agent, launch, cleaning, holds, issue, revoke>>
      /\ day' = day \/ (day < MaxDay /\ day' = day + 1)
  BY DEF StartupEnds, NextDay, vars, gateway, runner, accountVars
<1>2. TypeOK'
  <2>1. day' \in 1 .. MaxDay
    BY <1>1, Bounds DEF SpendInv, TypeOK
  <2> QED
    BY <1>1, <2>1 DEF SpendInv, TypeOK, AccountType
<1>3. \A k \in Leases : LeaseInv(k)'
  <2>1. \A k \in Leases : SameAt(k)
    BY <1>1 DEF SameAt
  <2> QED
    BY <2>1, SameIsSound DEF SpendInv
<1>4. BilledStep
  BY <1>1 DEF BilledStep, SpendInv, TypeOK, AccountType
<1> QED
  BY <1>2, <1>3, <1>4 DEF Sound, SpendInv

-----------------------------------------------------------------------------
(* The theorems *)

LEMMA InitIsSound == Init => SpendInv
<1> SUFFICES ASSUME Init PROVE SpendInv
  OBVIOUS
<1>1. TypeOK
  <2>1. AccountType
    BY DEF Init, AccountInit, AccountType, Phases
  <2>2. boot \in 1 .. MaxBoots /\ day \in 1 .. MaxDay
    BY SpendAssumption DEF Init
  <2>3. row \in [Leases -> Rows] /\ revoke \in [Leases -> [Callers -> Calls]]
    BY Bounds DEF Init
  <2>4. /\ agent \in [Leases -> {"NONE", "SPAWNING", "RUNNING", "CANCELLING", "ENDED"}]
        /\ launch \in [Leases -> {"none", "preparing", "issuing", "starting"}]
        /\ cleaning \in [Leases -> [Cleaners -> {"none", "revoking", "removing", "unsettled"}]]
        /\ holds \subseteq Leases
        /\ issue \in [Leases -> {"none", "sent", "granted", "refused", "lost", "late"}]
    BY DEF Init
  <2> QED
    BY <2>1, <2>2, <2>3, <2>4 DEF TypeOK
<1>2. ASSUME NEW l \in Leases
      PROVE  LeaseInv(l)
  <2>1. /\ phase[l] = "none" /\ bill[l] = 0 /\ excess[l] = 0 /\ statement[l] = NoStatement
        /\ row[l] = NoRow /\ agent[l] = "NONE" /\ launch[l] = "none" /\ l \notin holds /\ issue[l] = "none"
        /\ \A c \in Cleaners : cleaning[l][c] = "none"
        /\ \A who \in Callers : revoke[l][who] = NoCall
    BY DEF Init, AccountInit
  <2>2. RowInv(l) /\ HoldInv(l) /\ LaunchInv(l)
    BY <2>1, Bounds DEF RowInv, HoldInv, LaunchInv
  <2>3. CleanInv(l) /\ RevokeInv(l)
    BY <2>1, Bounds DEF CleanInv, RevokeInv
  <2>4. AccountInv(l)
    BY <2>1, Bounds DEF AccountInv
  <2> QED
    BY <2>2, <2>3, <2>4 DEF LeaseInv
<1> QED
  BY <1>1, <1>2 DEF SpendInv

LEMMA StepIsSound ==
    ASSUME SpendInv, [Next]_vars
    PROVE  Sound
<1>1. ASSUME NEW l \in Leases, Spawn(l) \/ Launching(l) \/ Cancel(l) PROVE Sound
  <2>1. (Spawn(l) \/ LaunchFails(l) \/ LaunchStops(l) \/ IssueSent(l)) => Sound
    BY SpawnIsSound, LaunchFailsIsSound, LaunchStopsIsSound, IssueSentIsSound
  <2>2. (Granted(l) \/ Refused(l) \/ IssueFails(l)) => Sound
    BY GrantedIsSound, RefusedIsSound, IssueFailsIsSound
  <2>3. (Starts(l) \/ StartFails(l) \/ Cancel(l)) => Sound
    BY StartsIsSound, StartFailsIsSound, CancelIsSound
  <2> QED
    BY <1>1, <2>1, <2>2, <2>3 DEF Launching
<1>2. ASSUME NEW l \in Leases, NEW c \in Cleaners, Cleaning(l, c) PROVE Sound
  <2>1. (CleanupStarts(l, c) \/ CleanupSettles(l, c) \/ CleanupUnanswered(l, c)) => Sound
    BY CleanupStartsIsSound, CleanupSettlesIsSound, CleanupUnansweredIsSound
  <2>2. (CleanupEnds(l, c) \/ RemovalFails(l, c)) => Sound
    BY CleanupEndsIsSound, RemovalFailsIsSound
  <2> QED
    BY <1>2, <2>1, <2>2 DEF Cleaning
<1>3. ASSUME NEW l \in Leases, Prune(l) \/ GatewayIssues(l) \/ GatewayRefuses(l) PROVE Sound
  BY <1>3, PruneIsSound, GatewayIssuesIsSound, GatewayRefusesIsSound
<1>4. ASSUME NEW l \in Leases, NEW who \in Callers, Answering(l, who) PROVE Sound
  BY <1>4, RevokeUnknownIsSound, RevokeArrivesIsSound, RevokeAnsweredIsSound DEF Answering
<1>5. ASSUME NEW l \in Leases, AnswerDropped(l) \/ Billed(l) \/ Expires(l) \/ Forgets(l) PROVE Sound
  BY <1>5, AnswerDroppedIsSound, BilledIsSound, ExpiresIsSound, ForgetsIsSound
<1>6. (GatewayRestarts \/ RunnerRestarts) => Sound
  BY GatewayRestartsIsSound, RunnerRestartsIsSound
<1>7. (StartupEnds \/ NextDay \/ UNCHANGED vars) => Sound
  BY OtherwiseSound
<1> QED
  BY <1>1, <1>2, <1>3, <1>4, <1>5, <1>6, <1>7 DEF Next

\* Through lost answers, issues carried out late, overlapping cleanups and restarts on both sides, a
\* run that has ended has a closed row, and a closed row charges all that was billed, or all but what
\* providers billed beyond the reservations (cleanup, settle, releaseRefusedIssue, launch).
THEOREM LedgerCoversTheSpend == Spec => []SpendIsCovered
<1>1. SpendInv => SpendIsCovered
  <2> SUFFICES ASSUME SpendInv, NEW l \in Leases
               PROVE  /\ agent[l] = "ENDED" => ~OpenRow(row[l])
                      /\ row[l].state \in {"settled", "released"} => bill[l] <= row[l].charged
                      /\ row[l].state = "unreconciled" => bill[l] <= row[l].charged + excess[l]
    BY DEF SpendIsCovered
  <2>1. LeaseInv(l) /\ row[l].charged \in Nat
    BY Typed
  <2> QED
    BY <2>1 DEF LeaseInv, RowInv, AccountInv
<1>2. SpendInv /\ [Next]_vars => SpendInv'
  BY StepIsSound DEF Sound
<1> QED
  BY InitIsSound, <1>1, <1>2, PTL DEF Spec

\* Nothing is billed to the lease of an agent that has ended or whose row is closed: the ledger is
\* read after the last charge (cleanup, failLaunch).
THEOREM NoChargeAfterTheLedger == Spec => BilledOnlyWhileOpen
<1>1. SpendInv /\ [Next]_vars => SpendInv' /\ BilledStep
  BY StepIsSound DEF Sound
<1>2. BilledStep => \A l \in Leases : bill'[l] > bill[l] => OpenRow(row[l]) /\ agent[l] # "ENDED"
  BY DEF BilledStep
<1> QED
  BY InitIsSound, <1>1, <1>2, PTL DEF Spec, BilledOnlyWhileOpen

\* The statement the runner reads is all that was billed and stays so: whatever the runner does with
\* its calls, no request is billed to an account that is finished (revoke, settlementFor).
THEOREM StatementsStand == Spec => []StatementIsBill
<1>1. SpendInv => StatementIsBill
  BY DEF SpendInv, LeaseInv, AccountInv, StatementIsBill
<1>2. SpendInv /\ [Next]_vars => SpendInv'
  BY StepIsSound DEF Sound
<1> QED
  BY InitIsSound, <1>1, <1>2, PTL DEF Spec

=============================================================================
