---------------------- MODULE WorkspaceLifecycleProofs ----------------------
(***************************************************************************)
(* Theorems about WorkspaceLifecycle for every number of workspaces,       *)
(* clients and slots, and every choice of requests and events.             *)
(*                                                                         *)
(* First part: every variable keeps its type; while the server listens     *)
(* every step that gives a workspace a counted status finds a free slot of *)
(* its owner in the state it starts from, whatever an earlier check of the *)
(* same request saw; and, without background operations, a request that    *)
(* took a mutation lease stays counted until it releases it.  The lemmas   *)
(* about the statements of WorkspaceStore come before them.                *)
(*                                                                         *)
(* Second part, what the requests of a workspace leave behind: nobody      *)
(* abandons a record that is being created, a quarantined workspace only   *)
(* comes back through a new container, no executor and no directory of a   *)
(* closed workspace stays without an owner, what is offered for recovery   *)
(* still has its checkout, and auto-close takes no work that is on no      *)
(* remote.  It begins with what every action does, field by field, to the  *)
(* rows and to the job of its actor; the proofs rest on that and expand no *)
(* statement of the store.                                                 *)
(***************************************************************************)
EXTENDS WorkspaceLifecycle, FiniteSetTheorems, TLAPS

-----------------------------------------------------------------------------
(* What the statements of WorkspaceStore make of one row *)

\* The counters of a row are natural numbers, and stay so.
LEMMA CountsAreNat ==
    ASSUME NEW r \in Rows
    PROVE  /\ r.locks + 1 \in Nat /\ r.gen + 1 \in Nat
           /\ (IF r.locks = 0 THEN 0 ELSE r.locks - 1) \in Nat
<1>1. r.locks \in Nat /\ r.gen \in Nat
  BY DEF Rows
<1> QED
  BY <1>1

\* The statements that take or release a mutation lease leave a row a row.
LEMMA LeaseStatements ==
    ASSUME NEW r \in Rows
    PROVE  Leased(r) \in Rows /\ Locked(r) \in Rows /\ Unleased(r) \in Rows
<1> DEFINE more == r.locks + 1
           fewer == IF r.locks = 0 THEN 0 ELSE r.locks - 1
           until == HoldDeadline(r)
           after == IF r.locks <= 1 THEN "none" ELSE r.lock
<1>1. until \in {"none", "held", "elapsed"} /\ after \in {"none", "held", "elapsed"}
  BY DEF HoldDeadline, Rows
<1>2. more \in Nat /\ fewer \in Nat
  BY CountsAreNat
<1>3. /\ Leased(r) = [r EXCEPT !.locks = more, !.lock = until, !.leaseDue = FALSE]
      /\ Locked(r) = [r EXCEPT !.locks = more, !.lock = "held"]
      /\ Unleased(r) = [r EXCEPT !.locks = fewer, !.lock = after]
  BY DEF Leased, Locked, Unleased
<1> HIDE DEF more, fewer, until, after
<1>4. Leased(r) \in Rows
  BY <1>1, <1>2, <1>3 DEF Rows
<1>5. Locked(r) \in Rows
  BY <1>2, <1>3 DEF Rows
<1>6. Unleased(r) \in Rows
  BY <1>1, <1>2, <1>3 DEF Rows
<1> QED
  BY <1>4, <1>5, <1>6

\* The two claims leave a row a row.
LEMMA ClaimStatements ==
    ASSUME NEW r \in Rows
    PROVE  Claimed(r) \in Rows /\ AutoClaimed(r) \in Rows
<1> DEFINE next == r.gen + 1
<1>1. next \in Nat /\ "REAPING" \in Statuses
  BY CountsAreNat DEF Statuses
<1>2. AutoClaimed(r) = [r EXCEPT !.status = "REAPING", !.gen = next]
  BY DEF AutoClaimed
<1> HIDE DEF next
<1>3. AutoClaimed(r) \in Rows
  BY <1>1, <1>2 DEF Rows
<1>4. Claimed(r) \in Rows
  <2> DEFINE q == AutoClaimed(r)
             none == 0
  <2>1. Claimed(r) = [q EXCEPT !.locks = none, !.lock = "none"]
    BY DEF Claimed, AutoClaimed
  <2>2. none \in Nat
    OBVIOUS
  <2> HIDE DEF q, none
  <2>3. q \in Rows
    BY <1>3 DEF q
  <2> QED
    BY <2>1, <2>2, <2>3 DEF Rows
<1> QED
  BY <1>3, <1>4

\* The other statements leave a row a row.
LEMMA OtherStatements ==
    ASSUME NEW r \in Rows
    PROVE  /\ Activated(r) \in Rows /\ Touched(r) \in Rows /\ MarkedRecoverable(r) \in Rows
           /\ Deferred(r) \in Rows /\ CloseFailed(r) \in Rows /\ Closed(r) \in Rows
           /\ Quarantined(r) \in Rows
<1> USE DEF Rows, Statuses
<1>1. Activated(r) \in Rows /\ Touched(r) \in Rows /\ MarkedRecoverable(r) \in Rows
  BY DEF Activated, Touched, MarkedRecoverable
<1>2. Deferred(r) \in Rows /\ CloseFailed(r) \in Rows /\ Closed(r) \in Rows
  BY DEF Deferred, CloseFailed, Closed
<1>3. Quarantined(r) \in Rows
  BY DEF Quarantined
<1> QED
  BY <1>1, <1>2, <1>3

LEMMA NamedRow ==
    ASSUME NEW r \in Rows, NEW b \in BOOLEAN
    PROVE  [r EXCEPT !.named = b] \in Rows
  BY DEF Rows

LEMMA OpenedRow ==
    ASSUME NEW r \in Rows
    PROVE  [r EXCEPT !.status = "ACTIVE", !.named = TRUE] \in Rows
<1> DEFINE n == [r EXCEPT !.named = TRUE]
<1>1. n \in Rows
  BY NamedRow
<1>2. [n EXCEPT !.status = "ACTIVE"] \in Rows
  <2> HIDE DEF n
  <2> QED
    BY <1>1 DEF Rows, Statuses
<1>3. [n EXCEPT !.status = "ACTIVE"] = [r EXCEPT !.status = "ACTIVE", !.named = TRUE]
  BY DEF Rows
<1> QED
  BY <1>2, <1>3

\* Time moves one flag of a row.
LEMMA TimedRows ==
    ASSUME NEW r \in Rows
    PROVE  /\ [r EXCEPT !.leaseDue = TRUE] \in Rows /\ [r EXCEPT !.hard = "passed"] \in Rows
           /\ [r EXCEPT !.hard = "overrun"] \in Rows /\ [r EXCEPT !.lock = "elapsed"] \in Rows
           /\ [r EXCEPT !.windowDue = TRUE] \in Rows
<1>1. [r EXCEPT !.leaseDue = TRUE] \in Rows /\ [r EXCEPT !.windowDue = TRUE] \in Rows
  BY DEF Rows
<1>2. [r EXCEPT !.hard = "passed"] \in Rows /\ [r EXCEPT !.hard = "overrun"] \in Rows
  BY DEF Rows
<1>3. [r EXCEPT !.lock = "elapsed"] \in Rows
  BY DEF Rows
<1> QED
  BY <1>1, <1>2, <1>3

LEMMA NewRows == NoRow \in Rows /\ NewRow \in Rows
  BY DEF NoRow, NewRow, Rows, Statuses

-----------------------------------------------------------------------------
(* What a statement does to the mutation leases of its row *)

\* The holders of a lease on r are not affected by its becoming q.
KeepsLeases(r, q) == /\ q.gen = r.gen /\ q.locks = r.locks
                     /\ q.lock = r.lock /\ q.hard = r.hard

\* One holder more, one holder less, and no holder left: what the three kinds of statement do.
AddsLease(r, q)  == /\ q.gen = r.gen /\ q.locks = r.locks + 1 /\ q.hard = r.hard
                    /\ q.lock = "held" \/ (q.lock = "elapsed" /\ r.hard = "overrun")
DropsLease(r, q) == /\ q.gen = r.gen /\ q.locks = (IF r.locks = 0 THEN 0 ELSE r.locks - 1)
                    /\ q.lock = (IF r.locks <= 1 THEN "none" ELSE r.lock) /\ q.hard = r.hard
FencesAll(r, q)  == q.gen = r.gen + 1 /\ q.hard \in {r.hard, "ahead"}

LEMMA LeaseEffects ==
    ASSUME NEW r \in Rows
    PROVE  /\ AddsLease(r, Leased(r)) /\ AddsLease(r, Locked(r)) /\ DropsLease(r, Unleased(r))
           /\ FencesAll(r, Claimed(r)) /\ FencesAll(r, AutoClaimed(r))
           /\ KeepsLeases(r, Activated(r)) /\ KeepsLeases(r, Touched(r))
           /\ KeepsLeases(r, MarkedRecoverable(r)) /\ KeepsLeases(r, Deferred(r))
           /\ KeepsLeases(r, CloseFailed(r)) /\ KeepsLeases(r, Closed(r))
           /\ KeepsLeases(r, Quarantined(r))
<1>1. AddsLease(r, Leased(r)) /\ AddsLease(r, Locked(r))
  BY DEF AddsLease, Leased, Locked, HoldDeadline, Holdable, Rows
<1>2. DropsLease(r, Unleased(r))
  BY DEF DropsLease, Unleased, Rows
<1>3. FencesAll(r, Claimed(r)) /\ FencesAll(r, AutoClaimed(r))
  BY DEF FencesAll, Claimed, AutoClaimed, Rows
<1>4. /\ KeepsLeases(r, Activated(r)) /\ KeepsLeases(r, Touched(r))
      /\ KeepsLeases(r, MarkedRecoverable(r)) /\ KeepsLeases(r, Deferred(r))
  BY DEF KeepsLeases, Activated, Touched, MarkedRecoverable, Deferred, Rows
<1>5. /\ KeepsLeases(r, CloseFailed(r)) /\ KeepsLeases(r, Closed(r))
      /\ KeepsLeases(r, Quarantined(r))
  BY DEF KeepsLeases, CloseFailed, Closed, Quarantined, Rows
<1> QED
  BY <1>1, <1>2, <1>3, <1>4, <1>5

-----------------------------------------------------------------------------
(* What a statement does to the status of its row *)

LEMMA StatusEffects ==
    ASSUME NEW r \in Rows
    PROVE  /\ Leased(r).status = r.status /\ Locked(r).status = r.status
           /\ Unleased(r).status = r.status /\ Touched(r).status = r.status
           /\ Deferred(r).status = r.status
           /\ Claimed(r).status = "REAPING" /\ AutoClaimed(r).status = "REAPING"
           /\ Activated(r).status = "ACTIVE"
           /\ MarkedRecoverable(r).status = "EXPIRED_RECOVERABLE"
           /\ CloseFailed(r).status = "EXPIRED_RECOVERABLE" /\ Closed(r).status = "CLOSED"
           /\ Quarantined(r).status = "NETWORK_QUARANTINED"
<1>1. /\ Leased(r).status = r.status /\ Locked(r).status = r.status
      /\ Unleased(r).status = r.status
  BY DEF Leased, Locked, Unleased, Rows
<1>2. /\ Touched(r).status = r.status /\ Deferred(r).status = r.status
      /\ Claimed(r).status = "REAPING" /\ AutoClaimed(r).status = "REAPING"
  BY DEF Touched, Deferred, Claimed, AutoClaimed, Rows
<1>3. /\ Activated(r).status = "ACTIVE" /\ MarkedRecoverable(r).status = "EXPIRED_RECOVERABLE"
      /\ CloseFailed(r).status = "EXPIRED_RECOVERABLE"
  BY DEF Activated, MarkedRecoverable, CloseFailed, Rows
<1>4. Closed(r).status = "CLOSED" /\ Quarantined(r).status = "NETWORK_QUARANTINED"
  BY DEF Closed, Quarantined, Rows
<1> QED
  BY <1>1, <1>2, <1>3, <1>4

LEMMA ReleasedStatus ==
    ASSUME NEW r \in Rows, NEW g
    PROVE  Released(r, g).status = r.status /\ Touch(r, g).status = r.status
  BY StatusEffects DEF Released, Touch

-----------------------------------------------------------------------------
(* Types *)

LEMMA IdleIsJob == Idle \in Jobs
<1>1. AnyWorkspace \in Workspaces
  BY WorkspacesAssumption DEF AnyWorkspace
<1> QED
  BY <1>1 DEF Idle, Jobs, Steps, Operations

\* What a request has read of its row, and a new step of a job, are jobs.
LEMMA ReadingIsJob ==
    ASSUME TypeOK, NEW w \in Workspaces, NEW step \in Steps, NEW op \in Operations
    PROVE  Reading(op, step, w) \in Jobs
<1>1. row[w].gen \in Nat /\ row[w].named \in BOOLEAN
  BY DEF TypeOK, Rows
<1> QED
  BY <1>1, IdleIsJob DEF Reading, Jobs

LEMMA JobMoves ==
    ASSUME TypeOK, NEW p \in Actors
    PROVE  /\ \A s \in Steps : Goto(p, s) => job' \in [Actors -> Jobs]
           /\ Done(p) => job' \in [Actors -> Jobs]
           /\ \A j \in Jobs : Start(p, j) => job' \in [Actors -> Jobs]
<1>1. ASSUME NEW s \in Steps, Goto(p, s)  PROVE job' \in [Actors -> Jobs]
  BY <1>1 DEF Goto, TypeOK, Jobs
<1>2. ASSUME Done(p)  PROVE job' \in [Actors -> Jobs]
  BY <1>2, IdleIsJob DEF Done, TypeOK
<1>3. ASSUME NEW j \in Jobs, Start(p, j)  PROVE job' \in [Actors -> Jobs]
  BY <1>3 DEF Start, TypeOK
<1> QED
  BY <1>1, <1>2, <1>3

LEMMA RowMoves ==
    ASSUME TypeOK, NEW w \in Workspaces, NEW r \in Rows, SetRow(w, r)
    PROVE  row' \in [Workspaces -> Rows]
  BY DEF SetRow, TypeOK

LEMMA WorldMoves ==
    ASSUME TypeOK, NEW w \in Workspaces, RemoveBox(w)
    PROVE  box' \in [Workspaces -> BOOLEAN]
  BY DEF RemoveBox, TypeOK

LEMMA ThrowsTyped ==
    ASSUME TypeOK, NEW p, Throws(p)
    PROVE  /\ runner' \in {"up", "boot", "down"} /\ toVisit' \subseteq Workspaces
           /\ limit' = limit /\ drift' = drift
  BY DEF Throws, TypeOK

LEMMA JobFields ==
    ASSUME TypeOK, NEW p \in Actors
    PROVE  /\ job[p].w \in Workspaces /\ job[p].v \in Workspaces /\ job[p] \in Jobs
           /\ row[job[p].w] \in Rows /\ row[job[p].v] \in Rows /\ job[p].gen \in Nat
  BY DEF TypeOK, Jobs

\* A step of a request replaces its place and what it read.
LEMMA NextJobs ==
    ASSUME NEW j \in Jobs, NEW s \in Steps, NEW w \in Workspaces, NEW g \in Nat,
           NEW named \in BOOLEAN, NEW holds \in BOOLEAN
    PROVE  /\ [j EXCEPT !.step = s, !.v = w, !.gen = g, !.named = named] \in Jobs
           /\ [j EXCEPT !.v = w, !.step = s, !.gen = g, !.named = named] \in Jobs
           /\ [j EXCEPT !.step = s, !.holds = holds] \in Jobs
           /\ [j EXCEPT !.step = s, !.gen = g, !.holds = holds, !.named = named] \in Jobs
<1> USE DEF Jobs
<1>1. [j EXCEPT !.step = s, !.v = w, !.gen = g, !.named = named] \in Jobs
  OBVIOUS
<1>2. [j EXCEPT !.v = w, !.step = s, !.gen = g, !.named = named] \in Jobs
  OBVIOUS
<1>3. [j EXCEPT !.step = s, !.holds = holds] \in Jobs
  OBVIOUS
<1>4. [j EXCEPT !.step = s, !.gen = g, !.holds = holds, !.named = named] \in Jobs
  OBVIOUS
<1> QED
  BY <1>1, <1>2, <1>3, <1>4

LEMMA ReleasedTyped ==
    ASSUME NEW r \in Rows, NEW g
    PROVE  Released(r, g) \in Rows /\ Touch(r, g) \in Rows
  BY LeaseStatements, OtherStatements DEF Released, Touch

-----------------------------------------------------------------------------

LEMMA TimeTyped ==
    ASSUME TypeOK, NEW w \in Workspaces, TimePasses(w) \/ StrayRemovalLands(w)
    PROVE  TypeOK'
<1>1. CASE LeaseElapses(w)
  <2>1. SetRow(w, [row[w] EXCEPT !.leaseDue = TRUE]) /\ UNCHANGED <<world, job, environment>>
    BY <1>1 DEF LeaseElapses, SetRow
  <2>2. [row[w] EXCEPT !.leaseDue = TRUE] \in Rows
    BY TimedRows DEF TypeOK
  <2> QED
    BY <2>1, <2>2, RowMoves DEF TypeOK, world, environment
<1>2. CASE WallDeadlinePasses(w)
  <2>1. SetRow(w, [row[w] EXCEPT !.hard = "passed"]) /\ UNCHANGED <<world, job, environment>>
    BY <1>2 DEF WallDeadlinePasses, SetRow
  <2>2. [row[w] EXCEPT !.hard = "passed"] \in Rows
    BY TimedRows DEF TypeOK
  <2> QED
    BY <2>1, <2>2, RowMoves DEF TypeOK, world, environment
<1>3. CASE WallDeadlineOverruns(w)
  <2>1. SetRow(w, [row[w] EXCEPT !.hard = "overrun"]) /\ UNCHANGED <<world, job, environment>>
    BY <1>3 DEF WallDeadlineOverruns, SetRow
  <2>2. [row[w] EXCEPT !.hard = "overrun"] \in Rows
    BY TimedRows DEF TypeOK
  <2> QED
    BY <2>1, <2>2, RowMoves DEF TypeOK, world, environment
<1>4. CASE LockElapses(w)
  <2>1. SetRow(w, [row[w] EXCEPT !.lock = "elapsed"]) /\ UNCHANGED <<world, job, environment>>
    BY <1>4 DEF LockElapses, SetRow
  <2>2. [row[w] EXCEPT !.lock = "elapsed"] \in Rows
    BY TimedRows DEF TypeOK
  <2> QED
    BY <2>1, <2>2, RowMoves DEF TypeOK, world, environment
<1>5. CASE WindowElapses(w)
  <2>1. SetRow(w, [row[w] EXCEPT !.windowDue = TRUE]) /\ UNCHANGED <<world, job, environment>>
    BY <1>5 DEF WindowElapses, SetRow
  <2>2. [row[w] EXCEPT !.windowDue = TRUE] \in Rows
    BY TimedRows DEF TypeOK
  <2> QED
    BY <2>1, <2>2, RowMoves DEF TypeOK, world, environment
<1>6. CASE StrayRemovalLands(w)
  BY <1>6, WorldMoves DEF StrayRemovalLands, TypeOK, environment
<1> QED
  BY <1>1, <1>2, <1>3, <1>4, <1>5, <1>6 DEF TimePasses

LEMMA ExpiryClaimTyped ==
    ASSUME TypeOK, NEW p \in Actors, NEW v \in Workspaces, NEW j \in Jobs, ExpiryClaim(p, v, j)
    PROVE  TypeOK'
<1> DEFINE gen == row[v].gen + 1
           k == [j EXCEPT !.v = v, !.step = "expire_box", !.gen = gen, !.named = row[v].named]
<1>1. row[v] \in Rows /\ row[v].named \in BOOLEAN /\ "expire_box" \in Steps
  BY DEF TypeOK, Rows, Steps
<1>2. gen \in Nat
  BY <1>1, CountsAreNat
<1>3. k \in Jobs
  <2> HIDE DEF gen
  <2> QED
    BY <1>1, <1>2 DEF Jobs
<1>4. SetRow(v, Claimed(row[v])) /\ Start(p, k) /\ UNCHANGED <<world, environment>>
  BY DEF ExpiryClaim
<1> HIDE DEF k
<1> QED
  BY <1>1, <1>3, <1>4, JobMoves, RowMoves, ClaimStatements DEF TypeOK, world, environment

LEMMA CloseRecordTyped ==
    ASSUME TypeOK, NEW p \in Actors, NEW w \in Workspaces, NEW op \in Operations,
           CloseRecord(p, w, op)
    PROVE  row' \in [Workspaces -> Rows] /\ job' \in [Actors -> Jobs]
<1> DEFINE gen == IF row[w].status = "REAPING" THEN row[w].gen ELSE row[w].gen + 1
           k == [Idle EXCEPT !.op = op, !.step = "stop", !.w = w, !.v = w, !.gen = gen,
                             !.named = row[w].named]
           r == IF row[w].status = "REAPING" THEN row[w] ELSE Claimed(row[w])
<1>1. row[w] \in Rows /\ row[w].named \in BOOLEAN /\ row[w].gen \in Nat /\ "stop" \in Steps
  BY DEF TypeOK, Rows, Steps
<1>2. gen \in Nat /\ r \in Rows
  BY <1>1, CountsAreNat, ClaimStatements
<1>3. SetRow(w, r) /\ Start(p, k)
  BY DEF CloseRecord
<1> HIDE DEF gen, r
<1>4. k \in Jobs
  BY <1>1, <1>2, IdleIsJob DEF Jobs
<1> HIDE DEF k
<1> QED
  BY <1>2, <1>3, <1>4, JobMoves, RowMoves

LEMMA BeginRecoveryTyped ==
    ASSUME TypeOK, NEW p \in Actors, NEW w \in Workspaces, NEW op \in Operations, NEW statuses,
           BeginRecovery(p, w, op, statuses)
    PROVE  TypeOK'
<1> DEFINE recoverable == row[w].status = "EXPIRED_RECOVERABLE"
           k == [Reading(op, "inspect", w) EXCEPT !.holds = recoverable]
           r == IF recoverable THEN Locked(row[w]) ELSE row[w]
<1>1. SetRow(w, r) /\ Start(p, k) /\ UNCHANGED <<world, environment>>
  BY DEF BeginRecovery
<1>2. row[w] \in Rows /\ "inspect" \in Steps
  BY DEF TypeOK, Steps
<1>3. r \in Rows
  BY <1>2, LeaseStatements
<1>4. Reading(op, "inspect", w) \in Jobs /\ recoverable \in BOOLEAN
  BY <1>2, ReadingIsJob
<1>5. k \in Jobs
  <2> HIDE DEF recoverable
  <2> QED
    BY <1>4 DEF Jobs
<1> HIDE DEF k, r
<1> QED
  BY <1>1, <1>3, <1>5, JobMoves, RowMoves DEF TypeOK, world, environment

LEMMA ArrivalsTyped ==
    ASSUME TypeOK, NEW p \in Clients, NEW w \in Workspaces, Arrivals(p, w)
    PROVE  TypeOK'
<1>1. p \in Actors /\ row[w] \in Rows /\ "close" \in Operations /\ "closeFenced" \in Operations
      /\ "recover" \in Operations /\ "renew" \in Operations /\ "export" \in Operations
  BY DEF Actors, TypeOK, Operations, RequestKinds
<1>2. CASE Open(p, w)
  <2> DEFINE k == [Idle EXCEPT !.op = "open", !.step = "capacity", !.w = w, !.v = w]
  <2>1. "open" \in Operations /\ "capacity" \in Steps
    BY DEF Operations, RequestKinds, Steps
  <2>3. k \in Jobs
    BY <2>1, IdleIsJob DEF Jobs
  <2>2. Start(p, k) /\ UNCHANGED <<row, world, environment>>
    BY <1>2 DEF Open
  <2> HIDE DEF k
  <2> QED
    BY <1>1, <2>2, <2>3, JobMoves DEF TypeOK, world, environment
<1>3. CASE Recover(p, w)
  BY <1>1, <1>3, BeginRecoveryTyped DEF Recover
<1>4. CASE Renew(p, w)
  <2>1. CASE BeginRecovery(p, w, "renew", {"EXPIRED_RECOVERABLE"})
    BY <1>1, <2>1, BeginRecoveryTyped
  <2>2. CASE SetRow(w, Activated(row[w])) /\ UNCHANGED <<world, job, environment>>
    BY <1>1, <2>2, OtherStatements, RowMoves DEF TypeOK, world, environment
  <2> QED
    BY <1>4, <2>1, <2>2 DEF Renew
<1>5. CASE Export(p, w)
  <2> DEFINE k == [Reading("export", "export", w) EXCEPT !.holds = TRUE]
  <2>3. Reading("export", "export", w) \in Jobs
    BY <1>1, ReadingIsJob DEF Steps
  <2>1. k \in Jobs
    BY <2>3 DEF Jobs
  <2>2. SetRow(w, Locked(row[w])) /\ Start(p, k) /\ UNCHANGED <<world, environment>>
    BY <1>5 DEF Export
  <2> HIDE DEF k
  <2> QED
    BY <1>1, <2>1, <2>2, LeaseStatements, JobMoves, RowMoves DEF TypeOK, world, environment
<1>6. CASE ExpireOnAccess(p, w)
  <2>1. SetRow(w, MarkedRecoverable(Claimed(row[w])))
    BY <1>6 DEF ExpireOnAccess
  <2>2. row' \in [Workspaces -> Rows]
    BY <1>1, <2>1, ClaimStatements, OtherStatements, RowMoves
  <2> QED
    BY <1>6, <2>2 DEF ExpireOnAccess, TypeOK, Rows, environment
<1>7. CASE Exec(p, w)
  <2>1. PICK op \in ToolCalls : Start(p, Reading(op, "measure", w))
    BY <1>7 DEF Exec
  <2>2. SetRow(w, Touched(row[w])) /\ UNCHANGED <<world, environment>>
    BY <1>7 DEF Exec
  <2>3. Reading(op, "measure", w) \in Jobs
    BY <2>1, ReadingIsJob DEF ToolCalls, Operations, RequestKinds, Steps
  <2> QED
    BY <1>1, <2>1, <2>2, <2>3, OtherStatements, JobMoves, RowMoves DEF TypeOK, world, environment
<1>8. CASE Close(p, w)
  BY <1>1, <1>8, CloseRecordTyped DEF Close, TypeOK, world, environment
<1>9. CASE CloseFenced(p, w)
  BY <1>1, <1>9, CloseRecordTyped DEF CloseFenced, TypeOK, world, environment
<1> QED
  BY <1>2, <1>3, <1>4, <1>5, <1>6, <1>7, <1>8, <1>9 DEF Arrivals

LEMMA FailTyped ==
    ASSUME TypeOK, NEW p \in Actors
    PROVE  /\ FailOpen(p) => row' \in [Workspaces -> Rows] /\ job' \in [Actors -> Jobs]
           /\ Fail(p) \/ FailRecovery(p) =>
                 /\ row' \in [Workspaces -> Rows] /\ job' \in [Actors -> Jobs]
                 /\ runner' \in {"up", "boot", "down"} /\ toVisit' \subseteq Workspaces
                 /\ limit' = limit /\ drift' = drift
<1>1. ASSUME FailOpen(p)  PROVE row' \in [Workspaces -> Rows] /\ job' \in [Actors -> Jobs]
  <2> DEFINE r == row[job[p].w]
             q == IF Fenced(r, job[p].gen, {"CREATING"}) THEN [r EXCEPT !.status = "FAILED"] ELSE r
  <2>1. q \in Rows
    BY JobFields DEF Rows, Statuses
  <2>2. SetRow(job[p].w, q) /\ Goto(p, "abandon")
    BY <1>1, JobFields DEF FailOpen, SetRow, TypeOK
  <2> HIDE DEF q
  <2> QED
    BY <2>1, <2>2, JobFields, JobMoves, RowMoves DEF Steps
<1>2. ASSUME FailRecovery(p)
      PROVE  /\ row' \in [Workspaces -> Rows] /\ job' \in [Actors -> Jobs]
             /\ runner' \in {"up", "boot", "down"} /\ toVisit' \subseteq Workspaces
             /\ limit' = limit /\ drift' = drift
  <2> DEFINE r == row[job[p].w]
             q == IF job[p].holds THEN Released(r, job[p].gen) ELSE r
  <2>1. q \in Rows
    BY JobFields, ReleasedTyped
  <2>2. SetRow(job[p].w, q) /\ Done(p) /\ Throws(p)
    BY <1>2 DEF FailRecovery
  <2> HIDE DEF q
  <2> QED
    BY <2>1, <2>2, JobFields, JobMoves, RowMoves, ThrowsTyped
<1> QED
  BY <1>1, <1>2 DEF Fail, TypeOK, environment

\* A continuation keeps every variable in its type.
LEMMA ContinuesTyped ==
    ASSUME TypeOK, NEW p \in Actors, Continues(p)
    PROVE  TypeOK'
<1> USE JobFields, JobMoves, RowMoves, WorldMoves, ThrowsTyped DEF TypeOK, world, environment
<1>1. CASE ExpireRemoveBox(p)
  BY <1>1, ReleasedTyped, LeaseStatements, OtherStatements DEF ExpireRemoveBox, Steps
<1>2. CASE ExpireMark(p)
  BY <1>2, ReleasedTyped, LeaseStatements, OtherStatements DEF ExpireMark, Steps
<1>3. CASE CapacityExpire(p)
  BY <1>3, ExpiryClaimTyped DEF CapacityExpire, OwnExpirable
<1>4. CASE CapacityCheck(p)
  BY <1>4, ReleasedTyped, LeaseStatements, OtherStatements DEF CapacityCheck, Steps
<1>5. CASE Admit(p)
  <2> DEFINE first == 1
             k == [job[p] EXCEPT !.step = "clone", !.v = job[p].w, !.gen = first, !.named = FALSE]
  <2>3. first \in Nat /\ "clone" \in Steps
    BY DEF Steps
  <2>1. k \in Jobs
    <3> HIDE DEF first
    <3> QED
      BY <2>3, NextJobs
  <2>2. \/ SetRow(job[p].w, NewRow) /\ Start(p, k)
        \/ UNCHANGED row /\ Done(p)
    BY <1>5 DEF Admit
  <2> HIDE DEF k
  <2> QED
    BY <1>5, <2>1, <2>2, NewRows DEF Admit
<1>6. CASE Clone(p)
  BY <1>6, FailTyped DEF Clone, Steps
<1>7. CASE OpenActivate(p)
  <2> DEFINE q == [row[job[p].w] EXCEPT !.status = "ACTIVE", !.named = TRUE]
  <2>1. q \in Rows
    BY OpenedRow
  <2>2. \/ SetRow(job[p].w, q) /\ Done(p)
        \/ UNCHANGED row /\ Goto(p, "undo")
    BY <1>7 DEF OpenActivate
  <2> HIDE DEF q
  <2> QED
    BY <1>7, <2>1, <2>2 DEF OpenActivate, Steps
<1>8. CASE Abandon(p)
  BY <1>8, ReleasedTyped, LeaseStatements, OtherStatements DEF Abandon, Steps
<1>9. CASE CreateRemovesOld(p)
  BY <1>9, ReleasedTyped, LeaseStatements, OtherStatements DEF CreateRemovesOld, Steps
<1>10. CASE Launch(p)
  BY <1>10, ReleasedTyped, LeaseStatements, OtherStatements DEF Launch, Steps
<1>11. CASE LaunchFails(p)
  <2>1. box' \in [Workspaces -> BOOLEAN]
    BY <1>11 DEF LaunchFails
  <2> QED
    BY <1>11, <2>1, FailTyped DEF LaunchFails
<1>12. CASE UndoLaunch(p)
  BY <1>12, FailTyped DEF UndoLaunch
<1>13. CASE InspectReuse(p)
  BY <1>13, ReleasedTyped, LeaseStatements, OtherStatements DEF InspectReuse, Steps
<1>14. CASE InspectRebuild(p)
  BY <1>14, ReleasedTyped, LeaseStatements, OtherStatements DEF InspectRebuild, Steps
<1>15. CASE RemoveStaleBox(p)
  BY <1>15, ReleasedTyped, LeaseStatements, OtherStatements DEF RemoveStaleBox, Steps
<1>16. CASE StatRepository(p)
  BY <1>16, FailTyped DEF StatRepository, Steps
<1>17. CASE RecoverActivate(p)
  <2> DEFINE old == row[job[p].w]
             due == job[p].op = "boot" /\ old.leaseDue
             r == [Activated(old) EXCEPT !.named = TRUE, !.leaseDue = due]
             q == IF job[p].holds THEN Released(r, job[p].gen) ELSE r
  <2>1. due \in BOOLEAN /\ Activated(old) \in Rows
    BY OtherStatements DEF Rows
  <2>2. r \in Rows
    <3> HIDE DEF due
    <3> QED
      BY <2>1 DEF Rows
  <2>3. q \in Rows
    <3> HIDE DEF r
    <3> QED
      BY <2>2, ReleasedTyped
  <2>4. \/ SetRow(job[p].w, q) /\ Done(p)
        \/ UNCHANGED row /\ Goto(p, "undo")
    BY <1>17 DEF RecoverActivate
  <2> HIDE DEF q
  <2> QED
    BY <1>17, <2>3, <2>4 DEF RecoverActivate, Steps
<1>18. CASE RecoverFinish(p)
  BY <1>18, ReleasedTyped, LeaseStatements, OtherStatements DEF RecoverFinish, Steps
<1>19. CASE ExportReturns(p)
  BY <1>19, ReleasedTyped, LeaseStatements, OtherStatements DEF ExportReturns, Steps
<1>20. CASE ExecLease(p)
  <2> DEFINE k == [job[p] EXCEPT !.step = "write", !.holds = TRUE]
  <2>3. "write" \in Steps
    BY DEF Steps
  <2>1. k \in Jobs
    BY <2>3, NextJobs
  <2>2. \/ SetRow(job[p].w, Leased(row[job[p].w])) /\ Start(p, k)
        \/ UNCHANGED row /\ Done(p)
    BY <1>20 DEF ExecLease
  <2> HIDE DEF k
  <2> QED
    BY <1>20, <2>1, <2>2, LeaseStatements DEF ExecLease
<1>21. CASE ExecWrites(p)
  BY <1>21, ReleasedTyped, LeaseStatements, OtherStatements DEF ExecWrites, Steps
<1>22. CASE ExecReturns(p)
  BY <1>22, ReleasedTyped, LeaseStatements, OtherStatements DEF ExecReturns, Steps
<1>23. CASE BackgroundLocks(p)
  <2> DEFINE found == Leasable(row[job[p].w], job[p].gen)
             k == [job[p] EXCEPT !.step = "write", !.holds = found]
             q == IF found THEN Locked(row[job[p].w]) ELSE row[job[p].w]
  <2>1. found \in BOOLEAN /\ "write" \in Steps
    BY DEF Leasable, Fenced, Steps
  <2>2. SetRow(job[p].w, q) /\ Start(p, k)
    BY <1>23 DEF BackgroundLocks
  <2>3. q \in Rows
    BY LeaseStatements
  <2>4. k \in Jobs
    <3> HIDE DEF found
    <3> QED
      BY <2>1, NextJobs
  <2> HIDE DEF k, q
  <2> QED
    BY <1>23, <2>2, <2>3, <2>4 DEF BackgroundLocks
<1>24. CASE BackgroundSettles(p)
  BY <1>24, ReleasedTyped, LeaseStatements, OtherStatements DEF BackgroundSettles, Steps
<1>25. CASE OversizeClose(p)
  <2>1. job[p].op \in Operations
    BY DEF Jobs
  <2> QED
    BY <1>25, <2>1, CloseRecordTyped DEF OversizeClose
<1>26. CASE CloseStopsWork(p)
  BY <1>26, ReleasedTyped, LeaseStatements, OtherStatements DEF CloseStopsWork, Steps
<1>27. CASE CloseStopFails(p)
  <2> DEFINE r == row[job[p].w]
             q == IF Fenced(r, job[p].gen, {"REAPING"}) THEN CloseFailed(r) ELSE r
  <2>1. SetRow(job[p].w, q) /\ CloseThrows(p) /\ UNCHANGED world
    BY <1>27 DEF CloseStopFails
  <2>2. q \in Rows
    BY OtherStatements
  <2> HIDE DEF q
  <2> QED
    BY <2>1, <2>2 DEF CloseThrows
<1>28. CASE CloseRemovesBox(p)
  BY <1>28, ReleasedTyped, LeaseStatements, OtherStatements DEF CloseRemovesBox, Steps, CloseThrows
<1>29. CASE CloseRemovesFiles(p)
  BY <1>29, ReleasedTyped, LeaseStatements, OtherStatements DEF CloseRemovesFiles, Steps, CloseThrows
<1>30. CASE CloseCommits(p)
  BY <1>30, ReleasedTyped, LeaseStatements, OtherStatements DEF CloseCommits, Steps, CloseThrows
<1> QED
  BY <1>1, <1>2, <1>3, <1>4, <1>5, <1>6, <1>7, <1>8, <1>9, <1>10, <1>11, <1>12, <1>13, <1>14, <1>15, <1>16, <1>17, <1>18, <1>19, <1>20, <1>21, <1>22, <1>23, <1>24, <1>25, <1>26, <1>27, <1>28, <1>29, <1>30 DEF Continues

LEMMA DecidingJob ==
    ASSUME NEW j \in Jobs, NEW b \in BOOLEAN
    PROVE  [j EXCEPT !.step = "decide", !.unsaved = b] \in Jobs
<1>1. "decide" \in Steps
  BY DEF Steps
<1> QED
  BY <1>1 DEF Jobs

LEMMA ReaperTyped ==
    ASSUME TypeOK, NEW w \in Workspaces, Reaps(w) \/ ReaperContinues
    PROVE  TypeOK'
<1> USE JobFields, JobMoves, RowMoves, WorldMoves DEF TypeOK, world, environment
<1>1. Reaper \in Actors /\ row[w] \in Rows /\ row[w].gen \in Nat
  BY DEF Actors, Rows
<1>2. CASE ReapExpire(w)
  <2> DEFINE k == [Idle EXCEPT !.op = "reap", !.w = w]
  <2>1. "reap" \in Operations
    BY DEF Operations
  <2>2. k \in Jobs
    BY <2>1, IdleIsJob DEF Jobs
  <2>3. ExpiryClaim(Reaper, w, k)
    BY <1>2 DEF ReapExpire
  <2> HIDE DEF k
  <2> QED
    BY <1>1, <2>2, <2>3, ExpiryClaimTyped
<1>3. CASE ReapWeigh(w)
  <2>1. Reading("reap", "weigh", w) \in Jobs
    BY ReadingIsJob DEF Operations, Steps
  <2> QED
    BY <1>1, <1>3, <2>1 DEF ReapWeigh
<1>4. CASE Quarantine(w)
  <2> DEFINE k == [Reading("quarantine", "sweep", w) EXCEPT !.named = TRUE]
  <2>1. Reading("quarantine", "sweep", w) \in Jobs
    BY ReadingIsJob DEF Operations, Steps
  <2>2. k \in Jobs
    BY <2>1 DEF Jobs
  <2>3. SetRow(w, Quarantined(row[w])) /\ Start(Reaper, k) /\ UNCHANGED <<world, environment>>
    BY <1>4 DEF Quarantine
  <2> HIDE DEF k
  <2> QED
    BY <1>1, <2>2, <2>3, OtherStatements
<1>5. CASE QuarantineRetry(w)
  <2>1. Reading("quarantine", "sweep", w) \in Jobs
    BY ReadingIsJob DEF Operations, Steps
  <2> QED
    BY <1>1, <1>5, <2>1 DEF QuarantineRetry
<1>6. CASE AutoCheck(w)
  <2> DEFINE k == [Reading("autoClose", "check", w) EXCEPT !.holds = TRUE]
  <2>1. Reading("autoClose", "check", w) \in Jobs
    BY ReadingIsJob DEF Operations, Steps
  <2>2. k \in Jobs
    BY <2>1 DEF Jobs
  <2>3. SetRow(w, Locked(row[w])) /\ Start(Reaper, k) /\ UNCHANGED <<world, environment>>
    BY <1>6 DEF AutoCheck
  <2> HIDE DEF k
  <2> QED
    BY <1>1, <2>2, <2>3, LeaseStatements
<1>7. CASE ReapWeighed
  BY <1>1, <1>7 DEF ReapWeighed
<1>8. CASE QuarantineSweep
  BY <1>1, <1>8 DEF QuarantineSweep, Steps
<1>9. CASE QuarantineUnname
  <2> DEFINE v == job[Reaper].w
             named == row[v].named /\ ~job[Reaper].named
             q == [row[v] EXCEPT !.named = named]
  <2>1. v \in Workspaces /\ named \in BOOLEAN
    BY <1>1
  <2>2. q \in Rows
    <3> HIDE DEF named
    <3> QED
      BY <2>1, NamedRow
  <2>3. SetRow(v, q)
    BY <1>9, <2>1 DEF QuarantineUnname, SetRow
  <2> HIDE DEF v, q
  <2> QED
    BY <1>1, <1>9, <2>1, <2>2, <2>3 DEF QuarantineUnname
<1>10. CASE AutoRead
  <2>1. PICK unsaved \in {dirty[job[Reaper].w]} \cup {b \in {TRUE} : "check" \in Events} :
          Start(Reaper, [job[Reaper] EXCEPT !.step = "decide", !.unsaved = unsaved])
    BY <1>10 DEF AutoRead
  <2>2. unsaved \in BOOLEAN
    BY <1>1, <2>1
  <2>3. [job[Reaper] EXCEPT !.step = "decide", !.unsaved = unsaved] \in Jobs
    BY <1>1, <2>2, DecidingJob
  <2> QED
    BY <1>1, <1>10, <2>1, <2>3 DEF AutoRead
<1>11. CASE AutoDecide
  <2> DEFINE v == job[Reaper].w
             next == job[Reaper].gen + 1
             r == Released(row[v], job[Reaper].gen)
             named == r.named
             k == [job[Reaper] EXCEPT !.step = "stop", !.gen = next, !.holds = FALSE,
                                      !.named = named]
  <2>1. v \in Workspaces /\ r \in Rows /\ "stop" \in Steps
    BY <1>1, ReleasedTyped DEF Steps
  <2>2. next \in Nat /\ named \in BOOLEAN
    BY <1>1, <2>1 DEF Rows
  <2>3. k \in Jobs
    <3> HIDE DEF next, named
    <3> QED
      BY <1>1, <2>1, <2>2, NextJobs
  <2>4. /\ \/ SetRow(v, Deferred(r)) /\ Done(Reaper)
           \/ SetRow(v, AutoClaimed(r)) /\ Start(Reaper, k)
           \/ SetRow(v, r) /\ Done(Reaper)
        /\ UNCHANGED <<world, environment>>
    BY <1>11 DEF AutoDecide
  <2> HIDE DEF v, r, k
  <2> QED
    BY <1>1, <2>1, <2>3, <2>4, ClaimStatements, OtherStatements
<1> QED
  BY <1>2, <1>3, <1>4, <1>5, <1>6, <1>7, <1>8, <1>9, <1>10, <1>11 DEF Reaps, ReaperContinues

LEMMA BootTyped ==
    ASSUME TypeOK, NEW w \in Workspaces,
           Boots(w) \/ Crash \/ Restart \/ BootReconciles \/ BootFails
    PROVE  TypeOK'
<1> USE JobFields, JobMoves, RowMoves, WorldMoves, ThrowsTyped DEF TypeOK, world
<1>1. Boot \in Actors /\ row[w] \in Rows
  BY DEF Actors
<1>2. CASE BootQuarantined(w)
  <2> DEFINE q == [row[w] EXCEPT !.named = FALSE]
  <2>1. q \in Rows
    BY <1>1, NamedRow
  <2>2. SetRow(w, q) \/ UNCHANGED row
    BY <1>2 DEF BootQuarantined, SetRow
  <2> HIDE DEF q
  <2> QED
    BY <1>2, <2>1, <2>2 DEF BootQuarantined, Visited
<1>3. CASE BootCloses(w)
  <2>1. "boot" \in Operations
    BY DEF Operations
  <2> QED
    BY <1>1, <1>3, <2>1, CloseRecordTyped DEF BootCloses, Visited
<1>4. CASE BootQuarantines(w)
  <2> DEFINE q == [Quarantined(row[w]) EXCEPT !.named = FALSE]
  <2>1. q \in Rows
    BY <1>1, OtherStatements, NamedRow
  <2>2. SetRow(w, q)
    BY <1>4 DEF BootQuarantines, SetRow
  <2> HIDE DEF q
  <2> QED
    BY <1>4, <2>1, <2>2 DEF BootQuarantines, Visited
<1>5. CASE BootRebuilds(w)
  <2>1. Reading("boot", "inspect", w) \in Jobs
    BY ReadingIsJob DEF Operations, Steps
  <2> QED
    BY <1>1, <1>5, <2>1 DEF BootRebuilds, Visited
<1>6. CASE BootResumes(w)
  BY <1>1, <1>6 DEF BootResumes, Visited
<1>7. CASE Crash
  BY <1>7, IdleIsJob DEF Crash
<1>8. CASE Restart
  BY <1>8 DEF Restart
<1>9. CASE BootReconciles
  BY <1>9 DEF BootReconciles
<1>10. CASE BootFails
  BY <1>10 DEF BootFails
<1> QED
  BY <1>2, <1>3, <1>4, <1>5, <1>6, <1>7, <1>8, <1>9, <1>10 DEF Boots

\* Every variable keeps its type: a row never gets a status, generation or count outside its column.
THEOREM TypeCorrect == Spec => []TypeOK
<1>1. Init => TypeOK
  BY IdleIsJob, NewRows DEF Init, TypeOK
<1>2. TypeOK /\ [Next]_vars => TypeOK'
  <2> SUFFICES ASSUME TypeOK, [Next]_vars  PROVE TypeOK'
    OBVIOUS
  <2>1. CASE UNCHANGED vars
    BY <2>1 DEF vars, TypeOK
  <2>2. CASE FirewallChanges \/ SetQuota
    BY <2>2, BoundsAssumption DEF FirewallChanges, SetQuota, TypeOK, world
  <2>3. ASSUME NEW w \in Workspaces  PROVE Next => TypeOK'
    BY <2>2, <2>3, ArrivalsTyped, ContinuesTyped, ReaperTyped, BootTyped, TimeTyped DEF Next
  <2>4. \E w \in Workspaces : TRUE
    BY WorkspacesAssumption
  <2> QED
    BY <2>1, <2>3, <2>4
<1> QED
  BY <1>1, <1>2, PTL DEF Spec

-----------------------------------------------------------------------------
(* The quota *)

\* The step promised by QuotaRespected.
QuotaStep ==
    \A w \in Workspaces :
        (runner = "up" /\ row[w].status \notin CountedStatuses /\ row'[w].status \in CountedStatuses)
        => SlotFree(w)

\* A step that writes one row needs a slot only if that row enters a counted status.
LEMMA OneRowStep ==
    ASSUME TypeOK, NEW w \in Workspaces, NEW r, SetRow(w, r),
           \/ r.status \notin CountedStatuses
           \/ row[w].status \in CountedStatuses
           \/ runner # "up" \/ SlotFree(w)
    PROVE  QuotaStep
  BY DEF QuotaStep, SetRow, TypeOK

LEMMA NoRowStep == UNCHANGED row => QuotaStep
  BY DEF QuotaStep

LEMMA FailKeepsQuota ==
    ASSUME TypeOK, NEW p \in Actors, FailOpen(p) \/ FailRecovery(p) \/ Fail(p)
    PROVE  QuotaStep
<1> USE JobFields, OneRowStep, NoRowStep, ReleasedStatus
<1>1. CASE FailOpen(p)
  <2> DEFINE r == row[job[p].w]
             q == IF Fenced(r, job[p].gen, {"CREATING"}) THEN [r EXCEPT !.status = "FAILED"] ELSE r
  <2>1. SetRow(job[p].w, q)
    BY <1>1 DEF FailOpen, SetRow, TypeOK
  <2>2. q.status = "FAILED" \/ q.status = row[job[p].w].status
    BY DEF Rows
  <2> HIDE DEF q
  <2> QED
    BY <2>1, <2>2 DEF CountedStatuses
<1>2. CASE FailRecovery(p)
  BY <1>2 DEF FailRecovery
<1> QED
  BY <1>1, <1>2 DEF Fail

LEMMA CloseKeepsQuota ==
    ASSUME TypeOK, NEW p, NEW w \in Workspaces, NEW op, CloseRecord(p, w, op)
    PROVE  QuotaStep
<1>1. row[w] \in Rows
  BY DEF TypeOK
<1> QED
  BY <1>1, OneRowStep, StatusEffects DEF CloseRecord, CountedStatuses

LEMMA ExpiryKeepsQuota ==
    ASSUME TypeOK, NEW p, NEW v \in Workspaces, NEW j, ExpiryClaim(p, v, j)
    PROVE  QuotaStep
<1>1. row[v] \in Rows
  BY DEF TypeOK
<1> QED
  BY <1>1, OneRowStep, StatusEffects DEF ExpiryClaim, CountedStatuses

\* Of the continuations, Admit, RecoverActivate and RecoverFinish look for the slot themselves.
LEMMA ContinuesKeepsQuota ==
    ASSUME TypeOK, NEW p \in Actors, Continues(p)
    PROVE  QuotaStep
<1> USE JobFields, OneRowStep, NoRowStep, ReleasedStatus, StatusEffects
<1>1. CASE \/ ExpireRemoveBox(p) \/ CapacityCheck(p) \/ Abandon(p) \/ CreateRemovesOld(p)
           \/ Launch(p) \/ InspectReuse(p) \/ InspectRebuild(p) \/ RemoveStaleBox(p)
           \/ ExecWrites(p) \/ CloseStopsWork(p) \/ CloseRemovesBox(p) \/ CloseRemovesFiles(p)
  BY <1>1 DEF ExpireRemoveBox, CapacityCheck, Abandon, CreateRemovesOld, Launch, InspectReuse,
              InspectRebuild, RemoveStaleBox, ExecWrites, CloseStopsWork, CloseRemovesBox, CloseRemovesFiles
<1>2. CASE ExpireMark(p)
  BY <1>2, FailKeepsQuota, CloseKeepsQuota, ExpiryKeepsQuota DEF ExpireMark, CountedStatuses
<1>3. CASE CapacityExpire(p)
  BY <1>3, ExpiryKeepsQuota DEF CapacityExpire, OwnExpirable
<1>4. CASE Admit(p)
  BY <1>4, FailKeepsQuota, CloseKeepsQuota, ExpiryKeepsQuota DEF Admit, CountedStatuses
<1>5. CASE Clone(p)
  BY <1>5, FailKeepsQuota, CloseKeepsQuota, ExpiryKeepsQuota DEF Clone, CountedStatuses
<1>6. CASE OpenActivate(p)
  <2> DEFINE q == [row[job[p].w] EXCEPT !.status = "ACTIVE", !.named = TRUE]
  <2>1. \/ SetRow(job[p].w, q) /\ row[job[p].w].status = "CREATING"
        \/ UNCHANGED row
    BY <1>6 DEF OpenActivate, Fenced
  <2> HIDE DEF q
  <2> QED
    BY <2>1 DEF CountedStatuses
<1>7. CASE LaunchFails(p)
  BY <1>7, FailKeepsQuota, CloseKeepsQuota, ExpiryKeepsQuota DEF LaunchFails, CountedStatuses
<1>8. CASE UndoLaunch(p)
  BY <1>8, FailKeepsQuota, CloseKeepsQuota, ExpiryKeepsQuota DEF UndoLaunch, CountedStatuses
<1>9. CASE StatRepository(p)
  BY <1>9, FailKeepsQuota, CloseKeepsQuota, ExpiryKeepsQuota DEF StatRepository, CountedStatuses
<1>10. CASE RecoverActivate(p)
  <2> DEFINE r == [Activated(row[job[p].w]) EXCEPT
                    !.named = TRUE, !.leaseDue = job[p].op = "boot" /\ row[job[p].w].leaseDue]
             q == IF job[p].holds THEN Released(r, job[p].gen) ELSE r
  <2>1. \/ SetRow(job[p].w, q) /\ MayActivate(job[p].w, job[p].gen, RecoverFrom)
        \/ UNCHANGED row
    BY <1>10 DEF RecoverActivate
  <2> HIDE DEF q
  <2> QED
    BY <2>1 DEF MayActivate
<1>11. CASE RecoverFinish(p)
  <2> DEFINE from == IF job[p].op = "renew" THEN RenewFrom ELSE RecoverFrom
             may == job[p].op # "boot" /\ MayActivate(job[p].w, job[p].gen, from)
             r == IF may THEN Activated(row[job[p].w]) ELSE row[job[p].w]
             q == IF job[p].holds THEN Released(r, job[p].gen) ELSE r
  <2>1. SetRow(job[p].w, q)
    BY <1>11 DEF RecoverFinish
  <2>2. CASE may
    <3> HIDE DEF q
    <3> QED
      BY <2>1, <2>2 DEF MayActivate
  <2>3. CASE ~may
    <3>1. q.status = row[job[p].w].status
      BY <2>3
    <3> HIDE DEF q
    <3> QED
      BY <2>1, <3>1
  <2> QED
    BY <2>2, <2>3
<1>12. CASE ExportReturns(p)
  BY <1>12, FailKeepsQuota, CloseKeepsQuota, ExpiryKeepsQuota DEF ExportReturns, CountedStatuses
<1>13. CASE ExecLease(p)
  BY <1>13, FailKeepsQuota, CloseKeepsQuota, ExpiryKeepsQuota DEF ExecLease, CountedStatuses
<1>14. CASE ExecReturns(p)
  <2> DEFINE r == Released(row[job[p].w], job[p].gen)
  <2>1. r \in Rows /\ r.status = row[job[p].w].status
    BY ReleasedTyped
  <2>2. SetRow(job[p].w, r) \/ SetRow(job[p].w, Touch(r, job[p].gen))
    BY <1>14 DEF ExecReturns
  <2> HIDE DEF r
  <2> QED
    BY <2>1, <2>2
<1>15. CASE BackgroundLocks(p)
  BY <1>15, FailKeepsQuota, CloseKeepsQuota, ExpiryKeepsQuota DEF BackgroundLocks, CountedStatuses
<1>16. CASE BackgroundSettles(p)
  BY <1>16, FailKeepsQuota, CloseKeepsQuota, ExpiryKeepsQuota DEF BackgroundSettles, CountedStatuses
<1>17. CASE OversizeClose(p)
  BY <1>17, FailKeepsQuota, CloseKeepsQuota, ExpiryKeepsQuota DEF OversizeClose, CountedStatuses
<1>18. CASE CloseStopFails(p)
  BY <1>18, FailKeepsQuota, CloseKeepsQuota, ExpiryKeepsQuota DEF CloseStopFails, CountedStatuses
<1>19. CASE CloseCommits(p)
  BY <1>19, FailKeepsQuota, CloseKeepsQuota, ExpiryKeepsQuota DEF CloseCommits, CountedStatuses
<1> QED
  BY <1>1, <1>2, <1>3, <1>4, <1>5, <1>6, <1>7, <1>8, <1>9, <1>10, <1>11, <1>12, <1>13, <1>14, <1>15, <1>16, <1>17, <1>18, <1>19 DEF Continues

LEMMA ArrivalsKeepQuota ==
    ASSUME TypeOK, NEW p \in Clients, NEW w \in Workspaces, Arrivals(p, w)
    PROVE  QuotaStep
<1> USE OneRowStep, NoRowStep, StatusEffects
<1>1. row[w] \in Rows
  BY DEF TypeOK
<1>2. ASSUME NEW op, NEW statuses, BeginRecovery(p, w, op, statuses)  PROVE QuotaStep
  BY <1>1, <1>2 DEF BeginRecovery
<1>3. CASE Open(p, w) \/ Recover(p, w) \/ Export(p, w) \/ Exec(p, w)
  BY <1>1, <1>2, <1>3 DEF Open, Recover, Export, Exec
<1>4. CASE Renew(p, w)
  BY <1>1, <1>2, <1>4 DEF Renew, CountedStatuses
<1>5. CASE ExpireOnAccess(p, w)
  BY <1>1, <1>5, ClaimStatements DEF ExpireOnAccess, CountedStatuses
<1>6. CASE Close(p, w) \/ CloseFenced(p, w)
  BY <1>6, CloseKeepsQuota DEF Close, CloseFenced
<1> QED
  BY <1>3, <1>4, <1>5, <1>6 DEF Arrivals

LEMMA TimeKeepsQuota ==
    ASSUME TypeOK, NEW w \in Workspaces, TimePasses(w) \/ StrayRemovalLands(w)
    PROVE  QuotaStep
<1>1. row[w] \in Rows
  BY DEF TypeOK
<1>2. ASSUME NEW v \in Workspaces  PROVE row'[v].status = row[v].status
  BY <1>1 DEF TypeOK, TimePasses, LeaseElapses, WallDeadlinePasses, WallDeadlineOverruns,
              LockElapses, WindowElapses, StrayRemovalLands, Rows
<1> QED
  BY <1>2 DEF QuotaStep

LEMMA ReaperKeepsQuota ==
    ASSUME TypeOK, NEW w \in Workspaces, Reaps(w) \/ ReaperContinues
    PROVE  QuotaStep
<1> USE OneRowStep, NoRowStep, StatusEffects, ReleasedStatus
<1>1. row[w] \in Rows /\ Reaper \in Actors
  BY DEF TypeOK, Actors
<1>2. CASE ReapExpire(w)
  BY <1>2, ExpiryKeepsQuota DEF ReapExpire
<1>3. CASE Quarantine(w)
  BY <1>1, <1>3 DEF Quarantine, CountedStatuses
<1>4. CASE AutoCheck(w)
  BY <1>1, <1>4 DEF AutoCheck
<1>5. CASE QuarantineUnname
  <2>1. ASSUME NEW v \in Workspaces  PROVE row'[v].status = row[v].status
    BY <1>5 DEF QuarantineUnname, TypeOK, Rows
  <2> QED
    BY <2>1 DEF QuotaStep
<1>6. CASE AutoDecide
  <2> DEFINE v == job[Reaper].w
             r == Released(row[v], job[Reaper].gen)
  <2>1. v \in Workspaces /\ r \in Rows /\ r.status = row[v].status
    BY <1>1, JobFields, ReleasedTyped
  <2>2. SetRow(v, Deferred(r)) \/ SetRow(v, AutoClaimed(r)) \/ SetRow(v, r)
    BY <1>6 DEF AutoDecide
  <2> HIDE DEF v, r
  <2> QED
    BY <2>1, <2>2 DEF CountedStatuses
<1>7. CASE ReapWeigh(w) \/ QuarantineRetry(w) \/ ReapWeighed \/ QuarantineSweep \/ AutoRead
  BY <1>7 DEF ReapWeigh, QuarantineRetry, ReapWeighed, QuarantineSweep, AutoRead
<1> QED
  BY <1>2, <1>3, <1>4, <1>5, <1>6, <1>7 DEF Reaps, ReaperContinues

\* start() does not look at the limit: the property speaks of the listening server.
LEMMA BootKeepsQuota ==
    ASSUME TypeOK, NEW w \in Workspaces,
           Boots(w) \/ Crash \/ Restart \/ BootReconciles \/ BootFails
    PROVE  QuotaStep
  BY DEF Boots, BootQuarantined, BootCloses, BootQuarantines, BootRebuilds, BootResumes, Visiting,
         Crash, Restart, BootReconciles, BootFails, QuotaStep

\* While the server listens, a workspace enters a counted status only if its owner had a slot free
\* under the limit of that moment (admit and activateWithLimit check inside the statement that takes
\* the slot; every other transition leaves the counted statuses or stays among them).
THEOREM QuotaTheorem == Spec => QuotaRespected
<1>1. TypeOK /\ [Next]_vars => [QuotaStep]_vars
  <2> SUFFICES ASSUME TypeOK, Next  PROVE QuotaStep
    OBVIOUS
  <2>1. CASE FirewallChanges \/ SetQuota
    BY <2>1, NoRowStep DEF FirewallChanges, SetQuota
  <2>2. ASSUME NEW w \in Workspaces  PROVE QuotaStep
    BY <2>1, <2>2, ArrivalsKeepQuota, ContinuesKeepsQuota, ReaperKeepsQuota, BootKeepsQuota,
       TimeKeepsQuota DEF Next
  <2>3. \E w \in Workspaces : TRUE
    BY WorkspacesAssumption
  <2> QED
    BY <2>2, <2>3
<1> QED
  BY <1>1, TypeCorrect, PTL DEF Spec, QuotaRespected, QuotaStep

-----------------------------------------------------------------------------
(* The mutation lease: the counter of a row never falls below the number of *)
(* requests that hold a lease on it, and the deadline they share is not     *)
(* cleared while one of them is left.  This is about the operations that    *)
(* wait for their own release: the ones in the background ("async", "task") *)
(* settle a lock they may not have taken, and with them LeaseSound is false *)
(* in general.                                                              *)

Background == {"async", "task"}

\* The steps a request reaches only with a lease, and those it is at only without one.
LeasedSteps   == {"write", "return", "export", "check", "decide"}
UnleasedSteps == {"idle", "capacity", "expire_box", "expire_mark", "admit", "measure"}

JobOK(j) ==
    /\ j.step \in LeasedSteps => j.holds
    /\ j.step \in UnleasedSteps => ~j.holds
    /\ j.op \notin Background

\* Before its record is inserted a workspace has no generation.
Unborn(r) == r.status = "NONE" => r.gen = 0

\* A hold is longer than its operation, unless operations may overrun.
Guards == IF "overrun" \in Events THEN {"held", "elapsed"} ELSE {"held"}
Punctual(r) == r.hard = "overrun" => "overrun" \in Events

Covered(w) == /\ Cardinality(LeaseHolders(w)) <= row[w].locks
              /\ LeaseHolders(w) # {} => row[w].lock \in Guards

\* LeaseSound is not inductive: a release must come from a holder, and a claim, which takes the next
\* generation and resets the counter, must leave no holder behind.
LeaseInv ==
    /\ TypeOK /\ \A w \in Workspaces : Covered(w)
    /\ \A p \in Actors : JobOK(job[p])
    /\ \A p \in Actors : job[p].holds => job[p].gen <= row[job[p].w].gen
    /\ \A w \in Workspaces : Unborn(row[w]) /\ Punctual(row[w])

\* A request that becomes j holds a lease only if it held the same one as i.
KeepsHold(i, j) == j.holds => i.holds /\ j.w = i.w /\ j.gen = i.gen

\* No counter moves and no deadline is cleared; nobody holds a lease that it did not hold before.
RowsQuiet ==
    \A w \in Workspaces : /\ row'[w].gen = row[w].gen /\ row'[w].locks = row[w].locks
                          /\ \/ row'[w].lock = row[w].lock
                             \/ row'[w].lock = "elapsed" /\ (LeaseHolders(w) = {} \/ "elapsed" \in Guards)
                          /\ Unborn(row'[w]) /\ Punctual(row'[w])
JobsQuiet ==
    \A q \in Actors : JobOK(job'[q]) /\ KeepsHold(job[q], job'[q])

-----------------------------------------------------------------------------
(* The three kinds of step that change who holds a lease *)

LEMMA HoldersAreFinite ==
    ASSUME NEW w
    PROVE  IsFiniteSet(LeaseHolders(w)) /\ Cardinality(LeaseHolders(w)) \in Nat
<1>1. IsFiniteSet(Actors)
  <2>1. IsFiniteSet(Clients \cup {Reaper})
    BY ActorsAssumption, FS_AddElement
  <2>2. IsFiniteSet((Clients \cup {Reaper}) \cup {Boot})
    BY <2>1, FS_AddElement
  <2>3. Actors = (Clients \cup {Reaper}) \cup {Boot}
    BY DEF Actors
  <2> QED
    BY <2>2, <2>3
<1>2. LeaseHolders(w) \in SUBSET Actors
  BY DEF LeaseHolders
<1>3. IsFiniteSet(LeaseHolders(w))
  BY <1>1, <1>2, FS_Subset
<1> QED
  BY <1>3, FS_CardinalityType

LEMMA QuietStep ==
    ASSUME LeaseInv, TypeOK', RowsQuiet, JobsQuiet
    PROVE  LeaseInv'
<1> USE DEF RowsQuiet, JobsQuiet
<1>1. ASSUME NEW w \in Workspaces
      PROVE  Covered(w)'
  <2>1. LeaseHolders(w)' \in SUBSET LeaseHolders(w)
    BY DEF LeaseHolders, KeepsHold
  <2>2. Cardinality(LeaseHolders(w)') <= Cardinality(LeaseHolders(w))
    BY <2>1, HoldersAreFinite, FS_Subset
  <2>3. Cardinality(LeaseHolders(w)') \in Nat /\ row[w].locks \in Nat
    BY <2>1, HoldersAreFinite, FS_Subset, FS_CardinalityType DEF LeaseInv, TypeOK, Rows
  <2>4. /\ Cardinality(LeaseHolders(w)) <= row[w].locks
        /\ LeaseHolders(w) # {} => row[w].lock \in Guards
    BY DEF LeaseInv, Covered
  <2>5. Cardinality(LeaseHolders(w)') <= row'[w].locks
    BY <2>2, <2>3, <2>4, HoldersAreFinite
  <2>6. LeaseHolders(w)' # {} => row'[w].lock \in Guards
    BY <2>1, <2>4
  <2> QED
    BY <2>5, <2>6 DEF Covered
<1>2. \A p \in Actors : job'[p].holds => job'[p].gen <= row'[job'[p].w].gen
  BY DEF LeaseInv, KeepsHold, TypeOK, Jobs
<1> QED
  BY <1>1, <1>2 DEF LeaseInv

\* What the three have in common: every other row keeps its counter, and only p changes its hold.
OneStep(p, w, r, j) ==
    /\ row' = [row EXCEPT ![w] = r] /\ job' = [job EXCEPT ![p] = j]
    /\ r \in Rows /\ j \in Jobs /\ JobOK(j) /\ Unborn(r)

LEMMA OtherRows ==
    ASSUME LeaseInv, NEW p \in Actors, NEW w \in Workspaces, NEW r, NEW j, OneStep(p, w, r, j),
           j.holds => j.w = w \/ KeepsHold(job[p], j),
           NEW v \in Workspaces, v # w
    PROVE  Covered(v)'
<1>1. row'[v] = row[v] /\ row[v].locks \in Nat
  BY DEF OneStep, LeaseInv, TypeOK, Rows
<1>2. LeaseHolders(v)' \in SUBSET LeaseHolders(v)
  BY <1>1 DEF LeaseHolders, OneStep, KeepsHold, LeaseInv, TypeOK
<1>3. /\ Cardinality(LeaseHolders(v)') <= Cardinality(LeaseHolders(v))
      /\ Cardinality(LeaseHolders(v)') \in Nat
  BY <1>2, HoldersAreFinite, FS_Subset, FS_CardinalityType
<1>4. /\ Cardinality(LeaseHolders(v)) <= row[v].locks
      /\ LeaseHolders(v) # {} => row[v].lock \in Guards
  BY DEF LeaseInv, Covered
<1>5. Cardinality(LeaseHolders(v)') <= row'[v].locks
  BY <1>1, <1>3, <1>4, HoldersAreFinite
<1> QED
  BY <1>1, <1>2, <1>4, <1>5 DEF Covered

LEMMA GenerationsGrow ==
    ASSUME LeaseInv, NEW p \in Actors, NEW w \in Workspaces, NEW r, NEW j, OneStep(p, w, r, j),
           r.gen >= row[w].gen, Punctual(r), j.holds => j.gen <= row'[j.w].gen
    PROVE  /\ \A q \in Actors : JobOK(job'[q])
           /\ \A q \in Actors : job'[q].holds => job'[q].gen <= row'[job'[q].w].gen
           /\ \A v \in Workspaces : Unborn(row'[v]) /\ Punctual(row'[v])
<1>1. \A q \in Actors : JobOK(job'[q])
  BY DEF OneStep, LeaseInv, TypeOK
<1>2. ASSUME NEW q \in Actors, job'[q].holds  PROVE job'[q].gen <= row'[job'[q].w].gen
  <2>1. CASE q = p
    BY <1>2, <2>1 DEF OneStep, LeaseInv, TypeOK
  <2>2. CASE q # p
    <3>1. job'[q] = job[q] /\ job[q].w \in Workspaces /\ job[q].gen \in Nat
      BY <2>2 DEF OneStep, LeaseInv, TypeOK, Jobs
    <3>2. job[q].gen <= row[job[q].w].gen
      BY <1>2, <3>1 DEF LeaseInv
    <3>3. /\ row'[job[q].w] = IF job[q].w = w THEN r ELSE row[job[q].w]
          /\ row[w].gen \in Nat /\ r.gen \in Nat
      BY <3>1 DEF OneStep, LeaseInv, TypeOK, Rows
    <3> QED
      BY <3>1, <3>2, <3>3
  <2> QED
    BY <2>1, <2>2
<1>3. \A v \in Workspaces : Unborn(row'[v]) /\ Punctual(row'[v])
  BY DEF OneStep, LeaseInv, TypeOK
<1> QED
  BY <1>1, <1>2, <1>3

\* A claim takes the next generation: whoever held a lease holds it no longer.
LEMMA FenceStep ==
    ASSUME LeaseInv, TypeOK', NEW p \in Actors, NEW w \in Workspaces, NEW r, NEW j,
           OneStep(p, w, r, j), FencesAll(row[w], r), ~j.holds
    PROVE  LeaseInv'
<1>1. row[w].gen \in Nat /\ r.gen = row[w].gen + 1 /\ row'[w] = r /\ r.locks \in Nat
  BY DEF OneStep, FencesAll, LeaseInv, TypeOK, Rows
<1>2. LeaseHolders(w)' = {}
  <2>1. SUFFICES ASSUME NEW q \in Actors, job'[q].holds, job'[q].w = w, job'[q].gen = r.gen
                 PROVE  FALSE
    BY <1>1 DEF LeaseHolders
  <2>2. q # p /\ job'[q] = job[q]
    BY <2>1 DEF OneStep, LeaseInv, TypeOK
  <2>3. job[q].gen <= row[w].gen
    BY <2>1, <2>2 DEF LeaseInv
  <2> QED
    BY <1>1, <2>1, <2>2, <2>3
<1>3. Cardinality(LeaseHolders(w)') = 0
  BY <1>2, FS_EmptySet
<1>4. Cardinality(LeaseHolders(w)') <= row'[w].locks
  BY <1>1, <1>3
<1>5. \A v \in Workspaces : Covered(v)'
  BY <1>2, <1>4, OtherRows DEF Covered
<1>6. Punctual(r)
  BY DEF FencesAll, Punctual, LeaseInv
<1> QED
  BY <1>1, <1>5, <1>6, GenerationsGrow DEF LeaseInv

\* A lease taken: one count more, and at most one holder more.
LEMMA AddStep ==
    ASSUME LeaseInv, TypeOK', NEW p \in Actors, NEW w \in Workspaces, NEW r, NEW j,
           OneStep(p, w, r, j), AddsLease(row[w], r), j.w = w, j.gen = row[w].gen
    PROVE  LeaseInv'
<1>1. /\ row[w].gen \in Nat /\ r.gen = row[w].gen /\ row'[w] = r
      /\ row[w].locks \in Nat /\ r.locks = row[w].locks + 1 /\ r.hard = row[w].hard
  BY DEF OneStep, AddsLease, LeaseInv, TypeOK, Rows
<1>2. LeaseHolders(w)' \in SUBSET (LeaseHolders(w) \cup {p})
  BY <1>1 DEF LeaseHolders, OneStep, LeaseInv, TypeOK
<1>3. /\ IsFiniteSet(LeaseHolders(w) \cup {p})
      /\ Cardinality(LeaseHolders(w) \cup {p}) <= Cardinality(LeaseHolders(w)) + 1
      /\ Cardinality(LeaseHolders(w) \cup {p}) \in Nat
  <2> DEFINE S == LeaseHolders(w)
  <2>1. IsFiniteSet(S) /\ Cardinality(S) \in Nat
    BY HoldersAreFinite
  <2>2. /\ IsFiniteSet(S \cup {p})
        /\ Cardinality(S \cup {p}) = IF p \in S THEN Cardinality(S) ELSE Cardinality(S) + 1
    BY <2>1, FS_AddElement
  <2> HIDE DEF S
  <2>3. Cardinality(S \cup {p}) \in Nat /\ Cardinality(S \cup {p}) <= Cardinality(S) + 1
    BY <2>1, <2>2
  <2> QED
    BY <2>2, <2>3 DEF S
<1>4. /\ Cardinality(LeaseHolders(w)') <= Cardinality(LeaseHolders(w) \cup {p})
      /\ Cardinality(LeaseHolders(w)') \in Nat
  BY <1>2, <1>3, FS_Subset, FS_CardinalityType
<1>5. Cardinality(LeaseHolders(w)) <= row[w].locks
  BY DEF LeaseInv, Covered
<1>6. Cardinality(LeaseHolders(w)') <= row'[w].locks
  BY <1>1, <1>3, <1>4, <1>5, HoldersAreFinite
<1>7. Punctual(r) /\ r.lock \in Guards
  BY <1>1 DEF AddsLease, Punctual, Guards, LeaseInv
<1>8. \A v \in Workspaces : Covered(v)'
  BY <1>1, <1>6, <1>7, OtherRows DEF Covered
<1> QED
  BY <1>1, <1>7, <1>8, GenerationsGrow DEF LeaseInv

\* A lease released by one of its holders: one count less and one holder less, so the deadline is
\* cleared only if nobody is left.
LEMMA DropStep ==
    ASSUME LeaseInv, TypeOK', NEW p \in Actors, NEW w \in Workspaces, NEW r, NEW j,
           OneStep(p, w, r, j), DropsLease(row[w], r), ~j.holds,
           job[p].holds, job[p].w = w, job[p].gen = row[w].gen
    PROVE  LeaseInv'
<1>1. /\ row[w].gen \in Nat /\ r.gen = row[w].gen /\ row'[w] = r /\ row[w].locks \in Nat
      /\ r.locks = (IF row[w].locks = 0 THEN 0 ELSE row[w].locks - 1)
      /\ r.lock = (IF row[w].locks <= 1 THEN "none" ELSE row[w].lock)
  BY DEF OneStep, DropsLease, LeaseInv, TypeOK, Rows
<1>2. p \in LeaseHolders(w) /\ LeaseHolders(w)' \in SUBSET (LeaseHolders(w) \ {p})
  BY <1>1 DEF LeaseHolders, OneStep, LeaseInv, TypeOK
<1>3. /\ IsFiniteSet(LeaseHolders(w) \ {p})
      /\ Cardinality(LeaseHolders(w) \ {p}) = Cardinality(LeaseHolders(w)) - 1
  BY <1>2, HoldersAreFinite, FS_RemoveElement
<1>4. /\ Cardinality(LeaseHolders(w)') <= Cardinality(LeaseHolders(w)) - 1
      /\ IsFiniteSet(LeaseHolders(w)') /\ Cardinality(LeaseHolders(w)') \in Nat
  BY <1>2, <1>3, FS_Subset, FS_CardinalityType
<1>5. Cardinality(LeaseHolders(w)) <= row[w].locks /\ row[w].lock \in Guards
  BY <1>2 DEF LeaseInv, Covered
<1>6. Cardinality(LeaseHolders(w)') <= row'[w].locks
  BY <1>1, <1>4, <1>5, HoldersAreFinite
<1>7. ASSUME LeaseHolders(w)' # {}  PROVE row'[w].lock \in Guards
  <2>1. Cardinality(LeaseHolders(w)') # 0
    BY <1>4, <1>7, FS_EmptySet
  <2> QED
    BY <1>1, <1>4, <1>5, <2>1, HoldersAreFinite
<1>8. \A v \in Workspaces : Covered(v)'
  BY <1>6, <1>7, OtherRows DEF Covered
<1>9. Punctual(r)
  BY DEF DropsLease, Punctual, LeaseInv
<1> QED
  BY <1>1, <1>8, <1>9, GenerationsGrow DEF LeaseInv

LEMMA QuietRow ==
    ASSUME LeaseInv
    PROVE  /\ UNCHANGED row => RowsQuiet
           /\ \A w \in Workspaces : \A r :
                 /\ SetRow(w, r) /\ KeepsLeases(row[w], r)
                 /\ r.status = row[w].status \/ r.status # "NONE"
                 => RowsQuiet
<1>1. UNCHANGED row => RowsQuiet
  BY DEF RowsQuiet, LeaseInv
<1>2. ASSUME NEW w \in Workspaces, NEW r, SetRow(w, r), KeepsLeases(row[w], r),
             r.status = row[w].status \/ r.status # "NONE"
      PROVE  RowsQuiet
  BY <1>2 DEF RowsQuiet, LeaseInv, SetRow, KeepsLeases, Unborn, Punctual, TypeOK
<1> QED
  BY <1>1, <1>2

LEMMA QuietJob ==
    ASSUME LeaseInv, NEW p \in Actors, NEW j, Start(p, j), JobOK(j), KeepsHold(job[p], j)
    PROVE  JobsQuiet
  BY DEF JobsQuiet, Start, LeaseInv, TypeOK, KeepsHold

LEMMA QuietOne ==
    ASSUME LeaseInv, TypeOK', NEW p \in Actors, NEW w \in Workspaces, NEW r, NEW j,
           OneStep(p, w, r, j), KeepsLeases(row[w], r), KeepsHold(job[p], j)
    PROVE  LeaseInv'
<1>1. RowsQuiet
  BY DEF OneStep, KeepsLeases, LeaseInv, TypeOK, RowsQuiet, Punctual
<1>2. JobsQuiet
  BY QuietJob DEF OneStep, Start
<1> QED
  BY <1>1, <1>2, QuietStep

\* The release of one's own lease, whatever else the statement does to the row before and after it.
LEMMA ReleaseStep ==
    ASSUME LeaseInv, TypeOK', NEW p \in Actors, NEW x \in Rows, NEW r, NEW j,
           OneStep(p, job[p].w, r, j), job[p].holds, ~j.holds,
           KeepsLeases(row[job[p].w], x), KeepsLeases(Released(x, job[p].gen), r)
    PROVE  LeaseInv'
<1> DEFINE w == job[p].w
           old == row[w]
<1>1. w \in Workspaces
  BY JobFields DEF LeaseInv
<1>2. CASE Released(x, job[p].gen) = x
  <2>1. KeepsLeases(old, r) /\ KeepsHold(job[p], j)
    BY <1>2 DEF KeepsLeases, KeepsHold
  <2> QED
    BY <1>1, <2>1, QuietOne
<1>3. CASE Released(x, job[p].gen) = Unleased(x) /\ job[p].gen = x.gen
  <2>1. DropsLease(x, Unleased(x))
    BY LeaseEffects
  <2>2. DropsLease(old, r) /\ job[p].gen = old.gen
    BY <1>3, <2>1 DEF DropsLease, KeepsLeases
  <2> QED
    BY <1>1, <2>2, DropStep
<1> QED
  BY <1>2, <1>3 DEF Released, Fenced

LEMMA IdleJobOK == JobOK(Idle) /\ ~Idle.holds
  BY DEF JobOK, Idle, LeasedSteps, UnleasedSteps, Background

\* The steps a request may go on to with the lease it has or has not.
MayGoto(p, s) ==
    \/ s \notin LeasedSteps \cup UnleasedSteps
    \/ s \in LeasedSteps \ UnleasedSteps /\ job[p].holds
    \/ s \in UnleasedSteps \ LeasedSteps /\ ~job[p].holds

LEMMA QuietMoves ==
    ASSUME LeaseInv, NEW p \in Actors
    PROVE  /\ UNCHANGED job => JobsQuiet
           /\ Done(p) => JobsQuiet
           /\ \A s \in Steps : Goto(p, s) /\ MayGoto(p, s) => JobsQuiet
<1>1. JobOK(job[p]) /\ job[p] \in Jobs
  BY DEF LeaseInv, TypeOK
<1>2. UNCHANGED job => JobsQuiet
  BY DEF JobsQuiet, KeepsHold, LeaseInv
<1>3. Done(p) => JobsQuiet
  BY IdleJobOK, QuietJob DEF Done, Start, KeepsHold
<1>4. ASSUME NEW s \in Steps, Goto(p, s), MayGoto(p, s)  PROVE JobsQuiet
  <2> DEFINE j == [job[p] EXCEPT !.step = s]
  <2>1. /\ j.step = s /\ j.holds = job[p].holds /\ j.op = job[p].op
        /\ j.w = job[p].w /\ j.gen = job[p].gen
    BY <1>1 DEF Jobs
  <2>2. Start(p, j)
    BY <1>4 DEF Goto, Start, LeaseInv, TypeOK
  <2> HIDE DEF j
  <2>3. JobOK(j) /\ KeepsHold(job[p], j)
    BY <1>1, <1>4, <2>1 DEF JobOK, KeepsHold, MayGoto
  <2> QED
    BY <2>2, <2>3, QuietJob
<1> QED
  BY <1>2, <1>3, <1>4

-----------------------------------------------------------------------------
(* The actions *)

LEMMA RowOfJob ==
    ASSUME LeaseInv, NEW p \in Actors
    PROVE  /\ job[p].w \in Workspaces /\ job[p].v \in Workspaces /\ job[p].gen \in Nat
           /\ row[job[p].w] \in Rows /\ row[job[p].v] \in Rows /\ job[p] \in Jobs
           /\ Unborn(row[job[p].w]) /\ JobOK(job[p])
  BY JobFields DEF LeaseInv

\* SetRow and Start of typed values are the one step the lemmas above speak of.
LEMMA StepIsOne ==
    ASSUME LeaseInv, NEW p \in Actors, NEW w \in Workspaces, NEW r \in Rows, NEW j \in Jobs,
           SetRow(w, r), Start(p, j), JobOK(j),
           r.status # "NONE" \/ (KeepsLeases(row[w], r) /\ r.status = row[w].status)
    PROVE  OneStep(p, w, r, j)
  BY DEF OneStep, SetRow, Start, Unborn, KeepsLeases, LeaseInv

LEMMA ReleaseAndDone ==
    ASSUME LeaseInv, TypeOK', NEW p \in Actors, NEW r \in Rows,
           SetRow(job[p].w, r), Done(p), job[p].holds,
           r = Released(row[job[p].w], job[p].gen)
    PROVE  LeaseInv'
<1>1. OneStep(p, job[p].w, r, Idle)
  <2>1. Unborn(r)
    BY RowOfJob, ReleasedStatus, StatusEffects DEF Released, Fenced, Unborn
  <2> QED
    BY <2>1, IdleIsJob, IdleJobOK DEF OneStep, SetRow, Done
<1>2. KeepsLeases(row[job[p].w], row[job[p].w]) /\ KeepsLeases(r, r)
  BY DEF KeepsLeases
<1> QED
  BY <1>1, <1>2, IdleJobOK, RowOfJob, ReleaseStep

LEMMA FailKeepsLeases ==
    ASSUME LeaseInv, TypeOK', NEW p \in Actors, FailOpen(p) \/ FailRecovery(p) \/ Fail(p)
    PROVE  LeaseInv'
<1>1. CASE FailOpen(p)
  <2> DEFINE r == row[job[p].w]
             q == IF Fenced(r, job[p].gen, {"CREATING"}) THEN [r EXCEPT !.status = "FAILED"] ELSE r
  <2>1. SetRow(job[p].w, q) /\ Goto(p, "abandon")
    BY <1>1, RowOfJob DEF FailOpen, SetRow, LeaseInv, TypeOK
  <2>2. KeepsLeases(r, q) /\ (q.status = r.status \/ q.status # "NONE")
    BY RowOfJob DEF KeepsLeases, Rows
  <2> HIDE DEF q
  <2>3. RowsQuiet
    BY <2>1, <2>2, RowOfJob, QuietRow
  <2>4. MayGoto(p, "abandon") /\ "abandon" \in Steps
    BY DEF MayGoto, LeasedSteps, UnleasedSteps, Steps
  <2> QED
    BY <2>1, <2>3, <2>4, QuietMoves, QuietStep
<1>2. CASE FailRecovery(p)
  <2>1. CASE job[p].holds
    BY <1>2, <2>1, RowOfJob, ReleasedTyped, ReleaseAndDone DEF FailRecovery
  <2>2. CASE ~job[p].holds
    <3>1. SetRow(job[p].w, row[job[p].w]) /\ Done(p)
      BY <1>2, <2>2 DEF FailRecovery
    <3> QED
      BY <3>1, RowOfJob, QuietRow, QuietMoves, QuietStep DEF KeepsLeases
  <2> QED
    BY <2>1, <2>2
<1> QED
  BY <1>1, <1>2 DEF Fail

LEMMA ExpiryKeepsLeases ==
    ASSUME LeaseInv, TypeOK', NEW p \in Actors, NEW v \in Workspaces, NEW j \in Jobs,
           ExpiryClaim(p, v, j), ~j.holds, j.op \notin Background
    PROVE  LeaseInv'
<1> DEFINE gen == row[v].gen + 1
           k == [j EXCEPT !.v = v, !.step = "expire_box", !.gen = gen, !.named = row[v].named]
<1>1. row[v] \in Rows /\ SetRow(v, Claimed(row[v])) /\ Start(p, k)
  BY DEF ExpiryClaim, LeaseInv, TypeOK
<1>2. k \in Jobs
  BY <1>1 DEF Start, TypeOK, LeaseInv
<1>3. k.step = "expire_box" /\ ~k.holds /\ k.op = j.op
  BY DEF Jobs
<1> HIDE DEF k
<1>4. JobOK(k)
  BY <1>3 DEF JobOK, LeasedSteps
<1>5. OneStep(p, v, Claimed(row[v]), k)
  BY <1>1, <1>2, <1>4, StepIsOne, ClaimStatements, StatusEffects
<1> QED
  BY <1>1, <1>3, <1>5, LeaseEffects, FenceStep

LEMMA CloseKeepsLeases ==
    ASSUME LeaseInv, TypeOK', NEW p \in Actors, NEW w \in Workspaces, NEW op, op \notin Background,
           CloseRecord(p, w, op)
    PROVE  LeaseInv'
<1> DEFINE gen == IF row[w].status = "REAPING" THEN row[w].gen ELSE row[w].gen + 1
           k == [Idle EXCEPT !.op = op, !.step = "stop", !.w = w, !.v = w, !.gen = gen,
                             !.named = row[w].named]
<1>1. /\ row[w] \in Rows /\ Start(p, k)
      /\ \/ SetRow(w, row[w]) /\ row[w].status = "REAPING"
         \/ SetRow(w, Claimed(row[w]))
  BY DEF CloseRecord, LeaseInv, TypeOK
<1>2. k \in Jobs
  BY <1>1 DEF Start, TypeOK, LeaseInv
<1>3. k.step = "stop" /\ ~k.holds /\ k.op = op
  BY DEF Idle
<1> HIDE DEF k
<1>4. JobOK(k) /\ KeepsHold(job[p], k)
  BY <1>3 DEF JobOK, LeasedSteps, KeepsHold
<1>5. CASE SetRow(w, row[w])
  BY <1>1, <1>4, <1>5, QuietRow, QuietJob, QuietStep DEF KeepsLeases
<1>6. CASE SetRow(w, Claimed(row[w]))
  <2>1. OneStep(p, w, Claimed(row[w]), k)
    BY <1>1, <1>2, <1>4, <1>6, StepIsOne, ClaimStatements, StatusEffects
  <2> QED
    BY <1>1, <1>3, <2>1, LeaseEffects, FenceStep
<1> QED
  BY <1>1, <1>5, <1>6

\* The continuations that leave the table as it is.
LEMMA QuietContinues ==
    ASSUME LeaseInv, TypeOK', NEW p \in Actors,
           \/ ExpireRemoveBox(p) \/ CapacityCheck(p) \/ Abandon(p) \/ CreateRemovesOld(p)
           \/ Launch(p) \/ InspectReuse(p) \/ InspectRebuild(p) \/ RemoveStaleBox(p)
           \/ ExecWrites(p) \/ CloseStopsWork(p) \/ CloseRemovesBox(p) \/ CloseRemovesFiles(p)
    PROVE  LeaseInv'
<1> USE QuietRow, QuietMoves, QuietStep, RowOfJob
    DEF MayGoto, At, JobOK, LeasedSteps, UnleasedSteps, Steps
<1>1. CASE ExpireRemoveBox(p) \/ CapacityCheck(p) \/ Abandon(p) \/ CreateRemovesOld(p)
  BY <1>1 DEF ExpireRemoveBox, CapacityCheck, Abandon, CreateRemovesOld
<1>2. CASE Launch(p) \/ InspectReuse(p) \/ InspectRebuild(p) \/ RemoveStaleBox(p)
  BY <1>2 DEF Launch, InspectReuse, InspectRebuild, RemoveStaleBox
<1>3. CASE ExecWrites(p) \/ CloseStopsWork(p) \/ CloseRemovesBox(p) \/ CloseRemovesFiles(p)
  BY <1>3 DEF ExecWrites, CloseStopsWork, CloseRemovesBox, CloseRemovesFiles, CloseThrows
<1> QED
  BY <1>1, <1>2, <1>3

\* Those that write the row, in a way that concerns no lease.
LEMMA RowContinues ==
    ASSUME LeaseInv, TypeOK', NEW p \in Actors,
           \/ ExpireMark(p) \/ OpenActivate(p) \/ CloseStopFails(p) \/ CloseCommits(p)
    PROVE  LeaseInv'
<1> USE QuietRow, QuietMoves, QuietStep, RowOfJob, LeaseEffects, StatusEffects
    DEF MayGoto, At, JobOK, LeasedSteps, UnleasedSteps, Steps
<1>1. CASE ExpireMark(p)
  BY <1>1 DEF ExpireMark
<1>2. CASE OpenActivate(p)
  <2> DEFINE q == [row[job[p].w] EXCEPT !.status = "ACTIVE", !.named = TRUE]
  <2>1. \/ SetRow(job[p].w, q) /\ Done(p)
        \/ UNCHANGED row /\ Goto(p, "undo")
    BY <1>2 DEF OpenActivate
  <2>2. KeepsLeases(row[job[p].w], q) /\ q.status = "ACTIVE"
    BY DEF KeepsLeases, Rows
  <2> HIDE DEF q
  <2> QED
    BY <2>1, <2>2
<1>3. CASE CloseStopFails(p)
  <2> DEFINE r == row[job[p].w]
             q == IF Fenced(r, job[p].gen, {"REAPING"}) THEN CloseFailed(r) ELSE r
  <2>1. SetRow(job[p].w, q) /\ Done(p)
    BY <1>3 DEF CloseStopFails, CloseThrows
  <2>2. KeepsLeases(r, q) /\ (q.status = r.status \/ q.status # "NONE")
    BY DEF KeepsLeases
  <2> HIDE DEF q
  <2> QED
    BY <2>1, <2>2
<1>4. CASE CloseCommits(p)
  BY <1>4 DEF CloseCommits, CloseThrows
<1> QED
  BY <1>1, <1>2, <1>3, <1>4

\* Those that take a lease, release one or take a generation, and the ones that may fail.
LEMMA LeaseContinues ==
    ASSUME LeaseInv, TypeOK', NEW p \in Actors,
           \/ CapacityExpire(p) \/ Admit(p) \/ Clone(p) \/ LaunchFails(p) \/ UndoLaunch(p)
           \/ StatRepository(p) \/ ExportReturns(p) \/ ExecLease(p) \/ ExecReturns(p)
           \/ BackgroundLocks(p) \/ BackgroundSettles(p) \/ OversizeClose(p)
    PROVE  LeaseInv'
<1> USE QuietRow, QuietMoves, QuietStep, RowOfJob
    DEF MayGoto, At, JobOK, LeasedSteps, UnleasedSteps, Steps
<1>1. CASE CapacityExpire(p)
  BY <1>1, ExpiryKeepsLeases DEF CapacityExpire, OwnExpirable
<1>2. CASE Admit(p)
  <2> DEFINE w == job[p].w
             k == [job[p] EXCEPT !.step = "clone", !.v = w, !.gen = 1, !.named = FALSE]
  <2>1. CASE UNCHANGED row /\ Done(p)
    BY <2>1
  <2>2. CASE row[w].status = "NONE" /\ SetRow(w, NewRow) /\ Start(p, k)
    <3>1. k \in Jobs
      BY <2>2 DEF Start, TypeOK, LeaseInv
    <3>2. k.step = "clone" /\ k.holds = job[p].holds /\ k.op = job[p].op
      BY DEF Jobs
    <3>3. ~job[p].holds
      BY <1>2 DEF Admit
    <3> HIDE DEF k
    <3>4. JobOK(k) /\ ~k.holds
      BY <3>2, <3>3
    <3>5. FencesAll(row[w], NewRow) /\ NewRow.status = "CREATING"
      BY <2>2, RowOfJob DEF FencesAll, NewRow, NoRow, Unborn
    <3>6. OneStep(p, w, NewRow, k)
      BY <2>2, <3>1, <3>4, <3>5, StepIsOne, NewRows
    <3> QED
      BY <3>4, <3>5, <3>6, FenceStep
  <2> QED
    BY <1>2, <2>1, <2>2 DEF Admit
<1>3. CASE Clone(p)
  BY <1>3, FailKeepsLeases DEF Clone
<1>4. CASE LaunchFails(p) \/ UndoLaunch(p) \/ StatRepository(p)
  BY <1>4, FailKeepsLeases DEF LaunchFails, UndoLaunch, StatRepository
<1>5. CASE ExportReturns(p)
  BY <1>5, ReleasedTyped, ReleaseAndDone DEF ExportReturns
<1>6. CASE ExecLease(p)
  <2> DEFINE w == job[p].w
             k == [job[p] EXCEPT !.step = "write", !.holds = TRUE]
  <2>1. CASE UNCHANGED row /\ Done(p)
    BY <2>1
  <2>2. CASE Leasable(row[w], job[p].gen) /\ SetRow(w, Leased(row[w])) /\ Start(p, k)
    <3>1. k \in Jobs
      BY <2>2 DEF Start, TypeOK, LeaseInv
    <3>2. k.step = "write" /\ k.holds /\ k.op = job[p].op /\ k.w = w /\ k.gen = job[p].gen
      BY DEF Jobs
    <3> HIDE DEF k
    <3>3. JobOK(k) /\ k.gen = row[w].gen
      BY <2>2, <3>2 DEF Leasable, Fenced
    <3>4. OneStep(p, w, Leased(row[w]), k)
      BY <2>2, <3>1, <3>3, StepIsOne, LeaseStatements, StatusEffects DEF Leasable, Fenced
    <3> QED
      BY <3>2, <3>3, <3>4, AddStep, LeaseEffects
  <2> QED
    BY <1>6, <2>1, <2>2 DEF ExecLease
<1>7. CASE ExecReturns(p)
  <2> DEFINE w == job[p].w
             r == Released(row[w], job[p].gen)
             t == Touch(r, job[p].gen)
  <2>1. r \in Rows /\ job[p].holds /\ Done(p) /\ (SetRow(w, r) \/ SetRow(w, t))
    BY <1>7, ReleasedTyped DEF ExecReturns
  <2>2. CASE SetRow(w, r)
    BY <2>1, <2>2, ReleaseAndDone
  <2>3. CASE SetRow(w, t)
    <3>1. t \in Rows /\ KeepsLeases(r, t) /\ t.status = r.status
      BY <2>1, ReleasedTyped, ReleasedStatus, LeaseEffects DEF Touch, KeepsLeases
    <3>2. r.status = row[w].status /\ (r # row[w] => r.status # "NONE")
      BY ReleasedStatus DEF Released, Fenced
    <3>3. OneStep(p, w, t, Idle)
      <4>1. Unborn(t)
        BY <3>1, <3>2 DEF Unborn, KeepsLeases
      <4> QED
        BY <2>1, <2>3, <3>1, <4>1, IdleIsJob, IdleJobOK DEF OneStep, SetRow, Done
    <3>4. KeepsLeases(row[w], row[w])
      BY DEF KeepsLeases
    <3> HIDE DEF t
    <3> QED
      BY <2>1, <3>1, <3>3, <3>4, IdleJobOK, ReleaseStep
  <2> QED
    BY <2>1, <2>2, <2>3
<1>8. CASE BackgroundLocks(p) \/ BackgroundSettles(p)
  BY <1>8 DEF BackgroundLocks, BackgroundSettles, Background
<1>9. CASE OversizeClose(p)
  BY <1>9, CloseKeepsLeases DEF OversizeClose
<1> QED
  BY <1>1, <1>2, <1>3, <1>4, <1>5, <1>6, <1>7, <1>8, <1>9

\* The last steps of a recovery: the row becomes q first, then the lease of the caller is released.
LEMMA RecoveryEnds ==
    ASSUME LeaseInv, TypeOK', NEW p \in Actors, NEW q \in Rows, KeepsLeases(row[job[p].w], q),
           q.status # "NONE" \/ q = row[job[p].w],
           SetRow(job[p].w, IF job[p].holds THEN Released(q, job[p].gen) ELSE q), Done(p)
    PROVE  LeaseInv'
<1>1. CASE ~job[p].holds
  BY <1>1, RowOfJob, QuietRow, QuietMoves, QuietStep
<1>2. CASE job[p].holds
  <2> DEFINE r == Released(q, job[p].gen)
  <2>1. SetRow(job[p].w, r)
    BY <1>2
  <2>2. r \in Rows /\ r.status = q.status /\ (r # q => r.status # "NONE")
    BY ReleasedTyped, ReleasedStatus DEF Released, Fenced
  <2>3. Unborn(r)
    BY <2>2, RowOfJob DEF Unborn
  <2>4. OneStep(p, job[p].w, r, Idle)
    BY <2>1, <2>2, <2>3, IdleIsJob, IdleJobOK DEF OneStep, SetRow, Done
  <2>5. KeepsLeases(r, r)
    BY DEF KeepsLeases
  <2> QED
    BY <1>2, <2>4, <2>5, IdleJobOK, ReleaseStep
<1> QED
  BY <1>1, <1>2

LEMMA RecoverContinues ==
    ASSUME LeaseInv, TypeOK', NEW p \in Actors, RecoverActivate(p) \/ RecoverFinish(p)
    PROVE  LeaseInv'
<1>1. CASE RecoverActivate(p)
  <2> DEFINE old == row[job[p].w]
             due == job[p].op = "boot" /\ old.leaseDue
             r == [Activated(old) EXCEPT !.named = TRUE, !.leaseDue = due]
  <2>1. due \in BOOLEAN /\ Activated(old) \in Rows /\ KeepsLeases(old, Activated(old))
        /\ Activated(old).status = "ACTIVE"
    BY RowOfJob, OtherStatements, LeaseEffects, StatusEffects DEF Rows
  <2>2. r \in Rows /\ KeepsLeases(old, r) /\ r.status = "ACTIVE"
    <3> HIDE DEF due, old
    <3> QED
      BY <2>1 DEF Rows, KeepsLeases
  <2>3. \/ SetRow(job[p].w, IF job[p].holds THEN Released(r, job[p].gen) ELSE r) /\ Done(p)
        \/ UNCHANGED row /\ Goto(p, "undo")
    BY <1>1 DEF RecoverActivate
  <2>4. MayGoto(p, "undo") /\ "undo" \in Steps
    BY DEF MayGoto, LeasedSteps, UnleasedSteps, Steps
  <2> HIDE DEF r
  <2> QED
    BY <2>2, <2>3, <2>4, RecoveryEnds, QuietRow, QuietMoves, QuietStep
<1>2. CASE RecoverFinish(p)
  <2> DEFINE from == IF job[p].op = "renew" THEN RenewFrom ELSE RecoverFrom
             may == job[p].op # "boot" /\ MayActivate(job[p].w, job[p].gen, from)
             r == IF may THEN Activated(row[job[p].w]) ELSE row[job[p].w]
  <2>1. /\ r \in Rows /\ KeepsLeases(row[job[p].w], r)
        /\ r.status # "NONE" \/ r = row[job[p].w]
    <3>1. CASE may
      <4>1. r = Activated(row[job[p].w]) /\ row[job[p].w] \in Rows
        BY <3>1, RowOfJob
      <4>2. r \in Rows
        BY <4>1, OtherStatements
      <4>3. r.status = "ACTIVE"
        BY <4>1, StatusEffects
      <4>4. KeepsLeases(row[job[p].w], Activated(row[job[p].w]))
        BY <4>1, LeaseEffects
      <4> QED
        BY <4>1, <4>2, <4>3, <4>4
    <3>2. CASE ~may
      BY <3>2, RowOfJob DEF KeepsLeases
    <3> QED
      BY <3>1, <3>2
  <2>2. SetRow(job[p].w, IF job[p].holds THEN Released(r, job[p].gen) ELSE r) /\ Done(p)
    BY <1>2 DEF RecoverFinish
  <2> HIDE DEF r
  <2> QED
    BY <2>1, <2>2, RecoveryEnds
<1> QED
  BY <1>1, <1>2

\* A request starts on w: what it has read is a job without a lease.
LEMMA ReadingHolds ==
    ASSUME LeaseInv, NEW w \in Workspaces, NEW step \in Steps, NEW op \in Operations \ Background
    PROVE  LET j == Reading(op, step, w) IN
           /\ j \in Jobs /\ ~j.holds /\ j.w = w /\ j.gen = row[w].gen
           /\ step \notin LeasedSteps => JobOK(j)
           /\ j.op = op /\ j.step = step
<1>1. Reading(op, step, w) \in Jobs
  BY ReadingIsJob DEF LeaseInv
<1> QED
  BY <1>1 DEF Reading, Idle, JobOK

\* An actor that starts on w and takes a lease at once.
LEMMA StartsLeased ==
    ASSUME LeaseInv, TypeOK', NEW p \in Actors, NEW w \in Workspaces, NEW step \in Steps \ UnleasedSteps,
           NEW op \in Operations \ Background, row[w].status # "NONE",
           SetRow(w, Locked(row[w])), Start(p, [Reading(op, step, w) EXCEPT !.holds = TRUE])
    PROVE  LeaseInv'
<1> DEFINE k == [Reading(op, step, w) EXCEPT !.holds = TRUE]
<1>1. k.holds /\ k.w = w /\ k.gen = row[w].gen /\ k.op = op /\ k.step = step
  BY ReadingHolds DEF Jobs
<1>2. k \in Jobs
  BY DEF Start, TypeOK, LeaseInv
<1>3. row[w] \in Rows
  BY DEF LeaseInv, TypeOK
<1> HIDE DEF k
<1>4. JobOK(k)
  BY <1>1 DEF JobOK
<1>5. Start(p, k)
  BY DEF k
<1>6. OneStep(p, w, Locked(row[w]), k)
  <2>1. Locked(row[w]) \in Rows /\ Locked(row[w]).status # "NONE"
    BY <1>3, LeaseStatements, StatusEffects
  <2> QED
    BY <1>2, <1>4, <1>5, <2>1, StepIsOne
<1> QED
  BY <1>1, <1>3, <1>6, AddStep, LeaseEffects

LEMMA BeginKeepsLeases ==
    ASSUME LeaseInv, TypeOK', NEW p \in Actors, NEW w \in Workspaces,
           NEW op \in {"recover", "renew"}, NEW statuses, BeginRecovery(p, w, op, statuses)
    PROVE  LeaseInv'
<1> DEFINE recoverable == row[w].status = "EXPIRED_RECOVERABLE"
<1>1. op \in Operations \ Background /\ "inspect" \in Steps \ (LeasedSteps \cup UnleasedSteps)
  BY DEF Operations, RequestKinds, Background, Steps, LeasedSteps, UnleasedSteps
<1>2. CASE recoverable
  <2>1. SetRow(w, Locked(row[w])) /\ Start(p, [Reading(op, "inspect", w) EXCEPT !.holds = TRUE])
    BY <1>2 DEF BeginRecovery
  <2> QED
    BY <1>1, <1>2, <2>1, StartsLeased
<1>3. CASE ~recoverable
  <2> DEFINE k == [Reading(op, "inspect", w) EXCEPT !.holds = FALSE]
  <2>1. SetRow(w, row[w]) /\ Start(p, k)
    BY <1>3 DEF BeginRecovery
  <2>2. k = Reading(op, "inspect", w)
    BY <1>1, ReadingHolds DEF Jobs
  <2>4. ~Reading(op, "inspect", w).holds /\ JobOK(Reading(op, "inspect", w))
    BY <1>1, ReadingHolds
  <2> HIDE DEF k
  <2>3. JobOK(k) /\ KeepsHold(job[p], k)
    BY <2>2, <2>4 DEF KeepsHold
  <2> QED
    BY <2>1, <2>3, QuietRow, QuietJob, QuietStep DEF KeepsLeases
<1> QED
  BY <1>2, <1>3

LEMMA ArrivalsKeepLeases ==
    ASSUME LeaseInv, TypeOK', Requests \cap Background = {},
           NEW p \in Clients, NEW w \in Workspaces, Arrivals(p, w)
    PROVE  LeaseInv'
<1> USE QuietRow, QuietMoves, QuietStep
<1>1. p \in Actors /\ row[w] \in Rows
  BY DEF Actors, LeaseInv, TypeOK
<1>2. CASE Open(p, w)
  <2> DEFINE k == [Idle EXCEPT !.op = "open", !.step = "capacity", !.w = w, !.v = w]
  <2>1. ~k.holds /\ k.op = "open" /\ k.step = "capacity"
    BY DEF Idle
  <2>2. Start(p, k) /\ UNCHANGED row
    BY <1>2 DEF Open
  <2> HIDE DEF k
  <2>3. JobOK(k) /\ KeepsHold(job[p], k)
    BY <2>1 DEF JobOK, KeepsHold, LeasedSteps, Background
  <2> QED
    BY <1>1, <2>2, <2>3, QuietJob
<1>3. CASE Recover(p, w)
  BY <1>1, <1>3, BeginKeepsLeases DEF Recover
<1>4. CASE Renew(p, w)
  <2>1. CASE SetRow(w, Activated(row[w])) /\ UNCHANGED job
    BY <1>1, <2>1, LeaseEffects, StatusEffects
  <2> QED
    BY <1>1, <1>4, <2>1, BeginKeepsLeases DEF Renew
<1>5. CASE Export(p, w)
  <2>1. "export" \in Operations \ Background /\ "export" \in Steps \ UnleasedSteps
    BY DEF Operations, RequestKinds, Background, Steps, UnleasedSteps
  <2> QED
    BY <1>1, <1>5, <2>1, StartsLeased DEF Export, LeasableRecoverable, Fenced
<1>6. CASE ExpireOnAccess(p, w)
  <2> DEFINE c == Claimed(row[w])
             r == MarkedRecoverable(c)
  <2>1. c \in Rows /\ FencesAll(row[w], c)
    BY <1>1, ClaimStatements, LeaseEffects
  <2>2. r \in Rows /\ KeepsLeases(c, r) /\ r.status = "EXPIRED_RECOVERABLE"
    BY <2>1, OtherStatements, LeaseEffects, StatusEffects
  <2>3. FencesAll(row[w], r)
    BY <2>1, <2>2 DEF FencesAll, KeepsLeases
  <2>4. SetRow(w, r) /\ UNCHANGED job /\ job[p].step = "idle"
    BY <1>6 DEF ExpireOnAccess, Arrives
  <2> HIDE DEF r
  <2>5. JobOK(job[p]) /\ ~job[p].holds /\ job[p] \in Jobs /\ Start(p, job[p])
    BY <1>1, <2>4 DEF LeaseInv, JobOK, UnleasedSteps, TypeOK, Start
  <2>6. OneStep(p, w, r, job[p])
    BY <1>1, <2>2, <2>4, <2>5, StepIsOne
  <2> QED
    BY <1>1, <2>3, <2>5, <2>6, FenceStep
<1>7. CASE Exec(p, w)
  <2>1. PICK op \in ToolCalls : Arrives(p, op) /\ Start(p, Reading(op, "measure", w))
    BY <1>7 DEF Exec
  <2>2. op \in Operations \ Background /\ "measure" \in Steps \ LeasedSteps
    BY <2>1 DEF Arrives, ToolCalls, Operations, RequestKinds, Background, Steps, LeasedSteps
  <2>3. JobOK(Reading(op, "measure", w)) /\ ~Reading(op, "measure", w).holds
    BY <2>2, ReadingHolds
  <2>4. JobsQuiet
    BY <1>1, <2>1, <2>3, QuietJob DEF KeepsHold
  <2>5. SetRow(w, Touched(row[w]))
    BY <1>7 DEF Exec
  <2> QED
    BY <1>1, <2>4, <2>5, LeaseEffects, StatusEffects
<1>8. CASE Close(p, w) \/ CloseFenced(p, w)
  BY <1>1, <1>8, CloseKeepsLeases DEF Close, CloseFenced, Background
<1> QED
  BY <1>2, <1>3, <1>4, <1>5, <1>6, <1>7, <1>8 DEF Arrivals

LEMMA ReaperKeepsLeases ==
    ASSUME LeaseInv, TypeOK', NEW w \in Workspaces, Reaps(w) \/ ReaperContinues
    PROVE  LeaseInv'
<1> USE QuietRow, QuietMoves, QuietStep
<1>1. /\ Reaper \in Actors /\ row[w] \in Rows /\ JobOK(job[Reaper]) /\ job[Reaper] \in Jobs
      /\ job[Reaper].w \in Workspaces /\ row[job[Reaper].w] \in Rows
  BY RowOfJob DEF Actors, LeaseInv, TypeOK
<1>2. /\ {"reap", "quarantine", "autoClose"} \subseteq Operations \ Background
      /\ {"weigh", "sweep", "unname"} \subseteq Steps \ (LeasedSteps \cup UnleasedSteps)
      /\ "check" \in Steps \ UnleasedSteps
  BY DEF Operations, RequestKinds, Background, Steps, LeasedSteps, UnleasedSteps
<1>3. CASE ReapExpire(w)
  <2> DEFINE k == [Idle EXCEPT !.op = "reap", !.w = w]
  <2>1. k \in Jobs /\ ~k.holds /\ k.op = "reap"
    BY <1>2, IdleIsJob DEF Jobs, Idle
  <2>2. ExpiryClaim(Reaper, w, k)
    BY <1>3 DEF ReapExpire
  <2> HIDE DEF k
  <2> QED
    BY <1>1, <1>2, <2>1, <2>2, ExpiryKeepsLeases
<1>4. CASE ReapWeigh(w)
  <2>1. JobOK(Reading("reap", "weigh", w)) /\ ~Reading("reap", "weigh", w).holds
    BY <1>2, ReadingHolds
  <2> QED
    BY <1>1, <1>4, <2>1, QuietJob DEF ReapWeigh, KeepsHold
<1>5. CASE QuarantineRetry(w)
  <2>1. JobOK(Reading("quarantine", "sweep", w)) /\ ~Reading("quarantine", "sweep", w).holds
    BY <1>2, ReadingHolds
  <2> QED
    BY <1>1, <1>5, <2>1, QuietJob DEF QuarantineRetry, KeepsHold
<1>6. CASE Quarantine(w)
  <2> DEFINE j == Reading("quarantine", "sweep", w)
             k == [j EXCEPT !.named = TRUE]
  <2>1. j \in Jobs /\ JobOK(j) /\ ~j.holds
    BY <1>2, ReadingHolds
  <2>2. Start(Reaper, k) /\ SetRow(w, Quarantined(row[w]))
    BY <1>6 DEF Quarantine
  <2> HIDE DEF j
  <2>3. k.step = j.step /\ k.op = j.op /\ k.holds = j.holds
    BY <2>1 DEF Jobs
  <2> HIDE DEF k
  <2>4. JobsQuiet
    BY <1>1, <2>1, <2>2, <2>3, QuietJob DEF JobOK, KeepsHold
  <2> QED
    BY <1>1, <2>2, <2>4, LeaseEffects, StatusEffects
<1>7. CASE AutoCheck(w)
  BY <1>1, <1>2, <1>7, StartsLeased DEF AutoCheck, AutoClosable
<1>8. CASE ReapWeighed
  BY <1>1, <1>8 DEF ReapWeighed
<1>9. CASE QuarantineSweep
  BY <1>1, <1>2, <1>9 DEF QuarantineSweep, MayGoto
<1>10. CASE QuarantineUnname
  <2>1. PICK v \in Workspaces :
           row' = [row EXCEPT ![v].named = @ /\ ~job[Reaper].named]
    BY <1>1, <1>10 DEF QuarantineUnname, LeaseInv, TypeOK, Jobs
  <2>2. \A u \in Workspaces : /\ row'[u].status = row[u].status /\ row'[u].gen = row[u].gen
                             /\ row'[u].locks = row[u].locks /\ row'[u].lock = row[u].lock
                             /\ row'[u].hard = row[u].hard
    BY <2>1 DEF LeaseInv, TypeOK, Rows
  <2>3. RowsQuiet
    BY <2>2 DEF RowsQuiet, Unborn, Punctual, LeaseInv
  <2> QED
    BY <1>1, <1>10, <2>3 DEF QuarantineUnname
<1>11. CASE AutoRead
  <2>1. PICK unsaved \in {dirty[job[Reaper].w]} \cup {b \in {TRUE} : "check" \in Events} :
          Start(Reaper, [job[Reaper] EXCEPT !.step = "decide", !.unsaved = unsaved])
    BY <1>11 DEF AutoRead
  <2> DEFINE k == [job[Reaper] EXCEPT !.step = "decide", !.unsaved = unsaved]
  <2>2. /\ k.step = "decide" /\ k.op = job[Reaper].op /\ k.holds = job[Reaper].holds
        /\ k.w = job[Reaper].w /\ k.gen = job[Reaper].gen
    BY <1>1 DEF Jobs
  <2>3. Start(Reaper, k) /\ job[Reaper].step = "check" /\ UNCHANGED row
    BY <1>11, <2>1 DEF AutoRead, At
  <2> HIDE DEF k
  <2>4. JobOK(k) /\ KeepsHold(job[Reaper], k)
    BY <1>1, <2>2, <2>3 DEF JobOK, KeepsHold, LeasedSteps, UnleasedSteps
  <2> QED
    BY <1>1, <2>3, <2>4, QuietJob
<1>12. CASE AutoDecide
  <2> DEFINE v == job[Reaper].w
             g == job[Reaper].gen
             r == Released(row[v], g)
             k == [job[Reaper] EXCEPT !.step = "stop", !.gen = g + 1, !.holds = FALSE,
                                      !.named = r.named]
  <2>1. /\ v \in Workspaces /\ r \in Rows /\ job[Reaper].holds
        /\ r.status = row[v].status
    BY <1>1, <1>12, ReleasedTyped, ReleasedStatus DEF AutoDecide, At, JobOK, LeasedSteps
  <2>2. CASE SetRow(v, r) /\ Done(Reaper)
    BY <1>1, <2>1, <2>2, ReleaseAndDone
  <2>3. CASE SetRow(v, Deferred(r)) /\ Done(Reaper) /\ r.status = "EXPIRED_RECOVERABLE"
    <3>1. /\ Deferred(r) \in Rows /\ KeepsLeases(r, Deferred(r))
          /\ Deferred(r).status = "EXPIRED_RECOVERABLE"
      BY <2>1, <2>3, OtherStatements, LeaseEffects, StatusEffects
    <3>2. OneStep(Reaper, v, Deferred(r), Idle)
      BY <2>1, <2>3, <3>1, IdleIsJob, IdleJobOK DEF OneStep, SetRow, Done, Unborn
    <3>3. KeepsLeases(row[v], row[v])
      BY DEF KeepsLeases
    <3> QED
      BY <1>1, <2>1, <3>1, <3>2, <3>3, IdleJobOK, ReleaseStep
  <2>4. CASE SetRow(v, AutoClaimed(r)) /\ Start(Reaper, k)
    <3>1. /\ AutoClaimed(r) \in Rows /\ FencesAll(r, AutoClaimed(r))
          /\ AutoClaimed(r).status = "REAPING"
      BY <2>1, ClaimStatements, LeaseEffects, StatusEffects
    <3>2. r.gen = row[v].gen /\ r.hard = row[v].hard
      BY <1>1, LeaseEffects DEF Released, DropsLease
    <3>3. FencesAll(row[v], AutoClaimed(r))
      BY <3>1, <3>2 DEF FencesAll
    <3>4. k \in Jobs
      BY <1>1, <2>4 DEF Start, TypeOK, LeaseInv
    <3>5. k.step = "stop" /\ ~k.holds /\ k.op = job[Reaper].op
      BY <1>1 DEF Jobs
    <3> HIDE DEF k, r
    <3>6. JobOK(k)
      BY <1>1, <3>5 DEF JobOK, LeasedSteps
    <3>7. OneStep(Reaper, v, AutoClaimed(r), k)
      BY <1>1, <2>1, <2>4, <3>1, <3>4, <3>6, StepIsOne
    <3> QED
      BY <1>1, <2>1, <3>3, <3>5, <3>7, FenceStep
  <2>5. \/ SetRow(v, Deferred(r)) /\ Done(Reaper) /\ r.status = "EXPIRED_RECOVERABLE"
        \/ SetRow(v, AutoClaimed(r)) /\ Start(Reaper, k)
        \/ SetRow(v, r) /\ Done(Reaper)
    BY <1>12 DEF AutoDecide, Fenced
  <2> QED
    BY <2>2, <2>3, <2>4, <2>5
<1> QED
  BY <1>3, <1>4, <1>5, <1>6, <1>7, <1>8, <1>9, <1>10, <1>11, <1>12 DEF Reaps, ReaperContinues

LEMMA TimeKeepsLeases ==
    ASSUME LeaseInv, TypeOK', NEW w \in Workspaces, TimePasses(w) \/ StrayRemovalLands(w)
    PROVE  LeaseInv'
<1>1. UNCHANGED job
  BY DEF TimePasses, LeaseElapses, WallDeadlinePasses, WallDeadlineOverruns, LockElapses,
         WindowElapses, StrayRemovalLands
<1>2. JobsQuiet
  BY <1>1 DEF JobsQuiet, KeepsHold, LeaseInv
<1>3. row \in [Workspaces -> Rows] /\ \A v \in Workspaces : Unborn(row[v]) /\ Punctual(row[v])
  BY DEF LeaseInv, TypeOK
<1>4. RowsQuiet
  BY <1>3 DEF TimePasses, LeaseElapses, WallDeadlinePasses, WallDeadlineOverruns, LockElapses,
              WindowElapses, StrayRemovalLands, RowsQuiet, Unborn, Punctual, Guards, Rows
<1> QED
  BY <1>2, <1>4, QuietStep

LEMMA BootKeepsLeases ==
    ASSUME LeaseInv, TypeOK', NEW w \in Workspaces,
           Boots(w) \/ Crash \/ Restart \/ BootReconciles \/ BootFails
    PROVE  LeaseInv'
<1> USE QuietRow, QuietMoves, QuietStep
<1>1. Boot \in Actors /\ row[w] \in Rows /\ row \in [Workspaces -> Rows]
  BY DEF Actors, LeaseInv, TypeOK
<1>2. CASE BootQuarantined(w)
  <2>1. RowsQuiet
    BY <1>1, <1>2 DEF BootQuarantined, RowsQuiet, Unborn, Punctual, LeaseInv, Rows
  <2> QED
    BY <1>1, <1>2, <2>1 DEF BootQuarantined
<1>3. CASE BootCloses(w)
  BY <1>1, <1>3, CloseKeepsLeases DEF BootCloses, Background
<1>4. CASE BootQuarantines(w)
  <2> DEFINE c == Quarantined(row[w])
             q == [c EXCEPT !.named = FALSE]
  <2>1. c \in Rows /\ KeepsLeases(row[w], c) /\ c.status = "NETWORK_QUARANTINED"
    BY <1>1, OtherStatements, LeaseEffects, StatusEffects
  <2>2. SetRow(w, q) /\ UNCHANGED job
    BY <1>4 DEF BootQuarantines, SetRow
  <2> HIDE DEF c
  <2>3. KeepsLeases(row[w], q) /\ q.status = "NETWORK_QUARANTINED"
    BY <2>1 DEF KeepsLeases, Rows
  <2> HIDE DEF q
  <2> QED
    BY <1>1, <2>2, <2>3
<1>5. CASE BootRebuilds(w)
  <2>1. "boot" \in Operations \ Background /\ "inspect" \in Steps \ LeasedSteps
    BY DEF Operations, RequestKinds, Background, Steps, LeasedSteps
  <2>2. JobOK(Reading("boot", "inspect", w)) /\ ~Reading("boot", "inspect", w).holds
    BY <2>1, ReadingHolds
  <2> QED
    BY <1>1, <1>5, <2>2, QuietJob DEF BootRebuilds, KeepsHold
<1>6. CASE BootResumes(w) \/ Restart \/ BootReconciles \/ BootFails
  BY <1>1, <1>6 DEF BootResumes, Restart, BootReconciles, BootFails
<1>7. CASE Crash
  <2>1. JobsQuiet
    BY <1>7, IdleJobOK DEF Crash, JobsQuiet, KeepsHold
  <2> QED
    BY <1>7, <2>1 DEF Crash
<1> QED
  BY <1>2, <1>3, <1>4, <1>5, <1>6, <1>7 DEF Boots

LEMMA InitLeases == Init => LeaseInv
<1> SUFFICES ASSUME Init  PROVE LeaseInv
  OBVIOUS
<1>1. TypeOK
  BY IdleIsJob, NewRows DEF Init, TypeOK
<1>2. \A p \in Actors : JobOK(job[p]) /\ ~job[p].holds
  BY IdleJobOK DEF Init
<1>3. \A w \in Workspaces : row[w].locks = 0 /\ row[w].gen = 0 /\ LeaseHolders(w) = {}
  BY <1>2 DEF Init, NoRow, LeaseHolders
<1>4. \A w \in Workspaces : Cardinality(LeaseHolders(w)) <= row[w].locks
  BY <1>3, FS_EmptySet
<1>5. \A w \in Workspaces : Covered(w) /\ Punctual(row[w])
  BY <1>3, <1>4 DEF Covered, Punctual, Init, NoRow
<1> QED
  BY <1>1, <1>2, <1>3, <1>5 DEF LeaseInv, Unborn

LEMMA NextKeepsLeases ==
    ASSUME LeaseInv, TypeOK', Requests \cap Background = {}, [Next]_vars
    PROVE  LeaseInv'
<1>1. CASE UNCHANGED vars \/ FirewallChanges \/ SetQuota
  <2>1. UNCHANGED <<row, job>>
    BY <1>1 DEF vars, FirewallChanges, SetQuota
  <2>2. RowsQuiet /\ JobsQuiet
    BY <2>1 DEF RowsQuiet, JobsQuiet, KeepsHold, LeaseInv
  <2> QED
    BY <2>2, QuietStep
<1>2. ASSUME NEW p \in Actors, Continues(p)  PROVE LeaseInv'
  BY <1>2, QuietContinues, RowContinues, LeaseContinues, RecoverContinues DEF Continues
<1>3. ASSUME NEW w \in Workspaces  PROVE Next => LeaseInv'
  BY <1>1, <1>2, <1>3, ArrivalsKeepLeases, ReaperKeepsLeases, BootKeepsLeases, TimeKeepsLeases
     DEF Next
<1>4. \E w \in Workspaces : TRUE
  BY WorkspacesAssumption
<1> QED
  BY <1>1, <1>3, <1>4

\* Without background operations, a request that took a mutation lease on the current generation of a
\* workspace is counted until it releases it, and the deadline that protects it is not cleared before
\* (acquire/releaseMutationLease, the claims that reset them, crash and restart).
THEOREM LeaseTheorem ==
    ASSUME Requests \cap Background = {}
    PROVE  Spec => []LeaseSound
<1>1. LeaseInv => LeaseSound
  BY DEF LeaseInv, LeaseSound, Covered, Guards
<1>2. LeaseInv /\ TypeOK' /\ [Next]_vars => LeaseInv'
  BY NextKeepsLeases
<1> QED
  BY <1>1, <1>2, InitLeases, TypeCorrect, PTL DEF Spec

-----------------------------------------------------------------------------
(* What a step does to the jobs and to the rows *)

Others(p) == \A q \in Actors \ {p} : job'[q] = job[q]

Moves(p, s) ==
    /\ Others(p) /\ job'[p].step = s
    /\ job'[p].op = job[p].op /\ job'[p].w = job[p].w /\ job'[p].v = job[p].v
    /\ job'[p].gen = job[p].gen /\ job'[p].named = job[p].named
    /\ job'[p].holds = job[p].holds /\ job'[p].unsaved = job[p].unsaved

Ends(p) == /\ Others(p) /\ job'[p].step = "idle" /\ job'[p].op = "none"
           /\ ~job'[p].holds

\* p starts on w with what it reads there.
Begins(p, op, step, w) ==
    /\ Others(p) /\ job'[p].step = step /\ job'[p].op = op
    /\ job'[p].w = w /\ job'[p].v = w /\ job'[p].gen = row[w].gen

SameRows ==
    \A w \in Workspaces : /\ row'[w].status = row[w].status /\ row'[w].gen = row[w].gen
                          /\ row'[w].named = row[w].named

OneRow(w, status, gen, named) ==
    /\ row'[w].status = status /\ row'[w].gen = gen /\ row'[w].named = named
    /\ \A v \in Workspaces \ {w} : row'[v] = row[v]

LEMMA MoveEffects ==
    ASSUME TypeOK, NEW p \in Actors
    PROVE  /\ \A s \in Steps : Goto(p, s) => Moves(p, s)
           /\ Done(p) => Ends(p)
           /\ \A j : Start(p, j) => Others(p) /\ job'[p] = j
<1>1. job[p] \in Jobs
  BY DEF TypeOK
<1>2. ASSUME NEW s \in Steps, Goto(p, s)  PROVE Moves(p, s)
  <2>1. job'[p] = [job[p] EXCEPT !.step = s] /\ Others(p)
    BY <1>2 DEF Goto, Others, TypeOK
  <2> QED
    BY <1>1, <2>1 DEF Moves, Jobs
<1>3. Done(p) => Ends(p)
  BY DEF Done, Ends, Others, Idle, TypeOK
<1>4. ASSUME NEW j, Start(p, j)  PROVE Others(p) /\ job'[p] = j
  BY <1>4 DEF Start, Others, TypeOK
<1> QED
  BY <1>2, <1>3, <1>4

LEMMA RowEffects ==
    ASSUME TypeOK, NEW w \in Workspaces, NEW r, SetRow(w, r)
    PROVE  /\ OneRow(w, r.status, r.gen, r.named)
           /\ r.status = row[w].status /\ r.gen = row[w].gen /\ r.named = row[w].named => SameRows
  BY DEF SetRow, OneRow, SameRows, TypeOK

LEMMA SameIsSame == UNCHANGED row => SameRows
  BY DEF SameRows

\* The status and the generation of what a statement leaves are known; so is the name.
LEMMA NamedEffects ==
    ASSUME NEW r \in Rows
    PROVE  /\ Leased(r).named = r.named /\ Locked(r).named = r.named
           /\ Unleased(r).named = r.named /\ Touched(r).named = r.named
           /\ Deferred(r).named = r.named /\ Activated(r).named = r.named
           /\ Claimed(r).named = r.named /\ AutoClaimed(r).named = r.named
           /\ CloseFailed(r).named = r.named /\ Quarantined(r).named = r.named
           /\ MarkedRecoverable(r).named = FALSE /\ Closed(r).named = FALSE
<1>1. /\ Leased(r).named = r.named /\ Locked(r).named = r.named
      /\ Unleased(r).named = r.named /\ Touched(r).named = r.named
  BY DEF Leased, Locked, Unleased, Touched, Rows
<1>2. /\ Deferred(r).named = r.named /\ Activated(r).named = r.named
      /\ Claimed(r).named = r.named /\ AutoClaimed(r).named = r.named
  BY DEF Deferred, Activated, Claimed, AutoClaimed, Rows
<1>3. /\ CloseFailed(r).named = r.named /\ Quarantined(r).named = r.named
      /\ MarkedRecoverable(r).named = FALSE /\ Closed(r).named = FALSE
  BY DEF CloseFailed, Quarantined, MarkedRecoverable, Closed, Rows
<1> QED
  BY <1>1, <1>2, <1>3

LEMMA GenEffects ==
    ASSUME NEW r \in Rows
    PROVE  /\ Leased(r).gen = r.gen /\ Locked(r).gen = r.gen /\ Unleased(r).gen = r.gen
           /\ Touched(r).gen = r.gen /\ Deferred(r).gen = r.gen /\ Activated(r).gen = r.gen
           /\ CloseFailed(r).gen = r.gen /\ Quarantined(r).gen = r.gen
           /\ MarkedRecoverable(r).gen = r.gen /\ Closed(r).gen = r.gen
           /\ Claimed(r).gen = r.gen + 1 /\ AutoClaimed(r).gen = r.gen + 1
  BY LeaseEffects DEF AddsLease, DropsLease, KeepsLeases, FencesAll

\* A release and a touch leave all three as they were.
LEMMA ReleaseEffects ==
    ASSUME NEW r \in Rows, NEW g
    PROVE  /\ Released(r, g) \in Rows /\ Touch(r, g) \in Rows
           /\ Released(r, g).status = r.status /\ Touch(r, g).status = r.status
           /\ Released(r, g).gen = r.gen /\ Touch(r, g).gen = r.gen
           /\ Released(r, g).named = r.named /\ Touch(r, g).named = r.named
  BY ReleasedTyped, ReleasedStatus, GenEffects, NamedEffects DEF Released, Touch

\* What each statement does to the table when it is applied to the row it finds.
LEMMA RowStatements ==
    ASSUME TypeOK, NEW w \in Workspaces
    PROVE  LET r == row[w] IN
           /\ SetRow(w, r) \/ SetRow(w, Leased(r)) \/ SetRow(w, Locked(r)) \/ SetRow(w, Unleased(r))
                 \/ SetRow(w, Touched(r)) \/ SetRow(w, Deferred(r)) => SameRows
           /\ \A g : SetRow(w, Released(r, g)) \/ SetRow(w, Touch(r, g)) => SameRows
           /\ SetRow(w, Claimed(r)) => OneRow(w, "REAPING", r.gen + 1, r.named)
           /\ SetRow(w, Activated(r)) => OneRow(w, "ACTIVE", r.gen, r.named)
           /\ SetRow(w, MarkedRecoverable(r)) => OneRow(w, "EXPIRED_RECOVERABLE", r.gen, FALSE)
           /\ SetRow(w, CloseFailed(r)) => OneRow(w, "EXPIRED_RECOVERABLE", r.gen, r.named)
           /\ SetRow(w, Closed(r)) => OneRow(w, "CLOSED", r.gen, FALSE)
           /\ SetRow(w, Quarantined(r)) => OneRow(w, "NETWORK_QUARANTINED", r.gen, r.named)
<1> DEFINE r == row[w]
<1>1. r \in Rows
  BY DEF TypeOK
<1>2. ASSUME NEW q, SetRow(w, q)
      PROVE  /\ OneRow(w, q.status, q.gen, q.named)
             /\ q.status = r.status /\ q.gen = r.gen /\ q.named = r.named => SameRows
  BY <1>2, RowEffects
<1> HIDE DEF r
<1>3. SetRow(w, r) \/ SetRow(w, Leased(r)) \/ SetRow(w, Locked(r)) => SameRows
  <2>1. Leased(r).status = r.status /\ Leased(r).gen = r.gen /\ Leased(r).named = r.named
    BY <1>1, StatusEffects, GenEffects, NamedEffects
  <2>2. Locked(r).status = r.status /\ Locked(r).gen = r.gen /\ Locked(r).named = r.named
    BY <1>1, StatusEffects, GenEffects, NamedEffects
  <2> QED
    BY <1>2, <2>1, <2>2
<1>4. SetRow(w, Unleased(r)) \/ SetRow(w, Touched(r)) \/ SetRow(w, Deferred(r)) => SameRows
  <2>1. /\ Unleased(r).status = r.status /\ Unleased(r).gen = r.gen /\ Unleased(r).named = r.named
        /\ Touched(r).status = r.status /\ Touched(r).gen = r.gen /\ Touched(r).named = r.named
        /\ Deferred(r).status = r.status /\ Deferred(r).gen = r.gen /\ Deferred(r).named = r.named
    BY <1>1, StatusEffects, GenEffects, NamedEffects
  <2> QED
    BY <1>2, <2>1
<1>5. \A g : SetRow(w, Released(r, g)) \/ SetRow(w, Touch(r, g)) => SameRows
  BY <1>1, <1>2, ReleaseEffects
<1>6. /\ SetRow(w, Claimed(r)) => OneRow(w, "REAPING", r.gen + 1, r.named)
      /\ SetRow(w, Activated(r)) => OneRow(w, "ACTIVE", r.gen, r.named)
  <2>1. Claimed(r).status = "REAPING" /\ Claimed(r).gen = r.gen + 1 /\ Claimed(r).named = r.named
    BY <1>1, StatusEffects, GenEffects, NamedEffects
  <2>2. Activated(r).status = "ACTIVE" /\ Activated(r).gen = r.gen /\ Activated(r).named = r.named
    BY <1>1, StatusEffects, GenEffects, NamedEffects
  <2>3. SetRow(w, Claimed(r)) =>
          OneRow(w, Claimed(r).status, Claimed(r).gen, Claimed(r).named)
    BY <1>2
  <2>4. SetRow(w, Activated(r)) =>
          OneRow(w, Activated(r).status, Activated(r).gen, Activated(r).named)
    BY <1>2
  <2> QED
    BY <2>1, <2>2, <2>3, <2>4
<1>7. /\ SetRow(w, MarkedRecoverable(r)) => OneRow(w, "EXPIRED_RECOVERABLE", r.gen, FALSE)
      /\ SetRow(w, CloseFailed(r)) => OneRow(w, "EXPIRED_RECOVERABLE", r.gen, r.named)
  <2> DEFINE m == MarkedRecoverable(r)
             f == CloseFailed(r)
  <2>1. m.status = "EXPIRED_RECOVERABLE" /\ m.gen = r.gen /\ m.named = FALSE
    BY <1>1, StatusEffects, GenEffects, NamedEffects
  <2>2. f.status = "EXPIRED_RECOVERABLE" /\ f.gen = r.gen /\ f.named = r.named
    BY <1>1, StatusEffects, GenEffects, NamedEffects
  <2>3. SetRow(w, m) => OneRow(w, m.status, m.gen, m.named)
    BY <1>2
  <2>4. SetRow(w, f) => OneRow(w, f.status, f.gen, f.named)
    BY <1>2
  <2> QED
    BY <2>1, <2>2, <2>3, <2>4
<1>8. /\ SetRow(w, Closed(r)) => OneRow(w, "CLOSED", r.gen, FALSE)
      /\ SetRow(w, Quarantined(r)) => OneRow(w, "NETWORK_QUARANTINED", r.gen, r.named)
  <2> DEFINE m == Closed(r)
             f == Quarantined(r)
  <2>1. m.status = "CLOSED" /\ m.gen = r.gen /\ m.named = FALSE
    BY <1>1, StatusEffects, GenEffects, NamedEffects
  <2>2. f.status = "NETWORK_QUARANTINED" /\ f.gen = r.gen /\ f.named = r.named
    BY <1>1, StatusEffects, GenEffects, NamedEffects
  <2>3. SetRow(w, m) => OneRow(w, m.status, m.gen, m.named)
    BY <1>2
  <2>4. SetRow(w, f) => OneRow(w, f.status, f.gen, f.named)
    BY <1>2
  <2> QED
    BY <2>1, <2>2, <2>3, <2>4
<1> QED
  BY <1>3, <1>4, <1>5, <1>6, <1>7, <1>8 DEF r

\* The fields of a job that moves to another row or another generation.
LEMMA JobUpdates ==
    ASSUME NEW j \in Jobs, NEW s, NEW w, NEW g, NEW n, NEW h
    PROVE  /\ LET k == [j EXCEPT !.v = w, !.step = s, !.gen = g, !.named = n] IN
              /\ k.step = s /\ k.op = j.op /\ k.w = j.w /\ k.v = w /\ k.gen = g /\ k.named = n
              /\ k.holds = j.holds
           /\ LET k == [j EXCEPT !.step = s, !.v = w, !.gen = g, !.named = n] IN
              /\ k.step = s /\ k.op = j.op /\ k.w = j.w /\ k.v = w /\ k.gen = g /\ k.named = n
              /\ k.holds = j.holds
           /\ LET k == [j EXCEPT !.step = s, !.holds = h] IN
              /\ k.step = s /\ k.op = j.op /\ k.w = j.w /\ k.v = j.v /\ k.gen = j.gen
              /\ k.named = j.named /\ k.holds = h
           /\ LET k == [j EXCEPT !.step = s, !.gen = g, !.holds = h, !.named = n] IN
              /\ k.step = s /\ k.op = j.op /\ k.w = j.w /\ k.v = j.v /\ k.gen = g
              /\ k.named = n /\ k.holds = h
<1> USE DEF Jobs
<1>1. LET k == [j EXCEPT !.v = w, !.step = s, !.gen = g, !.named = n] IN
      /\ k.step = s /\ k.op = j.op /\ k.w = j.w /\ k.v = w /\ k.gen = g /\ k.named = n
      /\ k.holds = j.holds
  OBVIOUS
<1>2. LET k == [j EXCEPT !.step = s, !.v = w, !.gen = g, !.named = n] IN
      /\ k.step = s /\ k.op = j.op /\ k.w = j.w /\ k.v = w /\ k.gen = g /\ k.named = n
      /\ k.holds = j.holds
  OBVIOUS
<1>3. LET k == [j EXCEPT !.step = s, !.holds = h] IN
      /\ k.step = s /\ k.op = j.op /\ k.w = j.w /\ k.v = j.v /\ k.gen = j.gen
      /\ k.named = j.named /\ k.holds = h
  OBVIOUS
<1>4. LET k == [j EXCEPT !.step = s, !.gen = g, !.holds = h, !.named = n] IN
      /\ k.step = s /\ k.op = j.op /\ k.w = j.w /\ k.v = j.v /\ k.gen = g
      /\ k.named = n /\ k.holds = h
  OBVIOUS
<1> QED
  BY <1>1, <1>2, <1>3, <1>4

-----------------------------------------------------------------------------
(* Expiry and opening *)

LEMMA ExpiryClaimEffect ==
    ASSUME TypeOK, NEW p \in Actors, NEW v \in Workspaces, NEW i \in Jobs, ExpiryClaim(p, v, i)
    PROVE  /\ row[v].status = "ACTIVE" /\ OneRow(v, "REAPING", row[v].gen + 1, row[v].named)
           /\ Unlocked(row[v])
           /\ Others(p) /\ job'[p].step = "expire_box" /\ job'[p].op = i.op /\ job'[p].w = i.w
           /\ job'[p].v = v /\ job'[p].gen = row[v].gen + 1 /\ job'[p].named = row[v].named
           /\ job'[p].holds = i.holds
           /\ UNCHANGED <<box, disk, dirty, stray, runner, toVisit, limit, drift>>
<1> DEFINE next == row[v].gen + 1
           named == row[v].named
           k == [i EXCEPT !.v = v, !.step = "expire_box", !.gen = next, !.named = named]
<1>1. row[v] \in Rows
  BY DEF TypeOK
<1>2. Start(p, k) /\ SetRow(v, Claimed(row[v]))
  BY DEF ExpiryClaim
<1>3. /\ k.step = "expire_box" /\ k.op = i.op /\ k.w = i.w /\ k.v = v /\ k.gen = next
      /\ k.named = named /\ k.holds = i.holds
  <2> HIDE DEF next, named
  <2> QED
    BY JobUpdates
<1> HIDE DEF k
<1>4. Others(p) /\ job'[p] = k
  BY <1>2, MoveEffects
<1>5. OneRow(v, "REAPING", row[v].gen + 1, row[v].named)
  BY <1>2, RowStatements
<1> QED
  BY <1>3, <1>4, <1>5 DEF ExpiryClaim, Expirable, world, environment

LEMMA ExpireEffects ==
    ASSUME TypeOK, NEW p \in Actors
    PROVE  /\ ExpireRemoveBox(p) =>
                 /\ job[p].step = "expire_box" /\ Moves(p, "expire_mark") /\ SameRows
                 /\ IF job[p].named THEN RemoveBox(job[p].v) ELSE UNCHANGED box
                 /\ UNCHANGED <<disk, dirty, stray, runner, toVisit, limit, drift>>
           /\ ExpireMark(p) =>
                 /\ job[p].step = "expire_mark"
                 /\ IF Fenced(row[job[p].v], job[p].gen, {"REAPING"})
                    THEN OneRow(job[p].v, "EXPIRED_RECOVERABLE", row[job[p].v].gen, FALSE)
                    ELSE SameRows
                 /\ IF job[p].op = "open" THEN Moves(p, "capacity") ELSE Ends(p)
                 /\ UNCHANGED <<box, disk, dirty, stray, runner, toVisit, limit, drift>>
<1>1. "expire_mark" \in Steps /\ "capacity" \in Steps
  BY DEF Steps
<1>2. job[p].v \in Workspaces /\ row[job[p].v] \in Rows
  BY JobFields
<1>3. ExpireRemoveBox(p) => Moves(p, "expire_mark") /\ SameRows
  BY <1>1, MoveEffects, SameIsSame DEF ExpireRemoveBox
<1>4. ASSUME ExpireMark(p)
      PROVE  IF Fenced(row[job[p].v], job[p].gen, {"REAPING"})
             THEN OneRow(job[p].v, "EXPIRED_RECOVERABLE", row[job[p].v].gen, FALSE)
             ELSE SameRows
  BY <1>2, <1>4, RowStatements, SameIsSame DEF ExpireMark
<1>5. ASSUME ExpireMark(p)
      PROVE  IF job[p].op = "open" THEN Moves(p, "capacity") ELSE Ends(p)
  BY <1>1, <1>5, MoveEffects DEF ExpireMark
<1> QED
  BY <1>3, <1>4, <1>5 DEF ExpireRemoveBox, ExpireMark, At, world, environment

LEMMA OpenEffect ==
    ASSUME TypeOK, NEW p \in Actors, NEW w \in Workspaces, Open(p, w)
    PROVE  /\ p \in Clients /\ runner = "up" /\ job[p].step = "idle" /\ SameRows
           /\ Others(p) /\ job'[p].step = "capacity" /\ job'[p].op = "open" /\ job'[p].w = w
           /\ ~job'[p].holds
           /\ UNCHANGED <<box, disk, dirty, stray, runner, toVisit, limit, drift>>
<1> DEFINE k == [Idle EXCEPT !.op = "open", !.step = "capacity", !.w = w, !.v = w]
<1>1. Start(p, k)
  BY DEF Open
<1>2. k.step = "capacity" /\ k.op = "open" /\ k.w = w /\ ~k.holds
  BY DEF Idle
<1> HIDE DEF k
<1> QED
  BY <1>1, <1>2, MoveEffects, SameIsSame DEF Open, Arrives, world, environment

LEMMA AdmitEffect ==
    ASSUME TypeOK, NEW p \in Actors, Admit(p)
    PROVE  /\ job[p].step = "admit"
           /\ \/ /\ row[job[p].w].status = "NONE" /\ OneRow(job[p].w, "CREATING", 1, FALSE)
                 /\ Others(p) /\ job'[p].step = "clone" /\ job'[p].op = job[p].op
                 /\ job'[p].w = job[p].w /\ job'[p].gen = 1 /\ job'[p].holds = job[p].holds
              \/ SameRows /\ Ends(p)
           /\ UNCHANGED <<box, disk, dirty, stray, runner, toVisit, limit, drift>>
<1> DEFINE w == job[p].w
           first == 1
           k == [job[p] EXCEPT !.step = "clone", !.v = w, !.gen = first, !.named = FALSE]
<1>1. w \in Workspaces /\ job[p] \in Jobs
  BY JobFields DEF TypeOK
<1>2. NewRow.status = "CREATING" /\ NewRow.gen = first /\ NewRow.named = FALSE
  BY DEF NewRow, NoRow
<1>3. /\ k.step = "clone" /\ k.op = job[p].op /\ k.w = job[p].w /\ k.gen = first
      /\ k.holds = job[p].holds
  <2> HIDE DEF first, w
  <2> QED
    BY <1>1, JobUpdates
<1>4. \/ row[w].status = "NONE" /\ SetRow(w, NewRow) /\ Start(p, k)
      \/ UNCHANGED row /\ Done(p)
  BY DEF Admit
<1> HIDE DEF k
<1> QED
  BY <1>1, <1>2, <1>3, <1>4, MoveEffects, RowEffects, SameIsSame DEF Admit, At, world, environment

LEMMA FailOpenEffect ==
    ASSUME TypeOK, NEW p \in Actors, FailOpen(p)
    PROVE  /\ Moves(p, "abandon")
           /\ IF Fenced(row[job[p].w], job[p].gen, {"CREATING"})
              THEN OneRow(job[p].w, "FAILED", row[job[p].w].gen, row[job[p].w].named)
              ELSE SameRows
<1> DEFINE w == job[p].w
           old == row[w]
           failed == [old EXCEPT !.status = "FAILED"]
           q == IF Fenced(old, job[p].gen, {"CREATING"}) THEN failed ELSE old
<1>1. w \in Workspaces /\ old \in Rows /\ "abandon" \in Steps
  BY JobFields DEF Steps
<1>2. SetRow(w, q)
  BY DEF FailOpen, SetRow, TypeOK
<1>3. failed.status = "FAILED" /\ failed.gen = old.gen /\ failed.named = old.named
  BY <1>1 DEF Rows
<1>4. Moves(p, "abandon")
  BY <1>1, MoveEffects DEF FailOpen
<1> HIDE DEF failed
<1> QED
  BY <1>1, <1>2, <1>3, <1>4, RowEffects

LEMMA OpenEffects ==
    ASSUME TypeOK, NEW p \in Actors
    PROVE  /\ CapacityCheck(p) =>
                 /\ job[p].step = "capacity" /\ SameRows /\ (Moves(p, "admit") \/ Ends(p))
                 /\ UNCHANGED <<box, disk, dirty, stray, runner, toVisit, limit, drift>>
           /\ Clone(p) =>
                 /\ job[p].step = "clone" /\ disk' = [disk EXCEPT ![job[p].w] = TRUE]
                 /\ (Moves(p, "create") /\ SameRows) \/ FailOpen(p)
                 /\ UNCHANGED <<box, dirty, stray, runner, toVisit, limit, drift>>
           /\ OpenActivate(p) =>
                 /\ job[p].step = "activate" /\ job[p].op = "open"
                 /\ IF Fenced(row[job[p].w], job[p].gen, {"CREATING"})
                    THEN OneRow(job[p].w, "ACTIVE", row[job[p].w].gen, TRUE) /\ Ends(p)
                    ELSE SameRows /\ Moves(p, "undo")
                 /\ UNCHANGED <<box, disk, dirty, stray, runner, toVisit, limit, drift>>
           /\ Abandon(p) =>
                 /\ job[p].step = "abandon" /\ SameRows /\ Ends(p)
                 /\ \/ disk' = [disk EXCEPT ![job[p].w] = FALSE]
                       /\ dirty' = [dirty EXCEPT ![job[p].w] = FALSE]
                    \/ "files" \in Events /\ UNCHANGED <<disk, dirty>>
                 /\ UNCHANGED <<box, stray, runner, toVisit, limit, drift>>
<1>1. {"admit", "create", "undo"} \subseteq Steps
  BY DEF Steps
<1>2. job[p].w \in Workspaces /\ row[job[p].w] \in Rows
  BY JobFields
<1>3. CapacityCheck(p) => SameRows /\ (Moves(p, "admit") \/ Ends(p))
  BY <1>1, MoveEffects, SameIsSame DEF CapacityCheck
<1>4. Clone(p) => (Moves(p, "create") /\ SameRows) \/ FailOpen(p)
  BY <1>1, MoveEffects, SameIsSame DEF Clone
<1>5. ASSUME OpenActivate(p)
      PROVE  IF Fenced(row[job[p].w], job[p].gen, {"CREATING"})
             THEN OneRow(job[p].w, "ACTIVE", row[job[p].w].gen, TRUE) /\ Ends(p)
             ELSE SameRows /\ Moves(p, "undo")
  <2> DEFINE q == [row[job[p].w] EXCEPT !.status = "ACTIVE", !.named = TRUE]
  <2>1. q.status = "ACTIVE" /\ q.gen = row[job[p].w].gen /\ q.named = TRUE
    BY <1>2 DEF Rows
  <2>2. IF Fenced(row[job[p].w], job[p].gen, {"CREATING"})
        THEN SetRow(job[p].w, q) /\ Done(p)
        ELSE UNCHANGED row /\ Goto(p, "undo")
    BY <1>5 DEF OpenActivate
  <2> HIDE DEF q
  <2> QED
    BY <1>1, <1>2, <2>1, <2>2, MoveEffects, RowEffects, SameIsSame
<1>6. Abandon(p) => SameRows /\ Ends(p)
  BY MoveEffects, SameIsSame DEF Abandon
<1> QED
  BY <1>3, <1>4, <1>5, <1>6 DEF CapacityCheck, Clone, OpenActivate, Abandon, At, world, environment

-----------------------------------------------------------------------------
(* Executors, recovery and tool calls *)

LEMMA FailRecoveryEffect ==
    ASSUME TypeOK, NEW p \in Actors, FailRecovery(p)
    PROVE  SameRows /\ Ends(p) /\ Throws(p)
<1>1. job[p].w \in Workspaces
  BY JobFields
<1> QED
  BY <1>1, RowStatements, MoveEffects DEF FailRecovery

LEMMA FailEffect ==
    ASSUME TypeOK, NEW p \in Actors, Fail(p)
    PROVE  \/ /\ job[p].op = "open" /\ FailOpen(p) /\ UNCHANGED <<runner, toVisit, limit, drift>>
           \/ job[p].op # "open" /\ SameRows /\ Ends(p) /\ Throws(p)
  BY FailRecoveryEffect DEF Fail, environment

LEMMA LaunchEffects ==
    ASSUME TypeOK, NEW p \in Actors
    PROVE  /\ CreateRemovesOld(p) =>
                 /\ job[p].step = "create" /\ Moves(p, "launch") /\ SameRows /\ RemoveBox(job[p].w)
                 /\ UNCHANGED <<disk, dirty, stray, runner, toVisit, limit, drift>>
           /\ Launch(p) =>
                 /\ job[p].step = "launch" /\ Moves(p, "activate") /\ SameRows
                 /\ box' = [box EXCEPT ![job[p].w] = TRUE]
                 /\ UNCHANGED <<disk, dirty, stray, runner, toVisit, limit, drift>>
           /\ LaunchFails(p) =>
                 /\ job[p].step = "launch" /\ Fail(p) /\ UNCHANGED <<disk, dirty, stray>>
                 /\ "docker" \notin Events => UNCHANGED box
           /\ UndoLaunch(p) =>
                 /\ job[p].step = "undo" /\ Fail(p) /\ RemoveBox(job[p].w)
                 /\ UNCHANGED <<disk, dirty, stray>>
<1>1. {"launch", "activate"} \subseteq Steps
  BY DEF Steps
<1>2. CreateRemovesOld(p) => Moves(p, "launch") /\ SameRows
  BY <1>1, MoveEffects, SameIsSame DEF CreateRemovesOld
<1>3. Launch(p) => Moves(p, "activate") /\ SameRows
  BY <1>1, MoveEffects, SameIsSame DEF Launch
<1> QED
  BY <1>2, <1>3 DEF CreateRemovesOld, Launch, LaunchFails, UndoLaunch, At, environment

LEMMA InspectEffects ==
    ASSUME TypeOK, NEW p \in Actors
    PROVE  /\ InspectReuse(p) =>
                 /\ job[p].step = "inspect" /\ Moves(p, "finish") /\ SameRows
                 /\ job[p].w \notin Dependency
                 /\ UNCHANGED <<box, disk, dirty, stray, runner, toVisit, limit, drift>>
           /\ InspectRebuild(p) =>
                 /\ job[p].step = "inspect" /\ (Moves(p, "unstale") \/ Moves(p, "stat")) /\ SameRows
                 /\ UNCHANGED <<box, disk, dirty, stray, runner, toVisit, limit, drift>>
           /\ RemoveStaleBox(p) =>
                 /\ job[p].step = "unstale" /\ Moves(p, "stat") /\ SameRows /\ RemoveBox(job[p].w)
                 /\ UNCHANGED <<disk, dirty, stray, runner, toVisit, limit, drift>>
           /\ StatRepository(p) =>
                 /\ job[p].step = "stat" /\ SameRows /\ UNCHANGED <<box, disk, dirty, stray>>
                 /\ \/ Moves(p, "create") /\ UNCHANGED <<runner, toVisit, limit, drift>>
                    \/ Ends(p) /\ Throws(p)
<1>1. {"finish", "unstale", "stat", "create"} \subseteq Steps
  BY DEF Steps
<1>2. InspectReuse(p) => Moves(p, "finish") /\ SameRows
  BY <1>1, MoveEffects, SameIsSame DEF InspectReuse
<1>3. InspectRebuild(p) => (Moves(p, "unstale") \/ Moves(p, "stat")) /\ SameRows
  BY <1>1, MoveEffects, SameIsSame DEF InspectRebuild
<1>4. RemoveStaleBox(p) => Moves(p, "stat") /\ SameRows
  BY <1>1, MoveEffects, SameIsSame DEF RemoveStaleBox
<1>5. StatRepository(p) =>
        /\ SameRows
        /\ \/ Moves(p, "create") /\ UNCHANGED <<runner, toVisit, limit, drift>>
           \/ Ends(p) /\ Throws(p)
  BY <1>1, MoveEffects, SameIsSame, FailRecoveryEffect DEF StatRepository, environment
<1> QED
  BY <1>2, <1>3, <1>4, <1>5 DEF InspectReuse, InspectRebuild, RemoveStaleBox, StatRepository,
     MustRebuild, At, world, environment

\* What a job that starts from its reading of w is.
LEMMA ReadingEffects ==
    ASSUME TypeOK, NEW p \in Actors, NEW w \in Workspaces, NEW op \in Operations, NEW step \in Steps,
           NEW h \in BOOLEAN, NEW n \in BOOLEAN
    PROVE  /\ Start(p, Reading(op, step, w)) => Begins(p, op, step, w) /\ ~job'[p].holds
           /\ Start(p, [Reading(op, step, w) EXCEPT !.holds = h]) =>
                 Begins(p, op, step, w) /\ job'[p].holds = h
           /\ Start(p, [Reading(op, step, w) EXCEPT !.named = n]) =>
                 Begins(p, op, step, w) /\ ~job'[p].holds
<1> DEFINE x == Reading(op, step, w)
<1>1. /\ x.step = step /\ x.op = op /\ x.w = w /\ x.v = w /\ x.gen = row[w].gen /\ x.holds = FALSE
      /\ x \in Jobs
  <2>1. x \in Jobs
    BY ReadingIsJob
  <2> QED
    BY <2>1 DEF Reading, Idle
<1> HIDE DEF x
<1> DEFINE k == [x EXCEPT !.holds = h]
           m == [x EXCEPT !.named = n]
<1>2. /\ k.step = x.step /\ k.op = x.op /\ k.w = x.w /\ k.v = x.v /\ k.gen = x.gen /\ k.holds = h
      /\ m.step = x.step /\ m.op = x.op /\ m.w = x.w /\ m.v = x.v /\ m.gen = x.gen
      /\ m.holds = x.holds
  BY <1>1 DEF Jobs
<1> HIDE DEF k, m
<1>3. Start(p, x) => Others(p) /\ job'[p] = x
  BY MoveEffects
<1>4. Start(p, k) => Others(p) /\ job'[p] = k
  BY MoveEffects
<1>5. Start(p, m) => Others(p) /\ job'[p] = m
  BY MoveEffects
<1>6. Start(p, x) => Begins(p, op, step, w) /\ ~job'[p].holds
  BY <1>1, <1>3 DEF Begins
<1>7. Start(p, k) => Begins(p, op, step, w) /\ job'[p].holds = h
  BY <1>1, <1>2, <1>4 DEF Begins
<1>8. Start(p, m) => Begins(p, op, step, w) /\ ~job'[p].holds
  BY <1>1, <1>2, <1>5 DEF Begins
<1> QED
  BY <1>6, <1>7, <1>8 DEF x, k, m

LEMMA BeginEffect ==
    ASSUME TypeOK, NEW p \in Actors, NEW w \in Workspaces, NEW op \in {"recover", "renew"},
           NEW statuses, BeginRecovery(p, w, op, statuses)
    PROVE  /\ p \in Clients /\ runner = "up" /\ job[p].step = "idle" /\ SameRows
           /\ row[w].status \in statuses /\ Begins(p, op, "inspect", w)
           /\ job'[p].holds = (row[w].status = "EXPIRED_RECOVERABLE")
           /\ UNCHANGED <<box, disk, dirty, stray, runner, toVisit, limit, drift>>
<1> DEFINE h == row[w].status = "EXPIRED_RECOVERABLE"
<1>1. op \in Operations /\ "inspect" \in Steps /\ h \in BOOLEAN
  BY DEF Operations, RequestKinds, Steps
<1>2. SetRow(w, row[w]) \/ SetRow(w, Locked(row[w]))
  BY DEF BeginRecovery
<1>3. Start(p, [Reading(op, "inspect", w) EXCEPT !.holds = h])
  BY DEF BeginRecovery
<1> HIDE DEF h
<1>4. Begins(p, op, "inspect", w) /\ job'[p].holds = h
  BY <1>1, <1>3, ReadingEffects
<1>5. SameRows
  BY <1>2, RowStatements
<1> QED
  BY <1>4, <1>5 DEF BeginRecovery, Arrives, world, environment, h

LEMMA RecoverEffects ==
    ASSUME TypeOK, NEW p \in Actors
    PROVE  /\ RecoverActivate(p) =>
                 /\ job[p].step = "activate" /\ job[p].op # "open"
                 /\ IF MayActivate(job[p].w, job[p].gen, RecoverFrom)
                    THEN OneRow(job[p].w, "ACTIVE", row[job[p].w].gen, TRUE) /\ Ends(p)
                    ELSE SameRows /\ Moves(p, "undo")
                 /\ UNCHANGED <<box, disk, dirty, stray, runner, toVisit, limit, drift>>
           /\ RecoverFinish(p) =>
                 /\ job[p].step = "finish" /\ Ends(p)
                 /\ \/ SameRows
                    \/ /\ Fenced(row[job[p].w], job[p].gen, RecoverFrom)
                       /\ OneRow(job[p].w, "ACTIVE", row[job[p].w].gen, row[job[p].w].named)
                 /\ UNCHANGED <<box, disk, dirty, stray, runner, toVisit, limit, drift>>
<1> DEFINE w == job[p].w
           old == row[w]
           g == job[p].gen
           h == job[p].holds
<1>1. w \in Workspaces /\ old \in Rows /\ "undo" \in Steps
  BY JobFields DEF Steps
<1>2. Activated(old) \in Rows /\ Activated(old).status = "ACTIVE" /\ Activated(old).gen = old.gen
      /\ Activated(old).named = old.named
  BY <1>1, OtherStatements, StatusEffects, GenEffects, NamedEffects
<1>3. ASSUME RecoverActivate(p)
      PROVE  IF MayActivate(w, g, RecoverFrom)
             THEN OneRow(w, "ACTIVE", old.gen, TRUE) /\ Ends(p)
             ELSE SameRows /\ Moves(p, "undo")
  <2> DEFINE due == job[p].op = "boot" /\ old.leaseDue
             a == Activated(old)
             r == [a EXCEPT !.named = TRUE, !.leaseDue = due]
             q == IF h THEN Released(r, g) ELSE r
  <2>1. IF MayActivate(w, g, RecoverFrom)
        THEN SetRow(w, q) /\ Done(p) ELSE UNCHANGED row /\ Goto(p, "undo")
    BY <1>3 DEF RecoverActivate
  <2>2. due \in BOOLEAN
    BY <1>1 DEF Rows
  <2> HIDE DEF due
  <2>3. r \in Rows /\ r.status = a.status /\ r.gen = a.gen /\ r.named = TRUE
    <3> HIDE DEF a
    <3>1. a \in Rows
      BY <1>2 DEF a
    <3> QED
      BY <2>2, <3>1 DEF Rows
  <2> HIDE DEF r
  <2>4. q.status = "ACTIVE" /\ q.gen = old.gen /\ q.named = TRUE
    BY <1>2, <2>3, ReleaseEffects
  <2> HIDE DEF q, w, old, g
  <2>5. IF MayActivate(w, g, RecoverFrom)
        THEN OneRow(w, q.status, q.gen, q.named) /\ Done(p)
        ELSE SameRows /\ Goto(p, "undo")
    BY <1>1, <2>1, RowEffects, SameIsSame
  <2> QED
    BY <1>1, <2>4, <2>5, MoveEffects
<1>4. ASSUME RecoverFinish(p)
      PROVE  /\ Ends(p)
             /\ \/ SameRows
                \/ Fenced(old, g, RecoverFrom) /\ OneRow(w, "ACTIVE", old.gen, old.named)
  <2> DEFINE from == IF job[p].op = "renew" THEN RenewFrom ELSE RecoverFrom
             may == job[p].op # "boot" /\ MayActivate(w, g, from)
             a == Activated(old)
             q == IF h THEN Released(a, g) ELSE a
             s == IF h THEN Released(old, g) ELSE old
  <2>1. Done(p) /\ SetRow(w, IF may THEN q ELSE s)
    BY <1>4 DEF RecoverFinish
  <2>2. may => Fenced(old, g, RecoverFrom)
    BY DEF MayActivate, Fenced, RenewFrom, RecoverFrom
  <2>3. q.status = "ACTIVE" /\ q.gen = old.gen /\ q.named = old.named
    BY <1>2, ReleaseEffects
  <2>4. s.status = old.status /\ s.gen = old.gen /\ s.named = old.named
    BY <1>1, ReleaseEffects
  <2>5. CASE may
    <3>1. SetRow(w, q)
      BY <2>1, <2>5
    <3> HIDE DEF may, q, s
    <3>2. OneRow(w, q.status, q.gen, q.named)
      BY <1>1, <3>1, RowEffects
    <3> QED
      BY <2>1, <2>2, <2>3, <2>5, <3>2, MoveEffects
  <2>6. CASE ~may
    <3>1. SetRow(w, s)
      BY <2>1, <2>6
    <3> HIDE DEF may, q, s
    <3>2. SameRows
      BY <1>1, <2>4, <3>1, RowEffects
    <3> QED
      BY <2>1, <3>2, MoveEffects
  <2> QED
    BY <2>5, <2>6
<1> QED
  BY <1>3, <1>4 DEF RecoverActivate, RecoverFinish, At, world, environment

LEMMA ToolEffects ==
    ASSUME TypeOK, NEW p \in Actors
    PROVE  /\ ExportReturns(p) =>
                 /\ job[p].step = "export" /\ SameRows /\ Ends(p)
                 /\ \A v \in Workspaces : dirty'[v] => dirty[v]
                 /\ UNCHANGED <<box, disk, stray, runner, toVisit, limit, drift>>
           /\ ExecLease(p) =>
                 /\ job[p].step = "measure" /\ SameRows
                 /\ \/ /\ Others(p) /\ job'[p].step = "write" /\ job'[p].op = job[p].op
                       /\ job'[p].w = job[p].w /\ job'[p].gen = job[p].gen
                       /\ Fenced(row[job[p].w], job[p].gen, {"ACTIVE"})
                    \/ Ends(p)
                 /\ UNCHANGED <<box, disk, dirty, stray, runner, toVisit, limit, drift>>
           /\ BackgroundLocks(p) =>
                 /\ job[p].step = "measure" /\ SameRows
                 /\ Others(p) /\ job'[p].step = "write" /\ job'[p].op = job[p].op
                 /\ UNCHANGED <<box, disk, dirty, stray, runner, toVisit, limit, drift>>
           /\ ExecWrites(p) =>
                 /\ job[p].step = "write" /\ SameRows /\ Moves(p, "return")
                 /\ \A v \in Workspaces \ {job[p].w} : dirty'[v] = dirty[v]
                 /\ UNCHANGED <<box, disk, stray, runner, toVisit, limit, drift>>
           /\ ExecReturns(p) \/ BackgroundSettles(p) =>
                 /\ job[p].step = "return" /\ SameRows /\ Ends(p)
                 /\ UNCHANGED <<box, disk, dirty, stray, runner, toVisit, limit, drift>>
<1> DEFINE w == job[p].w
<1>1. w \in Workspaces /\ row[w] \in Rows /\ job[p] \in Jobs /\ "return" \in Steps
  BY JobFields DEF Steps, TypeOK
<1>2. ExportReturns(p) => SameRows /\ Ends(p)
  BY <1>1, MoveEffects, RowStatements DEF ExportReturns
<1>3. ASSUME ExecLease(p)
      PROVE  /\ SameRows
             /\ \/ /\ Others(p) /\ job'[p].step = "write" /\ job'[p].op = job[p].op
                   /\ job'[p].w = w /\ job'[p].gen = job[p].gen
                   /\ Fenced(row[w], job[p].gen, {"ACTIVE"})
                \/ Ends(p)
  <2> DEFINE k == [job[p] EXCEPT !.step = "write", !.holds = TRUE]
  <2>1. k.step = "write" /\ k.op = job[p].op /\ k.w = w /\ k.gen = job[p].gen
    BY <1>1 DEF Jobs
  <2>2. \/ /\ Fenced(row[w], job[p].gen, {"ACTIVE"})
           /\ SetRow(w, Leased(row[w])) /\ Start(p, k)
        \/ UNCHANGED row /\ Done(p)
    BY <1>3 DEF ExecLease, Leasable
  <2> HIDE DEF k
  <2> QED
    BY <1>1, <2>1, <2>2, MoveEffects, RowStatements, SameIsSame
<1>4. ASSUME BackgroundLocks(p)
      PROVE  SameRows /\ Others(p) /\ job'[p].step = "write" /\ job'[p].op = job[p].op
  <2> DEFINE found == Leasable(row[w], job[p].gen)
             k == [job[p] EXCEPT !.step = "write", !.holds = found]
  <2>1. k.step = "write" /\ k.op = job[p].op
    <3> HIDE DEF found
    <3> QED
      BY <1>1 DEF Jobs
  <2>2. (SetRow(w, Locked(row[w])) \/ SetRow(w, row[w])) /\ Start(p, k)
    BY <1>4 DEF BackgroundLocks
  <2> HIDE DEF k
  <2> QED
    BY <1>1, <2>1, <2>2, MoveEffects, RowStatements
<1>5. ExecWrites(p) => SameRows /\ Moves(p, "return")
  BY <1>1, MoveEffects, SameIsSame DEF ExecWrites
<1>6. ASSUME ExecReturns(p)  PROVE SameRows /\ Ends(p)
  <2> DEFINE g == job[p].gen
             r == Released(row[w], g)
             t == Touch(r, g)
  <2>1. /\ r \in Rows /\ r.status = row[w].status /\ r.gen = row[w].gen /\ r.named = row[w].named
    BY <1>1, ReleaseEffects
  <2>2. Done(p) /\ (SetRow(w, r) \/ SetRow(w, t))
    BY <1>6 DEF ExecReturns
  <2> HIDE DEF r
  <2>3. t.status = r.status /\ t.gen = r.gen /\ t.named = r.named
    BY <2>1, ReleaseEffects
  <2> HIDE DEF t
  <2> QED
    BY <1>1, <2>1, <2>2, <2>3, MoveEffects, RowEffects
<1>7. BackgroundSettles(p) => SameRows /\ Ends(p)
  <2>1. BackgroundSettles(p) => Done(p) /\ (SetRow(w, Unleased(row[w])) \/ SetRow(w, row[w]))
    BY DEF BackgroundSettles
  <2> QED
    BY <1>1, <2>1, MoveEffects, RowStatements
<1>8. ExportReturns(p) => \A v \in Workspaces : dirty'[v] => dirty[v]
  BY <1>1 DEF ExportReturns, TypeOK
<1>9. ExecWrites(p) => \A v \in Workspaces \ {w} : dirty'[v] = dirty[v]
  BY <1>1 DEF ExecWrites, TypeOK
<1> QED
  BY <1>2, <1>3, <1>4, <1>5, <1>6, <1>7, <1>8, <1>9 DEF ExportReturns, ExecLease, BackgroundLocks, ExecWrites,
     ExecReturns, BackgroundSettles, At, world, environment

LEMMA CallEffects ==
    ASSUME TypeOK, NEW p \in Clients, NEW w \in Workspaces
    PROVE  /\ Export(p, w) =>
                 /\ runner = "up" /\ SameRows /\ Begins(p, "export", "export", w)
                 /\ UNCHANGED <<box, disk, dirty, stray, runner, toVisit, limit, drift>>
           /\ Exec(p, w) =>
                 /\ runner = "up" /\ SameRows /\ \E op \in ToolCalls : Begins(p, op, "measure", w)
                 /\ UNCHANGED <<box, disk, dirty, stray, runner, toVisit, limit, drift>>
           /\ ExpireOnAccess(p, w) =>
                 /\ row[w].status = "ACTIVE"
                 /\ OneRow(w, "EXPIRED_RECOVERABLE", row[w].gen + 1, FALSE)
                 /\ stray' = [stray EXCEPT ![w] = @ \/ row[w].named]
                 /\ UNCHANGED <<box, disk, dirty, job, runner, toVisit, limit, drift>>
<1>1. p \in Actors /\ row[w] \in Rows
  BY DEF Actors, TypeOK
<1>2. /\ {"export", "exec", "async", "task"} \subseteq Operations /\ {"export", "measure"} \subseteq Steps
      /\ ToolCalls \subseteq Operations
  BY DEF Operations, RequestKinds, Steps, ToolCalls
<1>3. Export(p, w) => SameRows /\ Begins(p, "export", "export", w)
  BY <1>1, <1>2, RowStatements, ReadingEffects DEF Export
<1>4. Exec(p, w) => SameRows /\ \E op \in ToolCalls : Begins(p, op, "measure", w)
  BY <1>1, <1>2, RowStatements, ReadingEffects DEF Exec
<1>5. ASSUME ExpireOnAccess(p, w)
      PROVE  OneRow(w, "EXPIRED_RECOVERABLE", row[w].gen + 1, FALSE)
  <2> DEFINE c == Claimed(row[w])
             m == MarkedRecoverable(c)
  <2>1. c \in Rows /\ c.gen = row[w].gen + 1
    BY <1>1, ClaimStatements, GenEffects
  <2>2. SetRow(w, m)
    BY <1>5 DEF ExpireOnAccess
  <2> HIDE DEF c
  <2>3. m.status = "EXPIRED_RECOVERABLE" /\ m.gen = c.gen /\ m.named = FALSE
    BY <2>1, StatusEffects, GenEffects, NamedEffects
  <2> HIDE DEF m
  <2>4. OneRow(w, m.status, m.gen, m.named)
    BY <2>2, RowEffects
  <2> QED
    BY <2>1, <2>3, <2>4
<1> QED
  BY <1>3, <1>4, <1>5 DEF Export, Exec, ExpireOnAccess, Arrives, Expirable, world, environment

-----------------------------------------------------------------------------
(* Closing *)

LEMMA CloseRecordEffect ==
    ASSUME TypeOK, NEW p \in Actors, NEW w \in Workspaces, NEW op, CloseRecord(p, w, op)
    PROVE  /\ row[w].status = "REAPING" \/ ForceClaimable(row[w])
           /\ LET g == IF row[w].status = "REAPING" THEN row[w].gen ELSE row[w].gen + 1 IN
              /\ OneRow(w, "REAPING", g, row[w].named)
              /\ Others(p) /\ job'[p].step = "stop" /\ job'[p].op = op /\ job'[p].w = w
              /\ job'[p].gen = g /\ job'[p].named = row[w].named /\ ~job'[p].holds
<1> DEFINE joined == row[w].status = "REAPING"
           g == IF joined THEN row[w].gen ELSE row[w].gen + 1
           n == row[w].named
           k == [Idle EXCEPT !.op = op, !.step = "stop", !.w = w, !.v = w, !.gen = g, !.named = n]
<1>1. Start(p, k)
  BY DEF CloseRecord
<1>2. k.step = "stop" /\ k.op = op /\ k.w = w /\ k.gen = g /\ k.named = n /\ ~k.holds
  <2> HIDE DEF g, n
  <2> QED
    BY DEF Idle
<1> HIDE DEF k
<1>3. OneRow(w, "REAPING", g, n)
  <2>1. CASE joined
    <3>1. SetRow(w, row[w])
      BY <2>1 DEF CloseRecord
    <3>2. OneRow(w, row[w].status, row[w].gen, row[w].named)
      BY <3>1, RowEffects
    <3> QED
      BY <2>1, <3>2
  <2>2. CASE ~joined
    <3>1. SetRow(w, Claimed(row[w]))
      BY <2>2 DEF CloseRecord
    <3> QED
      BY <2>2, <3>1, RowStatements
  <2> QED
    BY <2>1, <2>2
<1>4. Others(p) /\ job'[p] = k
  BY <1>1, MoveEffects
<1> QED
  BY <1>2, <1>3, <1>4 DEF CloseRecord

LEMMA CloseEffects ==
    ASSUME TypeOK, NEW p \in Actors
    PROVE  /\ OversizeClose(p) =>
                 /\ "size" \in Events /\ runner = "up" /\ job[p].step \in {"measure", "weigh", "return"}
                 /\ CloseRecord(p, job[p].w, job[p].op)
                 /\ UNCHANGED <<box, disk, dirty, stray, runner, toVisit, limit, drift>>
           /\ CloseStopsWork(p) =>
                 /\ job[p].step = "stop" /\ SameRows
                 /\ IF job[p].named THEN Moves(p, "unbox") ELSE Moves(p, "files")
                 /\ UNCHANGED <<box, disk, dirty, stray, runner, toVisit, limit, drift>>
           /\ CloseStopFails(p) =>
                 /\ job[p].step = "stop" /\ "stop" \in Events /\ Ends(p) /\ Throws(p)
                 /\ IF Fenced(row[job[p].w], job[p].gen, {"REAPING"})
                    THEN OneRow(job[p].w, "EXPIRED_RECOVERABLE", row[job[p].w].gen, row[job[p].w].named)
                    ELSE SameRows
                 /\ UNCHANGED <<box, disk, dirty, stray>>
           /\ CloseRemovesBox(p) =>
                 /\ job[p].step = "unbox" /\ SameRows
                 /\ \/ /\ box' = [box EXCEPT ![job[p].w] = FALSE] /\ Moves(p, "files")
                       /\ UNCHANGED <<runner, toVisit, limit, drift>>
                    \/ "docker" \in Events /\ UNCHANGED box /\ Ends(p) /\ Throws(p)
                 /\ UNCHANGED <<disk, dirty, stray>>
           /\ CloseRemovesFiles(p) =>
                 /\ job[p].step = "files" /\ SameRows
                 /\ \/ /\ disk' = [disk EXCEPT ![job[p].w] = FALSE] /\ Moves(p, "commit")
                       /\ dirty' = [dirty EXCEPT ![job[p].w] = FALSE]
                       /\ UNCHANGED <<runner, toVisit, limit, drift>>
                    \/ "files" \in Events /\ UNCHANGED <<disk, dirty>> /\ Ends(p) /\ Throws(p)
                 /\ UNCHANGED <<box, stray>>
           /\ CloseCommits(p) =>
                 /\ job[p].step = "commit" /\ Ends(p)
                 /\ IF Fenced(row[job[p].w], job[p].gen, {"REAPING"})
                    THEN OneRow(job[p].w, "CLOSED", row[job[p].w].gen, FALSE)
                    ELSE SameRows
                 /\ UNCHANGED <<runner, toVisit, limit, drift>> \/ Throws(p)
                 /\ UNCHANGED <<box, disk, dirty, stray>>
<1> DEFINE w == job[p].w
<1>1. w \in Workspaces /\ row[w] \in Rows /\ {"unbox", "files", "commit"} \subseteq Steps
  BY JobFields DEF Steps
<1>2. ASSUME CloseStopsWork(p)
      PROVE  SameRows /\ IF job[p].named THEN Moves(p, "unbox") ELSE Moves(p, "files")
  BY <1>1, <1>2, MoveEffects, SameIsSame DEF CloseStopsWork
<1>3. ASSUME CloseStopFails(p)
      PROVE  /\ Ends(p)
             /\ IF Fenced(row[w], job[p].gen, {"REAPING"})
                THEN OneRow(w, "EXPIRED_RECOVERABLE", row[w].gen, row[w].named)
                ELSE SameRows
  BY <1>1, <1>3, MoveEffects, RowStatements DEF CloseStopFails, CloseThrows
<1>4. CloseRemovesBox(p) =>
        /\ SameRows
        /\ \/ box' = [box EXCEPT ![w] = FALSE] /\ Moves(p, "files") /\ UNCHANGED environment
           \/ "docker" \in Events /\ UNCHANGED box /\ Ends(p) /\ Throws(p)
  BY <1>1, MoveEffects, SameIsSame DEF CloseRemovesBox, CloseThrows
<1>5. CloseRemovesFiles(p) =>
        /\ SameRows
        /\ \/ /\ disk' = [disk EXCEPT ![w] = FALSE] /\ dirty' = [dirty EXCEPT ![w] = FALSE]
              /\ Moves(p, "commit") /\ UNCHANGED environment
           \/ "files" \in Events /\ UNCHANGED <<disk, dirty>> /\ Ends(p) /\ Throws(p)
  BY <1>1, MoveEffects, SameIsSame DEF CloseRemovesFiles, CloseThrows
<1>6. ASSUME CloseCommits(p)
      PROVE  /\ Ends(p)
             /\ IF Fenced(row[w], job[p].gen, {"REAPING"})
                THEN OneRow(w, "CLOSED", row[w].gen, FALSE) ELSE SameRows
             /\ UNCHANGED environment \/ Throws(p)
  BY <1>1, <1>6, MoveEffects, RowStatements, SameIsSame DEF CloseCommits, CloseThrows
<1>7. OversizeClose(p) =>
        /\ "size" \in Events /\ runner = "up" /\ job[p].step \in {"measure", "weigh", "return"}
        /\ CloseRecord(p, w, job[p].op)
        /\ UNCHANGED <<box, disk, dirty, stray, runner, toVisit, limit, drift>>
  BY DEF OversizeClose, world, environment
<1>8. /\ CloseStopsWork(p) =>
            job[p].step = "stop" /\ UNCHANGED <<box, disk, dirty, stray, runner, toVisit, limit, drift>>
      /\ CloseStopFails(p) =>
            /\ job[p].step = "stop" /\ "stop" \in Events /\ Throws(p)
            /\ UNCHANGED <<box, disk, dirty, stray>>
  BY DEF CloseStopsWork, CloseStopFails, CloseThrows, At, world, environment
<1>9. /\ CloseRemovesBox(p) => job[p].step = "unbox" /\ UNCHANGED <<disk, dirty, stray>>
      /\ CloseRemovesFiles(p) => job[p].step = "files" /\ UNCHANGED <<box, stray>>
      /\ CloseCommits(p) => job[p].step = "commit" /\ UNCHANGED <<box, disk, dirty, stray>>
  BY DEF CloseRemovesBox, CloseRemovesFiles, CloseCommits, At, world
<1>10. UNCHANGED environment => UNCHANGED <<runner, toVisit, limit, drift>>
  BY DEF environment
<1> HIDE DEF w
<1>11. w = job[p].w
  BY DEF w
<1> QED
  BY <1>2, <1>3, <1>4, <1>5, <1>6, <1>7, <1>8, <1>9, <1>10, <1>11

-----------------------------------------------------------------------------
(* The reaper *)

LEMMA ReapEffects ==
    ASSUME TypeOK, NEW w \in Workspaces
    PROVE  /\ ReapExpire(w) =>
                 \E i \in Jobs : ExpiryClaim(Reaper, w, i) /\ i.op = "reap" /\ ~i.holds
           /\ ReapWeigh(w) =>
                 /\ SameRows /\ Begins(Reaper, "reap", "weigh", w)
                 /\ UNCHANGED <<box, disk, dirty, stray, runner, toVisit, limit, drift>>
           /\ Quarantine(w) =>
                 /\ drift /\ w \in Dependency /\ row[w].status = "ACTIVE"
                 /\ OneRow(w, "NETWORK_QUARANTINED", row[w].gen, row[w].named)
                 /\ Begins(Reaper, "quarantine", "sweep", w)
                 /\ UNCHANGED <<box, disk, dirty, stray, runner, toVisit, limit, drift>>
           /\ QuarantineRetry(w) =>
                 /\ row[w].status = "NETWORK_QUARANTINED" /\ SameRows
                 /\ Begins(Reaper, "quarantine", "sweep", w)
                 /\ UNCHANGED <<box, disk, dirty, stray, runner, toVisit, limit, drift>>
           /\ AutoCheck(w) =>
                 /\ row[w].status = "EXPIRED_RECOVERABLE"
                 /\ SameRows /\ Begins(Reaper, "autoClose", "check", w)
                 /\ UNCHANGED <<box, disk, dirty, stray, runner, toVisit, limit, drift>>
           /\ Reaps(w) => runner = "up" /\ job[Reaper].step = "idle"
<1>1. Reaper \in Actors /\ row[w] \in Rows
  BY DEF Actors, TypeOK
<1>2. /\ {"reap", "quarantine", "autoClose"} \subseteq Operations
      /\ {"weigh", "sweep", "check"} \subseteq Steps
  BY DEF Operations, Steps
<1>3. ReapExpire(w) => \E i \in Jobs : ExpiryClaim(Reaper, w, i) /\ i.op = "reap" /\ ~i.holds
  <2> DEFINE k == [Idle EXCEPT !.op = "reap", !.w = w]
  <2>1. k \in Jobs /\ k.op = "reap" /\ ~k.holds
    BY <1>2, IdleIsJob DEF Jobs, Idle
  <2>2. ReapExpire(w) => ExpiryClaim(Reaper, w, k)
    BY DEF ReapExpire
  <2> HIDE DEF k
  <2> QED
    BY <2>1, <2>2
<1>4. ReapWeigh(w) => SameRows /\ Begins(Reaper, "reap", "weigh", w)
  BY <1>1, <1>2, SameIsSame, ReadingEffects DEF ReapWeigh
<1>5. Quarantine(w) =>
        /\ OneRow(w, "NETWORK_QUARANTINED", row[w].gen, row[w].named)
        /\ Begins(Reaper, "quarantine", "sweep", w)
  BY <1>1, <1>2, RowStatements, ReadingEffects DEF Quarantine
<1>6. QuarantineRetry(w) => SameRows /\ Begins(Reaper, "quarantine", "sweep", w)
  BY <1>1, <1>2, SameIsSame, ReadingEffects DEF QuarantineRetry
<1>7. AutoCheck(w) => SameRows /\ Begins(Reaper, "autoClose", "check", w)
  BY <1>1, <1>2, RowStatements, ReadingEffects DEF AutoCheck
<1> QED
  BY <1>3, <1>4, <1>5, <1>6, <1>7 DEF ReapExpire, ReapWeigh, Quarantine, QuarantineRetry, AutoCheck,
     AutoClosable, Reaps, ReaperIdle, world, environment

LEMMA ReaperEffects ==
    ASSUME TypeOK
    PROVE  /\ ReapWeighed => job[Reaper].step = "weigh" /\ SameRows /\ Ends(Reaper) /\ UNCHANGED <<box, disk, dirty, stray>>
           /\ QuarantineSweep =>
                 /\ job[Reaper].step = "sweep" /\ SameRows /\ (Moves(Reaper, "unname") \/ Ends(Reaper))
                 /\ UNCHANGED <<disk, dirty, stray>>
           /\ QuarantineUnname =>
                 /\ job[Reaper].step = "unname" /\ Ends(Reaper) /\ UNCHANGED <<box, disk, dirty, stray>>
                 /\ \A w \in Workspaces : row'[w].status = row[w].status /\ row'[w].gen = row[w].gen
           /\ AutoRead =>
                 /\ job[Reaper].step = "check" /\ SameRows /\ UNCHANGED <<box, disk, dirty, stray>>
                 /\ Others(Reaper) /\ job'[Reaper].step = "decide" /\ job'[Reaper].op = job[Reaper].op
                 /\ job'[Reaper].w = job[Reaper].w /\ job'[Reaper].gen = job[Reaper].gen
                 /\ job'[Reaper].holds = job[Reaper].holds
                 /\ ~job'[Reaper].unsaved => ~dirty[job[Reaper].w]
           /\ AutoDecide =>
                 LET w == job[Reaper].w
                     g == row[w].gen + 1 IN
                 /\ job[Reaper].step = "decide" /\ UNCHANGED <<box, disk, dirty, stray>>
                 /\ \/ SameRows /\ Ends(Reaper)
                    \/ /\ ~job[Reaper].unsaved
                       /\ Fenced(row[w], job[Reaper].gen, {"EXPIRED_RECOVERABLE"})
                       /\ OneRow(w, "REAPING", g, row[w].named) /\ Others(Reaper)
                       /\ job'[Reaper].step = "stop" /\ job'[Reaper].op = job[Reaper].op
                       /\ job'[Reaper].w = w /\ job'[Reaper].gen = g
                       /\ job'[Reaper].named = row[w].named /\ ~job'[Reaper].holds
           /\ ReaperContinues => runner # "down" /\ UNCHANGED <<runner, toVisit, limit, drift>>
<1>1. /\ Reaper \in Actors /\ job[Reaper] \in Jobs /\ job[Reaper].w \in Workspaces
      /\ row[job[Reaper].w] \in Rows /\ "unname" \in Steps
  BY JobFields DEF Actors, TypeOK, Steps
<1>2. ReapWeighed => SameRows /\ Ends(Reaper)
  BY <1>1, SameIsSame, MoveEffects DEF ReapWeighed
<1>3. QuarantineSweep => SameRows /\ (Moves(Reaper, "unname") \/ Ends(Reaper))
  BY <1>1, SameIsSame, MoveEffects DEF QuarantineSweep
<1>4. ASSUME QuarantineUnname
      PROVE  /\ Ends(Reaper)
             /\ \A w \in Workspaces : row'[w].status = row[w].status /\ row'[w].gen = row[w].gen
  <2>1. Ends(Reaper)
    BY <1>1, <1>4, MoveEffects DEF QuarantineUnname
  <2>2. \A w \in Workspaces : row'[w].status = row[w].status /\ row'[w].gen = row[w].gen
    BY <1>1, <1>4 DEF QuarantineUnname, TypeOK, Rows
  <2> QED
    BY <2>1, <2>2
<1>5. ASSUME AutoRead
      PROVE  /\ SameRows /\ Others(Reaper) /\ job'[Reaper].step = "decide"
             /\ job'[Reaper].op = job[Reaper].op
             /\ job'[Reaper].w = job[Reaper].w /\ job'[Reaper].gen = job[Reaper].gen
             /\ job'[Reaper].holds = job[Reaper].holds
             /\ ~job'[Reaper].unsaved => ~dirty[job[Reaper].w]
  <2>1. PICK unsaved \in {dirty[job[Reaper].w]} \cup {b \in {TRUE} : "check" \in Events} :
          Start(Reaper, [job[Reaper] EXCEPT !.step = "decide", !.unsaved = unsaved])
    BY <1>5 DEF AutoRead
  <2> DEFINE k == [job[Reaper] EXCEPT !.step = "decide", !.unsaved = unsaved]
  <2>2. /\ k.step = "decide" /\ k.op = job[Reaper].op /\ k.holds = job[Reaper].holds
        /\ k.w = job[Reaper].w /\ k.gen = job[Reaper].gen /\ k.unsaved = unsaved
    BY <1>1 DEF Jobs
  <2>3. Start(Reaper, k) /\ UNCHANGED row
    BY <1>5, <2>1 DEF AutoRead
  <2>4. unsaved = dirty[job[Reaper].w] \/ unsaved = TRUE
    BY <2>1
  <2> HIDE DEF k
  <2> QED
    BY <1>1, <2>2, <2>3, <2>4, MoveEffects, SameIsSame
<1>6. ASSUME AutoDecide
      PROVE  LET w == job[Reaper].w
                 g == row[w].gen + 1 IN
             \/ SameRows /\ Ends(Reaper)
             \/ /\ ~job[Reaper].unsaved
                /\ Fenced(row[w], job[Reaper].gen, {"EXPIRED_RECOVERABLE"})
                /\ OneRow(w, "REAPING", g, row[w].named) /\ Others(Reaper)
                /\ job'[Reaper].step = "stop" /\ job'[Reaper].op = job[Reaper].op
                /\ job'[Reaper].w = w /\ job'[Reaper].gen = g
                /\ job'[Reaper].named = row[w].named /\ ~job'[Reaper].holds
  <2> DEFINE w == job[Reaper].w
             g == job[Reaper].gen
             r == Released(row[w], g)
             next == g + 1
             named == r.named
             k == [job[Reaper] EXCEPT !.step = "stop", !.gen = next, !.holds = FALSE,
                                      !.named = named]
             d == Deferred(r)
             a == AutoClaimed(r)
  <2>1. r \in Rows /\ r.status = row[w].status /\ r.gen = row[w].gen /\ r.named = row[w].named
    BY <1>1, ReleaseEffects
  <2>2. \/ SetRow(w, d) /\ Done(Reaper)
        \/ /\ ~job[Reaper].unsaved /\ r.gen = g /\ r.status = "EXPIRED_RECOVERABLE"
           /\ SetRow(w, a) /\ Start(Reaper, k)
        \/ SetRow(w, r) /\ Done(Reaper)
    BY <1>6 DEF AutoDecide, AutoClosable
  <2>3. /\ k.step = "stop" /\ k.op = job[Reaper].op /\ k.w = job[Reaper].w /\ k.gen = next
        /\ k.named = named /\ ~k.holds
    <3> HIDE DEF next, named
    <3> QED
      BY <1>1, JobUpdates
  <2> HIDE DEF k, r
  <2>4. /\ d.status = r.status /\ d.gen = r.gen /\ d.named = r.named
        /\ a.status = "REAPING" /\ a.gen = r.gen + 1 /\ a.named = r.named
    BY <2>1, StatusEffects, GenEffects, NamedEffects
  <2> HIDE DEF d, a
  <2>5. CASE SetRow(w, d) /\ Done(Reaper)
    <3>1. SameRows
      BY <1>1, <2>1, <2>4, <2>5, RowEffects
    <3> QED
      BY <1>1, <2>5, <3>1, MoveEffects
  <2>6. CASE SetRow(w, r) /\ Done(Reaper)
    <3>1. SameRows
      BY <1>1, <2>1, <2>6, RowEffects
    <3> QED
      BY <1>1, <2>6, <3>1, MoveEffects
  <2>7. CASE /\ ~job[Reaper].unsaved /\ r.gen = g /\ r.status = "EXPIRED_RECOVERABLE"
             /\ SetRow(w, a) /\ Start(Reaper, k)
    <3>1. OneRow(w, a.status, a.gen, a.named)
      BY <1>1, <2>7, RowEffects
    <3>2. Others(Reaper) /\ job'[Reaper] = k
      BY <1>1, <2>7, MoveEffects
    <3>3. Fenced(row[w], g, {"EXPIRED_RECOVERABLE"}) /\ next = row[w].gen + 1
      BY <2>1, <2>7 DEF Fenced
    <3>4. OneRow(w, "REAPING", row[w].gen + 1, row[w].named)
      BY <2>1, <2>4, <3>1
    <3> QED
      BY <2>1, <2>3, <2>7, <3>2, <3>3, <3>4
  <2> QED
    BY <2>2, <2>5, <2>6, <2>7
<1>7. ReaperContinues => runner # "down" /\ UNCHANGED <<runner, toVisit, limit, drift>>
  BY DEF ReaperContinues, ReapWeighed, QuarantineSweep, QuarantineUnname, AutoRead, AutoDecide, At,
         environment
<1> QED
  BY <1>2, <1>3, <1>4, <1>5, <1>6, <1>7 DEF ReapWeighed, QuarantineSweep, QuarantineUnname, AutoRead,
     AutoDecide, At, world

-----------------------------------------------------------------------------
(* Who works on a record: the inductive invariant *)

\* The steps of an open, those at which it still owns a CREATING record, and those only it reaches.
OpenSteps     == {"capacity", "expire_box", "expire_mark", "admit", "clone", "create", "launch",
                  "activate", "undo", "abandon"}
CreatingSteps == {"clone", "create", "launch", "activate"}
OnlyOpenSteps == {"capacity", "admit", "clone", "abandon"}

\* The steps of a job that has claimed a record, to expire it or to close it.
ExpireSteps == {"expire_box", "expire_mark"}
CloseSteps  == {"stop", "unbox", "files", "commit"}
Claims(j)   == j.step \in ExpireSteps \cup CloseSteps
Target(j)   == IF j.step \in ExpireSteps THEN j.v ELSE j.w

JobShape(p, j) ==
    /\ j.op = "open" => p \in Clients /\ j.step \in OpenSteps
    /\ j.step \in OnlyOpenSteps => j.op = "open"
    /\ j.op = "open" /\ j.step \in CreatingSteps \cup {"undo"} => j.gen = 1
    /\ j.step = "finish" => j.w \notin Dependency

Opening(p, w) == job[p].op = "open" /\ job[p].w = w /\ job[p].step \in CreatingSteps

\* A CREATING record is at its first generation, so that the fence of its opener still matches; an
\* opener leaves the steps that own the record only with the record; and startup, before which every
\* opener is gone, visits what it left.
LifeInv ==
    /\ \A p \in Actors : JobShape(p, job[p])
    /\ runner # "up" => \A p \in Actors \ {Boot} : job[p].step = "idle"
    /\ runner # "boot" => job[Boot].step = "idle"
    /\ \A w \in Workspaces :
          /\ row[w].status = "NETWORK_QUARANTINED" => w \in Dependency
          /\ row[w].status = "CREATING" =>
                /\ row[w].gen = 1
                /\ runner = "up" => \E p \in Actors : Opening(p, w)
                /\ runner = "boot" => w \in toVisit
    /\ \A p \in Actors : Claims(job[p]) =>
          /\ job[p].gen <= row[Target(job[p])].gen
          /\ row[Target(job[p])].status \notin {"NONE", "CREATING"}

RebuildsStep ==
    \A w \in Workspaces :
        (row[w].status = "NETWORK_QUARANTINED" /\ row'[w].status = "ACTIVE")
        => \E p \in Actors : job[p].step = "activate" /\ job[p].w = w /\ job'[p].step = "idle"

\* What a step of p may do to a row.
RowMay(p, w) ==
    \/ row'[w].status = row[w].status /\ row'[w].gen = row[w].gen
    \/ /\ row'[w].status \in {"REAPING", "CLOSED", "FAILED", "EXPIRED_RECOVERABLE", "ACTIVE"}
       /\ row'[w].gen >= row[w].gen
       /\ row[w].status = "NETWORK_QUARANTINED" /\ row'[w].status = "ACTIVE" =>
             job[p].step = "activate" /\ job[p].w = w /\ job'[p].step = "idle"
    \/ /\ row'[w].status = "NETWORK_QUARANTINED" /\ w \in Dependency /\ row'[w].gen = row[w].gen
       /\ row[w].status # "NONE"
    \/ /\ row[w].status = "NONE" /\ row'[w].status = "CREATING" /\ row'[w].gen = 1
       /\ job'[p].op = "open" /\ job'[p].w = w /\ job'[p].step = "clone" /\ runner = "up"

\* Clients and the reaper act while the server listens, Boot before it does.
MayAct(p) == IF p = Boot THEN runner = "boot" ELSE runner = "up"

LifeStep(p) ==
    /\ Others(p) /\ MayAct(p) /\ JobShape(p, job'[p])
    /\ UNCHANGED <<runner, toVisit>> \/ (Ends(p) /\ Throws(p))
    /\ \A w \in Workspaces : RowMay(p, w)
    /\ \A w \in Workspaces :
          Opening(p, w) /\ row'[w].status = "CREATING" =>
             job'[p].op = "open" /\ job'[p].w = w /\ job'[p].step \in CreatingSteps
    /\ Claims(job'[p]) =>
          /\ job'[p].gen <= row'[Target(job'[p])].gen
          /\ row'[Target(job'[p])].status \notin {"NONE", "CREATING"}

LEMMA LifeStepKeeps ==
    ASSUME TypeOK, TypeOK', LifeInv, NEW p \in Actors, LifeStep(p)
    PROVE  LifeInv' /\ RebuildsStep
<1>1. \A q \in Actors \ {p} : job'[q] = job[q]
  BY DEF LifeStep, Others
<1>2. \A q \in Actors : JobShape(q, job'[q])
  BY <1>1 DEF LifeStep, LifeInv
<1>3. \/ UNCHANGED <<runner, toVisit>>
      \/ p = Boot /\ runner' = "down" /\ job'[p].step = "idle"
  BY DEF LifeStep, Throws, Ends
<1>4. runner' # "up" => \A q \in Actors \ {Boot} : job'[q].step = "idle"
  BY <1>1, <1>3 DEF LifeStep, LifeInv, MayAct
<1>5. runner' # "boot" => job'[Boot].step = "idle"
  BY <1>1, <1>3 DEF LifeStep, LifeInv, MayAct, Actors
<1>6. ASSUME NEW w \in Workspaces
      PROVE  /\ row'[w].status = "NETWORK_QUARANTINED" => w \in Dependency
             /\ row'[w].status = "CREATING" =>
                   /\ row'[w].gen = 1
                   /\ runner' = "up" => \E q \in Actors : Opening(q, w)'
                   /\ runner' = "boot" => w \in toVisit'
  <2>1. RowMay(p, w)
    BY DEF LifeStep
  <2>2. row'[w].status = "NETWORK_QUARANTINED" => w \in Dependency
    BY <2>1 DEF RowMay, LifeInv
  <2>3. CASE row'[w].status = "CREATING" /\ row[w].status = "CREATING"
    <3>1. row'[w].gen = 1 /\ row[w].gen = 1
      BY <2>1, <2>3 DEF RowMay, LifeInv
    <3>2. ASSUME runner' = "up"  PROVE \E q \in Actors : Opening(q, w)'
      <4>1. runner = "up"
        BY <1>3, <3>2
      <4>2. PICK q \in Actors : Opening(q, w)
        BY <2>3, <4>1 DEF LifeInv
      <4>3. CASE q = p
        BY <2>3, <4>2, <4>3 DEF LifeStep, Opening
      <4>4. CASE q # p
        BY <1>1, <4>2, <4>4 DEF Opening
      <4> QED
        BY <4>3, <4>4
    <3>3. ASSUME runner' = "boot"  PROVE w \in toVisit'
      BY <1>3, <2>3, <3>3 DEF LifeInv
    <3> QED
      BY <2>2, <3>1, <3>2, <3>3
  <2>4. CASE row'[w].status = "CREATING" /\ row[w].status # "CREATING"
    <3>1. row'[w].gen = 1 /\ Opening(p, w)' /\ runner = "up"
      BY <2>1, <2>4 DEF RowMay, Opening, CreatingSteps
    <3> QED
      BY <1>3, <2>2, <3>1 DEF LifeStep, MayAct
  <2> QED
    BY <2>2, <2>3, <2>4
<1>7. ASSUME NEW q \in Actors, Claims(job'[q])
      PROVE  /\ job'[q].gen <= row'[Target(job'[q])].gen
             /\ row'[Target(job'[q])].status \notin {"NONE", "CREATING"}
  <2>1. CASE q = p
    BY <1>7, <2>1 DEF LifeStep
  <2>2. CASE q # p
    <3> DEFINE v == Target(job[q])
    <3>1. job'[q] = job[q] /\ v \in Workspaces /\ job[q].gen \in Nat
      BY <1>1, <2>2, JobFields DEF Target
    <3>2. job[q].gen <= row[v].gen /\ row[v].status \notin {"NONE", "CREATING"}
      BY <1>7, <3>1 DEF LifeInv
    <3>3. row[v].gen \in Nat /\ row'[v].gen \in Nat
      BY <3>1 DEF TypeOK, Rows
    <3>4. RowMay(p, v)
      BY <3>1 DEF LifeStep
    <3>5. row'[v].gen >= row[v].gen /\ row'[v].status \notin {"NONE", "CREATING"}
      BY <3>2, <3>3, <3>4 DEF RowMay
    <3> HIDE DEF v
    <3>6. job'[q].gen <= row'[v].gen /\ row'[v].status \notin {"NONE", "CREATING"}
      BY <3>1, <3>2, <3>3, <3>5
    <3> QED
      BY <3>1, <3>6 DEF v
  <2> QED
    BY <2>1, <2>2
<1>8. RebuildsStep
  BY DEF RebuildsStep, LifeStep, RowMay
<1> QED
  BY <1>2, <1>4, <1>5, <1>6, <1>7, <1>8 DEF LifeInv

-----------------------------------------------------------------------------
(* Every step of an actor keeps the invariant *)

LEMMA RowMays ==
    ASSUME TypeOK, NEW p \in Actors
    PROVE  /\ SameRows => \A w \in Workspaces : RowMay(p, w)
           /\ \A w \in Workspaces, s \in {"REAPING", "CLOSED", "FAILED", "EXPIRED_RECOVERABLE"}, n \in BOOLEAN :
                 OneRow(w, s, row[w].gen, n) => \A v \in Workspaces : RowMay(p, v)
           /\ \A w \in Workspaces, s \in {"REAPING", "EXPIRED_RECOVERABLE"}, n \in BOOLEAN :
                 OneRow(w, s, row[w].gen + 1, n) => \A v \in Workspaces : RowMay(p, v)
           /\ \A w \in Workspaces, n \in BOOLEAN :
                 /\ OneRow(w, "ACTIVE", row[w].gen, n)
                 /\ row[w].status = "NETWORK_QUARANTINED" =>
                       job[p].step = "activate" /\ job[p].w = w /\ job'[p].step = "idle"
                 => \A v \in Workspaces : RowMay(p, v)
<1>1. \A w \in Workspaces : row[w].gen \in Nat
  BY DEF TypeOK, Rows
<1> QED
  BY <1>1 DEF SameRows, OneRow, RowMay

LEMMA EndsLive ==
    ASSUME LifeInv, NEW p \in Actors, MayAct(p), Ends(p), \A w \in Workspaces : RowMay(p, w),
           UNCHANGED <<runner, toVisit>> \/ Throws(p),
           job[p].op = "open" /\ job[p].step \in CreatingSteps => row'[job[p].w].status # "CREATING"
    PROVE  LifeStep(p)
  BY DEF LifeStep, Ends, JobShape, Opening, OnlyOpenSteps, CreatingSteps, Claims, ExpireSteps, CloseSteps

LEMMA MovesLive ==
    ASSUME TypeOK, LifeInv, NEW p \in Actors, MayAct(p), NEW s, Moves(p, s),
           \A w \in Workspaces : RowMay(p, w), UNCHANGED <<runner, toVisit>>,
           job[p].op = "open" => s \in OpenSteps,
           s \in OnlyOpenSteps => job[p].op = "open",
           job[p].op = "open" /\ s \in CreatingSteps \cup {"undo"} =>
              job[p].step \in CreatingSteps \cup {"undo"},
           s = "finish" => job[p].w \notin Dependency,
           job[p].op = "open" /\ job[p].step \in CreatingSteps
              /\ row'[job[p].w].status = "CREATING" => s \in CreatingSteps,
           s \in ExpireSteps => SameRows /\ job[p].step \in ExpireSteps,
           s \in CloseSteps => SameRows /\ job[p].step \in CloseSteps
    PROVE  LifeStep(p)
<1>1. JobShape(p, job[p])
  BY DEF LifeInv
<1>2. JobShape(p, job'[p])
  BY <1>1 DEF JobShape, Moves
<1>3. ASSUME Claims(job'[p])
      PROVE  /\ job'[p].gen <= row'[Target(job'[p])].gen
             /\ row'[Target(job'[p])].status \notin {"NONE", "CREATING"}
  <2>1. /\ SameRows /\ Claims(job[p]) /\ Target(job'[p]) = Target(job[p])
        /\ job'[p].gen = job[p].gen
    BY <1>3 DEF Claims, Target, Moves, ExpireSteps, CloseSteps
  <2>2. Target(job[p]) \in Workspaces
    BY JobFields DEF Target
  <2> QED
    BY <2>1, <2>2 DEF LifeInv, SameRows
<1>4. ASSUME NEW w \in Workspaces, Opening(p, w), row'[w].status = "CREATING"
      PROVE  job'[p].op = "open" /\ job'[p].w = w /\ job'[p].step \in CreatingSteps
  BY <1>4 DEF Opening, Moves
<1> QED
  BY <1>2, <1>3, <1>4 DEF LifeStep, Moves

LEMMA BeginsLive ==
    ASSUME LifeInv, NEW p \in Actors, MayAct(p), Others(p), \A w \in Workspaces : RowMay(p, w),
           UNCHANGED <<runner, toVisit>>, job[p].op # "open" \/ job[p].step = "idle",
           job'[p].op # "open", job'[p].step \notin OnlyOpenSteps \cup {"finish"},
           ~Claims(job'[p])
    PROVE  LifeStep(p)
  BY DEF LifeStep, JobShape, Opening, CreatingSteps

LEMMA ClaimLive ==
    ASSUME TypeOK, LifeInv, NEW p \in Actors, MayAct(p), Others(p), NEW w \in Workspaces, NEW n \in BOOLEAN,
           OneRow(w, "REAPING", job'[p].gen, n), job'[p].gen \in {row[w].gen, row[w].gen + 1},
           UNCHANGED <<runner, toVisit>>, Claims(job'[p]), Target(job'[p]) = w,
           job[p].op = "open" => job[p].step \notin CreatingSteps,
           job'[p].op = "open" => p \in Clients /\ job'[p].step \in ExpireSteps
    PROVE  LifeStep(p)
<1>1. row[w].gen \in Nat
  BY DEF TypeOK, Rows
<1>2. \A v \in Workspaces : RowMay(p, v)
  BY <1>1, RowMays
<1>3. JobShape(p, job'[p])
  BY DEF JobShape, Claims, ExpireSteps, CloseSteps, OpenSteps, OnlyOpenSteps, CreatingSteps
<1>4. job'[p].gen <= row'[w].gen /\ row'[w].status \notin {"NONE", "CREATING"}
  BY <1>1 DEF OneRow
<1> QED
  BY <1>2, <1>3, <1>4 DEF LifeStep, Opening

LEMMA FailOpenLive ==
    ASSUME TypeOK, LifeInv, NEW p \in Actors, MayAct(p), FailOpen(p), job[p].op = "open",
           job[p].step \in CreatingSteps \cup {"undo"}, UNCHANGED <<runner, toVisit>>
    PROVE  LifeStep(p)
<1> DEFINE w == job[p].w
<1>1. /\ w \in Workspaces /\ row[w].gen \in Nat /\ job[p].gen = 1
      /\ row[w].named \in BOOLEAN
  BY JobFields DEF LifeInv, JobShape, TypeOK, Rows
<1>2. Moves(p, "abandon") /\ \A v \in Workspaces : RowMay(p, v)
  BY <1>1, FailOpenEffect, RowMays
<1>3. row'[w].status # "CREATING"
  <2>1. row[w].status = "CREATING" => Fenced(row[w], job[p].gen, {"CREATING"})
    BY <1>1 DEF LifeInv, Fenced
  <2> QED
    BY <1>1, <2>1, FailOpenEffect DEF OneRow, SameRows
<1>4. /\ "abandon" \in OpenSteps /\ "abandon" \notin CreatingSteps \cup {"undo"}
      /\ "abandon" \notin ExpireSteps /\ "abandon" \notin CloseSteps
  BY DEF OpenSteps, CreatingSteps, ExpireSteps, CloseSteps
<1> HIDE DEF w
<1>5. row'[job[p].w].status # "CREATING"
  BY <1>3 DEF w
<1> QED
  BY <1>2, <1>4, <1>5, MovesLive

LEMMA ActorMayAct ==
    ASSUME LifeInv, NEW p \in Actors, job[p].step # "idle", runner # "down"
    PROVE  MayAct(p)
  BY DEF LifeInv, MayAct, TypeOK

LEMMA ExpiryLive ==
    ASSUME TypeOK, LifeInv, NEW p \in Actors, MayAct(p),
           ExpireRemoveBox(p) \/ ExpireMark(p) \/ CapacityExpire(p)
    PROVE  LifeStep(p)
<1>1. /\ JobShape(p, job[p]) /\ job[p].v \in Workspaces /\ row[job[p].v] \in Rows
      /\ job[p] \in Jobs
  BY JobFields DEF LifeInv, TypeOK
<1>2. CASE ExpireRemoveBox(p)
  <2>1. /\ job[p].step = "expire_box" /\ Moves(p, "expire_mark") /\ SameRows
        /\ UNCHANGED <<runner, toVisit>>
    BY <1>2, ExpireEffects
  <2> QED
    BY <2>1, RowMays, MovesLive
       DEF OpenSteps, OnlyOpenSteps, CreatingSteps, ExpireSteps, CloseSteps
<1>3. CASE ExpireMark(p)
  <2>1. /\ job[p].step = "expire_mark" /\ UNCHANGED <<runner, toVisit>>
        /\ IF Fenced(row[job[p].v], job[p].gen, {"REAPING"})
           THEN OneRow(job[p].v, "EXPIRED_RECOVERABLE", row[job[p].v].gen, FALSE)
           ELSE SameRows
        /\ IF job[p].op = "open" THEN Moves(p, "capacity") ELSE Ends(p)
    BY <1>3, ExpireEffects
  <2>2. \A w \in Workspaces : RowMay(p, w)
    BY <1>1, <2>1, RowMays
  <2>3. CASE job[p].op = "open"
    <3>1. Moves(p, "capacity") /\ "capacity" \in OpenSteps
      BY <2>1, <2>3 DEF OpenSteps
    <3> QED
      BY <2>1, <2>2, <2>3, <3>1, MovesLive DEF CreatingSteps, ExpireSteps, CloseSteps
  <2>4. CASE job[p].op # "open"
    BY <2>1, <2>2, <2>4, EndsLive
  <2> QED
    BY <2>3, <2>4
<1>4. CASE CapacityExpire(p)
  <2>1. PICK v \in OwnExpirable(job[p].w) : ExpiryClaim(p, v, job[p])
    BY <1>4 DEF CapacityExpire
  <2>2. v \in Workspaces /\ job[p].step = "capacity" /\ job[p].op = "open" /\ p \in Clients
    BY <1>1, <1>4 DEF OwnExpirable, CapacityExpire, At, JobShape, OnlyOpenSteps
  <2>3. /\ OneRow(v, "REAPING", row[v].gen + 1, row[v].named)
        /\ Others(p) /\ job'[p].step = "expire_box" /\ job'[p].op = "open" /\ job'[p].v = v
        /\ job'[p].gen = row[v].gen + 1 /\ UNCHANGED <<runner, toVisit>>
    BY <1>1, <2>1, <2>2, ExpiryClaimEffect
  <2>4. row[v].named \in BOOLEAN
    BY <2>2 DEF TypeOK, Rows
  <2>5. "expire_box" \in ExpireSteps /\ "capacity" \notin CreatingSteps
    BY DEF ExpireSteps, CreatingSteps
  <2> QED
    BY <2>2, <2>3, <2>4, <2>5, ClaimLive DEF Claims, Target
<1> QED
  BY <1>2, <1>3, <1>4

LEMMA OpenLive ==
    ASSUME TypeOK, LifeInv, NEW p \in Actors, MayAct(p),
           CapacityCheck(p) \/ Admit(p) \/ Clone(p) \/ OpenActivate(p) \/ Abandon(p)
    PROVE  LifeStep(p)
<1>1. /\ JobShape(p, job[p]) /\ job[p].w \in Workspaces /\ row[job[p].w] \in Rows
      /\ row[job[p].w].gen \in Nat /\ row[job[p].w].named \in BOOLEAN
  BY JobFields DEF LifeInv, TypeOK, Rows
<1>2. CASE CapacityCheck(p)
  <2>1. /\ job[p].step = "capacity" /\ SameRows /\ (Moves(p, "admit") \/ Ends(p))
        /\ UNCHANGED <<runner, toVisit>> /\ job[p].op = "open"
    BY <1>1, <1>2, OpenEffects DEF JobShape, OnlyOpenSteps
  <2>2. \A w \in Workspaces : RowMay(p, w)
    BY <2>1, RowMays
  <2>3. CASE Moves(p, "admit")
    BY <2>1, <2>2, <2>3, MovesLive DEF OpenSteps, CreatingSteps, ExpireSteps, CloseSteps
  <2>4. CASE Ends(p)
    BY <2>1, <2>2, <2>4, EndsLive DEF CreatingSteps
  <2> QED
    BY <2>1, <2>3, <2>4
<1>3. CASE Admit(p)
  <2>1. job[p].step = "admit" /\ job[p].op = "open" /\ p \in Clients /\ runner = "up"
    BY <1>1, <1>3, AdmitEffect, ActorsAssumption DEF JobShape, OnlyOpenSteps, MayAct
  <2>2. UNCHANGED <<runner, toVisit>>
    BY <1>3, AdmitEffect
  <2>3. CASE SameRows /\ Ends(p)
    BY <2>1, <2>2, <2>3, RowMays, EndsLive DEF CreatingSteps
  <2>4. CASE /\ row[job[p].w].status = "NONE" /\ OneRow(job[p].w, "CREATING", 1, FALSE)
             /\ Others(p) /\ job'[p].step = "clone" /\ job'[p].op = "open"
             /\ job'[p].w = job[p].w /\ job'[p].gen = 1
    <3>1. JobShape(p, job'[p]) /\ ~Claims(job'[p])
      BY <2>1, <2>4 DEF JobShape, OpenSteps, OnlyOpenSteps, Claims, ExpireSteps, CloseSteps
    <3>2. ASSUME NEW v \in Workspaces  PROVE RowMay(p, v)
      BY <2>1, <2>4 DEF RowMay, OneRow
    <3>3. \A v \in Workspaces : ~Opening(p, v)
      BY <2>1 DEF Opening, CreatingSteps
    <3> QED
      BY <2>2, <2>4, <3>1, <3>2, <3>3 DEF LifeStep
  <2> QED
    BY <1>3, <2>1, <2>3, <2>4, AdmitEffect
<1>4. CASE Clone(p)
  <2>1. /\ job[p].step = "clone" /\ job[p].op = "open" /\ UNCHANGED <<runner, toVisit>>
        /\ (Moves(p, "create") /\ SameRows) \/ FailOpen(p)
    BY <1>1, <1>4, OpenEffects DEF JobShape, OnlyOpenSteps
  <2>2. CASE Moves(p, "create") /\ SameRows
    BY <2>1, <2>2, RowMays, MovesLive
       DEF OpenSteps, OnlyOpenSteps, CreatingSteps, ExpireSteps, CloseSteps
  <2>3. CASE FailOpen(p)
    BY <2>1, <2>3, FailOpenLive DEF CreatingSteps
  <2> QED
    BY <2>1, <2>2, <2>3
<1>5. CASE OpenActivate(p)
  <2>1. /\ job[p].step = "activate" /\ job[p].op = "open" /\ UNCHANGED <<runner, toVisit>>
        /\ IF Fenced(row[job[p].w], job[p].gen, {"CREATING"})
           THEN OneRow(job[p].w, "ACTIVE", row[job[p].w].gen, TRUE) /\ Ends(p)
           ELSE SameRows /\ Moves(p, "undo")
    BY <1>5, OpenEffects
  <2>2. CASE Fenced(row[job[p].w], job[p].gen, {"CREATING"})
    <3>1. row[job[p].w].status = "CREATING"
      BY <2>2 DEF Fenced
    <3>2. OneRow(job[p].w, "ACTIVE", row[job[p].w].gen, TRUE) /\ Ends(p)
      BY <2>1, <2>2
    <3>3. \A w \in Workspaces : RowMay(p, w)
      BY <1>1, <3>1, <3>2, RowMays
    <3>4. row'[job[p].w].status # "CREATING"
      BY <3>2 DEF OneRow
    <3> QED
      BY <2>1, <3>2, <3>3, <3>4, EndsLive
  <2>3. CASE ~Fenced(row[job[p].w], job[p].gen, {"CREATING"})
    <3>1. SameRows /\ Moves(p, "undo")
      BY <2>1, <2>3
    <3>2. job[p].gen = 1
      BY <1>1, <2>1 DEF JobShape, CreatingSteps
    <3>3. row[job[p].w].status # "CREATING"
      BY <1>1, <2>3, <3>2 DEF Fenced, LifeInv
    <3>4. row'[job[p].w].status # "CREATING"
      BY <1>1, <3>1, <3>3 DEF SameRows
    <3>5. \A w \in Workspaces : RowMay(p, w)
      BY <3>1, RowMays
    <3> QED
      BY <2>1, <3>1, <3>4, <3>5, MovesLive
         DEF OpenSteps, OnlyOpenSteps, CreatingSteps, ExpireSteps, CloseSteps
  <2> QED
    BY <2>2, <2>3
<1>6. CASE Abandon(p)
  <2>1. job[p].step = "abandon" /\ SameRows /\ Ends(p) /\ UNCHANGED <<runner, toVisit>>
    BY <1>6, OpenEffects
  <2> QED
    BY <2>1, RowMays, EndsLive DEF CreatingSteps
<1> QED
  BY <1>2, <1>3, <1>4, <1>5, <1>6

LEMMA FailLive ==
    ASSUME TypeOK, LifeInv, NEW p \in Actors, MayAct(p), Fail(p),
           job[p].step \in CreatingSteps \cup {"undo"}
    PROVE  LifeStep(p)
<1>1. CASE /\ job[p].op = "open" /\ FailOpen(p) /\ UNCHANGED <<runner, toVisit, limit, drift>>
  BY <1>1, FailOpenLive
<1>2. CASE job[p].op # "open" /\ SameRows /\ Ends(p) /\ Throws(p)
  BY <1>2, RowMays, EndsLive
<1> QED
  BY <1>1, <1>2, FailEffect

LEMMA ExecutorLive ==
    ASSUME TypeOK, LifeInv, NEW p \in Actors, MayAct(p),
           CreateRemovesOld(p) \/ Launch(p) \/ LaunchFails(p) \/ UndoLaunch(p) \/ InspectReuse(p)
              \/ InspectRebuild(p) \/ RemoveStaleBox(p) \/ StatRepository(p)
    PROVE  LifeStep(p)
<1>1. JobShape(p, job[p])
  BY DEF LifeInv
<1>2. CASE CreateRemovesOld(p)
  <2>1. job[p].step = "create" /\ Moves(p, "launch") /\ SameRows /\ UNCHANGED <<runner, toVisit>>
    BY <1>2, LaunchEffects
  <2> QED
    BY <2>1, RowMays, MovesLive DEF OpenSteps, OnlyOpenSteps, CreatingSteps, ExpireSteps, CloseSteps
<1>3. CASE Launch(p)
  <2>1. job[p].step = "launch" /\ Moves(p, "activate") /\ SameRows /\ UNCHANGED <<runner, toVisit>>
    BY <1>3, LaunchEffects
  <2> QED
    BY <2>1, RowMays, MovesLive DEF OpenSteps, OnlyOpenSteps, CreatingSteps, ExpireSteps, CloseSteps
<1>4. CASE LaunchFails(p) \/ UndoLaunch(p)
  <2>1. Fail(p) /\ job[p].step \in {"launch", "undo"}
    BY <1>4, LaunchEffects
  <2> QED
    BY <2>1, FailLive DEF CreatingSteps
<1>5. ASSUME job[p].step \in {"inspect", "unstale", "stat"}  PROVE job[p].op # "open"
  BY <1>1, <1>5 DEF JobShape, OpenSteps
<1>6. CASE InspectReuse(p)
  <2>1. /\ job[p].step = "inspect" /\ Moves(p, "finish") /\ SameRows /\ job[p].w \notin Dependency
        /\ UNCHANGED <<runner, toVisit>>
    BY <1>6, InspectEffects
  <2> QED
    BY <1>5, <2>1, RowMays, MovesLive DEF OnlyOpenSteps, ExpireSteps, CloseSteps
<1>7. CASE InspectRebuild(p)
  <2>1. /\ job[p].step = "inspect" /\ (Moves(p, "unstale") \/ Moves(p, "stat")) /\ SameRows
        /\ UNCHANGED <<runner, toVisit>>
    BY <1>7, InspectEffects
  <2>2. CASE Moves(p, "unstale")
    BY <1>5, <2>1, <2>2, RowMays, MovesLive DEF OnlyOpenSteps, ExpireSteps, CloseSteps
  <2>3. CASE Moves(p, "stat")
    BY <1>5, <2>1, <2>3, RowMays, MovesLive DEF OnlyOpenSteps, ExpireSteps, CloseSteps
  <2> QED
    BY <2>1, <2>2, <2>3
<1>8. CASE RemoveStaleBox(p)
  <2>1. job[p].step = "unstale" /\ Moves(p, "stat") /\ SameRows /\ UNCHANGED <<runner, toVisit>>
    BY <1>8, InspectEffects
  <2> QED
    BY <1>5, <2>1, RowMays, MovesLive DEF OnlyOpenSteps, ExpireSteps, CloseSteps
<1>9. CASE StatRepository(p)
  <2>1. /\ job[p].step = "stat" /\ SameRows
        /\ \/ Moves(p, "create") /\ UNCHANGED <<runner, toVisit>>
           \/ Ends(p) /\ Throws(p)
    BY <1>9, InspectEffects
  <2>2. CASE Moves(p, "create") /\ UNCHANGED <<runner, toVisit>>
    BY <1>5, <2>1, <2>2, RowMays, MovesLive DEF OnlyOpenSteps, ExpireSteps, CloseSteps
  <2>3. CASE Ends(p) /\ Throws(p)
    BY <1>5, <2>1, <2>3, RowMays, EndsLive
  <2> QED
    BY <2>1, <2>2, <2>3
<1> QED
  BY <1>2, <1>3, <1>4, <1>6, <1>7, <1>8, <1>9

LEMMA RecoveryLive ==
    ASSUME TypeOK, LifeInv, NEW p \in Actors, MayAct(p), RecoverActivate(p) \/ RecoverFinish(p)
    PROVE  LifeStep(p)
<1>1. /\ JobShape(p, job[p]) /\ job[p].w \in Workspaces /\ row[job[p].w] \in Rows
      /\ row[job[p].w].gen \in Nat /\ row[job[p].w].named \in BOOLEAN
  BY JobFields DEF LifeInv, TypeOK, Rows
<1>2. CASE RecoverActivate(p)
  <2>1. /\ job[p].step = "activate" /\ job[p].op # "open" /\ UNCHANGED <<runner, toVisit>>
        /\ IF MayActivate(job[p].w, job[p].gen, RecoverFrom)
           THEN OneRow(job[p].w, "ACTIVE", row[job[p].w].gen, TRUE) /\ Ends(p)
           ELSE SameRows /\ Moves(p, "undo")
    BY <1>2, RecoverEffects
  <2>2. CASE OneRow(job[p].w, "ACTIVE", row[job[p].w].gen, TRUE) /\ Ends(p)
    <3>1. job'[p].step = "idle"
      BY <2>2 DEF Ends
    <3>2. \A w \in Workspaces : RowMay(p, w)
      BY <1>1, <2>1, <2>2, <3>1, RowMays
    <3> QED
      BY <2>1, <2>2, <3>2, EndsLive
  <2>3. CASE SameRows /\ Moves(p, "undo")
    BY <2>1, <2>3, RowMays, MovesLive DEF OnlyOpenSteps, ExpireSteps, CloseSteps
  <2> QED
    BY <2>1, <2>2, <2>3
<1>3. CASE RecoverFinish(p)
  <2>1. /\ job[p].step = "finish" /\ Ends(p) /\ UNCHANGED <<runner, toVisit>>
        /\ \/ SameRows
           \/ OneRow(job[p].w, "ACTIVE", row[job[p].w].gen, row[job[p].w].named)
    BY <1>3, RecoverEffects
  <2>2. row[job[p].w].status # "NETWORK_QUARANTINED"
    BY <1>1, <2>1 DEF JobShape, LifeInv
  <2>3. \A w \in Workspaces : RowMay(p, w)
    BY <1>1, <2>1, <2>2, RowMays
  <2> QED
    BY <2>1, <2>3, EndsLive DEF CreatingSteps
<1> QED
  BY <1>2, <1>3

LEMMA ToolLive ==
    ASSUME TypeOK, LifeInv, NEW p \in Actors, MayAct(p),
           ExportReturns(p) \/ ExecLease(p) \/ BackgroundLocks(p) \/ ExecWrites(p) \/ ExecReturns(p)
              \/ BackgroundSettles(p)
    PROVE  LifeStep(p)
<1>1. /\ SameRows /\ UNCHANGED <<runner, toVisit>>
      /\ job[p].step \in {"export", "measure", "write", "return"}
      /\ \/ Ends(p) \/ Moves(p, "return")
         \/ Others(p) /\ job'[p].step = "write" /\ job'[p].op = job[p].op
  <2>1. CASE ExportReturns(p) \/ ExecWrites(p)
    BY <2>1, ToolEffects
  <2>2. CASE ExecLease(p) \/ BackgroundLocks(p)
    BY <2>2, ToolEffects
  <2>3. CASE ExecReturns(p) \/ BackgroundSettles(p)
    BY <2>3, ToolEffects
  <2> QED
    BY <2>1, <2>2, <2>3
<1>2. job[p].op # "open"
  BY <1>1 DEF LifeInv, JobShape, OpenSteps
<1>3. \A w \in Workspaces : RowMay(p, w)
  BY <1>1, RowMays
<1>4. CASE Ends(p)
  BY <1>1, <1>2, <1>3, <1>4, EndsLive
<1>5. CASE Moves(p, "return")
  BY <1>1, <1>2, <1>3, <1>5, MovesLive DEF OnlyOpenSteps, ExpireSteps, CloseSteps
<1>6. CASE Others(p) /\ job'[p].step = "write" /\ job'[p].op = job[p].op
  BY <1>1, <1>2, <1>3, <1>6, BeginsLive DEF OnlyOpenSteps, Claims, ExpireSteps, CloseSteps
<1> QED
  BY <1>1, <1>4, <1>5, <1>6

LEMMA CloseRecordLive ==
    ASSUME TypeOK, LifeInv, NEW p \in Actors, MayAct(p), NEW w \in Workspaces, NEW op,
           CloseRecord(p, w, op), op # "open", job[p].op # "open" \/ job[p].step = "idle",
           UNCHANGED <<runner, toVisit>>
    PROVE  LifeStep(p)
<1>1. /\ OneRow(w, "REAPING", job'[p].gen, row[w].named)
      /\ Others(p) /\ job'[p].step = "stop" /\ job'[p].op = op /\ job'[p].w = w
      /\ job'[p].gen \in {row[w].gen, row[w].gen + 1}
  BY CloseRecordEffect
<1>2. row[w].named \in BOOLEAN
  BY DEF TypeOK, Rows
<1>3. "stop" \in CloseSteps /\ "stop" \notin ExpireSteps /\ "idle" \notin CreatingSteps
  BY DEF CloseSteps, ExpireSteps, CreatingSteps
<1> QED
  BY <1>1, <1>2, <1>3, ClaimLive DEF Claims, Target

LEMMA CloseLive ==
    ASSUME TypeOK, LifeInv, NEW p \in Actors, MayAct(p),
           OversizeClose(p) \/ CloseStopsWork(p) \/ CloseStopFails(p) \/ CloseRemovesBox(p)
              \/ CloseRemovesFiles(p) \/ CloseCommits(p)
    PROVE  LifeStep(p)
<1>1. /\ JobShape(p, job[p]) /\ job[p].w \in Workspaces /\ row[job[p].w] \in Rows
      /\ row[job[p].w].gen \in Nat /\ row[job[p].w].named \in BOOLEAN
  BY JobFields DEF LifeInv, TypeOK, Rows
<1>2. ASSUME job[p].step \in CloseSteps \cup {"measure", "weigh", "return"}  PROVE job[p].op # "open"
  BY <1>1, <1>2 DEF JobShape, OpenSteps, CloseSteps
<1>3. CASE OversizeClose(p)
  <2>1. /\ job[p].step \in {"measure", "weigh", "return"} /\ UNCHANGED <<runner, toVisit>>
        /\ CloseRecord(p, job[p].w, job[p].op)
    BY <1>3, CloseEffects
  <2> QED
    BY <1>1, <1>2, <2>1, CloseRecordLive
<1>4. CASE CloseStopsWork(p)
  <2>1. /\ job[p].step = "stop" /\ SameRows /\ (Moves(p, "unbox") \/ Moves(p, "files"))
        /\ UNCHANGED <<runner, toVisit>>
    BY <1>4, CloseEffects
  <2>2. CASE Moves(p, "unbox")
    BY <1>2, <2>1, <2>2, RowMays, MovesLive DEF OnlyOpenSteps, ExpireSteps, CloseSteps
  <2>3. CASE Moves(p, "files")
    BY <1>2, <2>1, <2>3, RowMays, MovesLive DEF OnlyOpenSteps, ExpireSteps, CloseSteps
  <2> QED
    BY <2>1, <2>2, <2>3
<1>5. CASE CloseStopFails(p)
  <2>1. /\ job[p].step = "stop" /\ Ends(p) /\ Throws(p)
        /\ \/ OneRow(job[p].w, "EXPIRED_RECOVERABLE", row[job[p].w].gen, row[job[p].w].named)
           \/ SameRows
    BY <1>5, CloseEffects
  <2>2. \A w \in Workspaces : RowMay(p, w)
    BY <1>1, <2>1, RowMays
  <2> QED
    BY <1>2, <2>1, <2>2, EndsLive DEF CloseSteps
<1>6. CASE CloseRemovesBox(p)
  <2>1. /\ job[p].step = "unbox" /\ SameRows
        /\ \/ Moves(p, "files") /\ UNCHANGED <<runner, toVisit>>
           \/ Ends(p) /\ Throws(p)
    BY <1>6, CloseEffects
  <2>2. CASE Moves(p, "files") /\ UNCHANGED <<runner, toVisit>>
    BY <1>2, <2>1, <2>2, RowMays, MovesLive DEF OnlyOpenSteps, ExpireSteps, CloseSteps
  <2>3. CASE Ends(p) /\ Throws(p)
    BY <1>2, <2>1, <2>3, RowMays, EndsLive DEF CloseSteps
  <2> QED
    BY <2>1, <2>2, <2>3
<1>7. CASE CloseRemovesFiles(p)
  <2>1. /\ job[p].step = "files" /\ SameRows
        /\ \/ Moves(p, "commit") /\ UNCHANGED <<runner, toVisit>>
           \/ Ends(p) /\ Throws(p)
    BY <1>7, CloseEffects
  <2>2. CASE Moves(p, "commit") /\ UNCHANGED <<runner, toVisit>>
    BY <1>2, <2>1, <2>2, RowMays, MovesLive DEF OnlyOpenSteps, ExpireSteps, CloseSteps
  <2>3. CASE Ends(p) /\ Throws(p)
    BY <1>2, <2>1, <2>3, RowMays, EndsLive DEF CloseSteps
  <2> QED
    BY <2>1, <2>2, <2>3
<1>8. CASE CloseCommits(p)
  <2>1. /\ job[p].step = "commit" /\ Ends(p)
        /\ OneRow(job[p].w, "CLOSED", row[job[p].w].gen, FALSE) \/ SameRows
        /\ UNCHANGED <<runner, toVisit>> \/ Throws(p)
    BY <1>8, CloseEffects
  <2>2. \A w \in Workspaces : RowMay(p, w)
    BY <1>1, <2>1, RowMays
  <2> QED
    BY <1>2, <2>1, <2>2, EndsLive DEF CloseSteps
<1> QED
  BY <1>3, <1>4, <1>5, <1>6, <1>7, <1>8

LEMMA ContinuesLive ==
    ASSUME TypeOK, LifeInv, NEW p \in Actors, Continues(p)
    PROVE  LifeStep(p)
<1>1. job[p].step # "idle" /\ runner # "down"
  BY DEF Continues, ExpireRemoveBox, ExpireMark, CapacityExpire, CapacityCheck, Admit, Clone,
         OpenActivate, Abandon, CreateRemovesOld, Launch, LaunchFails, UndoLaunch, InspectReuse,
         InspectRebuild, RemoveStaleBox, StatRepository, RecoverActivate, RecoverFinish,
         ExportReturns, ExecLease, ExecWrites, ExecReturns, BackgroundLocks, BackgroundSettles,
         OversizeClose, CloseStopsWork, CloseStopFails, CloseRemovesBox, CloseRemovesFiles,
         CloseCommits, At
<1>2. MayAct(p)
  BY <1>1, ActorMayAct
<1> QED
  BY <1>2, ExpiryLive, OpenLive, ExecutorLive, RecoveryLive, ToolLive, CloseLive DEF Continues

\* An idle actor starts something, and no row changes its status or its generation.
LEMMA QuietBegin ==
    ASSUME TypeOK, LifeInv, NEW p \in Actors, MayAct(p), SameRows, NEW op, NEW step,
           NEW w \in Workspaces, Begins(p, op, step, w), UNCHANGED <<runner, toVisit>>,
           job[p].step = "idle", op # "open",
           step \in {"inspect", "export", "measure", "weigh", "sweep", "check"}
    PROVE  LifeStep(p)
  BY RowMays, BeginsLive DEF Begins, OnlyOpenSteps, Claims, ExpireSteps, CloseSteps

\* The statuses and generations, the jobs and the runner stay as they are.
LEMMA QuietKeepsLife ==
    ASSUME TypeOK, LifeInv, UNCHANGED <<job, runner, toVisit>>,
           \A w \in Workspaces : row'[w].status = row[w].status /\ row'[w].gen = row[w].gen
    PROVE  LifeInv' /\ RebuildsStep
<1>1. \A p \in Actors : JobShape(p, job'[p])
  BY DEF LifeInv
<1>2. \A p \in Actors, w \in Workspaces : Opening(p, w) <=> Opening(p, w)'
  BY DEF Opening
<1>3. ASSUME NEW w \in Workspaces
      PROVE  /\ row'[w].status = "NETWORK_QUARANTINED" => w \in Dependency
             /\ row'[w].status = "CREATING" =>
                   /\ row'[w].gen = 1
                   /\ runner' = "up" => \E p \in Actors : Opening(p, w)'
                   /\ runner' = "boot" => w \in toVisit'
  BY <1>2 DEF LifeInv
<1>4. ASSUME NEW p \in Actors, Claims(job'[p])
      PROVE  /\ job'[p].gen <= row'[Target(job'[p])].gen
             /\ row'[Target(job'[p])].status \notin {"NONE", "CREATING"}
  <2>1. Target(job[p]) \in Workspaces
    BY JobFields DEF Target
  <2> QED
    BY <1>4, <2>1 DEF LifeInv
<1> QED
  BY <1>1, <1>3, <1>4 DEF LifeInv, RebuildsStep

LEMMA ArrivalsLive ==
    ASSUME TypeOK, TypeOK', LifeInv, NEW p \in Clients, NEW w \in Workspaces, Arrivals(p, w)
    PROVE  LifeInv' /\ RebuildsStep
<1>1. p \in Actors /\ p # Boot /\ row[w] \in Rows /\ row[w].gen \in Nat /\ row[w].named \in BOOLEAN
  BY ActorsAssumption DEF Actors, TypeOK, Rows
<1>2. CASE Open(p, w)
  <2>1. /\ runner = "up" /\ job[p].step = "idle" /\ SameRows
        /\ Others(p) /\ job'[p].step = "capacity" /\ job'[p].op = "open"
        /\ UNCHANGED <<runner, toVisit>>
    BY <1>1, <1>2, OpenEffect
  <2>2. JobShape(p, job'[p]) /\ ~Claims(job'[p])
    BY <2>1 DEF JobShape, OpenSteps, OnlyOpenSteps, CreatingSteps, Claims, ExpireSteps, CloseSteps
  <2>3. /\ MayAct(p) /\ \A v \in Workspaces : ~Opening(p, v)
    BY <1>1, <2>1 DEF MayAct, Opening, CreatingSteps
  <2>4. LifeStep(p)
    BY <1>1, <2>1, <2>2, <2>3, RowMays DEF LifeStep
  <2> QED
    BY <1>1, <2>4, LifeStepKeeps
<1>3. ASSUME NEW op \in {"recover", "renew"}, NEW statuses, BeginRecovery(p, w, op, statuses)
      PROVE  LifeInv' /\ RebuildsStep
  <2>1. /\ runner = "up" /\ job[p].step = "idle" /\ SameRows /\ Begins(p, op, "inspect", w)
        /\ UNCHANGED <<runner, toVisit>>
    BY <1>1, <1>3, BeginEffect
  <2>2. LifeStep(p)
    BY <1>1, <2>1, QuietBegin DEF MayAct
  <2> QED
    BY <1>1, <2>2, LifeStepKeeps
<1>4. CASE Recover(p, w)
  BY <1>3, <1>4 DEF Recover
<1>5. CASE Renew(p, w)
  <2>1. CASE BeginRecovery(p, w, "renew", {"EXPIRED_RECOVERABLE"})
    BY <1>3, <2>1
  <2>2. CASE /\ row[w].status = "ACTIVE" /\ SetRow(w, Activated(row[w]))
             /\ UNCHANGED <<job, runner, toVisit>>
    <3>1. OneRow(w, "ACTIVE", row[w].gen, row[w].named)
      BY <2>2, RowStatements
    <3> QED
      BY <2>2, <3>1, QuietKeepsLife DEF OneRow
  <2> QED
    BY <1>5, <2>1, <2>2 DEF Renew, environment
<1>6. CASE Export(p, w)
  <2>1. /\ runner = "up" /\ job[p].step = "idle" /\ SameRows /\ Begins(p, "export", "export", w)
        /\ UNCHANGED <<runner, toVisit>>
    BY <1>6, CallEffects DEF Export, Arrives
  <2>2. LifeStep(p)
    BY <1>1, <2>1, QuietBegin DEF MayAct
  <2> QED
    BY <1>1, <2>2, LifeStepKeeps
<1>7. CASE Exec(p, w)
  <2>1. PICK op \in ToolCalls : Begins(p, op, "measure", w)
    BY <1>7, CallEffects
  <2>2. /\ runner = "up" /\ job[p].step = "idle" /\ SameRows /\ op # "open"
        /\ UNCHANGED <<runner, toVisit>>
    BY <1>7, CallEffects DEF Exec, Arrives, ToolCalls
  <2>3. LifeStep(p)
    BY <1>1, <2>1, <2>2, QuietBegin DEF MayAct
  <2> QED
    BY <1>1, <2>3, LifeStepKeeps
<1>8. CASE ExpireOnAccess(p, w)
  <2>1. /\ row[w].status = "ACTIVE" /\ runner = "up" /\ job[p].step = "idle"
        /\ OneRow(w, "EXPIRED_RECOVERABLE", row[w].gen + 1, FALSE)
        /\ UNCHANGED <<job, runner, toVisit>>
    BY <1>8, CallEffects DEF ExpireOnAccess, Arrives
  <2>2. LifeStep(p)
    <3>1. \A v \in Workspaces : RowMay(p, v)
      BY <1>1, <2>1, RowMays
    <3>2. MayAct(p) /\ Others(p) /\ JobShape(p, job'[p]) /\ ~Claims(job'[p])
      BY <1>1, <2>1 DEF MayAct, Others, LifeInv, Claims, ExpireSteps, CloseSteps
    <3>3. \A v \in Workspaces : ~Opening(p, v)
      BY <2>1 DEF Opening, CreatingSteps
    <3> QED
      BY <2>1, <3>1, <3>2, <3>3 DEF LifeStep
  <2> QED
    BY <1>1, <2>2, LifeStepKeeps
<1>9. CASE Close(p, w) \/ CloseFenced(p, w)
  <2>1. PICK op \in {"close", "closeFenced"} : Arrives(p, op) /\ CloseRecord(p, w, op)
    BY <1>9 DEF Close, CloseFenced
  <2>2. UNCHANGED <<runner, toVisit>>
    BY <1>9 DEF Close, CloseFenced, environment
  <2>3. LifeStep(p)
    BY <1>1, <2>1, <2>2, CloseRecordLive DEF Arrives, MayAct
  <2> QED
    BY <1>1, <2>3, LifeStepKeeps
<1> QED
  BY <1>2, <1>4, <1>5, <1>6, <1>7, <1>8, <1>9 DEF Arrivals

LEMMA ReapsLive ==
    ASSUME TypeOK, LifeInv, NEW w \in Workspaces, Reaps(w)
    PROVE  LifeStep(Reaper)
<1>1. /\ Reaper \in Actors /\ MayAct(Reaper) /\ job[Reaper].step = "idle"
      /\ row[w].gen \in Nat /\ row[w].named \in BOOLEAN /\ "idle" \notin CreatingSteps
  BY ReapEffects, ActorsAssumption DEF Actors, MayAct, TypeOK, Rows, CreatingSteps
<1>2. CASE ReapExpire(w)
  <2>1. PICK i \in Jobs : ExpiryClaim(Reaper, w, i) /\ i.op = "reap" /\ ~i.holds
    BY <1>2, ReapEffects
  <2>2. /\ OneRow(w, "REAPING", row[w].gen + 1, row[w].named)
        /\ Others(Reaper) /\ job'[Reaper].step = "expire_box" /\ job'[Reaper].op = "reap"
        /\ job'[Reaper].v = w /\ job'[Reaper].gen = row[w].gen + 1 /\ UNCHANGED <<runner, toVisit>>
    BY <1>1, <2>1, ExpiryClaimEffect
  <2>3. "expire_box" \in ExpireSteps
    BY DEF ExpireSteps
  <2> QED
    BY <1>1, <2>2, <2>3, ClaimLive DEF Claims, Target
<1>3. CASE ReapWeigh(w)
  <2>1. SameRows /\ Begins(Reaper, "reap", "weigh", w) /\ UNCHANGED <<runner, toVisit>>
    BY <1>3, ReapEffects
  <2> QED
    BY <1>1, <2>1, QuietBegin
<1>4. CASE Quarantine(w)
  <2>1. /\ w \in Dependency /\ row[w].status = "ACTIVE"
        /\ OneRow(w, "NETWORK_QUARANTINED", row[w].gen, row[w].named)
        /\ Begins(Reaper, "quarantine", "sweep", w) /\ UNCHANGED <<runner, toVisit>>
    BY <1>4, ReapEffects
  <2>2. \A v \in Workspaces : RowMay(Reaper, v)
    BY <2>1 DEF RowMay, OneRow
  <2> QED
    BY <1>1, <2>1, <2>2, BeginsLive DEF Begins, OnlyOpenSteps, Claims, ExpireSteps, CloseSteps
<1>5. CASE QuarantineRetry(w)
  <2>1. SameRows /\ Begins(Reaper, "quarantine", "sweep", w) /\ UNCHANGED <<runner, toVisit>>
    BY <1>5, ReapEffects
  <2> QED
    BY <1>1, <2>1, QuietBegin
<1>6. CASE AutoCheck(w)
  <2>1. SameRows /\ Begins(Reaper, "autoClose", "check", w) /\ UNCHANGED <<runner, toVisit>>
    BY <1>6, ReapEffects
  <2> QED
    BY <1>1, <2>1, QuietBegin
<1> QED
  BY <1>2, <1>3, <1>4, <1>5, <1>6 DEF Reaps

LEMMA ReaperLive ==
    ASSUME TypeOK, LifeInv, ReaperContinues
    PROVE  LifeStep(Reaper)
<1>1. Reaper \in Actors /\ UNCHANGED <<runner, toVisit>> /\ runner # "down"
  BY ReaperEffects DEF Actors
<1>2. job[Reaper].step \in {"weigh", "sweep", "unname", "check", "decide"}
  BY ReaperEffects DEF ReaperContinues
<1>3. job[Reaper].op # "open" /\ MayAct(Reaper)
  BY <1>1, <1>2, ActorMayAct DEF LifeInv, JobShape, OpenSteps
<1>4. CASE ReapWeighed
  BY <1>1, <1>3, <1>4, ReaperEffects, RowMays, EndsLive
<1>5. CASE QuarantineSweep
  <2>1. /\ job[Reaper].step = "sweep" /\ SameRows /\ (Moves(Reaper, "unname") \/ Ends(Reaper))
        /\ \A w \in Workspaces : RowMay(Reaper, w)
    BY <1>1, <1>5, ReaperEffects, RowMays
  <2>2. CASE Moves(Reaper, "unname")
    BY <1>1, <1>3, <2>1, <2>2, MovesLive DEF OnlyOpenSteps, ExpireSteps, CloseSteps
  <2>3. CASE Ends(Reaper)
    BY <1>1, <1>3, <2>1, <2>3, EndsLive
  <2> QED
    BY <2>1, <2>2, <2>3
<1>6. CASE QuarantineUnname
  <2>1. Ends(Reaper) /\ \A w \in Workspaces : RowMay(Reaper, w)
    BY <1>6, ReaperEffects DEF RowMay
  <2> QED
    BY <1>1, <1>3, <2>1, EndsLive
<1>7. CASE AutoRead
  <2>1. /\ SameRows /\ Others(Reaper) /\ job'[Reaper].step = "decide"
        /\ job'[Reaper].op = job[Reaper].op
    BY <1>7, ReaperEffects
  <2> QED
    BY <1>1, <1>3, <2>1, RowMays, BeginsLive DEF OnlyOpenSteps, Claims, ExpireSteps, CloseSteps
<1>8. CASE AutoDecide
  <2> DEFINE w == job[Reaper].w
             g == row[w].gen + 1
  <2>1. w \in Workspaces /\ row[w].named \in BOOLEAN
    BY <1>1, JobFields DEF TypeOK, Rows
  <2>2. \/ SameRows /\ Ends(Reaper)
        \/ /\ OneRow(w, "REAPING", g, row[w].named) /\ Others(Reaper)
           /\ job'[Reaper].step = "stop" /\ job'[Reaper].op = job[Reaper].op
           /\ job'[Reaper].w = w /\ job'[Reaper].gen = g
    BY <1>8, ReaperEffects
  <2>3. CASE SameRows /\ Ends(Reaper)
    BY <1>1, <1>3, <2>3, RowMays, EndsLive
  <2>4. CASE /\ OneRow(w, "REAPING", g, row[w].named) /\ Others(Reaper)
             /\ job'[Reaper].step = "stop" /\ job'[Reaper].op = job[Reaper].op
             /\ job'[Reaper].w = w /\ job'[Reaper].gen = g
    <3>1. "stop" \in CloseSteps /\ "stop" \notin ExpireSteps
      BY DEF CloseSteps, ExpireSteps
    <3> QED
      BY <1>1, <1>3, <2>1, <2>4, <3>1, ClaimLive DEF Claims, Target
  <2> QED
    BY <2>2, <2>3, <2>4
<1> QED
  BY <1>4, <1>5, <1>6, <1>7, <1>8 DEF ReaperContinues

-----------------------------------------------------------------------------
(* Crash and start *)

LEMMA VisitKeepsLife ==
    ASSUME TypeOK, TypeOK', LifeInv, NEW w \in Workspaces, Visiting(w), Others(Boot),
           UNCHANGED runner, toVisit' = toVisit \ {w},
           \A v \in Workspaces \ {w} : row'[v] = row[v], row'[w].gen >= row[w].gen,
           row'[w].status \notin {"NONE", "CREATING"},
           row'[w].status = "NETWORK_QUARANTINED" => w \in Dependency,
           row[w].status = "NETWORK_QUARANTINED" => row'[w].status # "ACTIVE",
           JobShape(Boot, job'[Boot]),
           Claims(job'[Boot]) => /\ job'[Boot].gen <= row'[Target(job'[Boot])].gen
                                 /\ row'[Target(job'[Boot])].status \notin {"NONE", "CREATING"}
    PROVE  LifeInv' /\ RebuildsStep
<1>1. /\ runner' = "boot" /\ runner = "boot" /\ Boot \in Actors
      /\ \A q \in Actors \ {Boot} : job'[q] = job[q] /\ job'[q].step = "idle"
  BY DEF Visiting, Others, LifeInv, Actors
<1>2. \A q \in Actors : JobShape(q, job'[q])
  BY <1>1 DEF LifeInv
<1>3. ASSUME NEW v \in Workspaces
      PROVE  /\ row'[v].status = "NETWORK_QUARANTINED" => v \in Dependency
             /\ row'[v].status = "CREATING" => row'[v].gen = 1 /\ v \in toVisit'
  BY <1>1 DEF LifeInv
<1>4. ASSUME NEW q \in Actors, Claims(job'[q])
      PROVE  /\ job'[q].gen <= row'[Target(job'[q])].gen
             /\ row'[Target(job'[q])].status \notin {"NONE", "CREATING"}
  <2>1. q = Boot
    BY <1>1, <1>4 DEF Claims, ExpireSteps, CloseSteps
  <2> QED
    BY <1>4, <2>1
<1>5. RebuildsStep
  BY DEF RebuildsStep
<1> QED
  BY <1>1, <1>2, <1>3, <1>4, <1>5 DEF LifeInv

LEMMA BootsLive ==
    ASSUME TypeOK, TypeOK', LifeInv, NEW w \in Workspaces, Boots(w)
    PROVE  LifeInv' /\ RebuildsStep
<1>1. /\ Boot \in Actors /\ Visiting(w) /\ row[w] \in Rows /\ row[w].gen \in Nat
      /\ runner = "boot" /\ job[Boot].step = "idle" /\ ~Claims(job[Boot])
      /\ JobShape(Boot, job[Boot])
  BY DEF Boots, BootQuarantined, BootCloses, BootQuarantines, BootRebuilds, BootResumes, Visiting,
         Actors, TypeOK, Rows, LifeInv, Claims, ExpireSteps, CloseSteps
<1>2. CASE BootQuarantined(w)
  <2>1. /\ row[w].status = "NETWORK_QUARANTINED" /\ UNCHANGED <<job, runner>>
        /\ row' = [row EXCEPT ![w].named = FALSE] \/ UNCHANGED row
        /\ toVisit' = toVisit \ {w}
    BY <1>2 DEF BootQuarantined, Visited
  <2>2. /\ row'[w].status = row[w].status /\ row'[w].gen = row[w].gen
        /\ \A v \in Workspaces \ {w} : row'[v] = row[v]
    BY <1>1, <2>1 DEF TypeOK, Rows
  <2>3. w \in Dependency /\ Others(Boot)
    BY <2>1 DEF LifeInv, Others
  <2> QED
    BY <1>1, <2>1, <2>2, <2>3, VisitKeepsLife
<1>3. CASE BootCloses(w)
  <2>1. CloseRecord(Boot, w, "boot") /\ toVisit' = toVisit \ {w} /\ UNCHANGED runner
    BY <1>3 DEF BootCloses, Visited
  <2>2. /\ OneRow(w, "REAPING", job'[Boot].gen, row[w].named) /\ Others(Boot)
        /\ job'[Boot].step = "stop" /\ job'[Boot].op = "boot" /\ job'[Boot].w = w
        /\ job'[Boot].gen \in {row[w].gen, row[w].gen + 1}
    BY <1>1, <2>1, CloseRecordEffect
  <2>3. JobShape(Boot, job'[Boot]) /\ Target(job'[Boot]) = w
    BY <2>2 DEF JobShape, OnlyOpenSteps, Target, ExpireSteps
  <2>4. /\ row'[w].status = "REAPING" /\ row'[w].gen = job'[Boot].gen /\ row'[w].gen >= row[w].gen
        /\ job'[Boot].gen <= row'[w].gen /\ \A v \in Workspaces \ {w} : row'[v] = row[v]
    BY <1>1, <2>2 DEF OneRow
  <2> QED
    BY <1>1, <2>1, <2>2, <2>3, <2>4, VisitKeepsLife
<1>4. CASE BootQuarantines(w)
  <2> DEFINE q == Quarantined(row[w])
             n == [q EXCEPT !.named = FALSE]
  <2>1. q.status = "NETWORK_QUARANTINED" /\ q.gen = row[w].gen /\ q \in Rows
    BY <1>1, StatusEffects, GenEffects, OtherStatements
  <2>2. n.status = q.status /\ n.gen = q.gen
    <3> HIDE DEF q
    <3>1. q \in Rows
      BY <2>1 DEF q
    <3> QED
      BY <3>1 DEF Rows
  <2>3. /\ SetRow(w, n) /\ UNCHANGED <<job, runner>> /\ toVisit' = toVisit \ {w}
        /\ w \in Dependency
    BY <1>4 DEF BootQuarantines, SetRow, Visited, TypeOK
  <2> HIDE DEF n
  <2>4. OneRow(w, n.status, n.gen, n.named) /\ Others(Boot)
    BY <2>3, RowEffects DEF Others
  <2>5. /\ row'[w].status = "NETWORK_QUARANTINED" /\ row'[w].gen = row[w].gen
        /\ \A v \in Workspaces \ {w} : row'[v] = row[v]
    BY <2>1, <2>2, <2>4 DEF OneRow
  <2> QED
    BY <1>1, <2>3, <2>4, <2>5, VisitKeepsLife
<1>5. CASE BootRebuilds(w)
  <2>1. /\ Start(Boot, Reading("boot", "inspect", w)) /\ UNCHANGED <<row, runner>>
        /\ toVisit' = toVisit \ {w} /\ row[w].status \in {"ACTIVE", "REAPING"}
    BY <1>5 DEF BootRebuilds, Visited, Resumable
  <2>2. Begins(Boot, "boot", "inspect", w)
    BY <1>1, <2>1, ReadingEffects DEF Operations, Steps
  <2>3. JobShape(Boot, job'[Boot]) /\ ~Claims(job'[Boot]) /\ Others(Boot)
    BY <2>2 DEF Begins, JobShape, OnlyOpenSteps, Claims, ExpireSteps, CloseSteps
  <2> QED
    BY <1>1, <2>1, <2>3, VisitKeepsLife
<1>6. CASE BootResumes(w)
  <2>1. /\ UNCHANGED <<row, job>> /\ row[w].status \in {"ACTIVE", "REAPING"}
        /\ \/ toVisit' = toVisit \ {w} /\ UNCHANGED runner
           \/ runner' = "down"
    BY <1>6 DEF BootResumes, Visited, Resumable, Throws
  <2>2. CASE toVisit' = toVisit \ {w} /\ UNCHANGED runner
    <3>1. Others(Boot)
      BY <2>1 DEF Others
    <3> QED
      BY <1>1, <2>1, <2>2, <3>1, VisitKeepsLife
  <2>3. CASE runner' = "down"
    BY <1>1, <2>1, <2>3 DEF LifeInv, RebuildsStep, Claims
  <2> QED
    BY <2>1, <2>2, <2>3
<1> QED
  BY <1>2, <1>3, <1>4, <1>5, <1>6 DEF Boots

LEMMA StartLive ==
    ASSUME TypeOK, LifeInv, Crash \/ Restart \/ BootReconciles \/ BootFails
    PROVE  LifeInv' /\ RebuildsStep
<1>1. Boot \in Actors
  BY DEF Actors
<1>2. CASE Crash
  <2>1. /\ \A p \in Actors : job'[p].step = "idle" /\ job'[p].op = "none"
        /\ runner' = "down" /\ UNCHANGED row
    BY <1>2 DEF Crash, Idle
  <2>2. \A p \in Actors : JobShape(p, job'[p]) /\ ~Claims(job'[p])
    BY <2>1 DEF JobShape, OnlyOpenSteps, Claims, ExpireSteps, CloseSteps
  <2> QED
    BY <1>1, <2>1, <2>2 DEF LifeInv, RebuildsStep
<1>3. CASE Restart
  <2>1. /\ UNCHANGED <<row, job>> /\ runner = "down" /\ runner' = "boot"
        /\ \A w \in Workspaces : row[w].status = "CREATING" => w \in toVisit'
    BY <1>3 DEF Restart, EnumeratedStatuses, CountedStatuses
  <2> QED
    BY <2>1 DEF LifeInv, RebuildsStep, Claims, JobShape
<1>4. CASE BootReconciles
  <2>1. /\ UNCHANGED <<row, job>> /\ runner = "boot" /\ runner' = "up" /\ toVisit = {}
        /\ job[Boot].step = "idle"
    BY <1>4 DEF BootReconciles
  <2>2. \A w \in Workspaces : row[w].status # "CREATING"
    BY <2>1 DEF LifeInv
  <2> QED
    BY <2>1, <2>2 DEF LifeInv, RebuildsStep, Claims, JobShape
<1>5. CASE BootFails
  <2>1. /\ UNCHANGED <<row, job>> /\ runner = "boot" /\ runner' = "down"
        /\ job[Boot].step = "idle"
    BY <1>5 DEF BootFails
  <2> QED
    BY <2>1 DEF LifeInv, RebuildsStep, Claims, JobShape
<1> QED
  BY <1>2, <1>3, <1>4, <1>5

-----------------------------------------------------------------------------
(* The record that is being created, and the quarantine *)

LEMMA InitLife == Init => LifeInv
  BY DEF Init, LifeInv, Idle, NoRow, JobShape, OnlyOpenSteps, Claims, ExpireSteps, CloseSteps, Actors

LEMMA TimeLive ==
    ASSUME TypeOK, LifeInv, NEW w \in Workspaces, TimePasses(w) \/ StrayRemovalLands(w)
    PROVE  LifeInv' /\ RebuildsStep
<1>1. row[w] \in Rows
  BY DEF TypeOK
<1>2. \A v \in Workspaces : row'[v].status = row[v].status /\ row'[v].gen = row[v].gen
  BY <1>1 DEF TypeOK, TimePasses, LeaseElapses, WallDeadlinePasses, WallDeadlineOverruns,
              LockElapses, WindowElapses, StrayRemovalLands, Rows
<1>3. UNCHANGED <<job, runner, toVisit>>
  BY DEF TimePasses, LeaseElapses, WallDeadlinePasses, WallDeadlineOverruns, LockElapses,
         WindowElapses, StrayRemovalLands, environment
<1> QED
  BY <1>2, <1>3, QuietKeepsLife

LEMMA NextKeepsLife ==
    ASSUME TypeOK, TypeOK', LifeInv, [Next]_vars
    PROVE  LifeInv' /\ RebuildsStep
<1>1. CASE UNCHANGED vars \/ FirewallChanges \/ SetQuota
  <2>1. UNCHANGED <<row, job, runner, toVisit>>
    BY <1>1 DEF vars, FirewallChanges, SetQuota
  <2> QED
    BY <2>1, QuietKeepsLife
<1>2. CASE Crash \/ Restart \/ BootReconciles \/ BootFails
  BY <1>2, StartLive
<1>3. ASSUME NEW p \in Actors, LifeStep(p)  PROVE LifeInv' /\ RebuildsStep
  BY <1>3, LifeStepKeeps
<1>4. CASE \E p \in Clients, w \in Workspaces : Arrivals(p, w)
  BY <1>4, ArrivalsLive
<1>5. CASE \E p \in Actors : Continues(p)
  BY <1>3, <1>5, ContinuesLive
<1>6. CASE ReaperContinues \/ \E w \in Workspaces : Reaps(w)
  BY <1>3, <1>6, ReaperLive, ReapsLive DEF Actors
<1>7. CASE \E w \in Workspaces : Boots(w) \/ TimePasses(w) \/ StrayRemovalLands(w)
  BY <1>7, BootsLive, TimeLive
<1> QED
  BY <1>1, <1>2, <1>4, <1>5, <1>6, <1>7 DEF Next

\* While the server listens, every CREATING record is in the hands of a client's open that still
\* owns it: it made the record, holds its first generation and has not failed, lost its fence or been
\* interrupted by a crash (open, its catch block, WorkspaceService.start).
THEOREM CreatingTheorem == Spec => []CreatingHasOpener
<1>1. TypeOK /\ LifeInv => CreatingHasOpener
  BY DEF LifeInv, CreatingHasOpener, Opening, CreatingSteps, JobShape
<1>2. LifeInv /\ TypeOK /\ TypeOK' /\ [Next]_vars => LifeInv'
  BY NextKeepsLife
<1> QED
  BY <1>1, <1>2, InitLife, TypeCorrect, PTL DEF Spec

\* A quarantined workspace becomes active only in the step that records the container a recovery has
\* created: a recovery that reuses the container it found never gets as far as the row of a
\* dependency-access workspace, and no other is ever quarantined (ensureActiveExecutor).
THEOREM QuarantineTheorem == Spec => QuarantineRebuilds
<1>1. LifeInv /\ TypeOK /\ TypeOK' /\ [Next]_vars => LifeInv' /\ [RebuildsStep]_vars
  BY NextKeepsLife
<1> QED
  BY <1>1, InitLife, TypeCorrect, PTL DEF Spec, QuarantineRebuilds, RebuildsStep

-----------------------------------------------------------------------------
(* What an operation leaves behind *)

\* Outside the runner nothing fails that removes a container or a directory, and the firewall keeps
\* matching the policy: a removal that failed is nobody's to repeat, and the end of a quarantine
\* clears a name without a fence.
Reliable == Events \cap {"docker", "files", "firewall"} = {}

\* The jobs that will record or remove the container of w, and those that will record or remove its
\* directory.
Handles(j, w) == j.w = w /\ j.step \in {"activate", "undo"}
Cleans(j, w)  == j.op = "open" /\ j.w = w /\ j.step \in CreatingSteps \cup {"undo", "abandon"}

BoxMinded(w)  == box[w] => stray[w] \/ \E q \in Actors : Handles(job[q], w)
DiskMinded(w) == disk[w] => \E q \in Actors : Cleans(job[q], w)

\* A claim that has removed the container it saw named, or saw none.
Unboxed(j) == \/ j.step \in {"expire_mark", "files", "commit"}
              \/ j.step \in {"expire_box", "stop"} /\ ~j.named

ClaimMinded(p) ==
    \A w \in Workspaces :
        /\ Claims(job[p]) /\ Target(job[p]) = w /\ Unboxed(job[p])
              /\ Fenced(row[w], job[p].gen, {"REAPING"}) => BoxMinded(w)
        /\ job[p].step = "commit" /\ job[p].w = w => DiskMinded(w)

\* A claim whose fence still matches has left the container to somebody who minds it, which is what
\* lets it clear the name; and a closer has left the directory so, whatever became of its fence.
BehindInv ==
    /\ ~drift /\ \A p \in Actors : job[p].step \notin {"sweep", "unname"}
    /\ \A w \in Workspaces : /\ row[w].status # "NETWORK_QUARANTINED"
                             /\ row[w].status = "NONE" => ~row[w].named
    /\ runner = "up" =>
          /\ \A w \in Workspaces : /\ row[w].named \/ BoxMinded(w)
                                   /\ row[w].status = "CLOSED" => DiskMinded(w)
          /\ \A p \in Actors : ClaimMinded(p)

\* Everybody who minds w still does, or there is nothing left to mind.
BoxKept(w)  == BoxMinded(w) => BoxMinded(w)' \/ (row'[w].named /\ row'[w].status # "REAPING")
DiskKept(w) == DiskMinded(w) =>
                 DiskMinded(w)' \/ (row[w].status = "CREATING" /\ row'[w].status = "ACTIVE")

\* No fence of before matches a claim made in this step, and what loses its name or is closed is minded.
RowKept(w) ==
    /\ \A g \in Nat : g <= row[w].gen /\ Fenced(row'[w], g, {"REAPING"})
                         => Fenced(row[w], g, {"REAPING"})
    /\ row[w].named => row'[w].named \/ BoxMinded(w)'
    /\ row'[w].status = "CLOSED" => row[w].status = "CLOSED" \/ DiskMinded(w)'

Calm(w) ==
    /\ row'[w].status # "NETWORK_QUARANTINED"
    /\ row'[w].status = "NONE" => ~row'[w].named

BehindStep(p) ==
    /\ Others(p) /\ ~drift' /\ job'[p].step \notin {"sweep", "unname"}
    /\ \A w \in Workspaces : Calm(w)
    /\ runner = "up" =>
          /\ \A w \in Workspaces : BoxKept(w) /\ DiskKept(w) /\ RowKept(w)
          /\ ClaimMinded(p)'

\* Whoever does not move still finds minded what it relies on.
LEMMA ClaimsStayMinded ==
    ASSUME TypeOK, LifeInv, BehindInv, runner = "up", NEW q \in Actors, job'[q] = job[q],
           \A w \in Workspaces : BoxKept(w) /\ DiskKept(w) /\ RowKept(w)
    PROVE  ClaimMinded(q)'
<1>1. job[q].gen \in Nat /\ ClaimMinded(q)
  BY JobFields DEF BehindInv
<1>2. ASSUME NEW w \in Workspaces, Claims(job[q]), Target(job[q]) = w, Unboxed(job[q]),
             Fenced(row'[w], job[q].gen, {"REAPING"})
      PROVE  BoxMinded(w)'
  <2>1. BoxKept(w) /\ RowKept(w) /\ job[q].gen <= row[w].gen
    BY <1>2 DEF LifeInv
  <2>2. Fenced(row[w], job[q].gen, {"REAPING"})
    BY <1>1, <1>2, <2>1 DEF RowKept
  <2>3. BoxMinded(w) /\ row'[w].status = "REAPING"
    BY <1>1, <1>2, <2>2 DEF ClaimMinded, Fenced
  <2> QED
    BY <2>1, <2>3 DEF BoxKept
<1>3. ASSUME NEW w \in Workspaces, job[q].step = "commit", job[q].w = w
      PROVE  DiskMinded(w)'
  <2>1. Claims(job[q]) /\ Target(job[q]) = w
    BY <1>3 DEF Claims, Target, ExpireSteps, CloseSteps
  <2>2. row[w].status # "CREATING"
    BY <2>1 DEF LifeInv
  <2>3. DiskKept(w) /\ DiskMinded(w)
    BY <1>1, <1>3 DEF ClaimMinded
  <2> QED
    BY <2>2, <2>3 DEF DiskKept
<1> QED
  BY <1>2, <1>3 DEF ClaimMinded, Fenced

LEMMA BehindStepKeeps ==
    ASSUME TypeOK, LifeInv, BehindInv, NEW p \in Actors, runner' = "up" => runner = "up",
           BehindStep(p)
    PROVE  BehindInv'
<1>1. /\ ~drift' /\ \A q \in Actors : job'[q].step \notin {"sweep", "unname"}
      /\ \A w \in Workspaces : /\ row'[w].status # "NETWORK_QUARANTINED"
                               /\ row'[w].status = "NONE" => ~row'[w].named
  BY DEF BehindStep, BehindInv, Others, Calm
<1>2. ASSUME NEW w \in Workspaces, runner = "up"
      PROVE  /\ row'[w].named \/ BoxMinded(w)'
             /\ row'[w].status = "CLOSED" => DiskMinded(w)'
  <2>1. BoxKept(w) /\ DiskKept(w) /\ RowKept(w)
    BY <1>2 DEF BehindStep
  <2>2. row[w].named \/ BoxMinded(w)
    BY <1>2 DEF BehindInv
  <2>3. row[w].status = "CLOSED" => DiskMinded(w)
    BY <1>2 DEF BehindInv
  <2>4. row'[w].named \/ BoxMinded(w)'
    BY <2>1, <2>2 DEF BoxKept, RowKept
  <2>5. row'[w].status = "CLOSED" => DiskMinded(w)'
    BY <2>1, <2>3 DEF DiskKept, RowKept
  <2> QED
    BY <2>4, <2>5
<1>3. ASSUME NEW q \in Actors, runner = "up"  PROVE ClaimMinded(q)'
  BY <1>3, ClaimsStayMinded DEF BehindStep, Others
<1> QED
  BY <1>1, <1>2, <1>3 DEF BehindInv

LEMMA RowsKept ==
    ASSUME TypeOK, BehindInv
    PROVE  /\ SameRows => \A w \in Workspaces : Calm(w) /\ RowKept(w)
           /\ \A w \in Workspaces, s \in Statuses \ {"NONE", "NETWORK_QUARANTINED", "CLOSED"},
                 g \in Nat : OneRow(w, s, g, row[w].named) /\ (s = "REAPING" => g = row[w].gen + 1)
                    => \A v \in Workspaces : Calm(v) /\ RowKept(v)
<1>1. ASSUME SameRows  PROVE \A w \in Workspaces : Calm(w) /\ RowKept(w)
  BY <1>1 DEF SameRows, Calm, RowKept, BehindInv, Fenced
<1>2. ASSUME NEW w \in Workspaces, NEW s \in Statuses \ {"NONE", "NETWORK_QUARANTINED", "CLOSED"},
             NEW g \in Nat, OneRow(w, s, g, row[w].named), s = "REAPING" => g = row[w].gen + 1,
             NEW v \in Workspaces
      PROVE  Calm(v) /\ RowKept(v)
  <2>1. row[w].gen \in Nat
    BY DEF TypeOK, Rows
  <2>2. CASE v = w
    <3>1. \A h \in Nat : h <= row[w].gen => ~Fenced(row'[w], h, {"REAPING"})
      BY <1>2, <2>1 DEF OneRow, Fenced
    <3> QED
      BY <1>2, <2>2, <3>1 DEF OneRow, Calm, RowKept
  <2>3. CASE v # w
    BY <1>2, <2>3 DEF OneRow, Calm, RowKept, BehindInv
  <2> QED
    BY <2>2, <2>3
<1> QED
  BY <1>1, <1>2

LEMMA BoxesKept ==
    ASSUME NEW p \in Actors, Others(p), UNCHANGED stray, \A w \in Workspaces : box'[w] => box[w],
           job[p].step \in {"activate", "undo"} =>
              \/ ~box'[job[p].w]
              \/ job'[p].w = job[p].w /\ job'[p].step \in {"activate", "undo"}
    PROVE  \A w \in Workspaces : BoxKept(w)
<1> SUFFICES ASSUME NEW w \in Workspaces, BoxMinded(w), box'[w]
             PROVE  stray'[w] \/ \E q \in Actors : Handles(job'[q], w)
  BY DEF BoxKept, BoxMinded, Handles
<1>1. CASE stray[w]
  BY <1>1
<1>2. ASSUME NEW q \in Actors, Handles(job[q], w)  PROVE Handles(job'[q], w)
  BY <1>2 DEF Handles, Others
<1> QED
  BY <1>1, <1>2 DEF BoxMinded

LEMMA DisksKept ==
    ASSUME NEW p \in Actors, Others(p), \A w \in Workspaces : disk'[w] => disk[w],
           job[p].op = "open" /\ job[p].step \in CreatingSteps \cup {"undo", "abandon"} =>
              \/ ~disk'[job[p].w]
              \/ /\ job'[p].op = "open" /\ job'[p].w = job[p].w
                 /\ job'[p].step \in CreatingSteps \cup {"undo", "abandon"}
    PROVE  \A w \in Workspaces : DiskKept(w)
<1> SUFFICES ASSUME NEW w \in Workspaces, DiskMinded(w), disk'[w]
             PROVE  \E q \in Actors : Cleans(job'[q], w)
  BY DEF DiskKept, DiskMinded, Cleans
<1>1. ASSUME NEW q \in Actors, Cleans(job[q], w)  PROVE Cleans(job'[q], w)
  BY <1>1 DEF Cleans, Others
<1> QED
  BY <1>1 DEF DiskMinded

LEMMA BehindFrom ==
    ASSUME NEW p \in Actors, BehindInv, Others(p), UNCHANGED <<stray, drift>>,
           job'[p].step \notin {"sweep", "unname"}, \A w \in Workspaces : Calm(w),
           runner = "up" => (\A w \in Workspaces : RowKept(w)) /\ ClaimMinded(p)',
           \A w \in Workspaces : (box'[w] => box[w]) /\ (disk'[w] => disk[w]),
           job[p].step \in {"activate", "undo"} =>
              \/ ~box'[job[p].w]
              \/ job'[p].w = job[p].w /\ job'[p].step \in {"activate", "undo"},
           job[p].op = "open" /\ job[p].step \in CreatingSteps \cup {"undo", "abandon"} =>
              \/ ~disk'[job[p].w]
              \/ /\ job'[p].op = "open" /\ job'[p].w = job[p].w
                 /\ job'[p].step \in CreatingSteps \cup {"undo", "abandon"}
    PROVE  BehindStep(p)
<1>1. \A w \in Workspaces : BoxKept(w)
  BY BoxesKept
<1>2. \A w \in Workspaces : DiskKept(w)
  BY DisksKept
<1> QED
  BY <1>1, <1>2 DEF BehindStep, BehindInv

LEMMA NoClaimMinded ==
    ASSUME NEW p \in Actors, ~Claims(job'[p])
    PROVE  ClaimMinded(p)'
  BY DEF ClaimMinded, Claims, CloseSteps

LEMMA ClaimMindedNext ==
    ASSUME NEW p \in Actors, NEW w \in Workspaces, Target(job'[p]) = w,
           Unboxed(job'[p]) /\ Fenced(row'[w], job'[p].gen, {"REAPING"}) => BoxMinded(w)',
           job'[p].step = "commit" => DiskMinded(w)'
    PROVE  ClaimMinded(p)'
<1> SUFFICES ASSUME NEW v \in Workspaces
             PROVE  /\ Target(job'[p]) = v /\ Unboxed(job'[p])
                          /\ Fenced(row'[v], job'[p].gen, {"REAPING"}) => BoxMinded(v)'
                    /\ job'[p].step = "commit" /\ job'[p].w = v => DiskMinded(v)'
  BY DEF ClaimMinded, Target, Unboxed, Fenced
<1>1. job'[p].step = "commit" => job'[p].w = w
  BY DEF Target, ExpireSteps
<1>2. CASE v = w
  BY <1>2
<1>3. CASE v # w
  BY <1>1, <1>3
<1> QED
  BY <1>2, <1>3

\* The rows keep what matters, the actor moves on to a step that is no claim.
LEMMA QuietBehind ==
    ASSUME TypeOK, NEW p \in Actors, BehindInv, SameRows, Others(p), UNCHANGED <<stray, drift>>,
           \A w \in Workspaces : (box'[w] => box[w]) /\ (disk'[w] => disk[w]),
           job'[p].step \notin {"sweep", "unname"}, ~Claims(job'[p]),
           job[p].step \in {"activate", "undo"} =>
              \/ ~box'[job[p].w]
              \/ job'[p].w = job[p].w /\ job'[p].step \in {"activate", "undo"},
           job[p].op = "open" /\ job[p].step \in CreatingSteps \cup {"undo", "abandon"} =>
              \/ ~disk'[job[p].w]
              \/ /\ job'[p].op = "open" /\ job'[p].w = job[p].w
                 /\ job'[p].step \in CreatingSteps \cup {"undo", "abandon"}
    PROVE  BehindStep(p)
  BY BehindFrom, NoClaimMinded, RowsKept

LEMMA RemovedBox ==
    ASSUME TypeOK, Reliable, NEW w \in Workspaces, RemoveBox(w)
    PROVE  ~box'[w] /\ \A v \in Workspaces : box'[v] => box[v]
<1>1. "docker" \notin Events
  BY DEF Reliable
<1> QED
  BY <1>1 DEF RemoveBox, TypeOK

\* Somebody claims w, reading whether its container has a name.
LEMMA ClaimBehind ==
    ASSUME TypeOK, BehindInv, NEW p \in Actors, NEW w \in Workspaces, Others(p),
           OneRow(w, "REAPING", job'[p].gen, row[w].named),
           \/ job'[p].gen = row[w].gen + 1
           \/ job'[p].gen = row[w].gen /\ row[w].status = "REAPING",
           UNCHANGED <<box, disk, stray, drift>>, job'[p].step \in {"expire_box", "stop"},
           Target(job'[p]) = w, job'[p].named = row[w].named,
           job[p].step \notin {"activate", "undo"},
           job[p].op = "open" => job[p].step \notin CreatingSteps \cup {"undo", "abandon"}
    PROVE  BehindStep(p)
<1>1. row[w].gen \in Nat /\ "REAPING" \in Statuses \ {"NONE", "NETWORK_QUARANTINED", "CLOSED"}
  BY DEF TypeOK, Rows, Statuses
<1>2. \A v \in Workspaces : Calm(v) /\ RowKept(v)
  <2>1. CASE job'[p].gen = row[w].gen + 1
    <3>1. job'[p].gen \in Nat
      BY <1>1, <2>1
    <3> QED
      BY <1>1, <2>1, <3>1, RowsKept
  <2>2. CASE job'[p].gen = row[w].gen /\ row[w].status = "REAPING"
    <3>1. SameRows
      BY <2>2 DEF OneRow, SameRows
    <3> QED
      BY <3>1, RowsKept
  <2> QED
    BY <2>1, <2>2
<1>3. ASSUME runner = "up"  PROVE ClaimMinded(p)'
  <2>1. \A v \in Workspaces : BoxKept(v)
    BY BoxesKept
  <2>2. ~row[w].named => BoxMinded(w)'
    BY <1>3, <2>1 DEF BehindInv, BoxKept, OneRow
  <2>3. Unboxed(job'[p]) => ~row[w].named
    BY DEF Unboxed
  <2>4. /\ Unboxed(job'[p]) /\ Fenced(row'[w], job'[p].gen, {"REAPING"}) => BoxMinded(w)'
        /\ job'[p].step # "commit"
    BY <2>2, <2>3
  <2> QED
    BY <2>4, ClaimMindedNext
<1> QED
  BY <1>2, <1>3, BehindFrom

LEMMA ExpiryBehind ==
    ASSUME TypeOK, LifeInv, BehindInv, Reliable, NEW p \in Actors,
           ExpireRemoveBox(p) \/ ExpireMark(p) \/ CapacityExpire(p)
    PROVE  BehindStep(p)
<1>0. PICK v \in Workspaces : v = job[p].v
  BY JobFields
<1>1. v = job[p].v /\ row[v] \in Rows /\ row[v].gen \in Nat /\ job[p] \in Jobs
  BY <1>0 DEF TypeOK, Rows
<1>2. CASE ExpireRemoveBox(p)
  <2>1. /\ job[p].step = "expire_box" /\ Moves(p, "expire_mark") /\ SameRows
        /\ IF job[p].named THEN RemoveBox(v) ELSE UNCHANGED box
        /\ UNCHANGED <<disk, stray, drift>>
    BY <1>1, <1>2, ExpireEffects
  <2>2. /\ \A w \in Workspaces : box'[w] => box[w]
        /\ job[p].named => ~box'[v]
    BY <1>1, <2>1, RemovedBox
  <2>3. /\ Others(p) /\ job'[p].step = "expire_mark" /\ job'[p].v = v
        /\ job'[p].gen = job[p].gen
    BY <1>1, <2>1 DEF Moves
  <2>4. \A w \in Workspaces : Calm(w) /\ RowKept(w) /\ BoxKept(w)
    BY <2>1, <2>2, <2>3, RowsKept, BoxesKept
  <2>5. ASSUME runner = "up"  PROVE ClaimMinded(p)'
    <3>1. ASSUME Fenced(row'[v], job[p].gen, {"REAPING"})  PROVE BoxMinded(v)'
      <4>1. CASE job[p].named
        BY <2>2, <4>1 DEF BoxMinded
      <4>2. CASE ~job[p].named
        <5>1. Claims(job[p]) /\ Target(job[p]) = v /\ Unboxed(job[p])
          BY <1>1, <2>1, <4>2 DEF Claims, Target, Unboxed, ExpireSteps
        <5>2. Fenced(row[v], job[p].gen, {"REAPING"}) /\ row'[v].status = "REAPING"
          BY <1>1, <2>1, <3>1 DEF SameRows, Fenced
        <5>3. BoxMinded(v)
          BY <1>1, <2>5, <5>1, <5>2 DEF BehindInv, ClaimMinded
        <5> QED
          BY <1>1, <2>4, <5>2, <5>3 DEF BoxKept
      <4> QED
        BY <4>1, <4>2
    <3>2. Target(job'[p]) = v /\ job'[p].step # "commit"
      BY <2>3 DEF Target, ExpireSteps
    <3> QED
      BY <2>3, <3>1, <3>2, ClaimMindedNext
  <2> QED
    BY <2>1, <2>2, <2>3, <2>4, <2>5, BehindFrom DEF CreatingSteps
<1>3. CASE ExpireMark(p)
  <2>1. /\ job[p].step = "expire_mark" /\ UNCHANGED <<box, disk, stray, drift>>
        /\ IF Fenced(row[v], job[p].gen, {"REAPING"})
           THEN OneRow(v, "EXPIRED_RECOVERABLE", row[v].gen, FALSE)
           ELSE SameRows
        /\ IF job[p].op = "open" THEN Moves(p, "capacity") ELSE Ends(p)
    BY <1>1, <1>3, ExpireEffects
  <2>2. Others(p) /\ job'[p].step \in {"capacity", "idle"} /\ ~Claims(job'[p])
    BY <2>1 DEF Moves, Ends, Claims, ExpireSteps, CloseSteps
  <2>3. CASE SameRows
    BY <2>1, <2>2, <2>3, QuietBehind DEF CreatingSteps
  <2>4. CASE Fenced(row[v], job[p].gen, {"REAPING"})
    <3>1. \A w \in Workspaces : BoxKept(w)
      BY <2>1, <2>2, BoxesKept
    <3>2. OneRow(v, "EXPIRED_RECOVERABLE", row[v].gen, FALSE)
      BY <2>1, <2>4
    <3>3. ASSUME runner = "up"  PROVE BoxMinded(v)'
      <4>1. Claims(job[p]) /\ Target(job[p]) = v /\ Unboxed(job[p])
        BY <1>1, <2>1 DEF Claims, Target, Unboxed, ExpireSteps
      <4>2. BoxMinded(v)
        BY <1>1, <2>4, <3>3, <4>1 DEF BehindInv, ClaimMinded
      <4> QED
        BY <1>1, <3>1, <3>2, <4>2 DEF BoxKept, OneRow
    <3>4. \A w \in Workspaces : Calm(w)
      BY <3>2 DEF Calm, OneRow, BehindInv
    <3>5. ASSUME runner = "up", NEW w \in Workspaces  PROVE RowKept(w)
      <4>1. CASE w = v
        BY <3>2, <3>3, <3>5, <4>1 DEF RowKept, OneRow, Fenced
      <4>2. CASE w # v
        BY <3>2, <3>5, <4>2 DEF RowKept, OneRow, BehindInv
      <4> QED
        BY <4>1, <4>2
    <3> QED
      BY <2>1, <2>2, <3>4, <3>5, NoClaimMinded, BehindFrom DEF CreatingSteps
  <2> QED
    BY <2>1, <2>3, <2>4
<1>4. CASE CapacityExpire(p)
  <2>1. PICK u \in OwnExpirable(job[p].w) : ExpiryClaim(p, u, job[p])
    BY <1>4 DEF CapacityExpire
  <2>2. u \in Workspaces /\ job[p].step = "capacity"
    BY <1>4 DEF OwnExpirable, CapacityExpire, At
  <2>3. /\ OneRow(u, "REAPING", row[u].gen + 1, row[u].named)
        /\ Others(p) /\ job'[p].step = "expire_box" /\ job'[p].v = u
        /\ job'[p].gen = row[u].gen + 1 /\ job'[p].named = row[u].named
        /\ UNCHANGED <<box, disk, stray, drift>>
    BY <1>1, <2>1, <2>2, ExpiryClaimEffect
  <2>4. Target(job'[p]) = u
    BY <2>3 DEF Target, ExpireSteps
  <2> QED
    BY <2>2, <2>3, <2>4, ClaimBehind DEF CreatingSteps
<1> QED
  BY <1>2, <1>3, <1>4

LEMMA FailOpenBehind ==
    ASSUME TypeOK, LifeInv, BehindInv, NEW p \in Actors, FailOpen(p), UNCHANGED <<stray, drift>>,
           job[p].op = "open", job[p].step \in {"launch", "undo"},
           \A w \in Workspaces : (box'[w] => box[w]) /\ (disk'[w] => disk[w]),
           job[p].step = "undo" => ~box'[job[p].w]
    PROVE  BehindStep(p)
<1> DEFINE w == job[p].w
<1>1. w \in Workspaces /\ row[w].gen \in Nat /\ row[w].named \in BOOLEAN
  BY JobFields DEF TypeOK, Rows
<1>2. /\ Moves(p, "abandon")
      /\ SameRows \/ OneRow(w, "FAILED", row[w].gen, row[w].named)
  BY FailOpenEffect
<1>3. \A v \in Workspaces : Calm(v) /\ RowKept(v)
  BY <1>1, <1>2, RowsKept DEF Statuses
<1>4. /\ Others(p) /\ job'[p].step = "abandon" /\ job'[p].op = "open" /\ job'[p].w = job[p].w
      /\ ~Claims(job'[p])
  BY <1>2 DEF Moves, Claims, ExpireSteps, CloseSteps
<1> QED
  BY <1>3, <1>4, NoClaimMinded, BehindFrom

LEMMA OpenBehind ==
    ASSUME TypeOK, LifeInv, BehindInv, Reliable, NEW p \in Actors,
           CapacityCheck(p) \/ Admit(p) \/ Clone(p) \/ OpenActivate(p) \/ Abandon(p)
    PROVE  BehindStep(p)
<1> DEFINE w == job[p].w
<1>1. /\ JobShape(p, job[p]) /\ w \in Workspaces /\ row[w] \in Rows
      /\ row[w].gen \in Nat /\ row[w].named \in BOOLEAN
      /\ {"CREATING", "ACTIVE", "FAILED"} \subseteq Statuses
  BY JobFields DEF LifeInv, TypeOK, Rows, Statuses
<1>2. CASE CapacityCheck(p)
  <2>1. /\ job[p].step = "capacity" /\ SameRows /\ (Moves(p, "admit") \/ Ends(p))
        /\ UNCHANGED <<box, disk, stray, drift>>
    BY <1>2, OpenEffects
  <2>2. Others(p) /\ job'[p].step \in {"admit", "idle"} /\ ~Claims(job'[p])
    BY <2>1 DEF Moves, Ends, Claims, ExpireSteps, CloseSteps
  <2> QED
    BY <2>1, <2>2, QuietBehind DEF CreatingSteps
<1>3. CASE Admit(p)
  <2>1. /\ job[p].step = "admit" /\ UNCHANGED <<box, disk, stray, drift>>
        /\ \/ /\ row[w].status = "NONE" /\ OneRow(w, "CREATING", 1, FALSE)
              /\ Others(p) /\ job'[p].step = "clone"
           \/ SameRows /\ Ends(p)
    BY <1>3, AdmitEffect
  <2>2. Others(p) /\ job'[p].step \in {"clone", "idle"} /\ ~Claims(job'[p])
    BY <2>1 DEF Ends, Claims, ExpireSteps, CloseSteps
  <2>3. \A v \in Workspaces : Calm(v) /\ RowKept(v)
    <3>1. CASE SameRows
      BY <3>1, RowsKept
    <3>2. CASE row[w].status = "NONE" /\ OneRow(w, "CREATING", 1, FALSE)
      <4>1. row[w].named = FALSE
        BY <1>1, <3>2 DEF BehindInv
      <4> QED
        BY <1>1, <3>2, <4>1, RowsKept
    <3> QED
      BY <2>1, <3>1, <3>2
  <2> QED
    BY <2>1, <2>2, <2>3, NoClaimMinded, BehindFrom DEF CreatingSteps
<1>4. CASE Clone(p)
  <2>1. /\ job[p].step = "clone" /\ disk' = [disk EXCEPT ![w] = TRUE]
        /\ UNCHANGED <<box, stray, drift>>
        /\ (Moves(p, "create") /\ SameRows) \/ FailOpen(p)
    BY <1>4, OpenEffects
  <2>2. /\ Moves(p, "create") \/ Moves(p, "abandon")
        /\ SameRows \/ OneRow(w, "FAILED", row[w].gen, row[w].named)
    BY <2>1, FailOpenEffect
  <2>3. /\ Others(p) /\ job'[p].step \in {"create", "abandon"} /\ job'[p].op = "open"
        /\ job'[p].w = w /\ ~Claims(job'[p])
    BY <1>1, <2>1, <2>2 DEF Moves, JobShape, OnlyOpenSteps, Claims, ExpireSteps, CloseSteps
  <2>4. \A v \in Workspaces : Calm(v) /\ RowKept(v)
    BY <1>1, <2>2, RowsKept
  <2>5. \A v \in Workspaces : BoxKept(v)
    BY <2>1, <2>3, BoxesKept
  <2>6. ASSUME NEW v \in Workspaces, DiskMinded(v), disk'[v]
        PROVE  \E q \in Actors : Cleans(job'[q], v)
    <3>1. CASE v = w
      BY <2>3, <3>1 DEF Cleans, CreatingSteps
    <3>2. CASE v # w
      <4>1. disk[v]
        BY <2>1, <2>6, <3>2 DEF TypeOK
      <4>2. PICK q \in Actors : Cleans(job[q], v)
        BY <2>6, <4>1 DEF DiskMinded
      <4>3. q # p
        BY <3>2, <4>2 DEF Cleans
      <4> QED
        BY <2>3, <4>2, <4>3 DEF Others
    <3> QED
      BY <3>1, <3>2
  <2>7. \A v \in Workspaces : DiskKept(v)
    BY <2>6 DEF DiskKept, DiskMinded, Cleans
  <2> QED
    BY <2>1, <2>3, <2>4, <2>5, <2>7, NoClaimMinded DEF BehindStep, BehindInv
<1>5. CASE OpenActivate(p)
  <2>1. /\ job[p].step = "activate" /\ job[p].op = "open" /\ UNCHANGED <<box, disk, stray, drift>>
        /\ IF Fenced(row[w], job[p].gen, {"CREATING"})
           THEN OneRow(w, "ACTIVE", row[w].gen, TRUE) /\ Ends(p)
           ELSE SameRows /\ Moves(p, "undo")
    BY <1>5, OpenEffects
  <2>2. CASE SameRows /\ Moves(p, "undo")
    <3>1. /\ Others(p) /\ job'[p].step = "undo" /\ job'[p].op = "open" /\ job'[p].w = job[p].w
          /\ ~Claims(job'[p])
      BY <2>1, <2>2 DEF Moves, Claims, ExpireSteps, CloseSteps
    <3> QED
      BY <2>1, <2>2, <3>1, QuietBehind
  <2>3. CASE /\ Fenced(row[w], job[p].gen, {"CREATING"})
             /\ OneRow(w, "ACTIVE", row[w].gen, TRUE) /\ Ends(p)
    <3>1. row[w].status = "CREATING" /\ Others(p) /\ job'[p].step = "idle" /\ ~Claims(job'[p])
      BY <2>3 DEF Fenced, Ends, Claims, ExpireSteps, CloseSteps
    <3>2. \A v \in Workspaces : Calm(v) /\ RowKept(v)
      BY <2>3 DEF Calm, RowKept, OneRow, Fenced, BehindInv
    <3>3. ASSUME NEW v \in Workspaces  PROVE BoxKept(v) /\ DiskKept(v)
      <4>1. CASE v = w
        BY <2>3, <3>1, <4>1 DEF BoxKept, DiskKept, OneRow
      <4>2. CASE v # w
        <5>1. \A q \in Actors : Handles(job[q], v) => Handles(job'[q], v)
          BY <3>1, <4>2 DEF Handles, Others
        <5>2. \A q \in Actors : Cleans(job[q], v) => Cleans(job'[q], v)
          BY <3>1, <4>2 DEF Cleans, Others
        <5>3. BoxMinded(v) => BoxMinded(v)'
          BY <2>1, <5>1 DEF BoxMinded, Handles
        <5>4. DiskMinded(v) => DiskMinded(v)'
          BY <2>1, <5>2 DEF DiskMinded, Cleans
        <5> QED
          BY <5>3, <5>4 DEF BoxKept, DiskKept
      <4> QED
        BY <4>1, <4>2
    <3> QED
      BY <2>1, <3>1, <3>2, <3>3, NoClaimMinded DEF BehindStep, BehindInv
  <2> QED
    BY <2>1, <2>2, <2>3
<1>6. CASE Abandon(p)
  <2>1. /\ job[p].step = "abandon" /\ SameRows /\ Ends(p) /\ UNCHANGED <<box, stray, drift>>
        /\ disk' = [disk EXCEPT ![w] = FALSE] \/ "files" \in Events
    BY <1>6, OpenEffects
  <2>2. disk' = [disk EXCEPT ![w] = FALSE]
    BY <2>1 DEF Reliable
  <2>3. ~disk'[w] /\ \A v \in Workspaces : disk'[v] => disk[v]
    BY <1>1, <2>2 DEF TypeOK
  <2>4. Others(p) /\ job'[p].step = "idle" /\ ~Claims(job'[p])
    BY <2>1 DEF Ends, Claims, ExpireSteps, CloseSteps
  <2> QED
    BY <2>1, <2>3, <2>4, QuietBehind
<1> QED
  BY <1>2, <1>3, <1>4, <1>5, <1>6

LEMMA ExecutorBehind ==
    ASSUME TypeOK, LifeInv, BehindInv, Reliable, NEW p \in Actors,
           CreateRemovesOld(p) \/ Launch(p) \/ LaunchFails(p) \/ UndoLaunch(p) \/ InspectReuse(p)
              \/ InspectRebuild(p) \/ RemoveStaleBox(p) \/ StatRepository(p)
    PROVE  BehindStep(p)
<1>0. PICK w \in Workspaces : w = job[p].w
  BY JobFields
<1>1. JobShape(p, job[p]) /\ "docker" \notin Events
  BY DEF LifeInv, Reliable
<1>2. ASSUME NEW s, Moves(p, s)
      PROVE  /\ Others(p) /\ job'[p].step = s /\ job'[p].op = job[p].op /\ job'[p].w = job[p].w
             /\ s \notin ExpireSteps \cup CloseSteps => ~Claims(job'[p])
  BY <1>2 DEF Moves, Claims
<1>3. Ends(p) => Others(p) /\ job'[p].step = "idle" /\ ~Claims(job'[p])
  BY DEF Ends, Claims, ExpireSteps, CloseSteps
<1>4. CASE CreateRemovesOld(p) \/ RemoveStaleBox(p)
  <2>1. PICK s \in {"launch", "stat"} : Moves(p, s) /\ job[p].step = IF s = "launch" THEN "create" ELSE "unstale"
    BY <1>4, LaunchEffects, InspectEffects
  <2>2. SameRows /\ RemoveBox(w) /\ UNCHANGED <<disk, stray, drift>>
    BY <1>0, <1>4, LaunchEffects, InspectEffects
  <2>3. \A v \in Workspaces : box'[v] => box[v]
    BY <2>2, RemovedBox
  <2>4. /\ Others(p) /\ job'[p].step = s /\ job'[p].op = job[p].op /\ job'[p].w = job[p].w
        /\ ~Claims(job'[p])
    BY <1>2, <2>1 DEF ExpireSteps, CloseSteps
  <2> QED
    BY <2>1, <2>2, <2>3, <2>4, QuietBehind DEF CreatingSteps
<1>5. CASE Launch(p)
  <2>1. /\ job[p].step = "launch" /\ SameRows /\ box' = [box EXCEPT ![w] = TRUE]
        /\ UNCHANGED <<disk, stray, drift>>
        /\ Others(p) /\ job'[p].step = "activate" /\ job'[p].op = job[p].op
        /\ job'[p].w = w /\ ~Claims(job'[p])
    BY <1>0, <1>2, <1>5, LaunchEffects DEF ExpireSteps, CloseSteps
  <2>2. \A v \in Workspaces : Calm(v) /\ RowKept(v)
    BY <2>1, RowsKept
  <2>3. \A v \in Workspaces : DiskKept(v)
    BY <1>0, <2>1, DisksKept DEF CreatingSteps
  <2>4. ASSUME NEW v \in Workspaces, BoxMinded(v), box'[v]
        PROVE  stray'[v] \/ \E q \in Actors : Handles(job'[q], v)
    <3>1. CASE v = w
      BY <2>1, <3>1 DEF Handles
    <3>2. CASE v # w
      <4>1. box[v] /\ stray'[v] = stray[v]
        BY <2>1, <2>4, <3>2 DEF TypeOK
      <4>2. ASSUME NEW q \in Actors, Handles(job[q], v)  PROVE Handles(job'[q], v)
        BY <1>0, <2>1, <3>2, <4>2 DEF Handles, Others
      <4> QED
        BY <2>4, <4>1, <4>2 DEF BoxMinded
    <3> QED
      BY <3>1, <3>2
  <2>5. \A v \in Workspaces : BoxKept(v)
    BY <2>4 DEF BoxKept, BoxMinded, Handles
  <2> QED
    BY <2>1, <2>2, <2>3, <2>5, NoClaimMinded DEF BehindStep, BehindInv
<1>6. ASSUME Fail(p), UNCHANGED <<disk, stray>>, job[p].step \in {"launch", "undo"},
             \A v \in Workspaces : box'[v] => box[v], job[p].step = "undo" => ~box'[job[p].w]
      PROVE  BehindStep(p)
  <2>1. CASE job[p].op = "open" /\ FailOpen(p) /\ UNCHANGED drift
    BY <1>6, <2>1, FailOpenBehind
  <2>2. CASE job[p].op # "open" /\ SameRows /\ Ends(p) /\ UNCHANGED drift
    BY <1>3, <1>6, <2>2, QuietBehind
  <2> QED
    BY <1>6, <2>1, <2>2, FailEffect DEF Throws
<1>7. CASE LaunchFails(p)
  <2>1. job[p].step = "launch" /\ Fail(p) /\ UNCHANGED <<box, disk, stray>>
    BY <1>1, <1>7, LaunchEffects
  <2> QED
    BY <1>6, <2>1
<1>8. CASE UndoLaunch(p)
  <2>1. job[p].step = "undo" /\ Fail(p) /\ RemoveBox(w) /\ UNCHANGED <<disk, stray>>
    BY <1>0, <1>8, LaunchEffects
  <2>2. ~box'[job[p].w] /\ \A v \in Workspaces : box'[v] => box[v]
    BY <1>0, <2>1, RemovedBox
  <2> QED
    BY <1>6, <2>1, <2>2
<1>9. CASE InspectReuse(p) \/ InspectRebuild(p)
  <2>1. /\ job[p].step = "inspect" /\ SameRows /\ UNCHANGED <<box, disk, stray, drift>>
        /\ Moves(p, "finish") \/ Moves(p, "unstale") \/ Moves(p, "stat")
    BY <1>9, InspectEffects
  <2>2. Others(p) /\ job'[p].step \in {"finish", "unstale", "stat"} /\ ~Claims(job'[p])
    BY <1>2, <2>1 DEF ExpireSteps, CloseSteps
  <2> QED
    BY <2>1, <2>2, QuietBehind DEF CreatingSteps
<1>10. CASE StatRepository(p)
  <2>1. /\ job[p].step = "stat" /\ SameRows /\ UNCHANGED <<box, disk, stray, drift>>
        /\ Moves(p, "create") \/ Ends(p)
    BY <1>10, InspectEffects DEF Throws
  <2>2. Others(p) /\ job'[p].step \in {"create", "idle"} /\ ~Claims(job'[p])
    BY <1>2, <1>3, <2>1 DEF ExpireSteps, CloseSteps
  <2> QED
    BY <2>1, <2>2, QuietBehind DEF CreatingSteps
<1> QED
  BY <1>4, <1>5, <1>7, <1>8, <1>9, <1>10

LEMMA RecoveryBehind ==
    ASSUME TypeOK, LifeInv, BehindInv, Reliable, NEW p \in Actors,
           RecoverActivate(p) \/ RecoverFinish(p)
    PROVE  BehindStep(p)
<1>0. PICK w \in Workspaces : w = job[p].w
  BY JobFields
<1>1. /\ JobShape(p, job[p]) /\ row[w].gen \in Nat /\ row[w].named \in BOOLEAN
      /\ "ACTIVE" \in Statuses
  BY DEF LifeInv, TypeOK, Rows, Statuses
<1>2. Ends(p) => Others(p) /\ job'[p].step = "idle" /\ ~Claims(job'[p])
  BY DEF Ends, Claims, ExpireSteps, CloseSteps
<1>3. CASE RecoverActivate(p)
  <2>1. /\ job[p].step = "activate" /\ job[p].op # "open" /\ UNCHANGED <<box, disk, stray, drift>>
        /\ \/ OneRow(w, "ACTIVE", row[w].gen, TRUE) /\ Ends(p)
           \/ SameRows /\ Moves(p, "undo")
    BY <1>0, <1>3, RecoverEffects
  <2>2. CASE SameRows /\ Moves(p, "undo")
    <3>1. Others(p) /\ job'[p].step = "undo" /\ job'[p].w = job[p].w /\ ~Claims(job'[p])
      BY <2>2 DEF Moves, Claims, ExpireSteps, CloseSteps
    <3> QED
      BY <2>1, <2>2, <3>1, QuietBehind
  <2>3. CASE OneRow(w, "ACTIVE", row[w].gen, TRUE) /\ Ends(p)
    <3>1. \A v \in Workspaces : Calm(v) /\ RowKept(v)
      BY <2>3 DEF Calm, RowKept, OneRow, Fenced, BehindInv
    <3>2. \A v \in Workspaces : DiskKept(v)
      BY <1>2, <2>1, <2>3, DisksKept
    <3>3. ASSUME NEW v \in Workspaces  PROVE BoxKept(v)
      <4>1. CASE v = w
        BY <2>3, <4>1 DEF BoxKept, OneRow
      <4>2. CASE v # w
        <5>1. \A q \in Actors : Handles(job[q], v) => Handles(job'[q], v)
          BY <1>0, <1>2, <2>3, <4>2 DEF Handles, Others
        <5>2. BoxMinded(v) => BoxMinded(v)'
          BY <2>1, <5>1 DEF BoxMinded, Handles
        <5> QED
          BY <5>2 DEF BoxKept
      <4> QED
        BY <4>1, <4>2
    <3> QED
      BY <1>2, <2>1, <2>3, <3>1, <3>2, <3>3, NoClaimMinded DEF BehindStep, BehindInv
  <2> QED
    BY <2>1, <2>2, <2>3
<1>4. CASE RecoverFinish(p)
  <2>1. /\ job[p].step = "finish" /\ Ends(p) /\ UNCHANGED <<box, disk, stray, drift>>
        /\ SameRows \/ OneRow(w, "ACTIVE", row[w].gen, row[w].named)
    BY <1>0, <1>4, RecoverEffects
  <2>2. \A v \in Workspaces : Calm(v) /\ RowKept(v)
    BY <1>1, <2>1, RowsKept
  <2> QED
    BY <1>2, <2>1, <2>2, NoClaimMinded, BehindFrom DEF CreatingSteps
<1> QED
  BY <1>3, <1>4

LEMMA ToolBehind ==
    ASSUME TypeOK, LifeInv, BehindInv, NEW p \in Actors,
           ExportReturns(p) \/ ExecLease(p) \/ BackgroundLocks(p) \/ ExecWrites(p) \/ ExecReturns(p)
              \/ BackgroundSettles(p)
    PROVE  BehindStep(p)
<1>1. /\ SameRows /\ UNCHANGED <<box, disk, stray, drift>>
      /\ job[p].step \in {"export", "measure", "write", "return"}
      /\ \/ Ends(p) \/ Moves(p, "return")
         \/ Others(p) /\ job'[p].step = "write"
  <2>1. CASE ExportReturns(p) \/ ExecWrites(p)
    BY <2>1, ToolEffects
  <2>2. CASE ExecLease(p) \/ BackgroundLocks(p)
    BY <2>2, ToolEffects
  <2>3. CASE ExecReturns(p) \/ BackgroundSettles(p)
    BY <2>3, ToolEffects
  <2> QED
    BY <2>1, <2>2, <2>3
<1>2. Others(p) /\ job'[p].step \in {"idle", "return", "write"} /\ ~Claims(job'[p])
  BY <1>1 DEF Ends, Moves, Claims, ExpireSteps, CloseSteps
<1> QED
  BY <1>1, <1>2, QuietBehind DEF CreatingSteps

LEMMA CloseRecordBehind ==
    ASSUME TypeOK, BehindInv, NEW p \in Actors, NEW w \in Workspaces, NEW op,
           CloseRecord(p, w, op), UNCHANGED <<box, disk, stray, drift>>,
           job[p].step \in {"idle", "measure", "weigh", "return"}
    PROVE  BehindStep(p)
<1>1. /\ OneRow(w, "REAPING", job'[p].gen, row[w].named)
      /\ Others(p) /\ job'[p].step = "stop" /\ job'[p].w = w /\ job'[p].named = row[w].named
      /\ \/ job'[p].gen = row[w].gen + 1
         \/ job'[p].gen = row[w].gen /\ row[w].status = "REAPING"
  BY CloseRecordEffect
<1>2. Target(job'[p]) = w
  BY <1>1 DEF Target, ExpireSteps
<1> QED
  BY <1>1, <1>2, ClaimBehind DEF CreatingSteps

LEMMA CloseBehind ==
    ASSUME TypeOK, LifeInv, BehindInv, Reliable, NEW p \in Actors,
           OversizeClose(p) \/ CloseStopsWork(p) \/ CloseStopFails(p) \/ CloseRemovesBox(p)
              \/ CloseRemovesFiles(p) \/ CloseCommits(p)
    PROVE  BehindStep(p)
<1>0. PICK w \in Workspaces : w = job[p].w
  BY JobFields
<1>1. /\ row[w].gen \in Nat /\ row[w].named \in BOOLEAN /\ "EXPIRED_RECOVERABLE" \in Statuses
      /\ "docker" \notin Events /\ "files" \notin Events
  BY DEF TypeOK, Rows, Statuses, Reliable
<1>2. ASSUME job[p].step \in CloseSteps
      PROVE  Claims(job[p]) /\ Target(job[p]) = w
  BY <1>0, <1>2 DEF Claims, Target, ExpireSteps, CloseSteps
<1>3. ASSUME runner = "up", job[p].step \in CloseSteps, Unboxed(job[p]),
             Fenced(row[w], job[p].gen, {"REAPING"})
      PROVE  BoxMinded(w)
  BY <1>2, <1>3 DEF BehindInv, ClaimMinded
<1>4. Ends(p) => Others(p) /\ job'[p].step = "idle" /\ ~Claims(job'[p])
  BY DEF Ends, Claims, ExpireSteps, CloseSteps
<1>5. ASSUME NEW s \in CloseSteps, Moves(p, s)
      PROVE  /\ Others(p) /\ job'[p].step = s /\ job'[p].w = w /\ job'[p].gen = job[p].gen
             /\ job'[p].named = job[p].named /\ Target(job'[p]) = w
  BY <1>0, <1>5 DEF Moves, Target, ExpireSteps, CloseSteps
<1>6. CASE OversizeClose(p)
  <2>1. /\ job[p].step \in {"measure", "weigh", "return"} /\ UNCHANGED <<box, disk, stray, drift>>
        /\ CloseRecord(p, w, job[p].op)
    BY <1>0, <1>6, CloseEffects
  <2> QED
    BY <2>1, CloseRecordBehind
<1>7. CASE CloseStopsWork(p)
  <2>1. /\ job[p].step = "stop" /\ SameRows /\ UNCHANGED <<box, disk, stray, drift>>
        /\ IF job[p].named THEN Moves(p, "unbox") ELSE Moves(p, "files")
    BY <1>7, CloseEffects
  <2>2. PICK s \in {"unbox", "files"} : Moves(p, s) /\ (s = "files" => ~job[p].named)
    BY <2>1
  <2>3. s \in CloseSteps /\ "stop" \in CloseSteps
    BY DEF CloseSteps
  <2>4. \A v \in Workspaces : Calm(v) /\ RowKept(v) /\ BoxKept(v)
    BY <1>5, <2>1, <2>2, <2>3, RowsKept, BoxesKept
  <2>5. ASSUME runner = "up", Unboxed(job'[p]), Fenced(row'[w], job'[p].gen, {"REAPING"})
        PROVE  BoxMinded(w)'
    <3>1. ~job[p].named
      BY <1>5, <2>2, <2>3, <2>5 DEF Unboxed
    <3>2. Fenced(row[w], job[p].gen, {"REAPING"}) /\ row'[w].status = "REAPING"
      BY <1>5, <2>1, <2>2, <2>3, <2>5 DEF SameRows, Fenced
    <3>3. BoxMinded(w)
      BY <1>3, <2>1, <2>3, <2>5, <3>1, <3>2 DEF Unboxed
    <3> QED
      BY <2>4, <3>2, <3>3 DEF BoxKept
  <2>6. runner = "up" => ClaimMinded(p)'
    BY <1>5, <2>2, <2>3, <2>5, ClaimMindedNext
  <2> QED
    BY <1>5, <2>1, <2>2, <2>3, <2>4, <2>6, BehindFrom DEF CreatingSteps
<1>8. CASE CloseStopFails(p)
  <2>1. /\ job[p].step = "stop" /\ Ends(p) /\ UNCHANGED <<box, disk, stray, drift>>
        /\ OneRow(w, "EXPIRED_RECOVERABLE", row[w].gen, row[w].named) \/ SameRows
    BY <1>0, <1>8, CloseEffects DEF Throws
  <2>2. \A v \in Workspaces : Calm(v) /\ RowKept(v)
    BY <1>1, <2>1, RowsKept
  <2> QED
    BY <1>4, <2>1, <2>2, NoClaimMinded, BehindFrom DEF CreatingSteps
<1>9. CASE CloseRemovesBox(p)
  <2>1. /\ job[p].step = "unbox" /\ SameRows /\ box' = [box EXCEPT ![w] = FALSE]
        /\ Moves(p, "files") /\ UNCHANGED <<disk, stray, drift>>
    BY <1>0, <1>1, <1>9, CloseEffects
  <2>2. ~box'[w] /\ \A v \in Workspaces : box'[v] => box[v]
    BY <2>1 DEF TypeOK
  <2>3. "files" \in CloseSteps /\ BoxMinded(w)'
    BY <2>2 DEF CloseSteps, BoxMinded
  <2>4. ClaimMinded(p)'
    BY <1>5, <2>1, <2>3, ClaimMindedNext
  <2>5. \A v \in Workspaces : Calm(v) /\ RowKept(v)
    BY <2>1, RowsKept
  <2> QED
    BY <1>5, <2>1, <2>2, <2>3, <2>4, <2>5, BehindFrom DEF CreatingSteps
<1>10. CASE CloseRemovesFiles(p)
  <2>1. /\ job[p].step = "files" /\ SameRows /\ disk' = [disk EXCEPT ![w] = FALSE]
        /\ Moves(p, "commit") /\ UNCHANGED <<box, stray, drift>>
    BY <1>0, <1>1, <1>10, CloseEffects
  <2>2. ~disk'[w] /\ \A v \in Workspaces : disk'[v] => disk[v]
    BY <2>1 DEF TypeOK
  <2>3. {"files", "commit"} \subseteq CloseSteps /\ DiskMinded(w)'
    BY <2>2 DEF CloseSteps, DiskMinded
  <2>4. \A v \in Workspaces : Calm(v) /\ RowKept(v) /\ BoxKept(v)
    BY <1>5, <2>1, <2>3, RowsKept, BoxesKept
  <2>5. ASSUME runner = "up", Fenced(row'[w], job'[p].gen, {"REAPING"})  PROVE BoxMinded(w)'
    <3>1. Fenced(row[w], job[p].gen, {"REAPING"}) /\ row'[w].status = "REAPING"
      BY <1>5, <2>1, <2>3, <2>5 DEF SameRows, Fenced
    <3>2. BoxMinded(w)
      BY <1>3, <2>1, <2>3, <2>5, <3>1 DEF Unboxed
    <3> QED
      BY <2>4, <3>1, <3>2 DEF BoxKept
  <2>6. runner = "up" => ClaimMinded(p)'
    BY <1>5, <2>1, <2>3, <2>5, ClaimMindedNext
  <2> QED
    BY <1>5, <2>1, <2>2, <2>3, <2>4, <2>6, BehindFrom DEF CreatingSteps
<1>11. CASE CloseCommits(p)
  <2>1. /\ job[p].step = "commit" /\ Ends(p) /\ UNCHANGED <<box, disk, stray, drift>>
        /\ IF Fenced(row[w], job[p].gen, {"REAPING"})
           THEN OneRow(w, "CLOSED", row[w].gen, FALSE) ELSE SameRows
    BY <1>0, <1>11, CloseEffects DEF Throws
  <2>2. CASE SameRows
    BY <1>4, <2>1, <2>2, QuietBehind DEF CreatingSteps
  <2>3. CASE Fenced(row[w], job[p].gen, {"REAPING"})
    <3>1. OneRow(w, "CLOSED", row[w].gen, FALSE) /\ "commit" \in CloseSteps
      BY <2>1, <2>3 DEF CloseSteps
    <3>2. \A v \in Workspaces : BoxKept(v) /\ DiskKept(v)
      BY <1>4, <2>1, BoxesKept, DisksKept DEF CreatingSteps
    <3>3. ASSUME runner = "up"  PROVE BoxMinded(w)' /\ DiskMinded(w)'
      <4>1. BoxMinded(w)
        BY <1>3, <2>1, <2>3, <3>1, <3>3 DEF Unboxed
      <4>2. DiskMinded(w)
        BY <1>0, <2>1, <3>3 DEF BehindInv, ClaimMinded
      <4>3. ~row'[w].named /\ row[w].status # "CREATING"
        BY <2>3, <3>1 DEF OneRow, Fenced
      <4> QED
        BY <3>2, <4>1, <4>2, <4>3 DEF BoxKept, DiskKept
    <3>4. \A v \in Workspaces : Calm(v)
      BY <3>1 DEF Calm, OneRow, BehindInv
    <3>5. ASSUME runner = "up", NEW v \in Workspaces  PROVE RowKept(v)
      <4>1. CASE v = w
        BY <3>1, <3>3, <3>5, <4>1 DEF RowKept, OneRow, Fenced
      <4>2. CASE v # w
        BY <3>1, <3>5, <4>2 DEF RowKept, OneRow, BehindInv
      <4> QED
        BY <4>1, <4>2
    <3> QED
      BY <1>4, <2>1, <3>4, <3>5, NoClaimMinded, BehindFrom DEF CreatingSteps
  <2> QED
    BY <2>1, <2>2, <2>3
<1> QED
  BY <1>6, <1>7, <1>8, <1>9, <1>10, <1>11

LEMMA ContinuesBehind ==
    ASSUME TypeOK, LifeInv, BehindInv, Reliable, NEW p \in Actors, Continues(p)
    PROVE  BehindStep(p)
  BY ExpiryBehind, OpenBehind, ExecutorBehind, RecoveryBehind, ToolBehind, CloseBehind DEF Continues

\* A step that moves nobody: time, a stray removal, and a request that is answered at once.
LEMMA NobodyMoves ==
    ASSUME TypeOK, LifeInv, BehindInv, UNCHANGED <<job, runner, drift>>,
           \A w \in Workspaces : Calm(w),
           runner = "up" => \A w \in Workspaces : BoxKept(w) /\ DiskKept(w) /\ RowKept(w)
    PROVE  BehindInv'
<1>1. Reaper \in Actors /\ Others(Reaper)
  BY DEF Actors, Others
<1>2. runner = "up" => ClaimMinded(Reaper)'
  BY <1>1, ClaimsStayMinded
<1>3. BehindStep(Reaper)
  BY <1>1, <1>2 DEF BehindStep, BehindInv
<1> QED
  BY <1>1, <1>3, BehindStepKeeps

\* An idle actor starts something that is no claim.
LEMMA StartBehind ==
    ASSUME TypeOK, BehindInv, NEW p \in Actors, SameRows, Others(p), job[p].step = "idle",
           job'[p].step \in {"capacity", "inspect", "export", "measure", "weigh", "check"},
           UNCHANGED <<box, disk, stray, drift>>
    PROVE  BehindStep(p)
<1>1. ~Claims(job'[p])
  BY DEF Claims, ExpireSteps, CloseSteps
<1> QED
  BY <1>1, QuietBehind DEF CreatingSteps

LEMMA ArrivalsBehind ==
    ASSUME TypeOK, LifeInv, BehindInv, NEW p \in Clients, NEW w \in Workspaces, Arrivals(p, w)
    PROVE  BehindInv'
<1>1. /\ p \in Actors /\ row[w].gen \in Nat /\ row[w].named \in BOOLEAN
      /\ {"ACTIVE", "REAPING"} \subseteq Statuses
  BY DEF Actors, TypeOK, Rows, Statuses
<1>2. CASE Open(p, w)
  <2>1. BehindStep(p) /\ UNCHANGED runner
    BY <1>1, <1>2, OpenEffect, StartBehind
  <2> QED
    BY <1>1, <2>1, BehindStepKeeps
<1>3. ASSUME NEW op \in {"recover", "renew"}, NEW statuses, BeginRecovery(p, w, op, statuses)
      PROVE  BehindInv'
  <2>1. BehindStep(p) /\ UNCHANGED runner
    BY <1>1, <1>3, BeginEffect, StartBehind DEF Begins
  <2> QED
    BY <1>1, <2>1, BehindStepKeeps
<1>4. CASE Recover(p, w)
  BY <1>3, <1>4 DEF Recover
<1>5. CASE Renew(p, w)
  <2>1. CASE BeginRecovery(p, w, "renew", {"EXPIRED_RECOVERABLE"})
    BY <1>3, <2>1
  <2>2. CASE SetRow(w, Activated(row[w])) /\ UNCHANGED <<box, disk, stray, job, runner, drift>>
    <3>1. OneRow(w, "ACTIVE", row[w].gen, row[w].named)
      BY <2>2, RowStatements
    <3>2. \A v \in Workspaces : Calm(v) /\ RowKept(v)
      BY <1>1, <3>1, RowsKept
    <3>3. \A v \in Workspaces : BoxKept(v) /\ DiskKept(v)
      BY <2>2 DEF BoxKept, DiskKept, BoxMinded, DiskMinded, Handles, Cleans
    <3> QED
      BY <2>2, <3>2, <3>3, NobodyMoves
  <2> QED
    BY <1>5, <2>1, <2>2 DEF Renew, world, environment
<1>6. CASE Export(p, w)
  <2>1. /\ SameRows /\ Begins(p, "export", "export", w) /\ job[p].step = "idle"
        /\ UNCHANGED <<box, disk, stray, runner, drift>>
    BY <1>6, CallEffects DEF Export, Arrives
  <2> QED
    BY <1>1, <2>1, StartBehind, BehindStepKeeps DEF Begins
<1>7. CASE Exec(p, w)
  <2>1. PICK op \in ToolCalls : Begins(p, op, "measure", w)
    BY <1>7, CallEffects
  <2>2. SameRows /\ job[p].step = "idle" /\ UNCHANGED <<box, disk, stray, runner, drift>>
    BY <1>7, CallEffects DEF Exec, Arrives
  <2> QED
    BY <1>1, <2>1, <2>2, StartBehind, BehindStepKeeps DEF Begins
<1>8. CASE ExpireOnAccess(p, w)
  <2>1. /\ OneRow(w, "EXPIRED_RECOVERABLE", row[w].gen + 1, FALSE)
        /\ stray' = [stray EXCEPT ![w] = @ \/ row[w].named]
        /\ UNCHANGED <<box, disk, job, runner, drift>>
    BY <1>8, CallEffects
  <2>2. row[w].named => stray'[w]
    BY <2>1 DEF TypeOK
  <2>3. \A v \in Workspaces : stray[v] => stray'[v]
    BY <2>1 DEF TypeOK
  <2>4. \A v \in Workspaces : BoxKept(v) /\ DiskKept(v)
    BY <2>1, <2>3 DEF BoxKept, DiskKept, BoxMinded, DiskMinded, Handles, Cleans
  <2>5. ASSUME NEW v \in Workspaces  PROVE Calm(v) /\ RowKept(v)
    <3>1. CASE v = w
      <4>1. row[v].named => BoxMinded(v)'
        BY <2>2, <3>1 DEF BoxMinded
      <4> QED
        BY <2>1, <3>1, <4>1 DEF Calm, RowKept, OneRow, Fenced
    <3>2. CASE v # w
      BY <2>1, <3>2 DEF Calm, RowKept, OneRow, BehindInv
    <3> QED
      BY <3>1, <3>2
  <2> QED
    BY <2>1, <2>4, <2>5, NobodyMoves
<1>9. CASE Close(p, w) \/ CloseFenced(p, w)
  <2>1. PICK op \in {"close", "closeFenced"} : Arrives(p, op) /\ CloseRecord(p, w, op)
    BY <1>9 DEF Close, CloseFenced
  <2>2. job[p].step = "idle" /\ UNCHANGED <<box, disk, stray, runner, drift>>
    BY <1>9, <2>1 DEF Close, CloseFenced, world, environment, Arrives
  <2>3. BehindStep(p)
    BY <1>1, <2>1, <2>2, CloseRecordBehind
  <2> QED
    BY <1>1, <2>2, <2>3, BehindStepKeeps
<1> QED
  BY <1>2, <1>4, <1>5, <1>6, <1>7, <1>8, <1>9 DEF Arrivals

LEMMA ReapsBehind ==
    ASSUME TypeOK, BehindInv, NEW w \in Workspaces, Reaps(w)
    PROVE  BehindStep(Reaper)
<1>1. Reaper \in Actors /\ job[Reaper].step = "idle"
  BY ReapEffects DEF Actors
<1>2. CASE ReapExpire(w)
  <2>1. PICK i \in Jobs : ExpiryClaim(Reaper, w, i)
    BY <1>2, ReapEffects
  <2>2. /\ OneRow(w, "REAPING", row[w].gen + 1, row[w].named)
        /\ Others(Reaper) /\ job'[Reaper].step = "expire_box"
        /\ job'[Reaper].v = w /\ job'[Reaper].gen = row[w].gen + 1
        /\ job'[Reaper].named = row[w].named /\ UNCHANGED <<box, disk, stray, drift>>
    BY <1>1, <2>1, ExpiryClaimEffect
  <2>3. Target(job'[Reaper]) = w
    BY <2>2 DEF Target, ExpireSteps
  <2> QED
    BY <1>1, <2>2, <2>3, ClaimBehind DEF CreatingSteps
<1>3. CASE ReapWeigh(w)
  BY <1>1, <1>3, ReapEffects, StartBehind DEF Begins
<1>4. CASE Quarantine(w) \/ QuarantineRetry(w)
  BY <1>4, ReapEffects DEF BehindInv
<1>5. CASE AutoCheck(w)
  BY <1>1, <1>5, ReapEffects, StartBehind DEF Begins
<1> QED
  BY <1>2, <1>3, <1>4, <1>5 DEF Reaps

LEMMA ReaperBehind ==
    ASSUME TypeOK, BehindInv, ReaperContinues
    PROVE  BehindStep(Reaper)
<1>0. Reaper \in Actors /\ UNCHANGED <<runner, drift>>
  BY ReaperEffects DEF Actors
<1>1. CASE ReapWeighed
  <2>1. /\ job[Reaper].step = "weigh" /\ SameRows /\ Ends(Reaper) /\ UNCHANGED <<box, disk, stray>>
    BY <1>1, ReaperEffects
  <2>2. Others(Reaper) /\ job'[Reaper].step = "idle" /\ ~Claims(job'[Reaper])
    BY <2>1 DEF Ends, Claims, ExpireSteps, CloseSteps
  <2> QED
    BY <1>0, <2>1, <2>2, QuietBehind DEF CreatingSteps
<1>2. CASE QuarantineSweep \/ QuarantineUnname
  BY <1>0, <1>2, ReaperEffects DEF BehindInv
<1>3. CASE AutoRead
  <2>1. /\ job[Reaper].step = "check" /\ SameRows /\ UNCHANGED <<box, disk, stray>>
        /\ Others(Reaper) /\ job'[Reaper].step = "decide"
    BY <1>3, ReaperEffects
  <2>2. ~Claims(job'[Reaper])
    BY <2>1 DEF Claims, ExpireSteps, CloseSteps
  <2> QED
    BY <1>0, <2>1, <2>2, QuietBehind DEF CreatingSteps
<1>4. CASE AutoDecide
  <2>1. PICK w \in Workspaces : w = job[Reaper].w
    BY <1>0, JobFields
  <2>2. /\ job[Reaper].step = "decide" /\ UNCHANGED <<box, disk, stray>>
        /\ \/ SameRows /\ Ends(Reaper)
           \/ /\ OneRow(w, "REAPING", row[w].gen + 1, row[w].named) /\ Others(Reaper)
              /\ job'[Reaper].step = "stop" /\ job'[Reaper].w = w
              /\ job'[Reaper].gen = row[w].gen + 1 /\ job'[Reaper].named = row[w].named
    BY <1>4, <2>1, ReaperEffects
  <2>3. CASE SameRows /\ Ends(Reaper)
    <3>1. Others(Reaper) /\ job'[Reaper].step = "idle" /\ ~Claims(job'[Reaper])
      BY <2>3 DEF Ends, Claims, ExpireSteps, CloseSteps
    <3> QED
      BY <1>0, <2>2, <2>3, <3>1, QuietBehind DEF CreatingSteps
  <2>4. CASE /\ OneRow(w, "REAPING", row[w].gen + 1, row[w].named) /\ Others(Reaper)
             /\ job'[Reaper].step = "stop" /\ job'[Reaper].w = w
             /\ job'[Reaper].gen = row[w].gen + 1 /\ job'[Reaper].named = row[w].named
    <3>1. Target(job'[Reaper]) = w
      BY <2>4 DEF Target, ExpireSteps
    <3> QED
      BY <1>0, <2>2, <2>4, <3>1, ClaimBehind DEF CreatingSteps
  <2> QED
    BY <2>2, <2>3, <2>4
<1> QED
  BY <1>1, <1>2, <1>3, <1>4 DEF ReaperContinues

LEMMA TimeBehind ==
    ASSUME TypeOK, LifeInv, BehindInv, Reliable, NEW w \in Workspaces,
           TimePasses(w) \/ StrayRemovalLands(w)
    PROVE  BehindInv'
<1>1. SameRows /\ UNCHANGED <<disk, job, runner, drift>>
  <2>1. CASE LeaseElapses(w)
    BY <2>1 DEF LeaseElapses, TypeOK, Rows, SameRows, world, environment
  <2>2. CASE WallDeadlinePasses(w)
    BY <2>2 DEF WallDeadlinePasses, TypeOK, Rows, SameRows, world, environment
  <2>3. CASE WallDeadlineOverruns(w)
    BY <2>3 DEF WallDeadlineOverruns, TypeOK, Rows, SameRows, world, environment
  <2>4. CASE LockElapses(w)
    BY <2>4 DEF LockElapses, TypeOK, Rows, SameRows, world, environment
  <2>5. CASE WindowElapses(w)
    BY <2>5 DEF WindowElapses, TypeOK, Rows, SameRows, world, environment
  <2>6. CASE StrayRemovalLands(w)
    BY <2>6 DEF StrayRemovalLands, SameRows, environment
  <2> QED
    BY <2>1, <2>2, <2>3, <2>4, <2>5, <2>6 DEF TimePasses
<1>2. \A v \in Workspaces : Calm(v) /\ RowKept(v) /\ DiskKept(v)
  BY <1>1, RowsKept DEF DiskKept, DiskMinded, Cleans
<1>3. \A v \in Workspaces : BoxKept(v)
  <2>1. CASE TimePasses(w)
    <3>1. UNCHANGED <<box, stray>>
      BY <2>1 DEF TimePasses, LeaseElapses, WallDeadlinePasses, WallDeadlineOverruns,
                  LockElapses, WindowElapses, world
    <3> QED
      BY <1>1, <3>1 DEF BoxKept, BoxMinded, Handles
  <2>2. CASE StrayRemovalLands(w)
    <3>1. /\ ~box'[w] /\ \A v \in Workspaces : box'[v] => box[v]
          /\ \A v \in Workspaces \ {w} : stray'[v] = stray[v]
      BY <2>2, RemovedBox DEF StrayRemovalLands, TypeOK
    <3> QED
      BY <1>1, <3>1 DEF BoxKept, BoxMinded, Handles
  <2> QED
    BY <2>1, <2>2
<1> QED
  BY <1>1, <1>2, <1>3, NobodyMoves

\* Between a crash and the end of start() nothing is promised of containers and directories.
LEMMA BootsBehind ==
    ASSUME TypeOK, LifeInv, BehindInv, NEW w \in Workspaces, Boots(w)
    PROVE  BehindInv'
<1>1. /\ Boot \in Actors /\ runner' # "up" /\ UNCHANGED drift
      /\ row[w].gen \in Nat /\ row[w].named \in BOOLEAN
  BY DEF Boots, BootQuarantined, BootCloses, BootQuarantines, BootRebuilds, BootResumes, Visiting,
         Visited, Throws, Actors, TypeOK, Rows
<1>2. CASE BootQuarantined(w)
  BY <1>2 DEF BootQuarantined, BehindInv
<1>3. CASE BootCloses(w)
  <2>1. /\ OneRow(w, "REAPING", job'[Boot].gen, row[w].named) /\ Others(Boot)
        /\ job'[Boot].step = "stop"
    BY <1>1, <1>3, CloseRecordEffect DEF BootCloses
  <2> QED
    BY <1>1, <2>1 DEF OneRow, Others, BehindInv
<1>4. CASE BootQuarantines(w)
  BY <1>4 DEF BootQuarantines, BehindInv
<1>5. CASE BootRebuilds(w)
  <2>1. UNCHANGED row /\ Begins(Boot, "boot", "inspect", w)
    BY <1>1, <1>5, ReadingEffects DEF BootRebuilds, Operations, Steps
  <2> QED
    BY <1>1, <2>1 DEF Begins, Others, BehindInv
<1>6. CASE BootResumes(w)
  BY <1>1, <1>6 DEF BootResumes, BehindInv
<1> QED
  BY <1>2, <1>3, <1>4, <1>5, <1>6 DEF Boots

\* What start() leaves when it begins to listen: every executor is named, and no directory of a
\* closed workspace is kept.
LEMMA StartsBehind ==
    ASSUME TypeOK, LifeInv, BehindInv, Crash \/ Restart \/ BootReconciles \/ BootFails
    PROVE  BehindInv'
<1>1. CASE Crash \/ Restart \/ BootFails
  <2>1. UNCHANGED <<row, drift>> /\ runner' # "up"
    BY <1>1 DEF Crash, Restart, BootFails
  <2>2. \A p \in Actors : job'[p].step \notin {"sweep", "unname"}
    BY <1>1 DEF Crash, Restart, BootFails, Idle, BehindInv
  <2> QED
    BY <2>1, <2>2 DEF BehindInv
<1>2. CASE BootReconciles
  <2>1. /\ UNCHANGED <<row, job, drift>> /\ runner = "boot" /\ job[Boot].step = "idle"
        /\ \A w \in Workspaces : /\ box'[w] => row[w].named
                                 /\ disk'[w] => KeepsDirectory(w)
    BY <1>2 DEF BootReconciles
  <2>2. \A p \in Actors : ClaimMinded(p)'
    <3>1. \A p \in Actors : job'[p].step = "idle" /\ ~Claims(job'[p])
      BY <2>1 DEF LifeInv, Claims, ExpireSteps, CloseSteps
    <3> QED
      BY <3>1, NoClaimMinded
  <2>3. ASSUME NEW w \in Workspaces
        PROVE  /\ row'[w].named \/ BoxMinded(w)'
               /\ row'[w].status = "CLOSED" => DiskMinded(w)'
    BY <2>1 DEF BoxMinded, DiskMinded, KeepsDirectory, EnumeratedStatuses, CountedStatuses
  <2> QED
    BY <2>1, <2>2, <2>3 DEF BehindInv
<1> QED
  BY <1>1, <1>2

LEMMA InitBehind == Init => BehindInv
  BY NoClaimMinded DEF Init, BehindInv, Idle, NoRow, ClaimMinded, Claims, ExpireSteps, CloseSteps,
                       BoxMinded, DiskMinded

LEMMA NextBehind ==
    ASSUME TypeOK, LifeInv, BehindInv, Reliable, [Next]_vars
    PROVE  BehindInv'
<1>1. ASSUME UNCHANGED <<row, box, disk, stray, job, runner, drift>>  PROVE BehindInv'
  BY <1>1 DEF BehindInv, BoxMinded, DiskMinded, ClaimMinded, Claims, Target, Unboxed, Fenced,
              Handles, Cleans
<1>2. CASE UNCHANGED vars \/ SetQuota
  BY <1>1, <1>2 DEF vars, SetQuota, world
<1>3. CASE FirewallChanges
  BY <1>3 DEF FirewallChanges, Reliable
<1>4. CASE Crash \/ Restart \/ BootReconciles \/ BootFails
  BY <1>4, StartsBehind
<1>5. CASE \E p \in Clients, w \in Workspaces : Arrivals(p, w)
  BY <1>5, ArrivalsBehind
<1>6. ASSUME NEW p \in Actors, Continues(p)  PROVE BehindInv'
  <2>1. runner' = "up" => runner = "up"
    <3>1. UNCHANGED <<runner, toVisit>> \/ (Ends(p) /\ Throws(p))
      BY <1>6, ContinuesLive DEF LifeStep
    <3> QED
      BY <3>1 DEF Throws
  <2> QED
    BY <1>6, <2>1, ContinuesBehind, BehindStepKeeps
<1>7. ASSUME NEW w \in Workspaces, Reaps(w)  PROVE BehindInv'
  BY <1>7, ReapEffects, ReapsBehind, BehindStepKeeps DEF Actors
<1>8. CASE ReaperContinues
  BY <1>8, ReaperEffects, ReaperBehind, BehindStepKeeps DEF Actors
<1>9. ASSUME NEW w \in Workspaces, Boots(w) \/ TimePasses(w) \/ StrayRemovalLands(w)
      PROVE  BehindInv'
  BY <1>9, BootsBehind, TimeBehind
<1> QED
  BY <1>2, <1>3, <1>4, <1>5, <1>6, <1>7, <1>8, <1>9 DEF Next

\* Whoever records or removes a container minds it, and only a client opens.
LEMMA BehindEnough ==
    ASSUME LifeInv, BehindInv
    PROVE  NothingLeftBehind
<1>1. NoOrphanExecutor
  BY DEF BehindInv, NoOrphanExecutor, BoxMinded, Handles, Minding
<1>2. ASSUME NEW q \in Actors, job[q].op = "open"  PROVE q \in Clients
  BY <1>2 DEF LifeInv, JobShape
<1>3. ClosedLeavesNothing
  BY <1>2 DEF BehindInv, ClosedLeavesNothing, DiskMinded, Cleans, CreatingSteps
<1> QED
  BY <1>1, <1>3 DEF NothingLeftBehind

\* While the server listens, every executor is named by its record or about to be recorded or
\* removed, and every directory of a closed workspace belongs to an open that will still remove it,
\* through every interleaving of opens, recoveries, expiries, closes and crashes (open's catch block,
\* ensureActiveExecutor, closeRecord, start).  A removal that fails is nobody's to repeat before the
\* next start, so the theorem is about a Docker and a file system that do as they are told.
THEOREM BehindTheorem == ASSUME Reliable PROVE Spec => []NothingLeftBehind
<1>1. LifeInv /\ BehindInv /\ TypeOK /\ TypeOK' /\ [Next]_vars => LifeInv' /\ BehindInv'
  BY NextKeepsLife, NextBehind
<1> QED
  BY <1>1, BehindEnough, InitLife, InitBehind, TypeCorrect, PTL DEF Spec

-----------------------------------------------------------------------------
(* What is offered for recovery can be recovered *)

\* Nobody joins a close that is under way, and stopping the work of a workspace does not fail: the
\* two ways in which a record comes back, or is offered, while its directory goes.
Careful == "close" \notin Requests /\ Events \cap {"size", "stop"} = {}

Offered == {"ACTIVE", "EXPIRED_RECOVERABLE"}
Lost    == {"REAPING", "CLOSED", "FAILED"}

\* What a job does to w: make it, expire it, close it, or give it a new container.
Makes(j, w)    == j.op = "open" /\ j.w = w /\ j.step \in CreatingSteps \cup {"undo", "abandon"}
Expires(j, w)  == j.step \in ExpireSteps /\ j.v = w
Closes(j, w)   == j.step \in CloseSteps /\ j.w = w
Restores(j, w) == j.op # "open" /\ j.w = w /\ j.step \in {"create", "launch", "activate"}

\* What p relies on.
Relies(p, w) ==
    /\ Makes(job[p], w) =>
          \/ row[w].status \in Lost
          \/ /\ row[w].status = "CREATING" /\ job[p].step \in CreatingSteps
             /\ job[p].step = "clone" \/ disk[w]
    /\ Expires(job[p], w) => Fenced(row[w], job[p].gen, {"REAPING"}) /\ disk[w]
    /\ Closes(job[p], w) => Fenced(row[w], job[p].gen, {"REAPING"})
    /\ Restores(job[p], w) /\ Fenced(row[w], job[p].gen, RecoverFrom) => disk[w]

Clash(i, j, w) ==
    \/ Makes(i, w) /\ (Makes(j, w) \/ Expires(j, w))
    \/ Expires(i, w) /\ (Makes(j, w) \/ Expires(j, w) \/ Closes(j, w))
    \/ Closes(i, w) /\ (Expires(j, w) \/ Closes(j, w))

\* The checkout of what is offered is there, and whoever is about to offer a record, with a fence that
\* still matches, has it; two jobs on one workspace never rely on what the other is to undo.
DataInv ==
    /\ \A w \in Workspaces : row[w].status \in Offered => disk[w]
    /\ \A p \in Actors, w \in Workspaces : Relies(p, w)
    /\ \A p \in Actors, q \in Actors, w \in Workspaces : p # q => ~Clash(job[p], job[q], w)

Steady(w) == row'[w].status = row[w].status /\ row'[w].gen = row[w].gen

\* What a step of p may make of the row of w: s at the same generation, and at a later one.
DataStays(p, w, s) ==
    \/ row[w].status = "CREATING" /\ s = "FAILED"
    \/ Makes(job[p], w) /\ job[p].step # "clone" /\ row[w].status = "CREATING" /\ s = "ACTIVE"
    \/ Expires(job[p], w) /\ s = "EXPIRED_RECOVERABLE"
    \/ Closes(job[p], w) /\ s = "CLOSED"
    \/ row[w].status \in Offered /\ s \in {"ACTIVE", "NETWORK_QUARANTINED"}
    \/ Restores(job[p], w) /\ Fenced(row[w], job[p].gen, RecoverFrom) /\ s = "ACTIVE"

DataGrows(w, s) ==
    \/ row[w].status \notin {"NONE", "REAPING", "CLOSED"} /\ s = "REAPING"
    \/ row[w].status = "ACTIVE" /\ Unlocked(row[w]) /\ s = "EXPIRED_RECOVERABLE"

\* What a step of p may do to the record and to the directory of w.
DataRow(p, w) ==
    \/ Steady(w)
    \/ DataStays(p, w, row'[w].status) /\ row'[w].gen = row[w].gen
    \/ DataGrows(w, row'[w].status) /\ row'[w].gen > row[w].gen
    \/ row[w].status = "NONE" /\ row'[w].status = "CREATING" /\ row'[w].gen = 1

DataDisk(p, w) ==
    \/ disk[w] => disk'[w]
    \/ Steady(w) /\ (Closes(job[p], w) \/ (Makes(job[p], w) /\ job[p].step = "abandon"))

\* Whoever starts to work on w finds a record that nobody works on.
Joins(p, w) ==
    /\ Makes(job'[p], w) => Makes(job[p], w) \/ row[w].status = "NONE"
    /\ Expires(job'[p], w) =>
          Expires(job[p], w) \/ (row[w].status = "ACTIVE" /\ Unlocked(row[w]))
    /\ Closes(job'[p], w) => Closes(job[p], w) \/ row[w].status # "REAPING"

DataStep(p) ==
    /\ Others(p)
    /\ \A w \in Workspaces : DataRow(p, w) /\ DataDisk(p, w) /\ Joins(p, w) /\ Relies(p, w)'

LEMMA OthersRely ==
    ASSUME DataInv, NEW p \in Actors, NEW q \in Actors \ {p}, job'[q] = job[q],
           NEW w \in Workspaces, DataRow(p, w), DataDisk(p, w)
    PROVE  Relies(q, w)'
<1>1. /\ Relies(p, w) /\ Relies(q, w) /\ ~Clash(job[p], job[q], w)
      /\ row[w].status \in Offered => disk[w]
  BY DEF DataInv
<1>2. ASSUME Makes(job[q], w)
      PROVE  \/ row'[w].status \in Lost
             \/ /\ row'[w].status = "CREATING" /\ job[q].step \in CreatingSteps
                /\ job[q].step = "clone" \/ disk'[w]
  <2>1. ~Makes(job[p], w) /\ ~Expires(job[p], w)
    BY <1>1, <1>2 DEF Clash
  <2>2. CASE row[w].status \in Lost
    BY <1>1, <2>1, <2>2 DEF DataRow, DataStays, DataGrows, Lost, Offered, Steady, Fenced, RecoverFrom
  <2>3. CASE row[w].status = "CREATING" /\ job[q].step \in CreatingSteps
              /\ (job[q].step = "clone" \/ disk[w])
    <3>1. disk[w] => disk'[w]
      BY <1>1, <2>1, <2>3 DEF DataDisk, Relies, Fenced
    <3> QED
      BY <1>1, <2>1, <2>3, <3>1 DEF DataRow, DataStays, DataGrows, Lost, Offered, Steady, Fenced, RecoverFrom
  <2> QED
    BY <1>1, <1>2, <2>2, <2>3 DEF Relies
<1>3. ASSUME Expires(job[q], w)
      PROVE  Fenced(row'[w], job[q].gen, {"REAPING"}) /\ disk'[w]
  <2>1. ~Makes(job[p], w) /\ ~Expires(job[p], w) /\ ~Closes(job[p], w)
    BY <1>1, <1>3 DEF Clash
  <2>2. Fenced(row[w], job[q].gen, {"REAPING"}) /\ disk[w]
    BY <1>1, <1>3 DEF Relies
  <2> QED
    BY <2>1, <2>2 DEF DataRow, DataStays, DataGrows, DataDisk, Offered, Steady, Fenced, RecoverFrom
<1>4. ASSUME Closes(job[q], w)
      PROVE  Fenced(row'[w], job[q].gen, {"REAPING"})
  <2>1. ~Expires(job[p], w) /\ ~Closes(job[p], w)
    BY <1>1, <1>4 DEF Clash
  <2>2. Fenced(row[w], job[q].gen, {"REAPING"})
    BY <1>1, <1>4 DEF Relies
  <2> QED
    BY <2>1, <2>2 DEF DataRow, DataStays, DataGrows, Offered, Steady, Fenced, RecoverFrom
<1>5. ASSUME Restores(job[q], w), Fenced(row'[w], job[q].gen, RecoverFrom)
      PROVE  disk'[w]
  <2>1. Fenced(row[w], job[q].gen, RecoverFrom) => disk[w]
    BY <1>1, <1>5 DEF Relies
  <2>2. row'[w].status \in RecoverFrom
    BY <1>5 DEF Fenced
  <2>3. CASE Steady(w)
    <3>1. Fenced(row[w], job[q].gen, RecoverFrom) /\ disk[w]
      BY <1>5, <2>1, <2>3 DEF Steady, Fenced
    <3>2. ~Closes(job[p], w) /\ ~(Makes(job[p], w) /\ job[p].step = "abandon")
      BY <1>1, <3>1 DEF Relies, Fenced, RecoverFrom, Lost, CreatingSteps
    <3> QED
      BY <3>1, <3>2 DEF DataDisk
  <2>4. CASE ~Steady(w)
    <3>1. disk[w]
      BY <1>1, <2>2, <2>4 DEF DataRow, DataStays, DataGrows, RecoverFrom, Relies, Fenced, Lost,
                                 Offered
    <3> QED
      BY <2>4, <3>1 DEF DataDisk
  <2> QED
    BY <2>3, <2>4
<1> QED
  BY <1>2, <1>3, <1>4, <1>5 DEF Relies

LEMMA DataStepKeeps ==
    ASSUME DataInv, NEW p \in Actors, DataStep(p)
    PROVE  DataInv'
<1>1. ASSUME NEW q \in Actors, NEW w \in Workspaces  PROVE Relies(q, w)'
  BY <1>1, OthersRely DEF DataStep, Others
<1>2. ASSUME NEW w \in Workspaces, row'[w].status \in Offered  PROVE disk'[w]
  <2>1. Relies(p, w) /\ DataRow(p, w) /\ DataDisk(p, w) /\ (row[w].status \in Offered => disk[w])
    BY DEF DataInv, DataStep
  <2>2. CASE Steady(w)
    <3>1. disk[w] /\ row[w].status \in Offered
      BY <1>2, <2>1, <2>2 DEF Steady
    <3>2. ~Closes(job[p], w) /\ ~(Makes(job[p], w) /\ job[p].step = "abandon")
      BY <2>1, <3>1 DEF Relies, Fenced, Offered, Lost, CreatingSteps
    <3> QED
      BY <2>1, <3>1, <3>2 DEF DataDisk
  <2>3. CASE ~Steady(w)
    <3>1. disk[w]
      BY <1>2, <2>1, <2>3 DEF DataRow, DataStays, DataGrows, Offered, Relies, Fenced, Lost
    <3> QED
      BY <2>1, <2>3, <3>1 DEF DataDisk
  <2> QED
    BY <2>2, <2>3
<1>3. ASSUME NEW q \in Actors \ {p}, NEW w \in Workspaces
      PROVE  ~Clash(job'[p], job[q], w) /\ ~Clash(job[q], job'[p], w)
  <2>1. /\ Joins(p, w) /\ Relies(q, w) /\ ~Clash(job[p], job[q], w) /\ ~Clash(job[q], job[p], w)
    BY DEF DataInv, DataStep
  <2>2. Makes(job[q], w) => row[w].status \in Lost \cup {"CREATING"}
    BY <2>1 DEF Relies
  <2>3. Expires(job[q], w) \/ Closes(job[q], w) => row[w].status = "REAPING"
    BY <2>1 DEF Relies, Fenced
  <2>4. Makes(job'[p], w) => ~Makes(job[q], w) /\ ~Expires(job[q], w)
    BY <2>1, <2>2, <2>3 DEF Joins, Clash, Lost
  <2>5. Expires(job'[p], w) => ~Makes(job[q], w) /\ ~Expires(job[q], w) /\ ~Closes(job[q], w)
    BY <2>1, <2>2, <2>3 DEF Joins, Clash, Lost
  <2>6. Closes(job'[p], w) => ~Expires(job[q], w) /\ ~Closes(job[q], w)
    BY <2>1, <2>3 DEF Joins, Clash
  <2> QED
    BY <2>4, <2>5, <2>6 DEF Clash
<1>4. ASSUME NEW i \in Actors, NEW q \in Actors, NEW w \in Workspaces, i # q
      PROVE  ~Clash(job'[i], job'[q], w)
  BY <1>3, <1>4 DEF DataStep, Others, DataInv
<1> QED
  BY <1>1, <1>2, <1>4 DEF DataInv, Clash, Makes, Expires, Closes

\* The rows as the statements leave them.
LEMMA DataRows ==
    ASSUME NEW p \in Actors, NEW w \in Workspaces, NEW s, NEW g, NEW n, OneRow(w, s, g, n),
           \/ DataStays(p, w, s) /\ g = row[w].gen
           \/ DataGrows(w, s) /\ g > row[w].gen
           \/ row[w].status = "NONE" /\ s = "CREATING" /\ g = 1
    PROVE  \A v \in Workspaces : DataRow(p, v)
<1> SUFFICES ASSUME NEW v \in Workspaces  PROVE DataRow(p, v)
  OBVIOUS
<1>1. CASE v = w
  BY <1>1 DEF OneRow, DataRow
<1>2. CASE v # w
  BY <1>2 DEF OneRow, DataRow, Steady
<1> QED
  BY <1>1, <1>2

\* A job at one of the other steps relies on nothing.
LEMMA PlainData ==
    ASSUME NEW p \in Actors, Others(p), \A w \in Workspaces : DataRow(p, w) /\ DataDisk(p, w),
           job'[p].step \notin CreatingSteps \cup {"undo", "abandon"} \cup ExpireSteps \cup CloseSteps
    PROVE  DataStep(p)
  BY DEF DataStep, Joins, Relies, Makes, Expires, Closes, Restores, CreatingSteps

LEMMA PlainEnd ==
    ASSUME NEW p \in Actors, Ends(p), \A w \in Workspaces : DataRow(p, w) /\ DataDisk(p, w)
    PROVE  DataStep(p)
  BY PlainData DEF Ends, CreatingSteps, ExpireSteps, CloseSteps

LEMMA QuietData ==
    ASSUME NEW p \in Actors, SameRows
    PROVE  /\ \A w \in Workspaces : DataRow(p, w) /\ Steady(w)
           /\ UNCHANGED disk => \A w \in Workspaces : DataDisk(p, w)
  BY DEF SameRows, DataRow, Steady, DataDisk

\* From one step on w to the next, on the same row.
LEMMA CarryData ==
    ASSUME TypeOK, DataInv, NEW p \in Actors, SameRows, \A w \in Workspaces : DataDisk(p, w),
           \A w \in Workspaces : ~Closes(job[p], w) => (disk[w] => disk'[w]),
           NEW s, Moves(p, s),
           \/ job[p].step \in {"create", "launch"} /\ s \in {"launch", "activate"}
           \/ job[p].step \in ExpireSteps /\ s \in ExpireSteps
           \/ job[p].step \in CloseSteps /\ s \in CloseSteps
    PROVE  DataStep(p)
<1>1. ASSUME NEW w \in Workspaces  PROVE Joins(p, w) /\ Relies(p, w)'
  <2>1. /\ Relies(p, w) /\ row'[w].status = row[w].status /\ row'[w].gen = row[w].gen
        /\ job'[p].step = s /\ job'[p].op = job[p].op /\ job'[p].w = job[p].w
        /\ job'[p].v = job[p].v /\ job'[p].gen = job[p].gen
    BY DEF DataInv, SameRows, Moves
  <2>2. CASE job[p].step \in {"create", "launch"} /\ s \in {"launch", "activate"}
    BY <2>1, <2>2 DEF Joins, Relies, Makes, Expires, Closes, Restores, Fenced, CreatingSteps,
                      ExpireSteps, CloseSteps
  <2>3. CASE job[p].step \in ExpireSteps /\ s \in ExpireSteps
    BY <2>1, <2>3 DEF Joins, Relies, Makes, Expires, Closes, Restores, Fenced, CreatingSteps,
                      ExpireSteps, CloseSteps
  <2>4. CASE job[p].step \in CloseSteps /\ s \in CloseSteps
    BY <2>1, <2>4 DEF Joins, Relies, Makes, Expires, Closes, Restores, Fenced, CreatingSteps,
                      ExpireSteps, CloseSteps
  <2> QED
    BY <2>2, <2>3, <2>4
<1> QED
  BY <1>1, QuietData DEF DataStep, Moves

\* A claim, by somebody who was not working on w.
LEMMA ClaimData ==
    ASSUME TypeOK, DataInv, NEW p \in Actors, NEW w \in Workspaces, Others(p), UNCHANGED disk,
           row[w].status \notin {"NONE", "REAPING", "CLOSED"},
           NEW n, OneRow(w, "REAPING", job'[p].gen, n), job'[p].gen = row[w].gen + 1,
           \/ /\ row[w].status = "ACTIVE" /\ Unlocked(row[w])
              /\ job'[p].step = "expire_box" /\ job'[p].v = w
           \/ job'[p].step = "stop" /\ job'[p].w = w
    PROVE  DataStep(p)
<1>1. \A v \in Workspaces : DataRow(p, v) /\ DataDisk(p, v)
  <2>1. job'[p].gen > row[w].gen
    BY DEF TypeOK, Rows
  <2>2. DataGrows(w, "REAPING")
    BY DEF DataGrows
  <2> QED
    BY <2>1, <2>2, DataRows DEF DataDisk
<1>2. ASSUME NEW v \in Workspaces  PROVE Joins(p, v) /\ Relies(p, v)'
  <2>1. Fenced(row'[w], job'[p].gen, {"REAPING"})
    BY DEF OneRow, Fenced
  <2>2. row[w].status = "ACTIVE" => disk'[w]
    BY DEF DataInv, Offered
  <2> QED
    BY <2>1, <2>2 DEF Joins, Relies, Makes, Expires, Closes, Restores, CreatingSteps, ExpireSteps,
                      CloseSteps
<1> QED
  BY <1>1, <1>2 DEF DataStep

LEMMA ExpiryData ==
    ASSUME TypeOK, DataInv, NEW p \in Actors,
           ExpireRemoveBox(p) \/ ExpireMark(p) \/ CapacityExpire(p)
    PROVE  DataStep(p)
<1>0. PICK v \in Workspaces : v = job[p].v
  BY JobFields
<1>1. CASE ExpireRemoveBox(p)
  <2>1. /\ job[p].step = "expire_box" /\ Moves(p, "expire_mark") /\ SameRows /\ UNCHANGED disk
    BY <1>1, ExpireEffects
  <2> QED
    BY <2>1, CarryData, QuietData DEF ExpireSteps
<1>2. CASE ExpireMark(p)
  <2>1. /\ job[p].step = "expire_mark" /\ UNCHANGED disk
        /\ OneRow(v, "EXPIRED_RECOVERABLE", row[v].gen, FALSE) \/ SameRows
        /\ Moves(p, "capacity") \/ Ends(p)
    BY <1>0, <1>2, ExpireEffects
  <2>2. \A w \in Workspaces : DataRow(p, w) /\ DataDisk(p, w)
    <3>1. Expires(job[p], v)
      BY <1>0, <2>1 DEF Expires, ExpireSteps
    <3> QED
      BY <2>1, <3>1, DataRows, QuietData DEF DataDisk, DataStays
  <2>3. Others(p) /\ job'[p].step \in {"capacity", "idle"}
    BY <2>1 DEF Moves, Ends
  <2> QED
    BY <2>2, <2>3, PlainData DEF CreatingSteps, ExpireSteps, CloseSteps
<1>3. CASE CapacityExpire(p)
  <2>1. PICK u \in Workspaces : ExpiryClaim(p, u, job[p]) /\ job[p] \in Jobs
    BY <1>3 DEF CapacityExpire, OwnExpirable, TypeOK
  <2>2. /\ row[u].status = "ACTIVE" /\ Unlocked(row[u]) /\ OneRow(u, "REAPING", row[u].gen + 1, row[u].named)
        /\ Others(p) /\ job'[p].step = "expire_box" /\ job'[p].v = u
        /\ job'[p].gen = row[u].gen + 1 /\ UNCHANGED disk
    BY <2>1, ExpiryClaimEffect
  <2> QED
    BY <2>2, ClaimData
<1> QED
  BY <1>1, <1>2, <1>3

\* The fence of an open matches as long as its record is CREATING.
LEMMA OpenerFence ==
    ASSUME LifeInv, DataInv, NEW p \in Actors, NEW w \in Workspaces, w = job[p].w,
           job[p].op = "open", job[p].step \in CreatingSteps \cup {"undo"}
    PROVE  /\ Makes(job[p], w)
           /\ \/ row[w].status \in Lost
              \/ /\ Fenced(row[w], job[p].gen, {"CREATING"}) /\ job[p].step \in CreatingSteps
                 /\ job[p].step = "clone" \/ disk[w]
<1>1. Makes(job[p], w) /\ Relies(p, w)
  BY DEF Makes, DataInv
<1>2. job[p].gen = 1 /\ (row[w].status = "CREATING" => row[w].gen = 1)
  BY DEF LifeInv, JobShape
<1> QED
  BY <1>1, <1>2 DEF Relies, Fenced

\* After a step of an open on w that leaves it at s.
LEMMA MakerData ==
    ASSUME NEW p \in Actors, NEW w \in Workspaces, Others(p), Makes(job[p], w),
           job'[p].op = "open", job'[p].w = w, job'[p].step \in CreatingSteps \cup {"undo", "abandon"},
           \A v \in Workspaces : DataRow(p, v) /\ DataDisk(p, v),
           \/ row'[w].status \in Lost
           \/ /\ row'[w].status = "CREATING" /\ job'[p].step \in CreatingSteps
              /\ job'[p].step = "clone" \/ disk'[w]
    PROVE  DataStep(p)
  BY DEF DataStep, Joins, Relies, Makes, Expires, Closes, Restores, CreatingSteps, ExpireSteps,
         CloseSteps

LEMMA FailOpenData ==
    ASSUME TypeOK, LifeInv, DataInv, NEW p \in Actors, FailOpen(p), job[p].op = "open",
           job[p].step \in CreatingSteps \cup {"undo"}, \A w \in Workspaces : disk[w] => disk'[w]
    PROVE  DataStep(p)
<1>0. PICK w \in Workspaces : w = job[p].w
  BY JobFields
<1>1. /\ Moves(p, "abandon")
      /\ IF Fenced(row[w], job[p].gen, {"CREATING"})
         THEN OneRow(w, "FAILED", row[w].gen, row[w].named) ELSE SameRows
  BY <1>0, FailOpenEffect
<1>2. Others(p) /\ job'[p].op = "open" /\ job'[p].w = w /\ job'[p].step = "abandon"
  BY <1>0, <1>1 DEF Moves
<1>3. /\ Makes(job[p], w)
      /\ row[w].status \in Lost \/ Fenced(row[w], job[p].gen, {"CREATING"})
  BY <1>0, OpenerFence
<1>4. \A v \in Workspaces : DataDisk(p, v)
  BY DEF DataDisk
<1>5. CASE Fenced(row[w], job[p].gen, {"CREATING"})
  <2>1. OneRow(w, "FAILED", row[w].gen, row[w].named) /\ row[w].status = "CREATING"
    BY <1>1, <1>5 DEF Fenced
  <2>2. \A v \in Workspaces : DataRow(p, v)
    BY <2>1, DataRows DEF DataStays
  <2>3. row'[w].status \in Lost
    BY <2>1 DEF OneRow, Lost
  <2> QED
    BY <1>2, <1>3, <1>4, <2>2, <2>3, MakerData
<1>6. CASE ~Fenced(row[w], job[p].gen, {"CREATING"})
  <2>1. SameRows /\ row'[w].status \in Lost
    BY <1>1, <1>3, <1>6 DEF SameRows
  <2> QED
    BY <1>2, <1>3, <1>4, <2>1, MakerData, QuietData
<1> QED
  BY <1>5, <1>6

LEMMA OpenData ==
    ASSUME TypeOK, LifeInv, DataInv, NEW p \in Actors,
           CapacityCheck(p) \/ Admit(p) \/ Clone(p) \/ OpenActivate(p) \/ Abandon(p)
    PROVE  DataStep(p)
<1>0. PICK w \in Workspaces : w = job[p].w
  BY JobFields
<1>1. JobShape(p, job[p])
  BY DEF LifeInv
<1>2. CASE CapacityCheck(p)
  <2>1. SameRows /\ (Moves(p, "admit") \/ Ends(p)) /\ UNCHANGED disk
    BY <1>2, OpenEffects
  <2>2. Others(p) /\ job'[p].step \in {"admit", "idle"}
    BY <2>1 DEF Moves, Ends
  <2> QED
    BY <2>1, <2>2, PlainData, QuietData DEF CreatingSteps, ExpireSteps, CloseSteps
<1>3. CASE Admit(p)
  <2>1. job[p].step = "admit" /\ UNCHANGED disk
    BY <1>3, AdmitEffect
  <2>2. CASE SameRows /\ Ends(p)
    BY <2>1, <2>2, PlainEnd, QuietData
  <2>3. CASE /\ row[w].status = "NONE" /\ OneRow(w, "CREATING", 1, FALSE)
             /\ Others(p) /\ job'[p].step = "clone" /\ job'[p].op = job[p].op /\ job'[p].w = w
    <3>1. \A v \in Workspaces : DataRow(p, v) /\ DataDisk(p, v)
      BY <2>1, <2>3, DataRows DEF DataDisk
    <3>2. job'[p].op = "open" /\ row'[w].status = "CREATING"
      BY <1>1, <2>1, <2>3 DEF JobShape, OnlyOpenSteps, OneRow
    <3>3. \A v \in Workspaces : Joins(p, v) /\ Relies(p, v)'
      BY <2>3, <3>2 DEF Joins, Relies, Makes, Expires, Closes, Restores, CreatingSteps, ExpireSteps,
                        CloseSteps
    <3> QED
      BY <2>3, <3>1, <3>3 DEF DataStep
  <2> QED
    BY <1>0, <1>3, <2>2, <2>3, AdmitEffect
<1>4. CASE Clone(p)
  <2>1. /\ job[p].step = "clone" /\ job[p].op = "open" /\ disk' = [disk EXCEPT ![w] = TRUE]
        /\ (Moves(p, "create") /\ SameRows) \/ FailOpen(p)
    BY <1>0, <1>1, <1>4, OpenEffects DEF JobShape, OnlyOpenSteps
  <2>2. disk'[w] /\ \A v \in Workspaces : disk[v] => disk'[v]
    BY <2>1 DEF TypeOK
  <2>3. CASE FailOpen(p)
    BY <2>1, <2>2, <2>3, FailOpenData DEF CreatingSteps
  <2>4. CASE Moves(p, "create") /\ SameRows
    <3>1. /\ Makes(job[p], w)
          /\ row[w].status \in Lost \/ row[w].status = "CREATING"
      BY <1>0, <2>1, OpenerFence DEF CreatingSteps, Fenced
    <3>2. row'[w].status = row[w].status
      BY <2>4 DEF SameRows
    <3>3. /\ Others(p) /\ job'[p].op = "open" /\ job'[p].w = w
          /\ job'[p].step = "create" /\ job'[p].step \in CreatingSteps
      BY <1>0, <2>1, <2>4 DEF Moves, CreatingSteps
    <3>4. \A v \in Workspaces : DataRow(p, v) /\ DataDisk(p, v)
      BY <2>2, <2>4, QuietData DEF DataDisk
    <3> QED
      BY <2>2, <3>1, <3>2, <3>3, <3>4, MakerData
  <2> QED
    BY <2>1, <2>3, <2>4
<1>5. CASE OpenActivate(p)
  <2>1. /\ job[p].step = "activate" /\ job[p].op = "open" /\ UNCHANGED disk
        /\ IF Fenced(row[w], job[p].gen, {"CREATING"})
           THEN OneRow(w, "ACTIVE", row[w].gen, TRUE) /\ Ends(p)
           ELSE SameRows /\ Moves(p, "undo")
    BY <1>0, <1>5, OpenEffects
  <2>2. /\ Makes(job[p], w)
        /\ row[w].status \in Lost \/ Fenced(row[w], job[p].gen, {"CREATING"})
    BY <1>0, <2>1, OpenerFence DEF CreatingSteps
  <2>3. CASE Fenced(row[w], job[p].gen, {"CREATING"})
    <3>1. OneRow(w, "ACTIVE", row[w].gen, TRUE) /\ Ends(p) /\ row[w].status = "CREATING"
      BY <2>1, <2>3 DEF Fenced
    <3>2. \A v \in Workspaces : DataRow(p, v) /\ DataDisk(p, v)
      BY <2>1, <2>2, <3>1, DataRows DEF DataDisk, DataStays
    <3> QED
      BY <3>1, <3>2, PlainEnd
  <2>4. CASE ~Fenced(row[w], job[p].gen, {"CREATING"})
    <3>1. SameRows /\ Moves(p, "undo") /\ row'[w].status \in Lost
      BY <2>1, <2>2, <2>4 DEF SameRows
    <3>2. Others(p) /\ job'[p].op = "open" /\ job'[p].w = w /\ job'[p].step = "undo"
      BY <1>0, <2>1, <3>1 DEF Moves
    <3> QED
      BY <2>1, <2>2, <3>1, <3>2, MakerData, QuietData
  <2> QED
    BY <2>3, <2>4
<1>6. CASE Abandon(p)
  <2>1. /\ job[p].step = "abandon" /\ job[p].op = "open" /\ SameRows /\ Ends(p)
        /\ disk' = [disk EXCEPT ![w] = FALSE] \/ UNCHANGED disk
    BY <1>0, <1>1, <1>6, OpenEffects DEF JobShape, OnlyOpenSteps
  <2>2. Makes(job[p], w) /\ \A v \in Workspaces \ {w} : disk'[v] = disk[v]
    BY <1>0, <2>1 DEF Makes, TypeOK
  <2>3. \A v \in Workspaces : DataRow(p, v) /\ DataDisk(p, v)
    BY <2>1, <2>2, QuietData DEF DataDisk
  <2> QED
    BY <2>1, <2>3, PlainEnd
<1> QED
  BY <1>2, <1>3, <1>4, <1>5, <1>6

LEMMA FailData ==
    ASSUME TypeOK, LifeInv, DataInv, NEW p \in Actors, Fail(p), UNCHANGED disk,
           job[p].step \in CreatingSteps \cup {"undo"}
    PROVE  DataStep(p)
<1>1. CASE job[p].op = "open" /\ FailOpen(p)
  BY <1>1, FailOpenData
<1>2. CASE SameRows /\ Ends(p)
  BY <1>2, PlainEnd, QuietData
<1> QED
  BY <1>1, <1>2, FailEffect

LEMMA ExecutorData ==
    ASSUME TypeOK, LifeInv, DataInv, NEW p \in Actors,
           CreateRemovesOld(p) \/ Launch(p) \/ LaunchFails(p) \/ UndoLaunch(p) \/ InspectReuse(p)
              \/ InspectRebuild(p) \/ RemoveStaleBox(p) \/ StatRepository(p)
    PROVE  DataStep(p)
<1>0. PICK w \in Workspaces : w = job[p].w
  BY JobFields
<1>1. CASE CreateRemovesOld(p) \/ Launch(p)
  <2>1. /\ SameRows /\ UNCHANGED disk
        /\ \/ job[p].step = "create" /\ Moves(p, "launch")
           \/ job[p].step = "launch" /\ Moves(p, "activate")
    BY <1>1, LaunchEffects
  <2>2. \A v \in Workspaces : DataDisk(p, v)
    BY <2>1, QuietData
  <2> QED
    BY <2>1, <2>2, CarryData
<1>2. CASE LaunchFails(p) \/ UndoLaunch(p)
  <2>1. Fail(p) /\ UNCHANGED disk /\ job[p].step \in {"launch", "undo"}
    BY <1>2, LaunchEffects
  <2> QED
    BY <2>1, FailData DEF CreatingSteps
<1>3. CASE InspectReuse(p) \/ InspectRebuild(p) \/ RemoveStaleBox(p)
  <2>1. /\ SameRows /\ UNCHANGED disk
        /\ Moves(p, "finish") \/ Moves(p, "unstale") \/ Moves(p, "stat")
    BY <1>3, InspectEffects
  <2>2. Others(p) /\ job'[p].step \in {"finish", "unstale", "stat"}
    BY <2>1 DEF Moves
  <2> QED
    BY <2>1, <2>2, PlainData, QuietData DEF CreatingSteps, ExpireSteps, CloseSteps
<1>4. CASE StatRepository(p)
  <2>1. /\ job[p].step = "stat" /\ SameRows /\ UNCHANGED disk
        /\ Moves(p, "create") \/ Ends(p)
    BY <1>4, InspectEffects
  <2>2. CASE Ends(p)
    BY <2>1, <2>2, PlainEnd, QuietData
  <2>3. CASE Moves(p, "create")
    <3>1. /\ Others(p) /\ job'[p].step = "create" /\ job'[p].w = w /\ job'[p].op # "open"
      BY <1>0, <2>1, <2>3 DEF Moves, LifeInv, JobShape, OpenSteps
    <3>2. disk'[w]
      <4>1. disk[w]
        BY <1>0, <1>4, <2>3, MoveEffects DEF StatRepository, FailRecovery, Moves, Ends
      <4> QED
        BY <2>1, <4>1
    <3>3. \A v \in Workspaces : Joins(p, v) /\ Relies(p, v)'
      BY <3>1, <3>2 DEF Joins, Relies, Makes, Expires, Closes, Restores, ExpireSteps, CloseSteps
    <3> QED
      BY <2>1, <3>1, <3>3, QuietData DEF DataStep
  <2> QED
    BY <2>1, <2>2, <2>3
<1> QED
  BY <1>1, <1>2, <1>3, <1>4

LEMMA RecoveryData ==
    ASSUME TypeOK, LifeInv, DataInv, NEW p \in Actors, RecoverActivate(p) \/ RecoverFinish(p)
    PROVE  DataStep(p)
<1>0. PICK w \in Workspaces : w = job[p].w
  BY JobFields
<1>1. CASE RecoverActivate(p)
  <2>1. /\ job[p].step = "activate" /\ job[p].op # "open" /\ UNCHANGED disk
        /\ IF MayActivate(w, job[p].gen, RecoverFrom)
           THEN OneRow(w, "ACTIVE", row[w].gen, TRUE) /\ Ends(p)
           ELSE SameRows /\ Moves(p, "undo")
    BY <1>0, <1>1, RecoverEffects
  <2>2. CASE MayActivate(w, job[p].gen, RecoverFrom)
    <3>1. /\ OneRow(w, "ACTIVE", row[w].gen, TRUE) /\ Ends(p)
          /\ Restores(job[p], w) /\ Fenced(row[w], job[p].gen, RecoverFrom)
      BY <1>0, <2>1, <2>2 DEF MayActivate, Restores
    <3>2. \A v \in Workspaces : DataRow(p, v) /\ DataDisk(p, v)
      BY <2>1, <3>1, DataRows DEF DataDisk, DataStays
    <3> QED
      BY <3>1, <3>2, PlainEnd
  <2>3. CASE ~MayActivate(w, job[p].gen, RecoverFrom)
    <3>1. SameRows /\ Others(p) /\ job'[p].step = "undo" /\ job'[p].op # "open"
      BY <2>1, <2>3 DEF Moves
    <3>2. \A v \in Workspaces : Joins(p, v) /\ Relies(p, v)'
      BY <3>1 DEF Joins, Relies, Makes, Expires, Closes, Restores, ExpireSteps, CloseSteps
    <3> QED
      BY <2>1, <3>1, <3>2, QuietData DEF DataStep
  <2> QED
    BY <2>2, <2>3
<1>2. CASE RecoverFinish(p)
  <2>1. /\ job[p].step = "finish" /\ Ends(p) /\ UNCHANGED disk
        /\ \/ SameRows
           \/ /\ Fenced(row[w], job[p].gen, RecoverFrom)
              /\ OneRow(w, "ACTIVE", row[w].gen, row[w].named)
    BY <1>0, <1>2, RecoverEffects
  <2>2. row[w].status # "NETWORK_QUARANTINED"
    BY <1>0, <2>1 DEF LifeInv, JobShape
  <2>3. \A v \in Workspaces : DataRow(p, v) /\ DataDisk(p, v)
    <3>1. CASE SameRows
      BY <2>1, <3>1, QuietData
    <3>2. CASE /\ Fenced(row[w], job[p].gen, RecoverFrom)
               /\ OneRow(w, "ACTIVE", row[w].gen, row[w].named)
      <4>1. row[w].status \in Offered /\ "ACTIVE" \in Offered
        BY <2>2, <3>2 DEF Fenced, RecoverFrom, Offered
      <4> QED
        BY <2>1, <3>2, <4>1, DataRows DEF DataDisk, DataStays
    <3> QED
      BY <2>1, <3>1, <3>2
  <2> QED
    BY <2>1, <2>3, PlainEnd
<1> QED
  BY <1>1, <1>2

LEMMA ToolData ==
    ASSUME TypeOK, NEW p \in Actors,
           ExportReturns(p) \/ ExecLease(p) \/ BackgroundLocks(p) \/ ExecWrites(p) \/ ExecReturns(p)
              \/ BackgroundSettles(p)
    PROVE  DataStep(p)
<1>1. /\ SameRows /\ UNCHANGED disk
      /\ \/ Ends(p) \/ Moves(p, "return")
         \/ Others(p) /\ job'[p].step = "write"
  <2>1. CASE ExportReturns(p) \/ ExecWrites(p)
    BY <2>1, ToolEffects
  <2>2. CASE ExecLease(p) \/ BackgroundLocks(p)
    BY <2>2, ToolEffects
  <2>3. CASE ExecReturns(p) \/ BackgroundSettles(p)
    BY <2>3, ToolEffects
  <2> QED
    BY <2>1, <2>2, <2>3
<1>2. Others(p) /\ job'[p].step \in {"idle", "return", "write"}
  BY <1>1 DEF Ends, Moves
<1> QED
  BY <1>1, <1>2, PlainData, QuietData DEF CreatingSteps, ExpireSteps, CloseSteps

LEMMA CloseData ==
    ASSUME TypeOK, DataInv, Careful, NEW p \in Actors,
           OversizeClose(p) \/ CloseStopsWork(p) \/ CloseStopFails(p) \/ CloseRemovesBox(p)
              \/ CloseRemovesFiles(p) \/ CloseCommits(p)
    PROVE  DataStep(p)
<1>0. PICK w \in Workspaces : w = job[p].w
  BY JobFields
<1>1. ASSUME job[p].step \in CloseSteps
      PROVE  Closes(job[p], w)
  BY <1>0, <1>1 DEF Closes
<1>2. CASE OversizeClose(p) \/ CloseStopFails(p)
  BY <1>2, CloseEffects DEF Careful
<1>3. CASE CloseStopsWork(p) \/ CloseRemovesBox(p)
  <2>1. /\ job[p].step \in {"stop", "unbox"} /\ SameRows /\ UNCHANGED disk
        /\ Moves(p, "unbox") \/ Moves(p, "files") \/ Ends(p)
    BY <1>3, CloseEffects
  <2>2. CASE Ends(p)
    BY <2>1, <2>2, PlainEnd, QuietData
  <2>3. ASSUME NEW s \in {"unbox", "files"}, Moves(p, s)  PROVE DataStep(p)
    <3>1. job[p].step \in CloseSteps /\ s \in CloseSteps
      BY <2>1, <2>3 DEF CloseSteps
    <3> QED
      BY <2>1, <2>3, <3>1, CarryData, QuietData
  <2> QED
    BY <2>1, <2>2, <2>3
<1>4. CASE CloseRemovesFiles(p)
  <2>1. /\ job[p].step = "files" /\ SameRows
        /\ \/ disk' = [disk EXCEPT ![w] = FALSE] /\ Moves(p, "commit")
           \/ UNCHANGED disk /\ Ends(p)
    BY <1>0, <1>4, CloseEffects
  <2>2. CASE UNCHANGED disk /\ Ends(p)
    BY <2>1, <2>2, PlainEnd, QuietData
  <2>3. CASE disk' = [disk EXCEPT ![w] = FALSE] /\ Moves(p, "commit")
    <3>1. {"files", "commit"} \subseteq CloseSteps /\ Closes(job[p], w)
      BY <1>1, <2>1 DEF CloseSteps
    <3>2. \A v \in Workspaces \ {w} : disk'[v] = disk[v]
      BY <2>3 DEF TypeOK
    <3>3. \A v \in Workspaces : DataDisk(p, v)
      BY <2>1, <3>1, <3>2, QuietData DEF DataDisk
    <3>4. \A v \in Workspaces : ~Closes(job[p], v) => (disk[v] => disk'[v])
      BY <3>1, <3>2
    <3> QED
      BY <2>1, <2>3, <3>1, <3>3, <3>4, CarryData
  <2> QED
    BY <2>1, <2>2, <2>3
<1>5. CASE CloseCommits(p)
  <2>1. /\ job[p].step = "commit" /\ Ends(p) /\ UNCHANGED disk
        /\ OneRow(w, "CLOSED", row[w].gen, FALSE) \/ SameRows
    BY <1>0, <1>5, CloseEffects
  <2>2. Closes(job[p], w)
    BY <1>1, <2>1 DEF CloseSteps
  <2>3. \A v \in Workspaces : DataRow(p, v) /\ DataDisk(p, v)
    BY <2>1, <2>2, DataRows, QuietData DEF DataDisk, DataStays
  <2> QED
    BY <2>1, <2>3, PlainEnd
<1> QED
  BY <1>2, <1>3, <1>4, <1>5

LEMMA ContinuesData ==
    ASSUME TypeOK, LifeInv, DataInv, Careful, NEW p \in Actors, Continues(p)
    PROVE  DataStep(p)
  BY ExpiryData, OpenData, ExecutorData, RecoveryData, ToolData, CloseData DEF Continues

\* An idle actor starts something that works on no record yet, or answers at once.
LEMMA BeginData ==
    ASSUME NEW p \in Actors, Others(p), \A w \in Workspaces : DataRow(p, w), UNCHANGED disk,
           job'[p].step \in {"idle", "capacity", "inspect", "export", "measure", "weigh", "sweep",
                             "unname", "check", "decide"}
    PROVE  DataStep(p)
<1>1. \A w \in Workspaces : DataDisk(p, w)
  BY DEF DataDisk
<1> QED
  BY <1>1, PlainData DEF CreatingSteps, ExpireSteps, CloseSteps

LEMMA ArrivalsData ==
    ASSUME TypeOK, LifeInv, DataInv, Careful, NEW p \in Clients, NEW w \in Workspaces, Arrivals(p, w)
    PROVE  DataStep(p)
<1>1. p \in Actors /\ {"ACTIVE", "EXPIRED_RECOVERABLE"} \subseteq Offered
  BY DEF Actors, Offered
<1>2. CASE Open(p, w)
  BY <1>1, <1>2, OpenEffect, BeginData, QuietData
<1>3. ASSUME NEW op \in {"recover", "renew"}, NEW statuses, BeginRecovery(p, w, op, statuses)
      PROVE  DataStep(p)
  BY <1>1, <1>3, BeginEffect, BeginData, QuietData DEF Begins
<1>4. CASE Recover(p, w)
  BY <1>3, <1>4 DEF Recover
<1>5. CASE Renew(p, w)
  <2>1. CASE BeginRecovery(p, w, "renew", {"EXPIRED_RECOVERABLE"})
    BY <1>3, <2>1
  <2>2. CASE /\ SetRow(w, Activated(row[w])) /\ UNCHANGED <<disk, job>>
             /\ row[w].status = "ACTIVE" /\ job[p].step = "idle"
    <3>1. OneRow(w, "ACTIVE", row[w].gen, row[w].named)
      BY <2>2, RowStatements
    <3>2. \A v \in Workspaces : DataRow(p, v)
      BY <1>1, <2>2, <3>1, DataRows DEF DataStays
    <3>3. Others(p) /\ job'[p].step = "idle"
      BY <2>2 DEF Others
    <3> QED
      BY <1>1, <2>2, <3>2, <3>3, BeginData
  <2> QED
    BY <1>5, <2>1, <2>2 DEF Renew, world, Arrives
<1>6. CASE Export(p, w)
  <2>1. SameRows /\ Begins(p, "export", "export", w) /\ UNCHANGED disk
    BY <1>6, CallEffects
  <2> QED
    BY <1>1, <2>1, BeginData, QuietData DEF Begins
<1>7. CASE Exec(p, w)
  <2>1. PICK op \in ToolCalls : Begins(p, op, "measure", w)
    BY <1>7, CallEffects
  <2>2. SameRows /\ UNCHANGED disk
    BY <1>7, CallEffects
  <2> QED
    BY <1>1, <2>1, <2>2, BeginData, QuietData DEF Begins
<1>8. CASE ExpireOnAccess(p, w)
  <2>1. /\ row[w].status = "ACTIVE" /\ OneRow(w, "EXPIRED_RECOVERABLE", row[w].gen + 1, FALSE)
        /\ UNCHANGED <<disk, job>>
    BY <1>8, CallEffects
  <2>4. row[w].gen + 1 > row[w].gen /\ DataGrows(w, "EXPIRED_RECOVERABLE")
    BY <1>8, <2>1 DEF ExpireOnAccess, Expirable, DataGrows, TypeOK, Rows
  <2>2. \A v \in Workspaces : DataRow(p, v)
    BY <1>1, <2>1, <2>4, DataRows
  <2>3. Others(p) /\ job'[p].step = "idle"
    BY <1>8, <2>1 DEF Others, ExpireOnAccess, Arrives
  <2> QED
    BY <1>1, <2>1, <2>2, <2>3, BeginData
<1>9. CASE Close(p, w)
  BY <1>9 DEF Close, Arrives, Careful
<1>10. CASE CloseFenced(p, w)
  <2>1. /\ row[w].status # "REAPING" /\ CloseRecord(p, w, "closeFenced") /\ UNCHANGED disk
    BY <1>10 DEF CloseFenced, world
  <2>2. /\ row[w].status \notin {"NONE", "REAPING", "CLOSED"} /\ Others(p)
        /\ OneRow(w, "REAPING", job'[p].gen, row[w].named) /\ job'[p].gen = row[w].gen + 1
        /\ job'[p].step = "stop" /\ job'[p].w = w
    BY <1>1, <2>1, CloseRecordEffect DEF ForceClaimable
  <2> QED
    BY <1>1, <2>1, <2>2, ClaimData
<1> QED
  BY <1>2, <1>4, <1>5, <1>6, <1>7, <1>8, <1>9, <1>10 DEF Arrivals

LEMMA ReapsData ==
    ASSUME TypeOK, DataInv, NEW w \in Workspaces, Reaps(w)
    PROVE  DataStep(Reaper)
<1>1. Reaper \in Actors
  BY DEF Actors
<1>2. CASE ReapExpire(w)
  <2>1. PICK i \in Jobs : ExpiryClaim(Reaper, w, i)
    BY <1>2, ReapEffects
  <2>2. /\ row[w].status = "ACTIVE" /\ Unlocked(row[w])
        /\ OneRow(w, "REAPING", row[w].gen + 1, row[w].named)
        /\ Others(Reaper) /\ job'[Reaper].step = "expire_box" /\ job'[Reaper].v = w
        /\ job'[Reaper].gen = row[w].gen + 1 /\ UNCHANGED disk
    BY <1>1, <2>1, ExpiryClaimEffect
  <2> QED
    BY <1>1, <2>2, ClaimData
<1>3. CASE ReapWeigh(w) \/ QuarantineRetry(w) \/ AutoCheck(w)
  <2>1. /\ SameRows /\ UNCHANGED disk /\ Others(Reaper)
        /\ job'[Reaper].step \in {"weigh", "sweep", "check"}
    BY <1>3, ReapEffects DEF Begins
  <2> QED
    BY <1>1, <2>1, BeginData, QuietData
<1>4. CASE Quarantine(w)
  <2>1. /\ row[w].status = "ACTIVE" /\ OneRow(w, "NETWORK_QUARANTINED", row[w].gen, row[w].named)
        /\ Begins(Reaper, "quarantine", "sweep", w) /\ UNCHANGED disk
    BY <1>4, ReapEffects
  <2>2. \A v \in Workspaces : DataRow(Reaper, v)
    BY <1>1, <2>1, DataRows DEF Offered, DataStays
  <2> QED
    BY <1>1, <2>1, <2>2, BeginData DEF Begins
<1> QED
  BY <1>2, <1>3, <1>4 DEF Reaps

LEMMA ReaperData ==
    ASSUME TypeOK, DataInv, ReaperContinues
    PROVE  DataStep(Reaper)
<1>1. Reaper \in Actors
  BY DEF Actors
<1>2. CASE ReapWeighed \/ QuarantineSweep \/ AutoRead
  <2>1. /\ SameRows /\ UNCHANGED disk /\ Others(Reaper)
        /\ job'[Reaper].step \in {"idle", "unname", "decide"}
    BY <1>2, ReaperEffects DEF Ends, Moves
  <2> QED
    BY <1>1, <2>1, BeginData, QuietData
<1>3. CASE QuarantineUnname
  <2>1. /\ Ends(Reaper) /\ UNCHANGED disk
        /\ \A w \in Workspaces : row'[w].status = row[w].status /\ row'[w].gen = row[w].gen
    BY <1>3, ReaperEffects
  <2>2. \A w \in Workspaces : DataRow(Reaper, w) /\ DataDisk(Reaper, w)
    BY <2>1 DEF DataRow, Steady, DataDisk
  <2> QED
    BY <1>1, <2>1, <2>2, PlainEnd
<1>4. CASE AutoDecide
  <2>1. PICK w \in Workspaces : w = job[Reaper].w
    BY <1>1, JobFields
  <2>2. /\ UNCHANGED disk
        /\ \/ SameRows /\ Ends(Reaper)
           \/ /\ Fenced(row[w], job[Reaper].gen, {"EXPIRED_RECOVERABLE"})
              /\ OneRow(w, "REAPING", row[w].gen + 1, row[w].named) /\ Others(Reaper)
              /\ job'[Reaper].step = "stop" /\ job'[Reaper].w = w
              /\ job'[Reaper].gen = row[w].gen + 1
    BY <1>4, <2>1, ReaperEffects
  <2>3. CASE SameRows /\ Ends(Reaper)
    BY <1>1, <2>2, <2>3, PlainEnd, QuietData
  <2>4. CASE /\ Fenced(row[w], job[Reaper].gen, {"EXPIRED_RECOVERABLE"})
             /\ OneRow(w, "REAPING", row[w].gen + 1, row[w].named) /\ Others(Reaper)
             /\ job'[Reaper].step = "stop" /\ job'[Reaper].w = w
             /\ job'[Reaper].gen = row[w].gen + 1
    <3>1. row[w].status \notin {"NONE", "REAPING", "CLOSED"}
      BY <2>4 DEF Fenced
    <3> QED
      BY <1>1, <2>2, <2>4, <3>1, ClaimData
  <2> QED
    BY <2>2, <2>3, <2>4
<1> QED
  BY <1>2, <1>3, <1>4 DEF ReaperContinues

\* Nobody but start() is at work.
LEMMA AloneData ==
    ASSUME \A q \in Actors \ {Boot} : job'[q].step = "idle",
           \A w \in Workspaces : row'[w].status \in Offered => disk'[w],
           \A w \in Workspaces : Relies(Boot, w)'
    PROVE  DataInv'
<1>1. ASSUME NEW q \in Actors \ {Boot}, NEW w \in Workspaces
      PROVE  /\ ~Makes(job'[q], w) /\ ~Expires(job'[q], w) /\ ~Closes(job'[q], w)
             /\ ~Restores(job'[q], w)
  BY <1>1 DEF Makes, Expires, Closes, Restores, CreatingSteps, ExpireSteps, CloseSteps
<1>2. \A q \in Actors, w \in Workspaces : Relies(q, w)'
  BY <1>1 DEF Relies
<1>3. ASSUME NEW i \in Actors, NEW q \in Actors, NEW w \in Workspaces, i # q
      PROVE  ~Clash(job'[i], job'[q], w)
  <2>1. i # Boot \/ q # Boot
    BY <1>3
  <2> QED
    BY <1>1, <2>1 DEF Clash
<1> QED
  BY <1>2, <1>3 DEF DataInv, Clash, Makes, Expires, Closes

LEMMA IdleRelies ==
    ASSUME NEW p \in Actors, job'[p].step \in {"idle", "inspect"}, NEW w \in Workspaces
    PROVE  Relies(p, w)'
  BY DEF Relies, Makes, Expires, Closes, Restores, CreatingSteps, ExpireSteps, CloseSteps

LEMMA BootsData ==
    ASSUME TypeOK, LifeInv, DataInv, NEW w \in Workspaces, Boots(w)
    PROVE  DataInv'
<1>1. /\ Boot \in Actors /\ UNCHANGED disk /\ row[w] \in Rows /\ row[w].gen \in Nat
      /\ job[Boot].step = "idle" /\ \A q \in Actors \ {Boot} : job[q].step = "idle"
  BY DEF Boots, BootQuarantined, BootCloses, BootQuarantines, BootRebuilds, BootResumes, Visiting,
         world, Actors, LifeInv, TypeOK, Rows
<1>2. ASSUME \A v \in Workspaces : row'[v].status \in Offered => row[v].status \in Offered
      PROVE  \A v \in Workspaces : row'[v].status \in Offered => disk'[v]
  BY <1>1, <1>2 DEF DataInv
<1>3. CASE BootQuarantined(w)
  <2>1. UNCHANGED job /\ \A v \in Workspaces : row'[v].status = row[v].status
    BY <1>1, <1>3 DEF BootQuarantined, TypeOK, Rows
  <2> QED
    BY <1>1, <1>2, <2>1, AloneData, IdleRelies
<1>4. CASE BootCloses(w)
  <2>1. /\ OneRow(w, "REAPING", job'[Boot].gen, row[w].named) /\ Others(Boot)
        /\ job'[Boot].step = "stop" /\ job'[Boot].w = w
    BY <1>1, <1>4, CloseRecordEffect DEF BootCloses
  <2>2. \A v \in Workspaces : row'[v].status \in Offered => row[v].status \in Offered
    BY <2>1 DEF OneRow, Offered
  <2>3. \A v \in Workspaces : Relies(Boot, v)'
    BY <2>1 DEF OneRow, Relies, Makes, Expires, Closes, Restores, Fenced, CreatingSteps, ExpireSteps
  <2> QED
    BY <1>1, <1>2, <2>1, <2>2, <2>3, AloneData DEF Others
<1>5. CASE BootQuarantines(w)
  <2> DEFINE q == Quarantined(row[w])
             n == [q EXCEPT !.named = FALSE]
  <2>1. q.status = "NETWORK_QUARANTINED" /\ q \in Rows
    BY <1>1, StatusEffects, OtherStatements
  <2>2. n.status = q.status
    <3> HIDE DEF q
    <3>1. q \in Rows
      BY <2>1 DEF q
    <3> QED
      BY <3>1 DEF Rows
  <2>3. SetRow(w, n) /\ UNCHANGED job
    BY <1>5 DEF BootQuarantines, SetRow, TypeOK
  <2> HIDE DEF n
  <2>4. OneRow(w, n.status, n.gen, n.named)
    BY <2>3, RowEffects
  <2>5. \A v \in Workspaces : row'[v].status \in Offered => row[v].status \in Offered
    BY <2>1, <2>2, <2>4 DEF OneRow, Offered
  <2> QED
    BY <1>1, <1>2, <2>3, <2>5, AloneData, IdleRelies
<1>6. CASE BootRebuilds(w)
  <2>1. UNCHANGED row /\ Begins(Boot, "boot", "inspect", w)
    BY <1>1, <1>6, ReadingEffects DEF BootRebuilds, Operations, Steps
  <2>2. \A q \in Actors \ {Boot} : job'[q].step = "idle"
    BY <1>1, <2>1 DEF Begins, Others
  <2>3. \A v \in Workspaces : Relies(Boot, v)'
    BY <1>1, <2>1, IdleRelies DEF Begins
  <2> QED
    BY <1>2, <2>1, <2>2, <2>3, AloneData
<1>7. CASE BootResumes(w)
  BY <1>1, <1>2, <1>7, AloneData, IdleRelies DEF BootResumes
<1> QED
  BY <1>3, <1>4, <1>5, <1>6, <1>7 DEF Boots

LEMMA StartsData ==
    ASSUME TypeOK, LifeInv, DataInv, Crash \/ Restart \/ BootReconciles \/ BootFails
    PROVE  DataInv'
<1>1. UNCHANGED row /\ \A q \in Actors : job'[q].step = "idle"
  BY DEF Crash, Restart, BootReconciles, BootFails, Idle, LifeInv
<1>2. ASSUME NEW w \in Workspaces, row[w].status \in Offered  PROVE disk'[w]
  <2>1. disk[w]
    BY <1>2 DEF DataInv
  <2>2. CASE BootReconciles
    BY <1>2, <2>1, <2>2 DEF BootReconciles, KeepsDirectory, EnumeratedStatuses, CountedStatuses,
                            Offered
  <2>3. CASE Crash \/ Restart \/ BootFails
    BY <2>1, <2>3 DEF Crash, Restart, BootFails, world
  <2> QED
    BY <2>2, <2>3
<1>3. \A w \in Workspaces : Relies(Boot, w)'
  BY <1>1, IdleRelies DEF Actors
<1> QED
  BY <1>1, <1>2, <1>3, AloneData

LEMMA NobodyData ==
    ASSUME DataInv, UNCHANGED <<job, disk>>, \A w \in Workspaces : Steady(w)
    PROVE  DataInv'
  BY DEF DataInv, Relies, Clash, Makes, Expires, Closes, Restores, Steady, Fenced

LEMMA NextKeepsData ==
    ASSUME TypeOK, LifeInv, DataInv, Careful, [Next]_vars
    PROVE  DataInv'
<1>1. CASE UNCHANGED vars \/ FirewallChanges \/ SetQuota
  <2>1. UNCHANGED <<row, job, disk>>
    BY <1>1 DEF vars, FirewallChanges, SetQuota, world
  <2> QED
    BY <2>1, NobodyData DEF Steady
<1>2. ASSUME NEW w \in Workspaces, TimePasses(w) \/ StrayRemovalLands(w)  PROVE DataInv'
  <2>1. row \in [Workspaces -> Rows]
    BY DEF TypeOK
  <2>2. /\ UNCHANGED <<job, disk>>
        /\ \A v \in Workspaces : row'[v].status = row[v].status /\ row'[v].gen = row[v].gen
    <3>1. CASE LeaseElapses(w) \/ WallDeadlinePasses(w) \/ WallDeadlineOverruns(w)
      BY <2>1, <3>1 DEF LeaseElapses, WallDeadlinePasses, WallDeadlineOverruns, Rows, world
    <3>2. CASE LockElapses(w) \/ WindowElapses(w)
      BY <2>1, <3>2 DEF LockElapses, WindowElapses, Rows, world
    <3>3. CASE StrayRemovalLands(w)
      BY <3>3 DEF StrayRemovalLands
    <3> QED
      BY <1>2, <3>1, <3>2, <3>3 DEF TimePasses
  <2> QED
    BY <2>2, NobodyData DEF Steady
<1>3. CASE Crash \/ Restart \/ BootReconciles \/ BootFails
  BY <1>3, StartsData
<1>4. CASE \E p \in Clients, w \in Workspaces : Arrivals(p, w)
  BY <1>4, ArrivalsData, DataStepKeeps DEF Actors
<1>5. CASE \E p \in Actors : Continues(p)
  BY <1>5, ContinuesData, DataStepKeeps
<1>6. CASE ReaperContinues \/ \E w \in Workspaces : Reaps(w)
  BY <1>6, ReaperData, ReapsData, DataStepKeeps DEF Actors
<1>7. CASE \E w \in Workspaces : Boots(w)
  BY <1>7, BootsData
<1> QED
  BY <1>1, <1>2, <1>3, <1>4, <1>5, <1>6, <1>7 DEF Next

LEMMA InitData == Init => DataInv
  BY DEF Init, DataInv, Idle, NoRow, Relies, Clash, Makes, Expires, Closes, Restores, CreatingSteps,
         ExpireSteps, CloseSteps, Offered

\* A workspace that is active or offered for recovery has its checkout on disk, whatever opens,
\* recoveries, expiries, fenced closes, auto-closes, quarantines and crashes overlap, and whatever
\* Docker, the file system or a clone refuse to do.  Without the assumption the code breaks it: a
\* close that joins an expiry under way removes the directory, and the expiry then offers the record
\* for recovery (closeRecord, markExpiredRecoverable).
THEOREM DataTheorem == ASSUME Careful PROVE Spec => []RecoverableKeepsData
<1>1. LifeInv /\ DataInv /\ TypeOK /\ TypeOK' /\ [Next]_vars => LifeInv' /\ DataInv'
  BY NextKeepsLife, NextKeepsData
<1>2. DataInv => RecoverableKeepsData
  BY DEF DataInv, RecoverableKeepsData, Offered
<1> QED
  BY <1>1, <1>2, InitLife, InitData, TypeCorrect, PTL DEF Spec

-----------------------------------------------------------------------------
(* Auto-close takes no unsaved work *)

\* A tool call may write to w as long as its generation runs and the record is on no way back to be
\* recoverable; when a close has overtaken it, the record goes from REAPING to CLOSED.
Writable(p, w) ==
    \/ Fenced(row[w], job[p].gen, {"ACTIVE", "NETWORK_QUARANTINED"})
    \/ /\ row[w].status \in {"REAPING", "CLOSED"}
       /\ \A q \in Actors : ~Expires(job[q], w)

\* What p can rely on when it works on w: a generation it looked at as recoverable is not closed under
\* it, what it found saved is still saved while the record is recoverable, and it writes only to a
\* record that is not.
Watches(p, w) == job[p].w = w =>
    /\ job[p].step \in {"check", "decide"} /\ job[p].gen = row[w].gen
          => row[w].status \in RecoverFrom
    /\ job[p].step = "decide" /\ ~job[p].unsaved /\ Fenced(row[w], job[p].gen, {"EXPIRED_RECOVERABLE"})
          => ~dirty[w]
    /\ job[p].step = "write" => Writable(p, w)

AutoInv == \A p \in Actors, w \in Workspaces : Watches(p, w)

\* How p gets to the three steps, who makes a checkout dirty, and what the claim looked at.
AutoStep(p) ==
    /\ Others(p)
    /\ job'[p].step = "write" => SameRows /\ Fenced(row[job'[p].w], job'[p].gen, {"ACTIVE"})
    /\ job'[p].step = "check" =>
          SameRows /\ Fenced(row[job'[p].w], job'[p].gen, {"EXPIRED_RECOVERABLE"})
    /\ job'[p].step = "decide" =>
          /\ job[p].step = "check" /\ job'[p].w = job[p].w /\ job'[p].gen = job[p].gen
          /\ SameRows /\ UNCHANGED dirty /\ (~job'[p].unsaved => ~dirty[job[p].w])
    /\ \A w \in Workspaces : dirty'[w] => dirty[w] \/ (job[p].step = "write" /\ job[p].w = w)
    /\ p = Reaper /\ job[p].step = "decide" /\ job'[p].step = "stop" =>
          ~job[p].unsaved /\ Fenced(row[job[p].w], job[p].gen, {"EXPIRED_RECOVERABLE"})

\* As long as a lease is held, its record is not expired and its generation is the last one its holder
\* has seen.
LEMMA HoldersAreSafe ==
    ASSUME LeaseInv, "overrun" \notin Events, NEW p \in Actors, NEW w \in Workspaces, job[p].w = w,
           job[p].step \in {"write", "check", "decide"}
    PROVE  /\ job[p].gen \in Nat /\ row[w].gen \in Nat /\ job[p].gen <= row[w].gen
           /\ job[p].gen = row[w].gen => ~Unlocked(row[w])
           /\ row[w].status = "NONE" => row[w].gen = 0
<1>1. job[p].holds /\ job[p].gen <= row[w].gen
  BY DEF LeaseInv, JobOK, LeasedSteps
<1>2. job[p].gen \in Nat /\ row[w].gen \in Nat
  BY DEF LeaseInv, TypeOK, Jobs, Rows
<1>3. ASSUME job[p].gen = row[w].gen  PROVE ~Unlocked(row[w])
  <2>1. LeaseHolders(w) # {}
    BY <1>1, <1>3 DEF LeaseHolders
  <2> QED
    BY <2>1 DEF LeaseInv, Covered, Guards, Unlocked
<1> QED
  BY <1>1, <1>2, <1>3 DEF LeaseInv, Unborn

\* What happens to the row of somebody who holds a lease on it, by a step of p.
LEMMA WatchedRow ==
    ASSUME TypeOK', LeaseInv, DataInv, AutoInv, "overrun" \notin Events, NEW p \in Actors, DataStep(p),
           NEW q \in Actors, NEW w \in Workspaces, job[q].w = w,
           job[q].step \in {"write", "check", "decide"}, job[q].gen = row'[w].gen
    PROVE  /\ job[q].gen = row[w].gen
           /\ row[w].status \in RecoverFrom =>
                 \/ row'[w].status = row[w].status
                 \/ row'[w].status \in {"ACTIVE", "NETWORK_QUARANTINED"}
<1>1. /\ job[q].gen \in Nat /\ row[w].gen \in Nat /\ job[q].gen <= row[w].gen
      /\ row[w].status = "NONE" => row[w].gen = 0
  BY HoldersAreSafe
<1>2. DataRow(p, w) /\ Relies(p, w)
  BY DEF DataStep, DataInv
<1>3. job[q].gen = row[w].gen
  BY <1>1, <1>2 DEF DataRow, Steady
<1>4. ASSUME row[w].status \in RecoverFrom
      PROVE  \/ row'[w].status = row[w].status
             \/ row'[w].status \in {"ACTIVE", "NETWORK_QUARANTINED"}
  <2>1. Steady(w) \/ DataStays(p, w, row'[w].status)
    BY <1>1, <1>2, <1>3, <1>4 DEF DataRow, RecoverFrom
  <2> QED
    BY <1>2, <1>4, <2>1 DEF Steady, DataStays, Relies, Fenced, RecoverFrom
<1> QED
  BY <1>3, <1>4

LEMMA AutoStepKeeps ==
    ASSUME TypeOK, TypeOK', LeaseInv, DataInv, AutoInv, "overrun" \notin Events, NEW p \in Actors,
           DataStep(p), AutoStep(p)
    PROVE  AutoInv'
<1> SUFFICES ASSUME NEW q \in Actors, NEW w \in Workspaces, job'[q].w = w  PROVE Watches(q, w)'
  BY DEF AutoInv, Watches
<1>1. /\ Watches(p, w) /\ Watches(q, w)
      /\ q # p => job'[q] = job[q]
      /\ DataRow(p, w) /\ Joins(p, w) /\ Relies(p, w)
      /\ \A r \in Actors : Expires(job[r], w) => row[w].status = "REAPING"
  BY DEF AutoInv, DataStep, Others, DataInv, Relies, Fenced
<1>2. SameRows => row'[w].status = row[w].status /\ row'[w].gen = row[w].gen
  BY DEF SameRows
<1>3. ASSUME q # p, job[q].step \in {"check", "decide"}, job[q].gen = row'[w].gen
      PROVE  /\ job[q].gen = row[w].gen /\ row[w].status \in RecoverFrom
             /\ row'[w].status \in {row[w].status, "ACTIVE", "NETWORK_QUARANTINED"}
  <2>1. job[q].w = w
    BY <1>1, <1>3
  <2>2. job[q].gen = row[w].gen
    BY <1>3, <2>1, WatchedRow
  <2>3. row[w].status \in RecoverFrom
    BY <1>1, <1>3, <2>1, <2>2 DEF Watches
  <2> QED
    BY <1>3, <2>1, <2>2, <2>3, WatchedRow
<1>4. ASSUME job'[q].step \in {"check", "decide"}, job'[q].gen = row'[w].gen
      PROVE  row'[w].status \in RecoverFrom
  <2>1. CASE q = p /\ job'[p].step = "check"
    BY <1>2, <2>1 DEF AutoStep, Fenced, RecoverFrom
  <2>2. CASE q = p /\ job'[p].step = "decide"
    BY <1>1, <1>2, <1>4, <2>2 DEF AutoStep, Watches
  <2>3. CASE q # p
    BY <1>1, <1>3, <1>4, <2>3 DEF RecoverFrom
  <2> QED
    BY <1>4, <2>1, <2>2, <2>3
<1>5. ASSUME job'[q].step = "decide", ~job'[q].unsaved,
             Fenced(row'[w], job'[q].gen, {"EXPIRED_RECOVERABLE"})
      PROVE  ~dirty'[w]
  <2>1. CASE q = p
    BY <1>5, <2>1 DEF AutoStep
  <2>2. CASE q # p
    <3>1. row[w].status = "EXPIRED_RECOVERABLE" /\ job[q].gen = row[w].gen
      BY <1>1, <1>3, <1>5, <2>2 DEF Fenced
    <3>2. ~dirty[w]
      BY <1>1, <1>5, <2>2, <3>1 DEF Watches, Fenced
    <3>3. ~(job[p].step = "write" /\ job[p].w = w)
      BY <1>1, <3>1 DEF Watches, Writable, Fenced
    <3> QED
      BY <3>2, <3>3 DEF AutoStep
  <2> QED
    BY <2>1, <2>2
<1>6. ASSUME job'[q].step = "write"
      PROVE  \/ Fenced(row'[w], job'[q].gen, {"ACTIVE", "NETWORK_QUARANTINED"})
             \/ /\ row'[w].status \in {"REAPING", "CLOSED"}
                /\ \A r \in Actors : ~Expires(job'[r], w)
  <2>1. CASE q = p
    BY <1>2, <1>6, <2>1 DEF AutoStep, Fenced
  <2>2. CASE q # p /\ Fenced(row[w], job[q].gen, {"ACTIVE", "NETWORK_QUARANTINED"})
    <3>1. /\ job'[q] = job[q] /\ row[w].status \in {"ACTIVE", "NETWORK_QUARANTINED"}
          /\ row[w].gen = job[q].gen /\ row[w].gen \in Nat /\ ~Unlocked(row[w])
      BY <1>1, <1>6, <2>2, HoldersAreSafe DEF Fenced
    <3>2. \A r \in Actors : ~Expires(job'[r], w)
      BY <1>1, <3>1 DEF Joins, DataStep, Others
    <3>3. ~Closes(job[p], w) /\ ~Expires(job[p], w)
      BY <1>1, <3>1 DEF Relies, Fenced
    <3>4. CASE Steady(w)
      BY <3>1, <3>4 DEF Steady, Fenced
    <3>5. CASE DataStays(p, w, row'[w].status) /\ row'[w].gen = row[w].gen
      BY <3>1, <3>3, <3>5 DEF DataStays, Fenced
    <3>6. CASE DataGrows(w, row'[w].status)
      BY <3>1, <3>2, <3>6 DEF DataGrows
    <3> QED
      BY <1>1, <3>1, <3>4, <3>5, <3>6 DEF DataRow
  <2>3. CASE /\ q # p /\ row[w].status \in {"REAPING", "CLOSED"}
             /\ \A r \in Actors : ~Expires(job[r], w)
    <3>1. \A r \in Actors : ~Expires(job'[r], w)
      BY <1>1, <2>3 DEF Joins, DataStep, Others
    <3>2. row'[w].status \in {"REAPING", "CLOSED"}
      BY <1>1, <2>3 DEF DataRow, Steady, DataStays, DataGrows, Offered, Fenced, RecoverFrom
    <3> QED
      BY <3>1, <3>2
  <2> QED
    BY <1>1, <1>6, <2>1, <2>2, <2>3 DEF Watches, Writable
<1> QED
  BY <1>4, <1>5, <1>6 DEF Watches, Writable, Expires

\* Most steps lead to none of the three, and make nothing dirty.
LEMMA PlainAuto ==
    ASSUME NEW p \in Actors, Others(p), job'[p].step \notin {"write", "check", "decide"},
           \A w \in Workspaces : dirty'[w] => dirty[w],
           job[p].step # "decide" \/ job'[p].step # "stop"
    PROVE  AutoStep(p)
  BY DEF AutoStep

LEMMA OpenAuto ==
    ASSUME TypeOK, NEW p \in Actors,
           CapacityCheck(p) \/ Admit(p) \/ Clone(p) \/ OpenActivate(p) \/ Abandon(p)
    PROVE  AutoStep(p)
<1>0. PICK w \in Workspaces : w = job[p].w
  BY JobFields
<1>1. CASE CapacityCheck(p)
  BY <1>1, OpenEffects, PlainAuto DEF Moves, Ends
<1>2. CASE Admit(p)
  BY <1>2, AdmitEffect, PlainAuto DEF Ends
<1>3. CASE Clone(p)
  BY <1>3, OpenEffects, FailOpenEffect, PlainAuto DEF Moves
<1>4. CASE OpenActivate(p)
  BY <1>4, OpenEffects, PlainAuto DEF Moves, Ends
<1>5. CASE Abandon(p)
  <2>1. Ends(p) /\ (dirty' = [dirty EXCEPT ![w] = FALSE] \/ UNCHANGED dirty)
    BY <1>0, <1>5, OpenEffects
  <2>2. \A v \in Workspaces : dirty'[v] => dirty[v]
    BY <2>1 DEF TypeOK
  <2> QED
    BY <2>1, <2>2, PlainAuto DEF Ends
<1> QED
  BY <1>1, <1>2, <1>3, <1>4, <1>5

LEMMA ExpireAuto ==
    ASSUME TypeOK, NEW p \in Actors, ExpireRemoveBox(p) \/ ExpireMark(p) \/ CapacityExpire(p)
    PROVE  AutoStep(p)
<1>1. CASE ExpireRemoveBox(p)
  BY <1>1, ExpireEffects, PlainAuto DEF Moves
<1>2. CASE ExpireMark(p)
  <2>1. (Moves(p, "capacity") \/ Ends(p)) /\ UNCHANGED dirty
    BY <1>2, ExpireEffects
  <2> QED
    BY <2>1, PlainAuto DEF Moves, Ends
<1>3. CASE CapacityExpire(p)
  <2>1. PICK u \in Workspaces : ExpiryClaim(p, u, job[p]) /\ job[p] \in Jobs
    BY <1>3 DEF CapacityExpire, OwnExpirable, TypeOK
  <2> QED
    BY <2>1, ExpiryClaimEffect, PlainAuto
<1> QED
  BY <1>1, <1>2, <1>3

LEMMA FailAuto ==
    ASSUME TypeOK, NEW p \in Actors, Fail(p), UNCHANGED dirty
    PROVE  AutoStep(p)
<1>1. CASE FailOpen(p)
  BY <1>1, FailOpenEffect, PlainAuto DEF Moves
<1>2. CASE Ends(p)
  BY <1>2, PlainAuto DEF Ends
<1> QED
  BY <1>1, <1>2, FailEffect

LEMMA ExecutorAuto ==
    ASSUME TypeOK, NEW p \in Actors,
           CreateRemovesOld(p) \/ Launch(p) \/ LaunchFails(p) \/ UndoLaunch(p) \/ InspectReuse(p)
              \/ InspectRebuild(p) \/ RemoveStaleBox(p) \/ StatRepository(p)
    PROVE  AutoStep(p)
<1>1. CASE LaunchFails(p) \/ UndoLaunch(p)
  BY <1>1, LaunchEffects, FailAuto
<1>2. CASE CreateRemovesOld(p) \/ Launch(p)
  BY <1>2, LaunchEffects, PlainAuto DEF Moves
<1>3. CASE InspectReuse(p) \/ InspectRebuild(p) \/ RemoveStaleBox(p)
  <2>1. (Moves(p, "finish") \/ Moves(p, "unstale") \/ Moves(p, "stat")) /\ UNCHANGED dirty
    BY <1>3, InspectEffects
  <2> QED
    BY <2>1, PlainAuto DEF Moves
<1>4. CASE StatRepository(p)
  <2>1. (Moves(p, "create") \/ Ends(p)) /\ UNCHANGED dirty
    BY <1>4, InspectEffects
  <2> QED
    BY <2>1, PlainAuto DEF Moves, Ends
<1> QED
  BY <1>1, <1>2, <1>3, <1>4

LEMMA RecoveryAuto ==
    ASSUME TypeOK, NEW p \in Actors, RecoverActivate(p) \/ RecoverFinish(p)
    PROVE  AutoStep(p)
<1>1. (Moves(p, "undo") \/ Ends(p)) /\ UNCHANGED dirty
  BY RecoverEffects
<1> QED
  BY <1>1, PlainAuto DEF Moves, Ends

\* A tool call gets to its write only as a foreground one, with the lease that it took there.
LEMMA ToolAuto ==
    ASSUME TypeOK, LeaseInv, NEW p \in Actors,
           ExportReturns(p) \/ ExecLease(p) \/ BackgroundLocks(p) \/ ExecWrites(p) \/ ExecReturns(p)
              \/ BackgroundSettles(p)
    PROVE  AutoStep(p)
<1>0. PICK w \in Workspaces : w = job[p].w
  BY JobFields
<1>1. CASE ExportReturns(p)
  BY <1>1, ToolEffects, PlainAuto DEF Ends
<1>2. CASE ExecLease(p)
  <2>1. /\ job[p].step = "measure" /\ SameRows /\ UNCHANGED dirty
        /\ \/ /\ Others(p) /\ job'[p].step = "write" /\ job'[p].w = w
              /\ job'[p].gen = job[p].gen /\ Fenced(row[w], job[p].gen, {"ACTIVE"})
           \/ Ends(p)
    BY <1>0, <1>2, ToolEffects
  <2>2. CASE Ends(p)
    BY <2>1, <2>2, PlainAuto DEF Ends
  <2>3. CASE /\ Others(p) /\ job'[p].step = "write" /\ job'[p].w = w
             /\ job'[p].gen = job[p].gen /\ Fenced(row[w], job[p].gen, {"ACTIVE"})
    BY <2>1, <2>3 DEF AutoStep
  <2> QED
    BY <2>1, <2>2, <2>3
<1>3. CASE BackgroundLocks(p)
  BY <1>3 DEF BackgroundLocks, LeaseInv, JobOK, Background
<1>4. CASE ExecWrites(p)
  <2>1. /\ job[p].step = "write" /\ Moves(p, "return")
        /\ \A v \in Workspaces \ {w} : dirty'[v] = dirty[v]
    BY <1>0, <1>4, ToolEffects
  <2> QED
    BY <1>0, <2>1 DEF Moves, AutoStep
<1>5. CASE ExecReturns(p) \/ BackgroundSettles(p)
  <2>1. Ends(p) /\ UNCHANGED dirty
    BY <1>5, ToolEffects
  <2> QED
    BY <2>1, PlainAuto DEF Ends
<1> QED
  BY <1>1, <1>2, <1>3, <1>4, <1>5

LEMMA CloseAuto ==
    ASSUME TypeOK, Careful, NEW p \in Actors,
           OversizeClose(p) \/ CloseStopsWork(p) \/ CloseStopFails(p) \/ CloseRemovesBox(p)
              \/ CloseRemovesFiles(p) \/ CloseCommits(p)
    PROVE  AutoStep(p)
<1>0. PICK w \in Workspaces : w = job[p].w
  BY JobFields
<1>1. CASE OversizeClose(p) \/ CloseStopFails(p)
  BY <1>1, CloseEffects DEF Careful
<1>2. CASE CloseStopsWork(p) \/ CloseRemovesBox(p)
  <2>1. (Moves(p, "unbox") \/ Moves(p, "files") \/ Ends(p)) /\ UNCHANGED dirty
    BY <1>2, CloseEffects
  <2> QED
    BY <2>1, PlainAuto DEF Moves, Ends
<1>3. CASE CloseRemovesFiles(p)
  <2>1. /\ Moves(p, "commit") \/ Ends(p)
        /\ dirty' = [dirty EXCEPT ![w] = FALSE] \/ UNCHANGED dirty
    BY <1>0, <1>3, CloseEffects
  <2>2. \A v \in Workspaces : dirty'[v] => dirty[v]
    BY <2>1 DEF TypeOK
  <2> QED
    BY <2>1, <2>2, PlainAuto DEF Moves, Ends
<1>4. CASE CloseCommits(p)
  BY <1>4, CloseEffects, PlainAuto DEF Ends
<1> QED
  BY <1>1, <1>2, <1>3, <1>4

LEMMA ContinuesAuto ==
    ASSUME TypeOK, LeaseInv, Careful, NEW p \in Actors, Continues(p)
    PROVE  AutoStep(p)
  BY ExpireAuto, OpenAuto, ExecutorAuto, RecoveryAuto, ToolAuto, CloseAuto DEF Continues

LEMMA ArrivalsAuto ==
    ASSUME TypeOK, Careful, NEW p \in Clients, NEW w \in Workspaces, Arrivals(p, w)
    PROVE  AutoStep(p)
<1>1. p \in Actors
  BY DEF Actors
<1>2. CASE Open(p, w)
  BY <1>1, <1>2, OpenEffect, PlainAuto
<1>3. ASSUME NEW op \in {"recover", "renew"}, NEW statuses, BeginRecovery(p, w, op, statuses)
      PROVE  AutoStep(p)
  BY <1>1, <1>3, BeginEffect, PlainAuto DEF Begins
<1>4. CASE Recover(p, w)
  BY <1>3, <1>4 DEF Recover
<1>5. ASSUME UNCHANGED <<job, dirty>>, job[p].step = "idle"  PROVE AutoStep(p)
  BY <1>1, <1>5, PlainAuto DEF Others
<1>6. CASE Renew(p, w)
  BY <1>3, <1>5, <1>6 DEF Renew, world, Arrives
<1>7. CASE Export(p, w)
  BY <1>1, <1>7, CallEffects, PlainAuto DEF Begins
<1>8. CASE Exec(p, w)
  BY <1>1, <1>8, CallEffects, PlainAuto DEF Begins
<1>9. CASE ExpireOnAccess(p, w)
  BY <1>5, <1>9 DEF ExpireOnAccess, Arrives
<1>10. CASE Close(p, w)
  BY <1>10 DEF Close, Arrives, Careful
<1>11. CASE CloseFenced(p, w)
  <2>1. CloseRecord(p, w, "closeFenced") /\ UNCHANGED dirty /\ job[p].step = "idle"
    BY <1>11 DEF CloseFenced, Arrives, world
  <2> QED
    BY <1>1, <2>1, CloseRecordEffect, PlainAuto
<1> QED
  BY <1>2, <1>4, <1>6, <1>7, <1>8, <1>9, <1>10, <1>11 DEF Arrivals

LEMMA ReapsAuto ==
    ASSUME TypeOK, NEW w \in Workspaces, Reaps(w)
    PROVE  AutoStep(Reaper)
<1>1. Reaper \in Actors
  BY DEF Actors
<1>2. CASE ReapExpire(w)
  <2>1. PICK i \in Jobs : ExpiryClaim(Reaper, w, i)
    BY <1>2, ReapEffects
  <2> QED
    BY <1>1, <2>1, ExpiryClaimEffect, PlainAuto
<1>3. CASE ReapWeigh(w) \/ Quarantine(w) \/ QuarantineRetry(w)
  <2>1. Others(Reaper) /\ job'[Reaper].step \in {"weigh", "sweep"} /\ UNCHANGED dirty
    BY <1>3, ReapEffects DEF Begins
  <2> QED
    BY <1>1, <2>1, PlainAuto
<1>4. CASE AutoCheck(w)
  <2>1. /\ row[w].status = "EXPIRED_RECOVERABLE" /\ SameRows /\ UNCHANGED dirty
        /\ Begins(Reaper, "autoClose", "check", w)
    BY <1>4, ReapEffects
  <2> QED
    BY <1>1, <2>1 DEF AutoStep, Begins, Fenced
<1> QED
  BY <1>2, <1>3, <1>4 DEF Reaps

LEMMA ReaperAuto ==
    ASSUME TypeOK, ReaperContinues
    PROVE  AutoStep(Reaper)
<1>1. Reaper \in Actors
  BY DEF Actors
<1>2. CASE ReapWeighed \/ QuarantineSweep \/ QuarantineUnname
  <2>1. (Moves(Reaper, "unname") \/ Ends(Reaper)) /\ UNCHANGED dirty
    BY <1>2, ReaperEffects
  <2> QED
    BY <1>1, <2>1, PlainAuto DEF Moves, Ends
<1>3. CASE AutoRead
  BY <1>1, <1>3, ReaperEffects DEF AutoStep
<1>4. CASE AutoDecide
  <2>1. PICK w \in Workspaces : w = job[Reaper].w
    BY <1>1, JobFields
  <2>2. /\ UNCHANGED dirty
        /\ \/ Ends(Reaper)
           \/ /\ ~job[Reaper].unsaved /\ Fenced(row[w], job[Reaper].gen, {"EXPIRED_RECOVERABLE"})
              /\ Others(Reaper) /\ job'[Reaper].step = "stop"
    BY <1>4, <2>1, ReaperEffects
  <2>3. CASE Ends(Reaper)
    BY <1>1, <2>2, <2>3, PlainAuto DEF Ends
  <2>4. CASE /\ ~job[Reaper].unsaved /\ Fenced(row[w], job[Reaper].gen, {"EXPIRED_RECOVERABLE"})
             /\ Others(Reaper) /\ job'[Reaper].step = "stop"
    BY <2>1, <2>2, <2>4 DEF AutoStep
  <2> QED
    BY <2>2, <2>3, <2>4
<1> QED
  BY <1>2, <1>3, <1>4 DEF ReaperContinues

\* Nobody but start() is at work, before the step and after it.
Alone == /\ \A q \in Actors \ {Boot} : job'[q].step = "idle"
         /\ job'[Boot].step \notin {"write", "check", "decide"}

LEMMA AloneAuto == ASSUME Alone PROVE AutoInv'
  BY DEF Alone, AutoInv, Watches

LEMMA BootsAlone == ASSUME TypeOK, LifeInv, NEW w \in Workspaces, Boots(w) PROVE Alone
<1>1. /\ Boot \in Actors /\ job[Boot].step = "idle"
      /\ \A q \in Actors \ {Boot} : job[q].step = "idle"
  BY DEF Boots, BootQuarantined, BootCloses, BootQuarantines, BootRebuilds, BootResumes, Visiting,
         Actors, LifeInv
<1>2. CASE BootQuarantined(w) \/ BootQuarantines(w) \/ BootResumes(w)
  BY <1>1, <1>2 DEF BootQuarantined, BootQuarantines, BootResumes, Alone
<1>3. CASE BootCloses(w)
  <2>1. Others(Boot) /\ job'[Boot].step = "stop"
    BY <1>1, <1>3, CloseRecordEffect DEF BootCloses
  <2> QED
    BY <1>1, <2>1 DEF Others, Alone
<1>4. CASE BootRebuilds(w)
  <2>1. Begins(Boot, "boot", "inspect", w)
    BY <1>1, <1>4, ReadingEffects DEF BootRebuilds, Operations, Steps
  <2> QED
    BY <1>1, <2>1 DEF Begins, Others, Alone
<1> QED
  BY <1>2, <1>3, <1>4 DEF Boots

Still == UNCHANGED <<job, dirty>> /\ \A w \in Workspaces : Steady(w)

LEMMA StillAuto == ASSUME AutoInv, Still PROVE AutoInv'
  BY DEF AutoInv, Still, Watches, Writable, Steady, Fenced, Expires

\* Every step is one of these three.
LEMMA NextAuto ==
    ASSUME TypeOK, LeaseInv, LifeInv, DataInv, Careful, [Next]_vars
    PROVE  Still \/ Alone \/ \E p \in Actors : DataStep(p) /\ AutoStep(p)
<1>1. CASE UNCHANGED vars \/ FirewallChanges \/ SetQuota
  BY <1>1 DEF Still, Steady, vars, FirewallChanges, SetQuota, world
<1>2. ASSUME NEW w \in Workspaces, TimePasses(w) \/ StrayRemovalLands(w)  PROVE Still
  <2>1. row \in [Workspaces -> Rows]
    BY DEF TypeOK
  <2>2. CASE LeaseElapses(w) \/ WallDeadlinePasses(w) \/ WallDeadlineOverruns(w)
    BY <2>1, <2>2 DEF LeaseElapses, WallDeadlinePasses, WallDeadlineOverruns, Rows, world, Still, Steady
  <2>3. CASE LockElapses(w) \/ WindowElapses(w)
    BY <2>1, <2>3 DEF LockElapses, WindowElapses, Rows, world, Still, Steady
  <2>4. CASE StrayRemovalLands(w)
    BY <2>4 DEF StrayRemovalLands, Still, Steady
  <2> QED
    BY <1>2, <2>2, <2>3, <2>4 DEF TimePasses
<1>3. CASE Crash \/ Restart \/ BootReconciles \/ BootFails
  BY <1>3 DEF Crash, Restart, BootReconciles, BootFails, Idle, LifeInv, Alone, Actors
<1>4. ASSUME NEW p \in Clients, NEW w \in Workspaces, Arrivals(p, w)
      PROVE  p \in Actors /\ DataStep(p) /\ AutoStep(p)
  BY <1>4, ArrivalsData, ArrivalsAuto DEF Actors
<1>5. ASSUME NEW p \in Actors, Continues(p)  PROVE DataStep(p) /\ AutoStep(p)
  BY <1>5, ContinuesData, ContinuesAuto
<1>6. CASE ReaperContinues \/ \E w \in Workspaces : Reaps(w)
  BY <1>6, ReaperData, ReapsData, ReaperAuto, ReapsAuto DEF Actors
<1>7. CASE \E w \in Workspaces : Boots(w)
  BY <1>7, BootsAlone
<1> QED
  BY <1>1, <1>2, <1>3, <1>4, <1>5, <1>6, <1>7 DEF Next

LEMMA NextKeepsAuto ==
    ASSUME TypeOK, TypeOK', LeaseInv, LifeInv, DataInv, AutoInv, Careful, "overrun" \notin Events,
           [Next]_vars
    PROVE  AutoInv'
  BY NextAuto, StillAuto, AloneAuto, AutoStepKeeps

\* The claim of an auto-close is the one of somebody who found nothing unsaved, and whose fence matches.
LEMMA AutoCloseStep ==
    ASSUME TypeOK, LeaseInv, LifeInv, DataInv, AutoInv, Careful, [Next]_vars, NEW w \in Workspaces,
           job[Reaper].step = "decide", job[Reaper].w = w, job'[Reaper].step = "stop"
    PROVE  ~dirty[w]
<1>1. Reaper \in Actors \ {Boot}
  BY ActorsAssumption DEF Actors
<1>2. ~Still /\ ~Alone
  BY <1>1 DEF Still, Alone
<1>3. PICK p \in Actors : DataStep(p) /\ AutoStep(p)
  BY <1>2, NextAuto
<1>4. p = Reaper
  BY <1>1, <1>3 DEF AutoStep, Others
<1> QED
  BY <1>1, <1>3, <1>4 DEF AutoStep, AutoInv, Watches

LEMMA InitAuto == Init => AutoInv
  BY DEF Init, AutoInv, Watches, Idle

\* The claim of an auto-close takes only a workspace whose checkout holds nothing that is on no remote,
\* whatever happened between the reading, the lease and the claim: a recovery, a renewal, a tool call
\* that a close has overtaken, a crash (autoCloseRecoverable, acquireMutationLease, beginReaping).  The
\* assumptions are those of the two invariants it rests on: a holder's lease is counted, its deadline
\* has not passed while it works, and what is offered for recovery is nobody's to remove.
THEOREM AutoCloseTheorem ==
    ASSUME Careful, Requests \cap Background = {}, "overrun" \notin Events
    PROVE  Spec => AutoCloseKeepsWork
<1> DEFINE Inv == LeaseInv /\ LifeInv /\ DataInv /\ AutoInv
           Step == \A w \in Workspaces :
                      (job[Reaper].step = "decide" /\ job[Reaper].w = w /\ job'[Reaper].step = "stop")
                      => ~dirty[w]
<1>1. Init => Inv
  BY InitLeases, InitLife, InitData, InitAuto
<1>2. Inv /\ TypeOK /\ TypeOK' /\ [Next]_vars => Inv'
  BY NextKeepsLeases, NextKeepsLife, NextKeepsData, NextKeepsAuto
<1>3. Inv /\ TypeOK /\ [Next]_vars => [Step]_vars
  BY AutoCloseStep
<1> HIDE DEF Inv
<1> QED
  BY <1>1, <1>2, <1>3, TypeCorrect, PTL DEF Spec, AutoCloseKeepsWork

=============================================================================
