--------------------------- MODULE WorkspaceStore ---------------------------
(***************************************************************************)
(* One row of the table `workspaces` and the statements that change it,    *)
(* from apps/runner/src/state-store.ts.  Each statement runs inside one    *)
(* synchronous call, so it is a function from the row it finds to the row  *)
(* it leaves, with its WHERE clause as a predicate of its own.             *)
(*                                                                         *)
(* Timestamps are kept as what the code asks of them, "has this moment     *)
(* passed":  leaseDue (expires_at), hard (hard_expires_at), windowDue      *)
(* (recoverable_until) and lock (mutation_locked_until, "none" for NULL).  *)
(* hard = "overrun" is the later moment hard_expires_at + holdDuration,    *)
(* past which withMutationLease can no longer move the lock forward.       *)
(*                                                                         *)
(* A definition introduced by "Mutant:" is the one below it with a single  *)
(* plausible bug; only the mutation runs listed in PROJECT.json use it.    *)
(***************************************************************************)
EXTENDS Naturals

Statuses == {"NONE", "CREATING", "ACTIVE", "REAPING", "CLOSED", "FAILED",
             "EXPIRED_RECOVERABLE", "NETWORK_QUARANTINED"}

\* The statuses that occupy a slot of the owner's quota.
CountedStatuses == {"CREATING", "ACTIVE", "NETWORK_QUARANTINED"}

\* Mutant: startup does not look for interrupted opens.
EnumeratedRunning == {"ACTIVE", "NETWORK_QUARANTINED", "REAPING"}

\* The statuses that sweeps and startup reconciliation visit.
EnumeratedStatuses == CountedStatuses \cup {"REAPING"}

Rows == [status    : Statuses,
         gen       : Nat,
         named     : BOOLEAN,                     \* container_name IS NOT NULL
         locks     : Nat,                         \* mutation_lock_count
         lock      : {"none", "held", "elapsed"},
         leaseDue  : BOOLEAN,
         hard      : {"ahead", "passed", "overrun"},
         windowDue : BOOLEAN]

NoRow == [status |-> "NONE", gen |-> 0, named |-> FALSE, locks |-> 0, lock |-> "none",
          leaseDue |-> FALSE, hard |-> "ahead", windowDue |-> FALSE]

NewRow == [NoRow EXCEPT !.status = "CREATING", !.gen = 1]

Due(r)      == r.leaseDue \/ r.hard # "ahead"
Unlocked(r) == r.lock # "held"

\* updateFenced: the row still has the generation and one of the statuses the caller saw.
Fenced(r, g, statuses) == r.gen = g /\ r.status \in statuses

-----------------------------------------------------------------------------
(* Mutation leases: a counter of holders and one deadline shared by them.  *)

\* Mutant: the hold is not capped by the wall deadline.
HoldableForever(r) == TRUE

\* A new hold of withMutationLease ends in the future, and no earlier than the holds before it.
Holdable(r) == r.hard # "overrun"

HoldDeadline(r) == IF Holdable(r) \/ r.lock = "held" THEN "held" ELSE "elapsed"

Leasable(r, g) == Fenced(r, g, {"ACTIVE"})

\* acquireMutationLease also carries expires_at past the hold.
Leased(r) == [r EXCEPT !.locks = @ + 1, !.lock = HoldDeadline(r), !.leaseDue = FALSE]

LeasableRecoverable(r, g) == Fenced(r, g, {"ACTIVE", "EXPIRED_RECOVERABLE"})

\* acquireRecoverableMutationLease and setMutationLock: nothing caps the hold or moves expires_at.
Locked(r) == [r EXCEPT !.locks = @ + 1, !.lock = "held"]

\* Mutant: every release clears the deadline.
UnleasedForAll(r) == [r EXCEPT !.locks = IF @ = 0 THEN 0 ELSE @ - 1, !.lock = "none"]

\* The last holder to leave clears the deadline; the others leave it as it is.
Unleased(r) == [r EXCEPT !.locks = IF @ = 0 THEN 0 ELSE @ - 1,
                         !.lock = IF r.locks <= 1 THEN "none" ELSE @]

Released(r, g) ==
    IF Fenced(r, g, {"ACTIVE", "EXPIRED_RECOVERABLE"}) THEN Unleased(r) ELSE r

-----------------------------------------------------------------------------
(* Claims: REAPING and the next generation, which fences every earlier     *)
(* reader of the row out.                                                  *)

Expirable(r) == r.status = "ACTIVE" /\ Due(r) /\ Unlocked(r)

ForceClaimable(r) == r.status \in {"CREATING", "ACTIVE", "FAILED", "EXPIRED_RECOVERABLE",
                                   "NETWORK_QUARANTINED"}

\* claimForExpiry and claimForReaping(force) both reset the lock.
Claimed(r) == [r EXCEPT !.status = "REAPING", !.gen = @ + 1, !.locks = 0, !.lock = "none"]

AutoClosable(r) == r.status = "EXPIRED_RECOVERABLE" /\ Unlocked(r) /\ r.windowDue

\* claimRecoverableForAutoClose leaves the lock columns alone.
AutoClaimed(r) == [r EXCEPT !.status = "REAPING", !.gen = @ + 1]

-----------------------------------------------------------------------------
(* The other transitions of a row. *)

\* withRecoverableWindow: an ACTIVE row has no window.
Activated(r) == [r EXCEPT !.status = "ACTIVE", !.leaseDue = FALSE, !.windowDue = FALSE]

\* touch: expires_at moves to the idle TTL from now, capped by hard_expires_at.
Touched(r) == [r EXCEPT !.leaseDue = FALSE]

Touch(r, g) == IF Fenced(r, g, {"ACTIVE"}) THEN Touched(r) ELSE r

MarkedRecoverable(r) ==
    [r EXCEPT !.status = "EXPIRED_RECOVERABLE", !.named = FALSE, !.windowDue = FALSE]

\* Mutant: a deferral keeps the old deadline.
DeferredNowhere(r) == r

\* The deferral of an auto-close opens a new window.
Deferred(r) == [r EXCEPT !.windowDue = FALSE]

\* A close that failed before it removed anything: recoverable again, container still named.
CloseFailed(r) == [r EXCEPT !.status = "EXPIRED_RECOVERABLE", !.windowDue = FALSE]

Closed(r) == [r EXCEPT !.status = "CLOSED", !.named = FALSE, !.leaseDue = TRUE]

Quarantined(r) == [r EXCEPT !.status = "NETWORK_QUARANTINED"]

=============================================================================
