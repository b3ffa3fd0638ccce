---------------------------- MODULE LeaseAccount ----------------------------
(***************************************************************************)
(* What the model gateway promises about the account behind one lease.     *)
(*                                                                         *)
(* A lease is opened once, with a cost cap.  While it is open, and while   *)
(* its last requests drain after it closed, requests are billed to it.     *)
(* What is billed stays within the cap, apart from what providers charged  *)
(* beyond the reservation of a request.  Then one statement is made: it is *)
(* all that was billed, and nothing is billed afterwards.  A gateway that  *)
(* restarts loses every account.                                           *)
(***************************************************************************)
EXTENDS Integers

CONSTANTS
    Leases,  \* lease ids
    CostCap  \* what one lease may cost, providers' overruns aside

ASSUME AccountAssumption == CostCap \in Nat

VARIABLES
    phase,     \* of each lease: none, open, closing, final or lost
    bill,      \* what its requests have been billed
    excess,    \* the part of it beyond the requests' reservations
    statement  \* the settlement, NoStatement while there is none

accountVars == <<phase, bill, excess, statement>>

NoStatement == -1
Phases == {"none", "open", "closing", "final", "lost"}

AccountType ==
    /\ phase \in [Leases -> Phases]
    /\ bill \in [Leases -> Nat]
    /\ excess \in [Leases -> Nat]
    /\ statement \in [Leases -> Nat \union {NoStatement}]

AccountInit ==
    /\ phase = [l \in Leases |-> "none"]
    /\ bill = [l \in Leases |-> 0]
    /\ excess = [l \in Leases |-> 0]
    /\ statement = [l \in Leases |-> NoStatement]

Move(l, from, to) ==
    /\ phase[l] \in from
    /\ phase' = [phase EXCEPT ![l] = to]

OpenAccount(l) ==
    /\ Move(l, {"none"}, "open")
    /\ UNCHANGED <<bill, excess, statement>>

Bill(l) ==
    /\ phase[l] \in {"open", "closing"}
    /\ bill'[l] >= bill[l] /\ excess'[l] >= excess[l]
    /\ bill'[l] <= CostCap + excess'[l]
    /\ \A k \in Leases \ {l} : bill'[k] = bill[k] /\ excess'[k] = excess[k]
    /\ UNCHANGED <<phase, statement>>

CloseAccount(l) ==
    /\ Move(l, {"open"}, "closing")
    /\ UNCHANGED <<bill, excess, statement>>

SettleAccount(l) ==
    /\ Move(l, {"closing"}, "final")
    /\ statement' = [statement EXCEPT ![l] = bill[l]]
    /\ UNCHANGED <<bill, excess>>

\* The statement is not kept for ever.
ForgetAccount(l) ==
    /\ Move(l, {"closing", "final"}, "lost")
    /\ statement' = [statement EXCEPT ![l] = NoStatement]
    /\ UNCHANGED <<bill, excess>>

LoseAll ==
    /\ phase' = [l \in Leases |-> IF phase[l] = "none" THEN "none" ELSE "lost"]
    /\ statement' = [l \in Leases |-> NoStatement]
    /\ UNCHANGED <<bill, excess>>

AccountNext ==
    \/ \E l \in Leases :
        \/ OpenAccount(l) \/ Bill(l) \/ CloseAccount(l)
        \/ SettleAccount(l) \/ ForgetAccount(l)
    \/ LoseAll

AccountSpec == AccountInit /\ [][AccountNext]_accountVars

-----------------------------------------------------------------------------
(* What a user of the account relies on *)

\* A statement is made of a finished account and says all that was billed.
StatementIsBill ==
    \A l \in Leases :
        /\ statement[l] # NoStatement => phase[l] = "final" /\ statement[l] = bill[l]
        /\ bill[l] <= CostCap + excess[l]

=============================================================================
