--------------------------- MODULE AgentContract ---------------------------
(***************************************************************************)
(* What the owner of a workspace may rely on about agent runs, whatever    *)
(* interleaving of cancels, failures and restarts the runner goes through. *)
(*                                                                         *)
(* A run is admitted once, lives, is being ended and has ended, in this    *)
(* order.  It gains a model lease or a container only before its end is    *)
(* recorded; its end is recorded only when it holds neither and, if a      *)
(* caller started it, when the runs it started have ended; an ended run    *)
(* never comes back.                                                       *)
(***************************************************************************)
CONSTANTS
    Agents,  \* ids of agent runs
    None     \* the parent of a run that a caller started directly

VARIABLES
    phase,   \* of a run
    holds,   \* what a run holds outside the runner
    parent   \* the run that started it

contractVars == <<phase, holds, parent>>

Phases == {"absent", "live", "ending", "ended"}
Holdings == SUBSET {"lease", "container"}

ContractInit ==
    /\ phase = [a \in Agents |-> "absent"]
    /\ holds = [a \in Agents |-> {}]
    /\ parent = [a \in Agents |-> None]

Same(a) == phase'[a] = phase[a] /\ parent'[a] = parent[a]

Admitted(a) ==
    /\ phase[a] = "absent" /\ phase'[a] = "live"
    /\ holds'[a] = {}
    /\ parent'[a] # None => phase[parent'[a]] = "live"

\* Leases and containers come and go while the run lives or is being ended.
Holding(a) == Same(a) /\ phase[a] \in {"live", "ending"} /\ holds'[a] \in Holdings

Ending(a) == /\ phase[a] = "live" /\ phase'[a] = "ending"
             /\ parent'[a] = parent[a] /\ holds'[a] \in Holdings

ChildrenEnded(a) == \A d \in Agents : parent[d] = a => phase[d] = "ended"

Ended(a) == /\ phase[a] = "ending" /\ phase'[a] = "ended"
            /\ holds[a] = {} /\ holds'[a] = {}
            /\ parent'[a] = parent[a]
            /\ parent[a] = None => ChildrenEnded(a)

Move(a) == \/ Same(a) /\ holds'[a] = holds[a]
           \/ Admitted(a) \/ Holding(a) \/ Ending(a) \/ Ended(a)

\* A restart of the runner may move several runs at once.
ContractNext == \A a \in Agents : Move(a)

ContractSpec == ContractInit /\ [][ContractNext]_contractVars

=============================================================================
