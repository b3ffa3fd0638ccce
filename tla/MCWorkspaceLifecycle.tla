------------------------ MODULE MCWorkspaceLifecycle ------------------------
(* Small instances of WorkspaceLifecycle for TLC. *)
EXTENDS WorkspaceLifecycle, TLC

CONSTANTS w1, w2, c1, c2, alice

OneWorkspace  == {w1}
TwoWorkspaces == {w1, w2}
TwoClients    == {c1, c2}
AliceOwns     == [w \in {w1, w2} |-> alice]

ClientSymmetry == Permutations(Clients)

-----------------------------------------------------------------------------
(* Bound of the run recovery: two workspaces share the quota and nothing    *)
(* else.  Both of them, and both clients, are explored as long as nothing   *)
(* but opens, recoveries, expiries and changes of the quota happens; what   *)
(* follows the claim of a workspace that has expired once, a tool call and  *)
(* any kind of trouble meet one workspace, opened before the other, and one *)
(* client.                                                                  *)

\* What a tool call or a failure has left behind on w.
Disturbed(w) ==
    \/ dirty[w] \/ stray[w] \/ row[w].status = "NETWORK_QUARANTINED"
    \/ disk[w] /\ row[w].status = "FAILED"
    \/ ~box[w] /\ row[w].status = "ACTIVE"
    \/ /\ box[w] /\ ~row[w].named
       /\ ~\E p \in Clients : job[p].w = w /\ job[p].step \in {"launch", "activate", "undo"}

Undisturbed ==
    /\ runner = "up" /\ ~drift /\ \A w \in Workspaces : row[w].gen < MaxGen /\ ~Disturbed(w)
    /\ \A p \in Actors : job[p].op \notin {"exec", "quarantine"}

QuotaApart ==
    Undisturbed \/ (row[w2].status = "NONE" /\ limit = 1 /\ \E p \in Clients : job[p].step = "idle")

=============================================================================
