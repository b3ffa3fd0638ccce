-------------------------- MODULE MCAgentLifecycle --------------------------
(* Instances of AgentLifecycle for TLC: a parent and a child. *)
EXTENDS AgentLifecycle, TLC

CONSTANTS a1, a2, t1, t2

TwoAgents == {a1, a2}
TwoTasks == {t1, t2}

\* The tasks are interchangeable.
TaskSymmetry == Permutations(Tasks)

=============================================================================
