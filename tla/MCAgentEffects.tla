--------------------------- MODULE MCAgentEffects ---------------------------
(* Instances of AgentEffects for TLC. *)
EXTENDS AgentEffects

CONSTANT r1

OneRequest == {r1}

AllKinds == {"write", "guarded", "patch", "mkdir", "delete", "read", "invalid"}

=============================================================================
