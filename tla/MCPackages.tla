------------------------------ MODULE MCPackages ------------------------------
\* A small instance of Packages for TLC.
EXTENDS Packages

CONSTANTS a1, a2, b1, w1, l1, l2

\* Two releases of a package of the owner, and a package of one workspace whose
\* binary one of them brings too.
MCOf == [p \in {a1, a2, b1} |->
            IF p = b1 THEN [pkg |-> "b", scope |-> w1] ELSE [pkg |-> "a", scope |-> Owner]]
MCNames == [p \in {a1, a2, b1} |-> IF p = a2 THEN {"y"} ELSE {"x"}]

\* Bound: toolbox commands mount without an executor; a command is explored while there is none.
ToolboxApart ==
    toolbox = None \/ ( /\ \A w \in Workspaces : executor[w] = None
                       /\ \A l \in Launches : launch[l].at = "idle" )
===============================================================================
