--------------------------- MODULE MCDurableTasks ---------------------------
(* Instances of DurableTasks for TLC. *)
EXTENDS DurableTasks

\* Bound: of the four kinds of trouble, each at most once, two in one behaviour.
TwoTroubles == faults + restarts + badCloses + expiries <= 2

=============================================================================
