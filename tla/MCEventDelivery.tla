--------------------------- MODULE MCEventDelivery ---------------------------
\* Small instances of EventDelivery for TLC.
EXTENDS EventDelivery, TLC

CONSTANTS t1, t2, s1, s2

\* s1 subscribes to success, s2 to every end of every task.
MCWants == {<<s1, t, "SUCCEEDED">> : t \in Sources}
           \union {<<s2, t, status>> : t \in Sources, status \in Terminal}

\* As in the code, the waits of all retries together fit into the window.
OneRetry == <<2>>
ShortRetry == <<1>>

Symmetry == Permutations({t1, t2})
=============================================================================
