---------------------------- MODULE MCModelGateway ----------------------------
\* Small instances of ModelGateway for TLC.
EXTENDS ModelGateway

CONSTANTS l1, l2, r1, r2

Amount(i, o, c) == [input |-> i, output |-> o, cost |-> c]

\* A budget of three prompt and three output tokens that the cost cuts short:
\* with prices of 1 and 3 for two tokens no cost is a whole number.
MCCaps == Amount(3, 3, 7)
\* What a provider reports: less than was reserved, and more output than it was
\* asked for at a cost that no reservation covered.
MCReports == {Amount(1, 1, 2), Amount(2, 3, 6)}
===============================================================================
