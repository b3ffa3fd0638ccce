----------------------------- MODULE MCModelSpend -----------------------------
\* Small instances of ModelSpend for TLC.
EXTENDS ModelSpend, TLC

CONSTANTS l1, c1, c2

Symmetry == Permutations({c1, c2})
===============================================================================
