---------------------------- MODULE MCMiniport -----------------------------
EXTENDS Miniport, TLC
CONSTANTS t1, t2, t3, r1, r2, r3
Symmetry == Permutations({t1, t2, t3}) \cup Permutations({r1, r2, r3})
=============================================================================
