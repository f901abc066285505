------------------------------ MODULE MCAlarm -------------------------------
EXTENDS Alarm, TLC
CONSTANTS c1, c2, c3, n1, n2, n3, n4
Symmetry == Permutations({c1, c2, c3}) \cup Permutations({n1, n2, n3, n4})
=============================================================================
