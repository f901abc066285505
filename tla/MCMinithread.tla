---------------------------- MODULE MCMinithread ----------------------------
(* Values of the constants of Minithread for its model-checking runs.      *)
EXTENDS Minithread, TLC

CONSTANTS main, t1, t2, c1, c2, lock, net

OneTickPerLevel == [l \in Levels |-> 1]
DoublingQuanta == [l \in Levels |-> 2 ^ l]
AllZero == [s \in Sems |-> 0]
LockIsOne == [s \in Sems |-> IF s = lock THEN 1 ELSE 0]
Workers == Permutations({t1, t2})
=============================================================================
