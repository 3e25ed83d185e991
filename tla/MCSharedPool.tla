---------------------------- MODULE MCSharedPool ----------------------------
(* SharedPool on small instances: the addresses of pools are               *)
(* interchangeable.                                                        *)
EXTENDS SharedPool, TLC

PoolSymmetry == Permutations(PoolIds)
=============================================================================
