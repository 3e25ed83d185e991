----------------------------- MODULE MCFrameLock -----------------------------
(* FrameLock on small instances.  Two regular chunks of the same size (an  *)
(* update that leaves the length unchanged), a bigger one and a special    *)
(* one; the handles are interchangeable.                                   *)
EXTENDS FrameLock, TLC

MCChunks == {[data |-> "a", cbytes |-> 1], [data |-> "b", cbytes |-> 1],
             [data |-> "c", cbytes |-> 2]}
MCTwoChunks == {[data |-> "a", cbytes |-> 1], [data |-> "b", cbytes |-> 1]}
MCSpecial == {[data |-> "a", cbytes |-> 1], [data |-> "zeros", cbytes |-> 0]}

HandleSymmetry == Permutations(Handles)
=============================================================================
