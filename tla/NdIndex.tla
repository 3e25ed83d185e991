------------------------------- MODULE NdIndex -------------------------------
(***************************************************************************)
(* The row-major index arithmetic shared by b2nd and the n-dimensional     *)
(* filters and codecs.  A shape is a sequence of lengths, an index a       *)
(* sequence of positions from 0.  The folds are functions, which TLC       *)
(* evaluates faster than those of the community modules.                   *)
(***************************************************************************)
EXTENDS Integers, Sequences, SequencesExt, TLC

Folded(Op(_, _), base, s) ==
  LET fold[k \in 0 .. Len(s)] == IF k = 0 THEN base ELSE Op(fold[k - 1], s[k]) IN fold[Len(s)]
(* A function with its values computed, not the rule to compute them. *)
Computed(f) == f @@ <<>>

NdSize(shape) ==
  LET size[d \in 0 .. Len(shape)] == IF d = 0 THEN 1 ELSE size[d - 1] * shape[d] IN size[Len(shape)]

NdStrides(shape) ==
  LET n == Len(shape)
      strides[d \in 1 .. n] == IF d = n THEN 1 ELSE shape[d + 1] * strides[d + 1]
  IN [d \in 1 .. n |-> strides[d]]

(* blosc2_unidim_to_multidim *)
UnidimToMultidim(shape, i) ==
  LET strides == NdStrides(shape) IN
  [d \in DOMAIN shape |-> IF d = 1 THEN i \div strides[1] ELSE (i % strides[d - 1]) \div strides[d]]

(* blosc2_multidim_to_unidim, the products of an index and strides. *)
NdDot(index, strides) ==
  LET dot[d \in 0 .. Len(index)] == IF d = 0 THEN 0 ELSE dot[d - 1] + index[d] * strides[d] IN dot[Len(index)]
=============================================================================
