----------------------------- MODULE MCJobGroup -----------------------------
(* JobGroup on small instances: no maskout, and maskouts with and without  *)
(* the reference block.                                                    *)
EXTENDS JobGroup

MCMasks == {NoMask, {0}, {1}, {0, 2}}
=============================================================================
