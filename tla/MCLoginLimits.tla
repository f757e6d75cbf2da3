--------------------------- MODULE MCLoginLimits ---------------------------
(***************************************************************************)
(* LoginLimits on a small instance: more threads than slots, and windows   *)
(* of different lengths that both pass.                                    *)
(***************************************************************************)
EXTENDS LoginLimits, TLC

Symmetry == Permutations(Threads)
=============================================================================
