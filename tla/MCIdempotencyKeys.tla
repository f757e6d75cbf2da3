-------------------------- MODULE MCIdempotencyKeys --------------------------
(***************************************************************************)
(* IdempotencyKeys on a small instance for TLC.                            *)
(***************************************************************************)
EXTENDS IdempotencyKeys, TLC

Symmetry == Permutations(Requests) \cup Permutations(Payloads)
==============================================================================
