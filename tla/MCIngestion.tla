----------------------------- MODULE MCIngestion -----------------------------
(***************************************************************************)
(* Ingestion on a small instance: three records, two of one timestamp, of  *)
(* which the normalizer rejects one.                                       *)
(***************************************************************************)
EXTENDS Ingestion, TLC

MCStamp == (1 :> 1) @@ (2 :> 2) @@ (3 :> 2)
\* Elastic orders equal timestamps by _shard_doc, not by _id.
MCIdent == (1 :> 1) @@ (2 :> 3) @@ (3 :> 2)
TwoWindows == {<<1, 3>>, <<2, 3>>}
Symmetry == Permutations(Requests)
=============================================================================
