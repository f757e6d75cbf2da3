---------------------------- MODULE MCDeployment -----------------------------
(***************************************************************************)
(* Deployment on a small instance: two seeds that may overlap, an operator *)
(* who may reset the database and downgrade it.  Once it has been          *)
(* downgraded, one seed runs at a time (a bound).                          *)
(***************************************************************************)
EXTENDS Deployment

Symmetry == Permutations(Seeders)
OneSeedAfterDowngrade == downs > 0 => Cardinality({s \in Seeders : tx[s] # Idle}) <= 1
=============================================================================
