------------------------------ MODULE MCAccess ------------------------------
(***************************************************************************)
(* Access on a small instance.                                             *)
(***************************************************************************)
EXTENDS Access, TLC

MCDemote == [role |-> "analyst", active |-> None]
MCDisable == [role |-> None, active |-> FALSE]
MCRestore == [role |-> "admin", active |-> TRUE]
MCChanges == {MCDemote, MCDisable, MCRestore}
MCRemovals == {MCDemote, MCDisable}
Symmetry == Permutations(Users) \cup Permutations(Logins) \cup Permutations(Calls)
=============================================================================
