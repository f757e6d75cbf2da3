---------------------------- MODULE MCWorkspace ------------------------------
(***************************************************************************)
(* Workspace on a small instance: one tab that is about alerts and cases,  *)
(* one for the operation of the system.                                    *)
(***************************************************************************)
EXTENDS Workspace, TLC

CONSTANTS t1, t2, l1, l2

MCRole == l1 :> "analyst" @@ l2 :> "admin"
MCVisits == t1 :> {"Dashboard", "Investigations", "Cases", "Reports"}
         @@ t2 :> {"Dashboard", "Detection Rules", "Integrations"}
=============================================================================
