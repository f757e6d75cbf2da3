------------------------------- MODULE MCCases -------------------------------
(***************************************************************************)
(* Cases on a small instance: updates of one column or of both, and notes   *)
(* of which some look like an entry of a handler.                          *)
(***************************************************************************)
EXTENDS Cases, TLC

MCPatches == {[status |-> "closed", priority |-> None], [status |-> None, priority |-> "high"],
              [status |-> "open", priority |-> "low"]}
MCPosts == {[kind |-> "status_change", to |-> "in_progress", alerts |-> {}, own |-> FALSE],
            [kind |-> "alerts_added", to |-> "", alerts |-> Alerts, own |-> FALSE]}
Symmetry == Permutations(Requests) \cup Permutations(Alerts)
=============================================================================
