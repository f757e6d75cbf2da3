------------------------ MODULE MCDetectionExecution ------------------------
(***************************************************************************)
(* DetectionExecution on a small instance: a rule that is edited from one  *)
(* condition to a threshold by host and back under two runs, over windows  *)
(* that overlap and do not start a whole duration apart.                   *)
(***************************************************************************)
EXTENDS DetectionExecution, TLC

CONSTANTS c1, c2, g
MCMatches == (c1 :> {2}) @@ (c2 :> {1, 2})
\* Event 1 is of the second host by repr, event 2 of the first.
Hosts == g :> [e \in Events |-> IF e = 2 THEN 1 ELSE 2]
MCStamp == [e \in Events |-> e]
MCLogics == {[rule_type |-> "single", condition |-> c1],
             [rule_type |-> "threshold", condition |-> c2, group_by |-> g,
              duration |-> 2, min_count |-> 1]}
\* The last one is empty.
MCWindows == {<<0, 4>>, <<1, 4>>, <<2, 2>>}
Symmetry == Permutations(Requests) \cup Permutations(Editors)
=============================================================================
