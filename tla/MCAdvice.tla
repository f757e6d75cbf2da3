------------------------------ MODULE MCAdvice -------------------------------
(***************************************************************************)
(* Advice on a small instance: a case, two alerts that share an event, and *)
(* limits that leave room for one alert with its parts and for all of the  *)
(* activities.  One request is enough: requests share nothing but the      *)
(* table they append to.                                                   *)
(***************************************************************************)
EXTENDS Advice

CONSTANT r1

MCFirst == <<{1}>>
MCParts == << <<[type |-> "rule_snapshot", id |-> <<1>>], [type |-> "event", id |-> <<1>>]>>,
              <<[type |-> "event", id |-> <<1>>], [type |-> "event", id |-> <<2>>]>> >>
MCPosts == {<<"note", 0>>, <<"alerts_added", 2>>}
MCSize == [t \in Types |-> IF t = "alert" THEN 5 ELSE 1]
=============================================================================
