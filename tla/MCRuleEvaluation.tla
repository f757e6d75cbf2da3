-------------------------- MODULE MCRuleEvaluation ---------------------------
(***************************************************************************)
(* Rules on small instances: conditions of up to three levels for a single *)
(* rule, thresholds by host, by port and of distinct hosts, and sequences  *)
(* of two stages.                                                          *)
(***************************************************************************)
EXTENDS RuleEvaluation

Str(x) == <<"str", x>>
Num(n) == <<"int", n>>
LeafOf(op, field, values) == [operator |-> op, field |-> field, values |-> values]
Is(field, value) == LeafOf("equals", field, {value})

Leaves ==
  {Is("source_port", Num(1)), LeafOf("not_equals", "source_port", {Num(1)}), LeafOf("exists", "source_port", {}),
   LeafOf("not_exists", "source_port", {}), LeafOf("not_in", "source_port", {Str("ok"), Num(2)}),
   LeafOf("gte", "source_port", {Num(2)}), LeafOf("lt", "source_port", {Num(2)}),
   LeafOf("in", "event_action", {Str("ok")}), LeafOf("not_equals", "event_action", {Num(1)}),
   LeafOf("contains", "event_action", {Str("fail")}), LeafOf("not_contains", "source_port", {Str("ok")})}
Not(S) == {[operator |-> "not", children |-> <<c>>] : c \in S}
Groups(S, T) == {[operator |-> o, children |-> <<c, d>>] : o \in {"and", "or"}, c \in S, d \in T}
Trees == LET two == Not(Leaves) \cup Groups(Leaves, Leaves) IN
           Leaves \cup two \cup Not(two) \cup Groups(Not(Leaves), {Is("source_port", Num(1))})

Failed == LeafOf("not_equals", "event_action", {Str("ok")})
Passed == Is("event_action", Str("ok"))
MCConditions == Trees \cup {Failed, Passed}
Threshold(group, distinct, n, d) ==
  [rule_type |-> "threshold", condition |-> Failed, group_by |-> group, distinct |-> distinct,
   min_count |-> n, duration |-> d]
Stage(c, n) == [condition |-> c, min_count |-> n]
MCRules ==
  {[rule_type |-> "single", condition |-> c] : c \in Trees} \cup
  {Threshold({"hostname"}, None, 2, 2), Threshold({}, "hostname", 1, 3),
   Threshold({"source_port"}, None, 1, 3)} \cup
  {[rule_type |-> "sequence", shared |-> {"hostname"}, span |-> 2,
    stages |-> <<Stage(Failed, n), Stage(Passed, 1)>>] : n \in {1, 2}}

Actions == {Str("fail"), Str("ok")}
Hosts == {Str("web"), Str("db")}
ValuesOf(actions, hosts, ports) ==
  [event_action |-> actions, hostname |-> hosts, source_port |-> ports]
MCFields == [single |-> ValuesOf(Actions, {None}, {Num(1), Num(2), Str("ok"), None}),
             threshold |-> ValuesOf(Actions, Hosts \cup {None}, {Num(1)}),
             sequence |-> ValuesOf(Actions, {Str("web"), None}, {None})]
MCWindows == {<<0, 4>>, <<1, 4>>, <<2, 4>>, <<0, 3>>}
MCMaxEvents == [single |-> 1, threshold |-> 3, sequence |-> 4]
=============================================================================
