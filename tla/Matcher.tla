------------------------------- MODULE Matcher -------------------------------
(***************************************************************************)
(* Conditions of the detection DSL (backend/detection/dsl.py) and their    *)
(* evaluation on one event (backend/detection/matcher.py).                 *)
(*                                                                         *)
(* A value is a pair of its type and its contents.  The operand of a leaf  *)
(* is a set: one value, the list of a membership, or the texts that a      *)
(* string predicate (contains, starts_with, ends_with, all contains here)  *)
(* holds of.  The orders of numbers are gte and lt; gt, lte, the orders of *)
(* times and cidr_match differ from them only in the comparison they make. *)
(***************************************************************************)
EXTENDS Naturals, FiniteSetsExt

CONSTANTS
  None,         \* a field without a value
  FieldNames,   \* the fields of events, their ids and times aside
  Conditions    \* the conditions of rules, and those they are made of

BooleanOperators == {"and", "or", "not"}

TypeOf(v) == v[1]

\* _leaf on a value that is there.  A value of another type than the rule's
\* satisfies not_in only.
Compare(c, v) ==
  \/ c.operator \in {"equals", "in"} /\ v \in c.values
  \/ c.operator = "not_equals" /\ \A x \in c.values : TypeOf(v) = TypeOf(x) /\ v # x
  \/ c.operator = "not_in" /\ v \notin c.values
  \/ c.operator = "contains" /\ TypeOf(v) = "str" /\ v \in c.values
  \/ c.operator = "not_contains" /\ TypeOf(v) = "str" /\ v \notin c.values
  \/ c.operator = "gte" /\ TypeOf(v) = "int" /\ \A x \in c.values : v[2] >= x[2]
  \/ c.operator = "lt" /\ TypeOf(v) = "int" /\ \A x \in c.values : v[2] < x[2]

Leaf(event, c) ==
  LET missing == event[c.field] = None IN
    [missing |-> missing,
     matched |-> CASE c.operator = "exists" -> ~missing
                   [] c.operator = "not_exists" -> missing
                   [] OTHER -> ~missing /\ Compare(c, event[c.field])]

\* Mutant: the complement, whether the field is there or not.
Complement(child) == ~child.matched
\* A "not" does not match because a field of its child is missing.
Negation(child) == ~child.matched /\ ~child.missing

IsGroup(c) == c.operator \in BooleanOperators
Children(c) == {c.children[i] : i \in DOMAIN c.children}

\* match_event on the results of the children.
Combined(operator, results) ==
  [missing |-> \E r \in results : r.missing,
   matched |-> CASE operator = "and" -> \A r \in results : r.matched
                 [] operator = "or" -> \E r \in results : r.matched
                 [] OTHER -> \A r \in results : Negation(r)]

\* match_event: whether a condition matches the event, and whether a field that
\* it names is missing.
Evaluation(event) ==
  LET result[c \in Conditions] ==
        IF IsGroup(c) THEN Combined(c.operator, {result[d] : d \in Children(c)})
        ELSE Leaf(event, c) IN
    result

\* A leaf needs no walk through a tree.
Matches(event, c) ==
  IF IsGroup(c) THEN Evaluation(event)[c].matched ELSE Leaf(event, c).matched

\* The operators of the leaves of a condition.
LeafOperators[c \in Conditions] ==
  IF IsGroup(c) THEN UNION {LeafOperators[d] : d \in Children(c)} ELSE {c.operator}

Depth[c \in Conditions] ==
  IF IsGroup(c) THEN 1 + Max({Depth[d] : d \in Children(c)}) ELSE 1

Predicates[c \in Conditions] ==
  IF IsGroup(c) THEN MapThenSumSet(LAMBDA i : Predicates[c.children[i]], DOMAIN c.children)
  ELSE 1

\* validate_shape: a group has children, and a "not" has one; trees are limited.
WellFormed(c) ==
  /\ Depth[c] \in 1 .. 8 /\ Predicates[c] <= 100
  /\ IF IsGroup(c) THEN /\ c.children # <<>> /\ Children(c) \subseteq Conditions
                        /\ c.operator = "not" => DOMAIN c.children = {1}
     ELSE c.field \in FieldNames

\* Conditions are trees, so that a walk into one ends.
ASSUME ConditionAssumption ==
  \A c \in Conditions : /\ WellFormed(c)
                        /\ IsGroup(c) => \A d \in Children(c) : Depth[d] < Depth[c]
=============================================================================
