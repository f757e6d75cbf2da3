------------------------ MODULE RuleEvaluation_proofs ------------------------
(***************************************************************************)
(* Proofs about RuleEvaluation, for every set of well-formed conditions,   *)
(* every rule parse_logic accepts, every window and any events, in         *)
(* whatever order they arrive.                                             *)
(*                                                                         *)
(* A condition is a tree: its evaluation is a function defined by what it  *)
(* is on the children (Recursion shows that there is one), and a property  *)
(* of it goes up the tree by a condition of least depth without it.        *)
(* What is found in a window is a matter of counting: of 2n - 1 events in  *)
(* two neighbouring tumbling windows, n are in one; the earliest n events  *)
(* are n (Ranks numbers them); and a chain that takes the earliest for     *)
(* every stage has its cursor no later than any events that fit            *)
(* (GreedyFinds), while what it takes fits itself (GreedyFits).            *)
(***************************************************************************)
EXTENDS RuleEvaluation, FiniteSetTheorems, SequenceTheorems, NaturalsInduction,
        WellFoundedInduction, TLAPS

\* Every set of natural numbers that has a member has a least one.
LEMMA LeastMember ==
  ASSUME NEW S, S \subseteq Nat, S # {}
  PROVE  \E x \in S : \A y \in S : x <= y
<1> DEFINE R == OpToRel(<, Nat)
<1>1. IsWellFoundedOn(R, Nat)
  BY NatLessThanWellFounded
<1>2. \A x, y \in Nat : <<x, y>> \in R <=> x < y
  BY DEF OpToRel
<1> HIDE DEF R
<1>3. PICK x \in S : \A y \in S : ~(<<y, x>> \in R)
  BY <1>1, WFMin
<1>4. ASSUME NEW y \in S PROVE x <= y
  <2>1. x \in Nat /\ y \in Nat /\ ~(y < x)
    BY <1>2, <1>3
  <2> QED BY <2>1
<1> QED BY <1>3, <1>4
-----------------------------------------------------------------------------
\* What a function gives for the members of a set.
Over(f, S) == {f[d] : d \in S}

\* There is a function whose value at each member comes from those at its kids.
Recursive(D, kids, V, step) ==
  \E f \in [D -> V] : \A c \in D : f[c] = step[c][Over(f, kids[c])]

\* A function on a set of trees is defined by what it is on the children of each.
LEMMA Recursion ==
  ASSUME NEW D, NEW N \in Nat, NEW rank \in [D -> 0 .. N], NEW kids \in [D -> SUBSET D],
         \A c \in D : \A d \in kids[c] : rank[d] < rank[c],
         NEW V, NEW step \in [D -> [SUBSET V -> V]]
  PROVE  Recursive(D, kids, V, step)
<1> DEFINE Upto(n) == \E f \in [D -> V] : \A c \in D :
                        rank[c] < n => f[c] = step[c][Over(f, kids[c])]
           none == {n \in 0 .. N + 1 : ~Upto(n)}
<1>1. Upto(0)
  <2> DEFINE f == [c \in D |-> step[c][{}]]
  <2>1. f \in [D -> V]
    OBVIOUS
  <2>2. \A c \in D : ~(rank[c] < 0)
    OBVIOUS
  <2> HIDE DEF f
  <2> QED BY <2>1, <2>2
<1>2. ASSUME NEW n \in 0 .. N, Upto(n) PROVE Upto(n + 1)
  <2>1. PICK f \in [D -> V] : \A c \in D :
          rank[c] < n => f[c] = step[c][Over(f, kids[c])]
    BY <1>2
  <2> DEFINE next(c) == step[c][Over(f, kids[c])]
             g == [c \in D |-> next(c)]
  <2>2. \A c \in D : next(c) \in V
    <3> TAKE c \in D
    <3>1. Over(f, kids[c]) \in SUBSET V
      BY DEF Over
    <3>2. step[c] \in [SUBSET V -> V]
      OBVIOUS
    <3> HIDE DEF next
    <3>3. next(c) = step[c][Over(f, kids[c])]
      BY DEF next
    <3> QED BY <3>1, <3>2, <3>3
  <2>3. g \in [D -> V]
    BY <2>2
  <2>4. ASSUME NEW c \in D, rank[c] < n + 1 PROVE g[c] = step[c][Over(g, kids[c])]
    <3>1. ASSUME NEW d \in kids[c] PROVE g[d] = f[d]
      <4>1. d \in D /\ rank[d] < n
        <5>1. d \in D /\ rank[d] < rank[c] /\ rank[d] \in 0 .. N /\ rank[c] \in 0 .. N
          OBVIOUS
        <5> QED BY <5>1, <2>4
      <4> QED BY <2>1, <4>1
    <3>2. Over(g, kids[c]) = Over(f, kids[c])
      BY <3>1 DEF Over
    <3>3. g[c] = next(c)
      OBVIOUS
    <3> HIDE DEF g
    <3> QED BY <3>2, <3>3
  <2> HIDE DEF g
  <2> QED BY <2>3, <2>4
<1> HIDE DEF Upto
<1>3. none = {}
  <2> SUFFICES ASSUME none # {} PROVE FALSE
    OBVIOUS
  <2>1. none \subseteq Nat
    OBVIOUS
  <2>2. PICK m \in none : \A k \in none : m <= k
    BY <2>1, LeastMember
  <2>3. m \in 0 .. N + 1 /\ m # 0 /\ ~Upto(m)
    BY <1>1, <2>2
  <2>4. m - 1 \in 0 .. N /\ m - 1 \notin none
    BY <2>2, <2>3
  <2>5. Upto(m - 1)
    BY <2>4
  <2>6. Upto((m - 1) + 1)
    BY <1>2, <2>4, <2>5
  <2> QED BY <2>3, <2>6
<1>4. Upto(N + 1)
  BY <1>3
<1>5. PICK f \in [D -> V] : \A c \in D :
        rank[c] < N + 1 => f[c] = step[c][Over(f, kids[c])]
  BY <1>4 DEF Upto
<1>6. \A c \in D : rank[c] < N + 1
  OBVIOUS
<1> QED BY <1>5, <1>6 DEF Recursive

\* The conditions that a condition is made of are conditions, and less deep.
Rank == [c \in Conditions |-> Depth[c]]
Parts == [c \in Conditions |-> IF IsGroup(c) THEN Children(c) ELSE {}]

\* Each part of a condition is one, and of a smaller depth.
LEMMA PartsDescend ==
  /\ Parts \in [Conditions -> SUBSET Conditions]
  /\ Rank \in [Conditions -> 0 .. 8]
  /\ \A c \in Conditions : \A d \in Parts[c] : Rank[d] < Rank[c]
<1>1. \A c \in Conditions : /\ Parts[c] \in SUBSET Conditions
                            /\ \A d \in Parts[c] : Depth[d] < Depth[c]
                            /\ Depth[c] \in 0 .. 8
  BY ConditionAssumption DEF Parts, WellFormed
<1>2. Rank \in [Conditions -> 0 .. 8] /\ Parts \in [Conditions -> SUBSET Conditions]
  BY <1>1 DEF Parts, Rank
<1>3. \A c \in Conditions : \A d \in Parts[c] : d \in Conditions
  BY <1>1
<1> QED BY <1>1, <1>2, <1>3 DEF Rank

\* What a condition gives for an event.
Results == [missing : BOOLEAN, matched : BOOLEAN]

\* What a group makes of the results of its children, and a leaf of an event.
LEMMA ResultType ==
  ASSUME NEW c
  PROVE  /\ \A S : Combined(c.operator, S) \in Results
         /\ \A e : Leaf(e, c) \in Results
<1>1. \A S : Combined(c.operator, S) \in Results
  BY Zenon DEF Combined, Results, Negation
<1>2. \A e : Leaf(e, c) \in Results
  BY DEF Leaf, Results
<1> QED BY <1>1, <1>2

\* The result of an event on every condition, from those on its children.
LEMMA EvaluationIs ==
  ASSUME NEW e
  PROVE  /\ Evaluation(e) \in [Conditions -> Results]
         /\ \A c \in Conditions :
              Evaluation(e)[c] = IF IsGroup(c)
                                 THEN Combined(c.operator, {Evaluation(e)[d] : d \in Children(c)})
                                 ELSE Leaf(e, c)
         /\ \A c \in Conditions : Matches(e, c) = Evaluation(e)[c].matched
<1> DEFINE body(f, c) == IF IsGroup(c) THEN Combined(c.operator, {f[d] : d \in Children(c)})
                         ELSE Leaf(e, c)
           step == [c \in Conditions |-> [S \in SUBSET Results |->
                      IF IsGroup(c) THEN Combined(c.operator, S) ELSE Leaf(e, c)]]
<1>1. step \in [Conditions -> [SUBSET Results -> Results]]
  BY ResultType
<1>2. PICK f \in [Conditions -> Results] : \A c \in Conditions :
        f[c] = step[c][{f[d] : d \in Parts[c]}]
  <2> HIDE DEF step
  <2>1. 8 \in Nat
    OBVIOUS
  <2>2. Recursive(Conditions, Parts, Results, step)
    BY <1>1, <2>1, PartsDescend, Recursion
  <2> QED BY <2>2 DEF Over, Recursive, Recursive
<1>3. \A c \in Conditions : f[c] = body(f, c)
  <2> TAKE c \in Conditions
  <2>1. {f[d] : d \in Parts[c]} \in SUBSET Results
    BY <1>2, PartsDescend
  <2>2. f[c] = IF IsGroup(c) THEN Combined(c.operator, {f[d] : d \in Parts[c]}) ELSE Leaf(e, c)
    BY <1>2, <2>1
  <2>3. IsGroup(c) => Parts[c] = Children(c)
    BY DEF Parts
  <2> QED BY <2>2, <2>3
<1> HIDE DEF body
<1>4. f = [c \in Conditions |-> body(f, c)]
  BY <1>2, <1>3
<1>5. Evaluation(e) = CHOOSE g : g = [c \in Conditions |-> body(g, c)]
  BY Zenon DEF Evaluation, body
<1>6. Evaluation(e) = [c \in Conditions |-> body(Evaluation(e), c)]
  BY <1>4, <1>5, Zenon
<1>7. \A c \in Conditions : Evaluation(e)[c] = body(Evaluation(e), c)
  BY <1>6, Zenon
<1>8. \A c \in Conditions : body(Evaluation(e), c) \in Results
  BY ResultType DEF body
<1>9. Evaluation(e) \in [Conditions -> Results]
  BY <1>6, <1>8
<1>10. \A c \in Conditions : Matches(e, c) = Evaluation(e)[c].matched
  BY <1>7 DEF Matches, body
<1> QED BY <1>7, <1>9, <1>10 DEF body

\* The operators of the leaves of a group are those of its children.
LEMMA LeafOperatorsAre ==
  \A c \in Conditions :
    LeafOperators[c] = IF IsGroup(c) THEN UNION {LeafOperators[d] : d \in Children(c)}
                       ELSE {c.operator}
<1> DEFINE body(f, c) == IF IsGroup(c) THEN (UNION {f[d] : d \in Children(c)}) ELSE {c.operator}
           V == SUBSET {c.operator : c \in Conditions}
           step == [c \in Conditions |-> [S \in SUBSET V |->
                      IF IsGroup(c) THEN UNION S ELSE {c.operator}]]
<1>1. step \in [Conditions -> [SUBSET V -> V]]
  OBVIOUS
<1>2. PICK f \in [Conditions -> V] : \A c \in Conditions :
        f[c] = step[c][{f[d] : d \in Parts[c]}]
  <2> HIDE DEF step, V
  <2>1. 8 \in Nat
    OBVIOUS
  <2>2. Recursive(Conditions, Parts, V, step)
    BY <1>1, <2>1, PartsDescend, Recursion
  <2> QED BY <2>2 DEF Over, Recursive, Recursive
<1>3. \A c \in Conditions : f[c] = body(f, c)
  <2> TAKE c \in Conditions
  <2>1. {f[d] : d \in Parts[c]} \in SUBSET V
    <3> HIDE DEF V
    <3> QED BY <1>2, PartsDescend
  <2> HIDE DEF V
  <2>2. f[c] = IF IsGroup(c) THEN UNION {f[d] : d \in Parts[c]} ELSE {c.operator}
    BY <1>2, <2>1
  <2>3. IsGroup(c) => Parts[c] = Children(c)
    BY DEF Parts
  <2> QED BY <2>2, <2>3
<1> HIDE DEF body
<1>4. f = [c \in Conditions |-> body(f, c)]
  <2> HIDE DEF V
  <2> QED BY <1>2, <1>3
<1>5. LeafOperators = CHOOSE g : g = [c \in Conditions |-> body(g, c)]
  BY Zenon DEF LeafOperators, body
<1>6. LeafOperators = [c \in Conditions |-> body(LeafOperators, c)]
  BY <1>4, <1>5, Zenon
<1>7. \A c \in Conditions : LeafOperators[c] = body(LeafOperators, c)
  BY <1>6, Zenon
<1> QED BY <1>7 DEF body

\* What may change in a result when a missing field is given a value: a match
\* stays one, nothing more is missing, and where nothing was, nothing changes.
Refines(r, s) == /\ r.matched => s.matched
                 /\ s.missing => r.missing
                 /\ ~r.missing /\ s.matched => r.matched

\* A group refines what its children do.
LEMMA GroupRefines ==
  ASSUME NEW K, NEW g, NEW h, \A d \in K : Refines(g[d], h[d]), NEW operator \in BooleanOperators
  PROVE  Refines(Combined(operator, {g[d] : d \in K}), Combined(operator, {h[d] : d \in K}))
<1> DEFINE r == Combined(operator, {g[d] : d \in K})
           s == Combined(operator, {h[d] : d \in K})
<1>1. /\ r.missing <=> \E d \in K : g[d].missing
      /\ s.missing <=> \E d \in K : h[d].missing
  BY DEF Combined
<1>2. /\ \A d \in K : g[d].matched => h[d].matched
      /\ \A d \in K : h[d].missing => g[d].missing
      /\ \A d \in K : ~g[d].missing /\ h[d].matched => g[d].matched
  BY DEF Refines
<1>3. CASE operator = "and"
  <2>1. /\ r.matched <=> \A d \in K : g[d].matched
        /\ s.matched <=> \A d \in K : h[d].matched
    BY <1>3 DEF Combined
  <2> HIDE DEF r, s
  <2>2. /\ r.matched => s.matched
        /\ s.missing => r.missing
        /\ ~r.missing /\ s.matched => r.matched
    BY <1>1, <1>2, <2>1, Zenon
  <2> QED BY <2>2 DEF Refines, r, s
<1>4. CASE operator = "or"
  <2>1. /\ r.matched <=> \E d \in K : g[d].matched
        /\ s.matched <=> \E d \in K : h[d].matched
    BY <1>4 DEF Combined
  <2> HIDE DEF r, s
  <2>2. /\ r.matched => s.matched
        /\ s.missing => r.missing
        /\ ~r.missing /\ s.matched => r.matched
    BY <1>1, <1>2, <2>1, Zenon
  <2> QED BY <2>2 DEF Refines, r, s
<1>5. CASE operator = "not"
  <2>1. /\ r.matched <=> \A d \in K : ~g[d].matched /\ ~g[d].missing
        /\ s.matched <=> \A d \in K : ~h[d].matched /\ ~h[d].missing
    BY <1>5 DEF Combined, Negation
  <2> HIDE DEF r, s
  <2>2. /\ r.matched => s.matched
        /\ s.missing => r.missing
        /\ ~r.missing /\ s.matched => r.matched
    BY <1>1, <1>2, <2>1, Zenon
  <2> QED BY <2>2 DEF Refines, r, s
<1> QED BY <1>3, <1>4, <1>5 DEF BooleanOperators

\* A leaf other than not_exists does so, whatever field it names.
LEMMA LeafRefines ==
  ASSUME NEW e, NEW f \in FieldNames, NEW v, FieldNames \subseteq DOMAIN e, e[f] = None,
         NEW c, c.field \in FieldNames, c.operator # "not_exists"
  PROVE  Refines(Leaf(e, c), Leaf([e EXCEPT ![f] = v], c))
<1> DEFINE e2 == [e EXCEPT ![f] = v]
<1>1. CASE c.field = f
  <2>1. /\ Leaf(e, c).missing
        /\ ~Leaf(e, c).matched
    BY <1>1 DEF Leaf
  <2> QED BY <2>1 DEF Refines
<1>2. CASE c.field # f
  <2>1. e2[c.field] = e[c.field]
    BY <1>2
  <2>2. Leaf(e2, c) = Leaf(e, c)
    <3> HIDE DEF e2
    <3> QED BY <2>1 DEF Leaf
  <2> QED BY <2>2 DEF Refines
<1> QED BY <1>1, <1>2

\* So does every condition without not_exists.
LEMMA EvaluationRefines ==
  ASSUME NEW e, NEW f \in FieldNames, NEW v, FieldNames \subseteq DOMAIN e, e[f] = None
  PROVE  \A c \in Conditions : "not_exists" \notin LeafOperators[c] =>
           Refines(Evaluation(e)[c], Evaluation([e EXCEPT ![f] = v])[c])
<1> DEFINE e2 == [e EXCEPT ![f] = v]
           Holds(c) == "not_exists" \notin LeafOperators[c] =>
                         Refines(Evaluation(e)[c], Evaluation(e2)[c])
           not == {n \in 0 .. 8 : \E c \in Conditions : Rank[c] = n /\ ~Holds(c)}
<1>1. ASSUME NEW c \in Conditions, \A d \in Parts[c] : Holds(d) PROVE Holds(c)
  <2> SUFFICES ASSUME "not_exists" \notin LeafOperators[c]
               PROVE  Refines(Evaluation(e)[c], Evaluation(e2)[c])
    OBVIOUS
  <2>1. CASE IsGroup(c)
    <3>1. \A d \in Children(c) : "not_exists" \notin LeafOperators[d]
      <4>1. LeafOperators[c] = UNION {LeafOperators[d] : d \in Children(c)}
        BY <2>1, LeafOperatorsAre
      <4> QED BY <4>1
    <3>2. \A d \in Children(c) : Refines(Evaluation(e)[d], Evaluation(e2)[d])
      BY <1>1, <2>1, <3>1 DEF Parts
    <3>3. /\ Evaluation(e)[c] = Combined(c.operator, {Evaluation(e)[d] : d \in Children(c)})
          /\ Evaluation(e2)[c] = Combined(c.operator, {Evaluation(e2)[d] : d \in Children(c)})
      BY <2>1, EvaluationIs
    <3>4. c.operator \in BooleanOperators
      BY <2>1 DEF IsGroup
    <3> DEFINE g == Evaluation(e)
               h == Evaluation(e2)
    <3>5. Refines(Combined(c.operator, {g[d] : d \in Children(c)}),
                  Combined(c.operator, {h[d] : d \in Children(c)}))
      <4>1. \A d \in Children(c) : Refines(g[d], h[d])
        BY <3>2
      <4> HIDE DEF g, h
      <4> QED BY <3>4, <4>1, GroupRefines
    <3> QED BY <3>3, <3>5
  <2>2. CASE ~IsGroup(c)
    <3>1. c.operator # "not_exists" /\ c.field \in FieldNames
      BY <2>2, LeafOperatorsAre, ConditionAssumption DEF WellFormed
    <3>2. Evaluation(e)[c] = Leaf(e, c) /\ Evaluation(e2)[c] = Leaf(e2, c)
      BY <2>2, EvaluationIs
    <3> QED BY <3>1, <3>2, LeafRefines
  <2> QED BY <2>1, <2>2
<1> HIDE DEF Holds
<1>2. ASSUME not # {} PROVE FALSE
  <2>1. not \subseteq Nat
    OBVIOUS
  <2>2. PICK n \in not : \A m \in not : n <= m
    BY <1>2, <2>1, LeastMember
  <2>3. PICK c \in Conditions : Rank[c] = n /\ ~Holds(c)
    BY <2>2
  <2>4. ASSUME NEW d \in Parts[c] PROVE Holds(d)
    <3>1. d \in Conditions /\ Rank[d] < n /\ Rank[d] \in 0 .. 8
      BY <2>3, PartsDescend
    <3>2. ~(n <= Rank[d])
      BY <2>2, <3>1
    <3>3. Rank[d] \notin not
      BY <2>2, <3>2
    <3> QED BY <3>1, <3>3
  <2> QED BY <1>1, <2>3, <2>4
<1>3. \A c \in Conditions : Holds(c)
  <2>1. \A c \in Conditions : Rank[c] \in 0 .. 8
    BY PartsDescend
  <2> QED BY <1>2, <2>1
<1> QED BY <1>3 DEF Holds
-----------------------------------------------------------------------------
\* Events are rows with a time, an id of their own and all fields.
Row(e) == /\ e.time \in Nat /\ e.id \in Nat
          /\ FieldNames \subseteq DOMAIN e
OwnIds(S) == \A e, f \in S : e.id = f.id => e = f
Rows(S) == IsFiniteSet(S) /\ (\A e \in S : Row(e)) /\ OwnIds(S)

\* The invariant: the rule was accepted, and the events are rows.
Stored == rule \in Rules /\ Rows(events)

\* At first nothing is stored.
LEMMA StoredInit == Init => Stored
BY FS_EmptySet DEF Init, Stored, Rows, OwnIds

\* An event that arrives is one more row with an id of its own; the rule stays.
LEMMA StoredStep == Stored /\ [Next]_vars => Stored'
<1> SUFFICES ASSUME Stored, [Next]_vars PROVE Stored'
  OBVIOUS
<1>1. CASE Next
  <2>1. Arrive
    BY <1>1 DEF Next
  <2>2. PICK id \in Ids \ {e.id : e \in events}, t \in Times :
          \E values \in [FieldNames -> UNION {Values(f) : f \in FieldNames}] :
            events' = events \cup {[f \in Keys |->
                        CASE f = "id" -> id [] f = "time" -> t [] OTHER -> values[f]]}
    BY <2>1, Zenon DEF Arrive
  <2>3. PICK values :
          events' = events \cup {[f \in Keys |->
                        CASE f = "id" -> id [] f = "time" -> t [] OTHER -> values[f]]}
    BY <2>2, Zenon
  <2> DEFINE new == [f \in Keys |->
                       CASE f = "id" -> id [] f = "time" -> t [] OTHER -> values[f]]
  <2>4. new.id = id /\ new.time = t /\ DOMAIN new = FieldNames \cup {"id", "time"}
    BY DEF Keys
  <2>5. events' = events \cup {new}
    BY <2>3
  <2> HIDE DEF new
  <2>6. Row(new)
    BY <2>4, BoundAssumption DEF Row
  <2>7. \A e \in events : e.id # new.id
    BY <2>2, <2>4
  <2>8. IsFiniteSet(events')
    BY <2>5, FS_AddElement DEF Stored, Rows
  <2>9. OwnIds(events')
    BY <2>5, <2>7 DEF Stored, Rows, OwnIds
  <2>10. rule' = rule
    BY <2>1 DEF Arrive
  <2> QED BY <2>5, <2>6, <2>8, <2>9, <2>10 DEF Stored, Rows
<1>2. CASE UNCHANGED vars
  BY <1>2 DEF Stored, vars
<1> QED BY <1>1, <1>2

\* What DetectionLogic has accepted.
LEMMA RuleShape ==
  ASSUME NEW r \in Rules
  PROVE  /\ r.rule_type = "single" => r.condition \in Conditions
         /\ r.rule_type = "threshold" => /\ r.condition \in Conditions
                                         /\ r.min_count \in Nat \ {0} /\ r.duration \in Nat \ {0}
         /\ r.rule_type = "sequence" =>
              /\ Len(r.stages) \in Nat \ {0} /\ r.span \in Nat \ {0}
              /\ \A i \in 1 .. Len(r.stages) : /\ r.stages[i].condition \in Conditions
                                              /\ r.stages[i].min_count \in Nat \ {0}
<1>1. WellShaped(r)
  BY RuleAssumption
<1>2. r.rule_type # "sequence" => r.condition \in Conditions
  BY <1>1 DEF WellShaped
<1>3. r.rule_type = "threshold" => r.min_count \in 1 .. 100 /\ r.duration \in 1 .. MaxWindowSeconds
  BY <1>1 DEF WellShaped
<1>4. r.rule_type = "sequence" =>
        /\ Len(r.stages) \in 1 .. 8 /\ r.span \in 1 .. MaxWindowSeconds
        /\ \A i \in 1 .. Len(r.stages) : /\ r.stages[i].condition \in Conditions
                                          /\ r.stages[i].min_count \in 1 .. 100
  BY <1>1 DEF WellShaped
<1>5. \A n, x : x \in 1 .. n => x \in Nat \ {0}
  OBVIOUS
<1>6. r.rule_type = "threshold" => r.min_count \in Nat \ {0} /\ r.duration \in Nat \ {0}
  BY <1>3, <1>5
<1>7. r.rule_type = "sequence" =>
        /\ Len(r.stages) \in Nat \ {0} /\ r.span \in Nat \ {0}
        /\ \A i \in 1 .. Len(r.stages) : /\ r.stages[i].condition \in Conditions
                                          /\ r.stages[i].min_count \in Nat \ {0}
  BY <1>4, <1>5
<1> QED BY <1>2, <1>6, <1>7

\* A condition without not_exists that matches an event with a missing field
\* would match whatever the field held (matcher.py: only not_exists asserts absence).
THEOREM AbsenceIsAsserted == Spec => []OnlyNotExistsAssertsAbsence
<1>1. Stored => OnlyNotExistsAssertsAbsence
  <2> SUFFICES ASSUME Stored, rule.rule_type = "single",
                      "not_exists" \notin LeafOperators[rule.condition],
                      NEW e \in events, NEW f \in FieldNames, e[f] = None,
                      Matches(e, rule.condition), NEW v \in Values(f)
               PROVE  Matches([e EXCEPT ![f] = v], rule.condition)
    BY DEF OnlyNotExistsAssertsAbsence
  <2>1. rule.condition \in Conditions
    BY RuleShape DEF Stored
  <2>2. FieldNames \subseteq DOMAIN e
    BY DEF Stored, Rows, Row
  <2>3. Refines(Evaluation(e)[rule.condition], Evaluation([e EXCEPT ![f] = v])[rule.condition])
    BY <2>1, <2>2, EvaluationRefines
  <2>4. Evaluation(e)[rule.condition].matched
    BY <2>1, EvaluationIs
  <2>5. Evaluation([e EXCEPT ![f] = v])[rule.condition].matched
    BY <2>3, <2>4 DEF Refines
  <2> QED BY <2>1, <2>5, EvaluationIs
<1> QED BY StoredInit, StoredStep, <1>1, PTL DEF Spec
-----------------------------------------------------------------------------
\* The values of a field in finitely many events are finitely many.
LEMMA ValuesFinite ==
  ASSUME NEW S, IsFiniteSet(S), NEW d
  PROVE  IsFiniteSet({FieldOf(e, d) : e \in S})
<1> DEFINE T == {FieldOf(e, d) : e \in S}
           f == [e \in S |-> FieldOf(e, d)]
<1>1. f \in Surjection(S, T)
  BY DEF Surjection
<1> HIDE DEF f, T
<1>2. IsFiniteSet(T)
  BY <1>1, FS_Surjection
<1> QED BY <1>2 DEF T

\* What min_count is compared with: finite, growing with the events, none for
\* none, and no more for all than for the two parts of them.
LEMMA CountIs ==
  ASSUME NEW S, IsFiniteSet(S)
  PROVE  /\ Count(S) \in Nat
         /\ \A T \in SUBSET S : Count(T) <= Count(S)
         /\ S = {} => Count(S) = 0
         /\ \A T \in SUBSET S : Count(S) <= Count(T) + Count(S \ T)
<1> DEFINE V(T) == {FieldOf(e, rule.distinct) : e \in T} \ {None}
<1>1. \A T \in SUBSET S : IsFiniteSet(T) /\ Cardinality(T) \in Nat /\ Cardinality(T) <= Cardinality(S)
  BY FS_Subset, FS_CardinalityType
<1>2. CASE rule.distinct = None
  <2>1. \A T : Count(T) = Cardinality(T)
    BY <1>2 DEF Count
  <2>2. \A T \in SUBSET S : Cardinality(S) = Cardinality(T) + Cardinality(S \ T)
    <3> TAKE T \in SUBSET S
    <3>1. /\ Cardinality(S \ T) = Cardinality(S) - Cardinality(S \cap T)
          /\ S \cap T = T
      BY FS_Difference
    <3> QED BY <1>1, <3>1
  <2>3. Cardinality(S) \in Nat /\ (S = {} => Cardinality(S) = 0)
    BY FS_CardinalityType, FS_EmptySet
  <2>4. \A T \in SUBSET S : Cardinality(T) \in Nat /\ Cardinality(S \ T) \in Nat
    BY <1>1
  <2> QED BY <1>1, <2>1, <2>2, <2>3, <2>4
<1>3. CASE rule.distinct # None
  <2>1. \A T : Count(T) = Cardinality(V(T))
    BY <1>3 DEF Count
  <2>2. \A T \in SUBSET S : IsFiniteSet(V(T)) /\ Cardinality(V(T)) \in Nat
    <3> TAKE T \in SUBSET S
    <3>1. IsFiniteSet({FieldOf(e, rule.distinct) : e \in T})
      BY <1>1, ValuesFinite
    <3>2. IsFiniteSet(V(T))
      BY <3>1, FS_Subset
    <3> QED BY <3>2, FS_CardinalityType
  <2>3. \A T \in SUBSET S : Cardinality(V(T)) <= Cardinality(V(S))
    <3> TAKE T \in SUBSET S
    <3>1. V(T) \in SUBSET V(S) /\ IsFiniteSet(V(S))
      BY <2>2
    <3> HIDE DEF V
    <3> QED BY <3>1, FS_Subset
  <2>4. S = {} => Cardinality(V(S)) = 0
    <3> SUFFICES ASSUME S = {} PROVE Cardinality(V(S)) = 0
      OBVIOUS
    <3>1. V(S) = {}
      OBVIOUS
    <3> QED BY <3>1, FS_EmptySet
  <2>5. \A T \in SUBSET S : Cardinality(V(S)) <= Cardinality(V(T)) + Cardinality(V(S \ T))
    <3> TAKE T \in SUBSET S
    <3>1. V(S) = V(T) \cup V(S \ T)
      OBVIOUS
    <3>2. /\ IsFiniteSet(V(T)) /\ Cardinality(V(T)) \in Nat
          /\ IsFiniteSet(V(S \ T)) /\ Cardinality(V(S \ T)) \in Nat
      <4>1. S \ T \in SUBSET S
        OBVIOUS
      <4> HIDE DEF V
      <4> QED BY <2>2, <4>1
    <3> HIDE DEF V
    <3> DEFINE both == V(T) \cap V(S \ T)
    <3>3. Cardinality(both) \in Nat
      <4>1. IsFiniteSet(both)
        BY <3>2, FS_Intersection
      <4> QED BY <4>1, FS_CardinalityType
    <3>4. Cardinality(V(S)) = Cardinality(V(T)) + Cardinality(V(S \ T)) - Cardinality(both)
      BY <3>1, <3>2, FS_Union
    <3> HIDE DEF both
    <3> QED BY <3>2, <3>3, <3>4
  <2> HIDE DEF V
  <2> QED BY <2>1, <2>2, <2>3, <2>4, <2>5
<1> QED BY <1>2, <1>3

\* A time lies in the tumbling window that its quotient numbers.
LEMMA Quotient ==
  ASSUME NEW a \in Nat, NEW d \in Nat \ {0}
  PROVE  /\ a \div d \in Nat
         /\ d * (a \div d) <= a
         /\ a < d * (a \div d + 1)
<1>1. d > 0
  OBVIOUS
<1>2. a \div d \in Int /\ a \div d >= 0
  BY <1>1
<1>3. d * (a \div d) <= a
  BY <1>1
<1>4. a < d * (a \div d + 1)
  BY <1>1
<1> QED BY <1>2, <1>3, <1>4

\* Times less than a duration apart are in one tumbling window or in two
\* neighbouring ones.
LEMMA Neighbours ==
  ASSUME NEW a \in Nat, NEW b \in Nat, NEW d \in Nat \ {0}, b - a < d
  PROVE  b \div d <= a \div d + 1
<1> DEFINE p == a \div d
           q == b \div d
<1>1. p \in Nat /\ q \in Nat /\ a < d * (p + 1) /\ d * q <= b
  BY Quotient
<1> HIDE DEF p, q
<1>2. d * q < d * (p + 1) + d
  <2> DEFINE x == d * (p + 1)
             y == d * q
  <2>1. x \in Int /\ y \in Int
    BY <1>1
  <2>2. a < x /\ y <= b
    BY <1>1
  <2> HIDE DEF x, y
  <2>3. y < x + d
    BY <2>1, <2>2
  <2> QED BY <2>3 DEF x, y
<1>3. d * q < d * (p + 2)
  BY <1>1, <1>2
<1>4. q < p + 2
  BY <1>1, <1>3
<1> QED BY <1>1, <1>4 DEF p, q

\* What a run looks at is some of what is stored in its window.
LEMMA CandidatesAre ==
  ASSUME NEW S, Rows(S), NEW w \in Windows
  PROVE  /\ Candidates(w, S) \subseteq InWindow(w, S) /\ InWindow(w, S) \subseteq S
         /\ Rows(Candidates(w, S)) /\ Rows(InWindow(w, S))
         /\ \A e \in InWindow(w, S) : e.time - w[1] \in Nat
<1>1. Candidates(w, S) \subseteq InWindow(w, S) /\ InWindow(w, S) \subseteq S
  BY DEF Candidates, Earliest, InWindow
<1>2. \A T \in SUBSET S : Rows(T)
  BY FS_Subset DEF Rows, OwnIds
<1>3. \A e \in InWindow(w, S) : e.time - w[1] \in Nat
  <2> TAKE e \in InWindow(w, S)
  <2>1. e.time \in Nat /\ w[1] \in Nat /\ w[1] <= e.time
    BY BoundAssumption DEF InWindow, Rows, Row
  <2> QED BY <2>1
<1> QED BY <1>1, <1>2, <1>3

\* The number of the tumbling window an event is in.
Slot(w, e) == (e.time - w[1]) \div rule.duration

\* The same number is the same start.
LEMMA SameSlot ==
  ASSUME NEW w, NEW e, NEW f, Slot(w, e) = Slot(w, f)
  PROVE  BucketStart(w, e) = BucketStart(w, f)
BY DEF Slot, BucketStart

\* Of 2n - 1 matching events within the duration, n are in one tumbling window.
LEMMA BurstFound ==
  ASSUME Stored, Bursting, NEW w \in Windows, NEW S \in SUBSET Candidates(w, events),
         \A e, f \in S : e.time - f.time < rule.duration,
         \A e \in S : Matches(e, rule.condition) /\ HasKeys(e, rule.group_by),
         \A e, f \in S : KeyOf(e, rule.group_by) = KeyOf(f, rule.group_by),
         Count(S) >= 2 * rule.min_count - 1
  PROVE  \E B \in Bursts(w, Candidates(w, events)) : B \cap S # {}
<1> DEFINE C == Candidates(w, events)
           n == rule.min_count
           bucket(e) == {f \in Grouped(C) : /\ BucketStart(w, f) = BucketStart(w, e)
                                            /\ KeyOf(f, rule.group_by) = KeyOf(e, rule.group_by)}
<1>1. n \in Nat \ {0} /\ rule.duration \in Nat \ {0}
  BY RuleShape DEF Stored, Bursting
<1>2. Rows(C) /\ \A e \in C : e.time - w[1] \in Nat
  BY CandidatesAre DEF Stored
<1>3. IsFiniteSet(S) /\ S \subseteq Grouped(C)
  BY <1>2, FS_Subset DEF Rows, Grouped
<1>4. \A e, f \in S : Slot(w, e) \in Nat /\ Slot(w, e) <= Slot(w, f) + 1
  <2> TAKE e, f \in S
  <2> DEFINE a == f.time - w[1]
             b == e.time - w[1]
  <2>1. a \in Nat /\ b \in Nat
    BY <1>2
  <2>2. b - a < rule.duration
    <3>1. e.time \in Nat /\ f.time \in Nat /\ w[1] \in Nat
      BY <1>2, BoundAssumption DEF Rows, Row
    <3>2. e.time - f.time < rule.duration
      OBVIOUS
    <3> QED BY <1>1, <3>1, <3>2
  <2> HIDE DEF a, b
  <2>3. b \div rule.duration <= a \div rule.duration + 1 /\ b \div rule.duration \in Nat
    BY <1>1, <2>1, <2>2, Neighbours, Quotient
  <2> QED BY <2>3 DEF Slot, a, b
<1>5. \A T \in SUBSET S : \A e \in T :
        (\A f \in T : Slot(w, f) = Slot(w, e)) /\ Count(T) >= n =>
          \E B \in Bursts(w, C) : B \cap S # {}
  <2> SUFFICES ASSUME NEW T \in SUBSET S, NEW e \in T,
                      \A f \in T : Slot(w, f) = Slot(w, e), Count(T) >= n
               PROVE  bucket(e) \in Bursts(w, C) /\ bucket(e) \cap S # {}
    BY Zenon
  <2>1. T \subseteq bucket(e)
    BY <1>3, SameSlot
  <2>2. IsFiniteSet(bucket(e))
    BY <1>2, FS_Subset DEF Rows, Grouped
  <2>3. Count(bucket(e)) \in Nat /\ Count(T) <= Count(bucket(e))
    <3> HIDE DEF bucket
    <3> QED BY <2>1, <2>2, CountIs
  <2>4. Count(T) \in Nat
    <3>1. IsFiniteSet(T)
      BY <1>3, FS_Subset
    <3> QED BY <3>1, CountIs
  <2>5. Enough(bucket(e))
    <3> HIDE DEF bucket
    <3> QED BY <1>1, <2>3, <2>4 DEF Enough
  <2>6. e \in Grouped(C)
    BY <1>3
  <2>7. bucket(e) \in Bursts(w, C)
    BY <2>5, <2>6 DEF Bursts
  <2> QED BY <2>1, <2>7
<1>6. S # {}
  <2>1. Count(S) \in Nat /\ (S = {} => Count(S) = 0)
    BY <1>3, CountIs
  <2> QED BY <1>1, <2>1
<1>7. PICK e \in S : \A f \in S : Slot(w, e) <= Slot(w, f)
  <2> DEFINE Q == {Slot(w, f) : f \in S}
  <2>1. Q \subseteq Nat /\ Q # {}
    BY <1>4, <1>6
  <2>2. PICK q \in Q : \A r \in Q : q <= r
    <3> HIDE DEF Q
    <3> QED BY <2>1, LeastMember
  <2> QED BY <2>2
<1> DEFINE T == {f \in S : Slot(w, f) = Slot(w, e)}
           U == S \ T
<1>8. \A f \in U : Slot(w, f) = Slot(w, e) + 1
  <2> TAKE f \in U
  <2>1. /\ Slot(w, f) \in Nat /\ Slot(w, e) \in Nat /\ Slot(w, e) <= Slot(w, f)
        /\ Slot(w, f) <= Slot(w, e) + 1 /\ Slot(w, f) # Slot(w, e)
    BY <1>4, <1>7
  <2> QED BY <2>1
<1>9. /\ Count(S) <= Count(T) + Count(U)
      /\ Count(T) \in Nat /\ Count(U) \in Nat /\ Count(S) \in Nat
      /\ U = {} => Count(U) = 0
  <2>1. T \in SUBSET S /\ U \in SUBSET S
    OBVIOUS
  <2>2. IsFiniteSet(T) /\ IsFiniteSet(U)
    BY <1>3, <2>1, FS_Subset
  <2> QED BY <1>3, <2>1, <2>2, CountIs
<1>10. Count(T) >= n \/ Count(U) >= n
  <2> HIDE DEF T, U
  <2> QED BY <1>1, <1>9
<1>11. CASE Count(T) >= n
  <2>1. e \in T /\ T \in SUBSET S /\ \A f \in T : Slot(w, f) = Slot(w, e)
    OBVIOUS
  <2> HIDE DEF T
  <2> QED BY <1>5, <1>11, <2>1
<1>12. CASE Count(U) >= n
  <2>1. U # {}
    <3> HIDE DEF U
    <3> QED BY <1>1, <1>9, <1>12
  <2>2. PICK f \in U : TRUE
    BY <2>1
  <2>3. U \in SUBSET S /\ \A g \in U : Slot(w, g) = Slot(w, f)
    BY <1>8
  <2> HIDE DEF U
  <2> QED BY <1>5, <1>12, <2>2, <2>3
<1> QED BY <1>10, <1>11, <1>12

\* Wherever the borders of the tumbling windows fall, a burst of 2n - 1 matching
\* events of one group within the duration raises an alert with some of them as
\* evidence, and evidence is of events that have their keys (evaluate_threshold).
THEOREM BurstsAreFound == Spec => []BurstIsFound
<1>1. Stored => BurstIsFound
  <2> SUFFICES ASSUME Stored, Bursting, NEW w \in Windows
               PROVE  /\ \A S \in SUBSET Candidates(w, events) :
                           /\ \A e, f \in S : e.time - f.time < rule.duration
                           /\ \A e \in S : Matches(e, rule.condition) /\ HasKeys(e, rule.group_by)
                           /\ \A e, f \in S : KeyOf(e, rule.group_by) = KeyOf(f, rule.group_by)
                           /\ Count(S) >= 2 * rule.min_count - 1
                           => \E B \in Bursts(w, Candidates(w, events)) : B \cap S # {}
                      /\ \A B \in Bursts(w, Candidates(w, events)) :
                           \A e \in B : HasKeys(e, rule.group_by)
    BY DEF BurstIsFound
  <2>1. \A B \in Bursts(w, Candidates(w, events)) : \A e \in B : HasKeys(e, rule.group_by)
    BY DEF Bursts, Grouped
  <2> QED BY <2>1, BurstFound, Zenon
<1> QED BY StoredInit, StoredStep, <1>1, PTL DEF Spec
-----------------------------------------------------------------------------
\* The start of the window of length d that t is in, when they start from a.
Floor(a, t, d) == a + ((t - a) \div d) * d

\* A window has its length.
LEMMA FloorIs ==
  ASSUME NEW a \in Nat, NEW t \in Nat, NEW d \in Nat \ {0}, a <= t
  PROVE  \E q \in Nat : /\ Floor(a, t, d) = a + d * q
                        /\ a + d * q <= t
                        /\ t < a + d * q + d
<1> DEFINE q == (t - a) \div d
<1>1. q \in Nat /\ d * q <= t - a /\ t - a < d * (q + 1)
  BY Quotient
<1>2. Floor(a, t, d) = a + q * d
  BY DEF Floor
<1> HIDE DEF q
<1>3. q * d = d * q /\ d * (q + 1) = d * q + d
  BY <1>1
<1> DEFINE x == d * q
<1>4. x \in Nat
  BY <1>1
<1>5. Floor(a, t, d) = a + x /\ x <= t - a /\ t - a < x + d
  BY <1>1, <1>2, <1>3
<1> HIDE DEF x
<1>6. Floor(a, t, d) = a + x /\ a + x <= t /\ t < a + x + d
  BY <1>4, <1>5
<1> QED BY <1>1, <1>6 DEF x

\* A multiple of d below another is below it by d.
LEMMA Multiples ==
  ASSUME NEW d \in Nat \ {0}, NEW p \in Nat, NEW q \in Nat, d * p < d * q
  PROVE  d * p + d <= d * q
<1>1. p < q
  OBVIOUS
<1>2. p + 1 <= q
  BY <1>1
<1>3. d * (p + 1) <= d * q
  BY <1>2
<1> QED BY <1>3

\* There is one window that a time is in.
LEMMA FloorOne ==
  ASSUME NEW a \in Nat, NEW t \in Nat, NEW d \in Nat \ {0}, a <= t,
         NEW q \in Nat, a + d * q <= t, t < a + d * q + d
  PROVE  Floor(a, t, d) = a + d * q
<1>1. PICK p \in Nat : Floor(a, t, d) = a + d * p /\ a + d * p <= t /\ t < a + d * p + d
  BY FloorIs
<1>2. ~(d * p < d * q)
  <2> SUFFICES ASSUME d * p < d * q PROVE FALSE
    OBVIOUS
  <2>1. d * p + d <= d * q
    BY Multiples
  <2> DEFINE x == d * p
             y == d * q
  <2>2. x \in Nat /\ y \in Nat /\ x + d <= y /\ a + y <= t /\ t < a + x + d
    BY <1>1, <2>1
  <2> HIDE DEF x, y
  <2> QED BY <2>2
<1>3. ~(d * q < d * p)
  <2> SUFFICES ASSUME d * q < d * p PROVE FALSE
    OBVIOUS
  <2>1. d * q + d <= d * p
    BY Multiples
  <2> DEFINE x == d * p
             y == d * q
  <2>2. x \in Nat /\ y \in Nat /\ y + d <= x /\ a + x <= t /\ t < a + y + d
    BY <1>1, <2>1
  <2> HIDE DEF x, y
  <2> QED BY <2>2
<1>4. d * p = d * q
  <2> DEFINE x == d * p
             y == d * q
  <2>1. x \in Nat /\ y \in Nat /\ ~(x < y) /\ ~(y < x)
    BY <1>2, <1>3
  <2> HIDE DEF x, y
  <2>2. x = y
    BY <2>1
  <2> QED BY <2>2 DEF x, y
<1> QED BY <1>1, <1>4

\* Windows that start a whole number of durations apart have their borders in common.
LEMMA FloorsAgree ==
  ASSUME NEW a \in Nat, NEW b \in Nat, NEW t \in Nat, NEW d \in Nat \ {0},
         NEW k \in Nat, b = a + d * k, b <= t
  PROVE  Floor(a, t, d) = Floor(b, t, d)
<1>1. PICK q \in Nat : Floor(b, t, d) = b + d * q /\ b + d * q <= t /\ t < b + d * q + d
  BY FloorIs
<1>2. d * (k + q) = d * k + d * q /\ k + q \in Nat
  OBVIOUS
<1> DEFINE x == d * k
           y == d * q
           z == d * (k + q)
<1>3. x \in Nat /\ y \in Nat /\ z = x + y /\ b = a + x /\ b + y <= t /\ t < b + y + d
  BY <1>1, <1>2
<1>4. a <= t /\ a + z <= t /\ t < a + z + d /\ a + z = b + y
  <2> HIDE DEF x, y, z
  <2> QED BY <1>3
<1>5. Floor(a, t, d) = a + z
  BY <1>2, <1>4, FloorOne
<1> QED BY <1>1, <1>4, <1>5

\* What is in the window of a time does not cross a border that the time does not.
LEMMA FloorBelow ==
  ASSUME NEW a \in Nat, NEW t \in Nat, NEW u \in Nat, NEW d \in Nat \ {0}, a <= t, a <= u,
         Floor(a, t, d) = Floor(a, u, d), NEW m \in Nat
  PROVE  t < a + d * m <=> u < a + d * m
<1>1. \A x, y \in Nat : a <= x /\ a <= y /\ Floor(a, x, d) = Floor(a, y, d) /\ x < a + d * m
                          => y < a + d * m
  <2> TAKE x, y \in Nat
  <2> SUFFICES ASSUME a <= x, a <= y, Floor(a, x, d) = Floor(a, y, d), x < a + d * m
               PROVE  y < a + d * m
    OBVIOUS
  <2>1. PICK p \in Nat : Floor(a, x, d) = a + d * p /\ a + d * p <= x /\ x < a + d * p + d
    BY FloorIs
  <2>2. PICK q \in Nat : Floor(a, y, d) = a + d * q /\ a + d * q <= y /\ y < a + d * q + d
    BY FloorIs
  <2> DEFINE P == d * p
             Q == d * q
             M == d * m
  <2>3. P \in Nat /\ Q \in Nat /\ M \in Nat
    BY <2>1, <2>2
  <2>4. P = Q /\ a + P <= x /\ y < a + Q + d /\ x < a + M
    <3>1. a + P = a + Q
      BY <2>1, <2>2
    <3>2. a + P <= x /\ y < a + Q + d /\ x < a + M
      BY <2>1, <2>2
    <3> HIDE DEF P, Q, M
    <3> QED BY <2>3, <3>1, <3>2
  <2>5. P < M
    <3> HIDE DEF P, Q, M
    <3> QED BY <2>3, <2>4
  <2>6. P + d <= M
    BY <2>5, Multiples
  <2> HIDE DEF P, Q, M
  <2> QED BY <2>3, <2>4, <2>6 DEF M
<1> QED BY <1>1

\* The n earliest of no more than n events are all of them.
LEMMA EarliestAll ==
  ASSUME NEW S, Rows(S), NEW n \in Nat, Cardinality(S) <= n
  PROVE  Earliest(S, n) = S
<1>1. ASSUME NEW e \in S PROVE Cardinality({f \in S : Before(f, e)}) < n
  <2> DEFINE P == {f \in S : Before(f, e)}
  <2>1. ~Before(e, e)
    BY DEF Before, Rows, Row
  <2>2. P \in SUBSET (S \ {e})
    BY <2>1
  <2>3. IsFiniteSet(S \ {e}) /\ Cardinality(S \ {e}) = Cardinality(S) - 1
    BY FS_RemoveElement DEF Rows
  <2>4. IsFiniteSet(P) /\ Cardinality(P) <= Cardinality(S \ {e})
    <3> HIDE DEF P
    <3> QED BY <2>2, <2>3, FS_Subset
  <2>5. Cardinality(P) \in Nat /\ Cardinality(S) \in Nat
    <3> HIDE DEF P
    <3> QED BY <2>4, FS_CardinalityType DEF Rows
  <2> HIDE DEF P
  <2>6. Cardinality(P) < n
    BY <2>3, <2>4, <2>5
  <2> QED BY <2>6 DEF P
<1> QED BY <1>1 DEF Earliest

\* A run that reaches no limit looks at all that is in its window.
LEMMA Untruncated ==
  ASSUME NEW S, Rows(S), NEW w \in Windows, ~Truncated(w, S)
  PROVE  Candidates(w, S) = InWindow(w, S)
<1>1. Rows(InWindow(w, S)) /\ Cardinality(InWindow(w, S)) \in Nat /\ MaxScanned \in Nat
  BY CandidatesAre, FS_CardinalityType, BoundAssumption DEF Rows
<1>2. Cardinality(InWindow(w, S)) <= MaxScanned
  BY <1>1 DEF Truncated
<1> QED BY <1>1, <1>2, EarliestAll DEF Candidates

\* The matching events of one tumbling window and group.
Bucket(w, C, e) == {f \in Grouped(C) : /\ BucketStart(w, f) = BucketStart(w, e)
                                       /\ KeyOf(f, rule.group_by) = KeyOf(e, rule.group_by)}

\* A firing has as evidence the whole bucket of any of its events.
LEMMA BurstsAre ==
  ASSUME NEW w, NEW C, NEW B
  PROVE  B \in Bursts(w, C) <=> \E e \in Grouped(C) : B = Bucket(w, C, e) /\ e \in B /\ Enough(B)
<1>1. Bursts(w, C) = {S \in {Bucket(w, C, e) : e \in Grouped(C)} : Enough(S)}
  BY DEF Bursts, Bucket
<1>2. \A e \in Grouped(C) : e \in Bucket(w, C, e)
  BY DEF Bucket
<1> QED BY <1>1, <1>2

\* Where two runs overlap in whole tumbling windows, the matching events of each
\* such window are the same for both.
LEMMA SameBuckets ==
  ASSUME Stored, Bursting, NEW v \in Windows, NEW w \in Windows, v[1] <= w[1],
         (w[1] - v[1]) % rule.duration = 0, NEW end \in Nat, end <= v[2], end <= w[2], w[1] < end
  PROVE  LET last == Floor(w[1], end, rule.duration) IN
           \A e \in events : w[1] <= e.time /\ e.time < last =>
             /\ e \in Grouped(InWindow(v, events)) <=> e \in Grouped(InWindow(w, events))
             /\ Bucket(v, InWindow(v, events), e) = Bucket(w, InWindow(w, events), e)
<1> DEFINE d == rule.duration
           a == v[1]
           b == w[1]
           last == Floor(b, end, d)
<1>1. /\ d \in Nat \ {0} /\ a \in Nat /\ b \in Nat /\ \A e \in events : e.time \in Nat
  BY RuleShape, BoundAssumption DEF Stored, Bursting, Rows, Row
<1>2. PICK k \in Nat : b = a + d * k
  <2> DEFINE c == b - a
  <2>1. c \in Nat /\ c % d = 0
    BY <1>1
  <2>2. d \in Nat /\ d > 0
    BY <1>1
  <2> HIDE DEF a, b, c, d
  <2>3. PICK k \in Nat : c = d * k
    BY <2>1, <2>2
  <2> DEFINE x == d * k
  <2>4. b - a = x /\ x \in Nat /\ a \in Nat /\ b \in Nat
    BY <1>1, <2>2, <2>3 DEF c
  <2> HIDE DEF x
  <2>5. b = a + x
    BY <2>4
  <2> QED BY <2>5 DEF x
<1>3. PICK m \in Nat : last = b + d * m /\ last <= end
  <2>1. b <= end
    BY <1>1
  <2> HIDE DEF a, b, d
  <2>2. PICK q \in Nat : Floor(b, end, d) = b + d * q /\ b + d * q <= end /\ end < b + d * q + d
    BY <1>1, <2>1, FloorIs, Zenon
  <2> QED BY <2>2
<1>4. \A e : BucketStart(v, e) = Floor(a, e.time, d) /\ BucketStart(w, e) = Floor(b, e.time, d)
  BY DEF BucketStart, Floor
<1>5. SUFFICES ASSUME NEW e \in events, b <= e.time, e.time < last
      PROVE /\ e \in Grouped(InWindow(v, events)) <=> e \in Grouped(InWindow(w, events))
            /\ Bucket(v, InWindow(v, events), e) = Bucket(w, InWindow(w, events), e)
  BY Zenon
<1> HIDE DEF d, last
<1>6. \A f \in events : b <= f.time => BucketStart(v, f) = BucketStart(w, f)
  <2> TAKE f \in events
  <2> SUFFICES ASSUME b <= f.time PROVE Floor(a, f.time, d) = Floor(b, f.time, d)
    BY <1>4
  <2> HIDE DEF a, b
  <2>1. a \in Nat /\ b \in Nat /\ d \in Nat \ {0} /\ f.time \in Nat
    BY <1>1
  <2>2. k \in Nat /\ b = a + d * k
    BY <1>2
  <2> DEFINE t == f.time
  <2>3. t \in Nat /\ b <= t
    BY <2>1
  <2> HIDE DEF t
  <2>4. Floor(a, t, d) = Floor(b, t, d)
    BY <2>1, <2>2, <2>3, FloorsAgree, SMTT(30)
  <2> QED BY <2>4 DEF t
<1>7. \A f \in events : b <= f.time /\ f.time < last =>
        /\ f \in InWindow(v, events) /\ f \in InWindow(w, events)
  <2> TAKE f \in events
  <2> SUFFICES ASSUME b <= f.time, f.time < last PROVE f \in InWindow(v, events) /\ f \in InWindow(w, events)
    OBVIOUS
  <2>1. v[2] \in Nat /\ w[2] \in Nat /\ last \in Nat
    BY <1>1, <1>3, BoundAssumption
  <2>2. a <= f.time /\ f.time < v[2] /\ f.time < w[2]
    <3>1. f.time \in Nat /\ a \in Nat /\ b \in Nat /\ a <= b
      BY <1>1
    <3> HIDE DEF a, b
    <3> QED BY <1>3, <2>1, <3>1
  <2> QED BY <2>2 DEF InWindow
<1>8. \A f \in events : b <= f.time /\ BucketStart(w, f) = BucketStart(w, e) => f.time < last
  <2> TAKE f \in events
  <2> SUFFICES ASSUME b <= f.time, BucketStart(w, f) = BucketStart(w, e) PROVE f.time < last
    OBVIOUS
  <2>1. Floor(b, f.time, d) = Floor(b, e.time, d)
    BY <1>4
  <2>2. f.time \in Nat /\ e.time \in Nat
    BY <1>1
  <2> HIDE DEF b
  <2>3. e.time < b + d * m <=> f.time < b + d * m
    BY <1>1, <1>5, <2>1, <2>2, FloorBelow
  <2> QED BY <1>3, <1>5, <2>3
<1>9. \A f \in events : a <= f.time /\ BucketStart(v, f) = BucketStart(v, e) => b <= f.time
  <2> TAKE f \in events
  <2> SUFFICES ASSUME a <= f.time, BucketStart(v, f) = BucketStart(v, e) PROVE b <= f.time
    OBVIOUS
  <2>1. Floor(a, f.time, d) = Floor(a, e.time, d)
    BY <1>4
  <2>2. f.time \in Nat /\ e.time \in Nat /\ a <= e.time
    BY <1>1, <1>5
  <2> HIDE DEF a, b
  <2>3. e.time < a + d * k <=> f.time < a + d * k
    BY <1>1, <2>1, <2>2, FloorBelow
  <2>4. ~(e.time < b)
    BY <1>1, <1>5, <2>2
  <2> QED BY <1>1, <1>2, <2>2, <2>3, <2>4
<1>10. e \in InWindow(v, events) /\ e \in InWindow(w, events) /\ BucketStart(v, e) = BucketStart(w, e)
  BY <1>5, <1>6, <1>7
<1>11. \A f : f \in InWindow(v, events) /\ BucketStart(v, f) = BucketStart(v, e) <=>
              f \in InWindow(w, events) /\ BucketStart(w, f) = BucketStart(w, e)
  <2> TAKE f
  <2>1. ASSUME f \in InWindow(v, events), BucketStart(v, f) = BucketStart(v, e)
        PROVE  f \in InWindow(w, events) /\ BucketStart(w, f) = BucketStart(w, e)
    <3>1. f \in events /\ a <= f.time
      BY <2>1 DEF InWindow
    <3>2. b <= f.time
      BY <1>9, <2>1, <3>1
    <3>3. BucketStart(w, f) = BucketStart(w, e)
      BY <1>6, <1>10, <2>1, <3>1, <3>2
    <3> QED BY <1>7, <1>8, <3>1, <3>2, <3>3
  <2>2. ASSUME f \in InWindow(w, events), BucketStart(w, f) = BucketStart(w, e)
        PROVE  f \in InWindow(v, events) /\ BucketStart(v, f) = BucketStart(v, e)
    <3>1. f \in events /\ b <= f.time
      BY <2>2 DEF InWindow
    <3>2. f.time < last
      BY <1>8, <2>2, <3>1
    <3> QED BY <1>6, <1>7, <1>10, <2>2, <3>1, <3>2
  <2> QED BY <2>1, <2>2
<1>12. e \in Grouped(InWindow(v, events)) <=> e \in Grouped(InWindow(w, events))
  BY <1>10 DEF Grouped
<1>13. Bucket(v, InWindow(v, events), e) = Bucket(w, InWindow(w, events), e)
  BY <1>11 DEF Bucket, Grouped
<1> QED BY <1>12, <1>13

\* Two runs whose windows start a whole number of durations apart raise the same
\* alerts for the tumbling windows that are whole in both (evaluate_threshold).
THEOREM RunsAgree == Spec => []AlignedRunsAgree
<1>1. Stored => AlignedRunsAgree
  <2> SUFFICES ASSUME Stored, Bursting,
                      NEW v \in Windows, ~Truncated(v, events),
                      NEW w \in Windows, ~Truncated(w, events),
                      v[1] <= w[1], (w[1] - v[1]) % rule.duration = 0
               PROVE  LET end == IF v[2] < w[2] THEN v[2] ELSE w[2]
                          last == w[1] + ((end - w[1]) \div rule.duration) * rule.duration
                          common(found) == {B \in found : \A e \in B : w[1] <= e.time /\ e.time < last} IN
                        w[1] < end => common(Bursts(v, Candidates(v, events)))
                                        = common(Bursts(w, Candidates(w, events)))
    BY Zenon DEF AlignedRunsAgree
  <2> DEFINE end == IF v[2] < w[2] THEN v[2] ELSE w[2]
             last == Floor(w[1], end, rule.duration)
             Cv == InWindow(v, events)
             Cw == InWindow(w, events)
             common(found) == {B \in found : \A e \in B : w[1] <= e.time /\ e.time < last}
  <2>1. Candidates(v, events) = Cv /\ Candidates(w, events) = Cw
    BY Untruncated DEF Stored
  <2>2. end \in Nat /\ end <= v[2] /\ end <= w[2]
    BY BoundAssumption
  <2>3. SUFFICES ASSUME w[1] < end PROVE common(Bursts(v, Cv)) = common(Bursts(w, Cw))
    BY <2>1, Zenon DEF Floor
  <2> HIDE DEF end
  <2>4. \A e \in events : w[1] <= e.time /\ e.time < last =>
          /\ e \in Grouped(Cv) <=> e \in Grouped(Cw)
          /\ Bucket(v, Cv, e) = Bucket(w, Cw, e)
    BY <2>2, <2>3, SameBuckets
  <2>5. Cv \subseteq events /\ Cw \subseteq events
    BY DEF InWindow
  <2>6. Grouped(Cv) \subseteq Cv /\ Grouped(Cw) \subseteq Cw
    BY DEF Grouped
  <2> HIDE DEF Cv, Cw, last
  <2>7. \A B : B \in Bursts(v, Cv) /\ (\A e \in B : w[1] <= e.time /\ e.time < last)
           <=> B \in Bursts(w, Cw) /\ (\A e \in B : w[1] <= e.time /\ e.time < last)
    <3> TAKE B
    <3>1. ASSUME B \in Bursts(v, Cv), \A e \in B : w[1] <= e.time /\ e.time < last
          PROVE  B \in Bursts(w, Cw)
      <4>1. PICK e \in Grouped(Cv) : B = Bucket(v, Cv, e) /\ e \in B /\ Enough(B)
        BY <3>1, BurstsAre
      <4>2. e \in events /\ w[1] <= e.time /\ e.time < last
        BY <2>5, <2>6, <3>1, <4>1
      <4>3. e \in Grouped(Cw) /\ B = Bucket(w, Cw, e)
        BY <2>4, <4>1, <4>2
      <4> QED BY <4>1, <4>3, BurstsAre
    <3>2. ASSUME B \in Bursts(w, Cw), \A e \in B : w[1] <= e.time /\ e.time < last
          PROVE  B \in Bursts(v, Cv)
      <4>1. PICK e \in Grouped(Cw) : B = Bucket(w, Cw, e) /\ e \in B /\ Enough(B)
        BY <3>2, BurstsAre
      <4>2. e \in events /\ w[1] <= e.time /\ e.time < last
        BY <2>5, <2>6, <3>2, <4>1
      <4>3. e \in Grouped(Cv) /\ B = Bucket(v, Cv, e)
        BY <2>4, <4>1, <4>2
      <4> QED BY <4>1, <4>3, BurstsAre
    <3> QED BY <3>1, <3>2
  <2> QED BY <2>7
<1> QED BY StoredInit, StoredStep, <1>1, PTL DEF Spec
-----------------------------------------------------------------------------
\* Time and then id put events in an order.
LEMMA Order ==
  ASSUME NEW S, Rows(S)
  PROVE  /\ \A e \in S : ~Before(e, e)
         /\ \A e, f \in S : e = f \/ Before(e, f) \/ Before(f, e)
         /\ \A e, f, g \in S : Before(e, f) /\ Before(f, g) => Before(e, g)
<1>1. \A e \in S : e.time \in Nat /\ e.id \in Nat
  BY DEF Rows, Row
<1>2. \A e, f \in S : e.id = f.id => e = f
  BY DEF Rows, OwnIds
<1> QED BY <1>1, <1>2 DEF Before

\* The events before one.
Earlier(S, e) == {f \in S : Before(f, e)}

\* How many are before it numbers the events of a set from nought on.
LEMMA Ranks ==
  ASSUME NEW S, Rows(S)
  PROVE  /\ \A e \in S : IsFiniteSet(Earlier(S, e)) /\ Cardinality(Earlier(S, e)) \in Nat
         /\ Cardinality(S) \in Nat
         /\ [e \in S |-> Cardinality(Earlier(S, e))] \in Bijection(S, 0 .. Cardinality(S) - 1)
<1> DEFINE r == [e \in S |-> Cardinality(Earlier(S, e))]
           N == Cardinality(S)
<1>1. IsFiniteSet(S) /\ N \in Nat
  BY FS_CardinalityType DEF Rows
<1>2. \A e \in S : IsFiniteSet(Earlier(S, e)) /\ Cardinality(Earlier(S, e)) \in Nat
  <2> TAKE e \in S
  <2>1. Earlier(S, e) \in SUBSET S
    BY DEF Earlier
  <2>2. IsFiniteSet(Earlier(S, e))
    BY <1>1, <2>1, FS_Subset
  <2> QED BY <2>2, FS_CardinalityType
<1>3. \A e \in S : Cardinality(Earlier(S, e)) < N
  <2> TAKE e \in S
  <2>1. Earlier(S, e) \in SUBSET (S \ {e})
    BY Order DEF Earlier
  <2>2. IsFiniteSet(S \ {e}) /\ Cardinality(S \ {e}) = N - 1
    BY <1>1, FS_RemoveElement
  <2>3. Cardinality(Earlier(S, e)) <= N - 1
    BY <2>1, <2>2, FS_Subset
  <2> QED BY <1>1, <1>2, <2>3
<1>4. \A e, g \in S : Before(e, g) => Cardinality(Earlier(S, e)) < Cardinality(Earlier(S, g))
  <2> TAKE e, g \in S
  <2> SUFFICES ASSUME Before(e, g) PROVE Cardinality(Earlier(S, e)) < Cardinality(Earlier(S, g))
    OBVIOUS
  <2>1. Earlier(S, e) \in SUBSET (Earlier(S, g) \ {e}) /\ e \in Earlier(S, g)
    BY Order DEF Earlier
  <2>2. /\ IsFiniteSet(Earlier(S, g) \ {e})
        /\ Cardinality(Earlier(S, g) \ {e}) = Cardinality(Earlier(S, g)) - 1
    BY <1>2, <2>1, FS_RemoveElement
  <2>3. Cardinality(Earlier(S, e)) <= Cardinality(Earlier(S, g)) - 1
    BY <2>1, <2>2, FS_Subset
  <2> QED BY <1>2, <2>3
<1>5. r \in [S -> 0 .. N - 1]
  BY <1>1, <1>2, <1>3
<1>6. \A e, g \in S : r[e] = r[g] => e = g
  <2> TAKE e, g \in S
  <2>1. e = g \/ Before(e, g) \/ Before(g, e)
    BY Order
  <2>2. r[e] = Cardinality(Earlier(S, e)) /\ r[g] = Cardinality(Earlier(S, g))
    OBVIOUS
  <2>3. Cardinality(Earlier(S, e)) \in Nat /\ Cardinality(Earlier(S, g)) \in Nat
    BY <1>2
  <2> QED BY <1>4, <2>1, <2>2, <2>3
<1>7. r \in Injection(S, 0 .. N - 1)
  <2> HIDE DEF r
  <2> QED BY <1>5, <1>6 DEF Injection, IsInjective
<1>8. IsFiniteSet(0 .. N - 1) /\ Cardinality(0 .. N - 1) = N
  <2>1. 0 \in Int /\ N - 1 \in Int
    BY <1>1
  <2>2. /\ IsFiniteSet(0 .. N - 1)
        /\ Cardinality(0 .. N - 1) = IF 0 > N - 1 THEN 0 ELSE (N - 1) - 0 + 1
    BY <2>1, FS_Interval
  <2> QED BY <1>1, <2>2
<1>9. r \in Surjection(S, 0 .. N - 1)
  <2> HIDE DEF r
  <2> QED BY <1>7, <1>8, FS_Injection
<1> QED BY <1>1, <1>2, <1>7, <1>9 DEF Bijection

\* The n earliest are n, when there are as many.
LEMMA EarliestCount ==
  ASSUME NEW S, Rows(S), NEW n \in Nat, n <= Cardinality(S)
  PROVE  Cardinality(Earliest(S, n)) = n
<1> DEFINE r == [e \in S |-> Cardinality(Earlier(S, e))]
           T == Earliest(S, n)
           q == [e \in T |-> r[e]]
<1>1. r \in Bijection(S, 0 .. Cardinality(S) - 1) /\ Cardinality(S) \in Nat
  BY Ranks
<1>2. T = {e \in S : r[e] < n}
  BY DEF Earliest, Earlier
<1>3. IsFiniteSet(T) /\ T \subseteq S
  BY <1>2, FS_Subset DEF Rows
<1> HIDE DEF r, T
<1>4. r \in Injection(S, 0 .. Cardinality(S) - 1) /\ r \in Surjection(S, 0 .. Cardinality(S) - 1)
  BY <1>1 DEF Bijection
<1>5. /\ \A e \in S : r[e] \in 0 .. Cardinality(S) - 1
      /\ \A e, g \in S : r[e] = r[g] => e = g
  BY <1>4 DEF Injection, IsInjective
<1>6. \A i \in 0 .. Cardinality(S) - 1 : \E e \in S : r[e] = i
  BY <1>4 DEF Surjection
<1>7. q \in [T -> 0 .. n - 1]
  <2>1. \A e \in T : r[e] \in 0 .. n - 1
    BY <1>1, <1>2, <1>5
  <2> QED BY <2>1
<1>8. q \in Injection(T, 0 .. n - 1)
  <2>1. \A e, g \in T : q[e] = q[g] => e = g
    BY <1>3, <1>5
  <2> HIDE DEF q
  <2> QED BY <1>7, <2>1 DEF Injection, IsInjective
<1>9. q \in Surjection(T, 0 .. n - 1)
  <2>1. \A i \in 0 .. n - 1 : \E e \in T : q[e] = i
    <3> TAKE i \in 0 .. n - 1
    <3>1. i \in 0 .. Cardinality(S) - 1 /\ i < n
      BY <1>1
    <3>2. PICK e \in S : r[e] = i
      BY <1>6, <3>1
    <3>3. e \in T
      BY <1>2, <3>1, <3>2
    <3> QED BY <3>2, <3>3
  <2> HIDE DEF q
  <2> QED BY <1>7, <2>1 DEF Surjection
<1>10. IsFiniteSet(0 .. n - 1) /\ Cardinality(0 .. n - 1) = n
  <2>1. 0 \in Int /\ n - 1 \in Int
    OBVIOUS
  <2>2. /\ IsFiniteSet(0 .. n - 1)
        /\ Cardinality(0 .. n - 1) = IF 0 > n - 1 THEN 0 ELSE (n - 1) - 0 + 1
    BY <2>1, FS_Interval
  <2> QED BY <2>2
<1>11. Cardinality(T) = n
  <2> HIDE DEF q
  <2> QED BY <1>8, <1>9, <1>10, FS_Injection
<1> QED BY <1>11 DEF T

\* None of them is later than all of n others.
LEMMA EarliestFirst ==
  ASSUME NEW S, Rows(S), NEW T \in SUBSET S, NEW e \in Earliest(S, Cardinality(T))
  PROVE  \E t \in T : e = t \/ Before(e, t)
<1> SUFFICES ASSUME \A t \in T : e # t /\ ~Before(e, t) PROVE FALSE
  OBVIOUS
<1>1. e \in S /\ Cardinality(Earlier(S, e)) < Cardinality(T)
  BY DEF Earliest, Earlier
<1>2. T \in SUBSET Earlier(S, e)
  BY <1>1, Order DEF Earlier
<1>3. IsFiniteSet(Earlier(S, e)) /\ Cardinality(Earlier(S, e)) \in Nat
  BY <1>1, Ranks
<1>4. Cardinality(T) <= Cardinality(Earlier(S, e)) /\ IsFiniteSet(T)
  BY <1>2, <1>3, FS_Subset
<1>5. Cardinality(T) \in Nat
  BY <1>4, FS_CardinalityType
<1> QED BY <1>1, <1>3, <1>4, <1>5

\* Of some events there is a latest.
LEMMA Latest ==
  ASSUME NEW S, Rows(S), S # {}
  PROVE  LatestOf(S) \in S /\ \A f \in S : f = LatestOf(S) \/ Before(f, LatestOf(S))
<1> DEFINE r == [e \in S |-> Cardinality(Earlier(S, e))]
<1>1. r \in Surjection(S, 0 .. Cardinality(S) - 1) /\ Cardinality(S) \in Nat /\ IsFiniteSet(S)
  BY Ranks DEF Bijection, Rows
<1>2. Cardinality(S) # 0
  BY <1>1, FS_EmptySet
<1>3. Cardinality(S) - 1 \in 0 .. Cardinality(S) - 1
  BY <1>1, <1>2
<1>4. PICK e \in S : r[e] = Cardinality(S) - 1
  <2> HIDE DEF r
  <2> QED BY <1>1, <1>3 DEF Surjection
<1>5. IsFiniteSet(S \ {e}) /\ Cardinality(S \ {e}) = Cardinality(S) - 1
  BY <1>1, FS_RemoveElement
<1>6. Earlier(S, e) \in SUBSET (S \ {e})
  BY Order DEF Earlier
<1>7. Earlier(S, e) = S \ {e}
  <2>1. Cardinality(Earlier(S, e)) = Cardinality(S \ {e})
    BY <1>4, <1>5
  <2> QED BY <1>5, <1>6, <2>1, FS_Subset
<1>8. \A f \in S : f = e \/ Before(f, e)
  BY <1>7 DEF Earlier
<1> QED BY <1>8, Zenon DEF LatestOf
-----------------------------------------------------------------------------
\* A chain before its first stage.
Begin(first) == [found |-> TRUE, evidence |-> <<>>, cursor |-> first]
Steps == 1 .. Len(rule.stages)
\* What a stage takes, the event that the chain starts with aside.
Wanted(i) == IF i = 1 THEN rule.stages[1].min_count - 1 ELSE rule.stages[i].min_count
Chains(C) == [found : BOOLEAN, evidence : Seq(SUBSET C), cursor : C]

\* A stage takes events of the run, and leaves the cursor at the latest of them.
LEMMA TakeType ==
  ASSUME NEW C, Rows(C), NEW first \in C, NEW chain \in Chains(C), NEW n, NEW stage
  PROVE  Take(C, first, chain, n, stage) \in Chains(C)
<1> DEFINE taken == Earliest(Eligible(C, first, chain.cursor, stage), n)
           next == taken \cup {chain.cursor}
<1>1. taken \in SUBSET C /\ chain.cursor \in C
  BY DEF Earliest, Eligible, Chains
<1>2. LatestOf(next) \in C
  <2>1. next \in SUBSET C /\ next # {}
    BY <1>1
  <2>2. Rows(next)
    BY <2>1, FS_Subset DEF Rows, OwnIds
  <2> HIDE DEF next
  <2> QED BY <2>1, <2>2, Latest
<1>3. Take(C, first, chain, n, stage)
        = IF chain.found /\ Cardinality(taken) = n
          THEN [found |-> TRUE, evidence |-> Append(chain.evidence, taken), cursor |-> LatestOf(next)]
          ELSE [chain EXCEPT !.found = FALSE]
  BY DEF Take
<1> HIDE DEF taken, next
<1>4. Append(chain.evidence, taken) \in Seq(SUBSET C)
  BY <1>1 DEF Chains
<1>5. [found |-> TRUE, evidence |-> Append(chain.evidence, taken), cursor |-> LatestOf(next)] \in Chains(C)
  BY <1>2, <1>4 DEF Chains
<1>6. [chain EXCEPT !.found = FALSE] \in Chains(C)
  BY DEF Chains
<1> QED BY <1>3, <1>5, <1>6

\* The chain after each stage is what the stage makes of the one before.
LEMMA StagesAre ==
  ASSUME rule \in Rules, Chaining, NEW C, Rows(C), NEW first \in C
  PROVE  /\ Len(rule.stages) \in Steps
         /\ \A i \in Steps :
              /\ Wanted(i) \in Nat
              /\ Stages(C, first)[i] \in Chains(C)
              /\ Stages(C, first)[i] =
                   Take(C, first, IF i = 1 THEN Begin(first) ELSE Stages(C, first)[i - 1],
                        Wanted(i), rule.stages[i])
<1> DEFINE V == Chains(C)
           rank == [i \in Steps |-> i]
           kids == [i \in Steps |-> IF i = 1 THEN {} ELSE {i - 1}]
           before(S) == IF S = {} THEN Begin(first) ELSE CHOOSE x \in S : TRUE
           step == [i \in Steps |-> [S \in SUBSET V |->
                      Take(C, first, before(S), Wanted(i), rule.stages[i])]]
           body(f, i) == Take(C, first, IF i = 1 THEN Begin(first) ELSE f[i - 1],
                              Wanted(i), rule.stages[i])
<1>1. Len(rule.stages) \in Nat \ {0}
  BY RuleShape DEF Chaining
<1>2. Begin(first) \in V
  BY DEF Begin, Chains
<1>3. step \in [Steps -> [SUBSET V -> V]]
  <2>1. \A S \in SUBSET V : before(S) \in V
    BY <1>2
  <2> HIDE DEF before
  <2>2. \A i \in Steps : \A S \in SUBSET V : Take(C, first, before(S), Wanted(i), rule.stages[i]) \in V
    BY <2>1, TakeType
  <2> HIDE DEF V
  <2> QED BY <2>2
<1>4. /\ rank \in [Steps -> 0 .. Len(rule.stages)]
      /\ kids \in [Steps -> SUBSET Steps]
      /\ \A i \in Steps : \A j \in kids[i] : rank[j] < rank[i]
  BY <1>1 DEF Steps
<1>5. Recursive(Steps, kids, V, step)
  <2>1. Len(rule.stages) \in Nat
    BY <1>1
  <2> HIDE DEF rank, kids, V, step
  <2> QED BY <1>3, <1>4, <2>1, Recursion
<1>6. PICK f \in [Steps -> V] : \A i \in Steps : f[i] = step[i][Over(f, kids[i])]
  <2> HIDE DEF V, kids, step
  <2> QED BY <1>5 DEF Recursive
<1>7. \A i \in Steps : f[i] = body(f, i)
  <2> TAKE i \in Steps
  <2>1. CASE i = 1
    <3>1. Over(f, kids[i]) = {}
      BY <2>1 DEF Over
    <3>2. Over(f, kids[i]) \in SUBSET V /\ before(Over(f, kids[i])) = Begin(first)
      BY <3>1
    <3> HIDE DEF before, V
    <3> QED BY <1>6, <2>1, <3>2
  <2>2. CASE i # 1
    <3>1. i - 1 \in Steps
      BY <1>1, <2>2 DEF Steps
    <3> DEFINE S == Over(f, kids[i])
    <3>2. S = {f[i - 1]}
      <4>1. kids[i] = {i - 1}
        BY <2>2
      <4> HIDE DEF kids
      <4> QED BY <4>1 DEF Over
    <3> HIDE DEF S
    <3>3. S \in SUBSET V
      <4> HIDE DEF V
      <4> QED BY <1>6, <3>1, <3>2
    <3>4. before(S) = f[i - 1]
      BY <3>2
    <3>5. f[i] = step[i][S]
      <4> HIDE DEF V, step, kids
      <4> QED BY <1>6 DEF S
    <3> HIDE DEF before, V
    <3> QED BY <2>2, <3>3, <3>4, <3>5
  <2> QED BY <2>1, <2>2
<1>8. Stages(C, first) = CHOOSE g : g = [i \in Steps |-> body(g, i)]
  <2>1. \A g : \A i \in Steps :
          body(g, i) = LET stage == rule.stages[i] IN
                         IF i = 1 THEN Take(C, first, [found |-> TRUE, evidence |-> <<>>, cursor |-> first],
                                            stage.min_count - 1, stage)
                         ELSE Take(C, first, g[i - 1], stage.min_count, stage)
    BY DEF Begin, Wanted
  <2>2. \A g : [i \in Steps |-> body(g, i)]
               = [i \in Steps |->
                    LET stage == rule.stages[i] IN
                      IF i = 1 THEN Take(C, first, [found |-> TRUE, evidence |-> <<>>, cursor |-> first],
                                         stage.min_count - 1, stage)
                      ELSE Take(C, first, g[i - 1], stage.min_count, stage)]
    <3> HIDE DEF body
    <3> QED BY <2>1, Zenon
  <2> HIDE DEF body
  <2> QED BY <2>2, Zenon DEF Stages, Steps
<1> HIDE DEF body
<1>9. f = [i \in Steps |-> body(f, i)]
  <2> HIDE DEF V
  <2> QED BY <1>6, <1>7
<1>10. Stages(C, first) = [i \in Steps |-> body(Stages(C, first), i)]
  BY <1>8, <1>9, Zenon
<1>11. \A i \in Steps : Stages(C, first)[i] = body(Stages(C, first), i)
  BY <1>10, Zenon
<1>12. \A i \in Steps : Stages(C, first)[i] \in V
  <2> DEFINE g == Stages(C, first)
             bad == {i \in Steps : g[i] \notin V}
  <2> SUFFICES ASSUME bad # {} PROVE FALSE
    OBVIOUS
  <2>1. bad \subseteq Nat
    BY <1>1 DEF Steps
  <2>2. PICK i \in bad : \A j \in bad : i <= j
    <3> HIDE DEF bad
    <3> QED BY <2>1, LeastMember
  <2>3. i \in Steps /\ g[i] \notin V
    BY <2>2
  <2>4. CASE i = 1
    BY <1>2, <1>11, <2>3, <2>4, TakeType DEF body
  <2>5. CASE i # 1
    <3>1. i - 1 \in Steps /\ ~(i <= i - 1)
      BY <1>1, <2>3, <2>5 DEF Steps
    <3>2. g[i - 1] \in V
      BY <2>2, <3>1
    <3>3. g[i] = Take(C, first, g[i - 1], Wanted(i), rule.stages[i])
      BY <1>11, <2>3, <2>5 DEF body
    <3> HIDE DEF g
    <3> QED BY <2>3, <3>2, <3>3, TakeType
  <2> QED BY <2>4, <2>5
<1>13. \A i \in Steps : Wanted(i) \in Nat
  <2> TAKE i \in Steps
  <2>1. 1 \in 1 .. Len(rule.stages)
    BY <1>1
  <2>2. rule.stages[1].min_count \in Nat \ {0} /\ rule.stages[i].min_count \in Nat \ {0}
    BY <2>1, RuleShape DEF Chaining, Steps
  <2> QED BY <2>2 DEF Wanted
<1>14. Len(rule.stages) \in Steps
  BY <1>1 DEF Steps
<1> QED BY <1>11, <1>12, <1>13, <1>14 DEF body

\* A stage that finds its number adds them to the chain, in order after it.
LEMMA TakeIs ==
  ASSUME NEW C, Rows(C), NEW first \in C, NEW chain \in Chains(C), NEW n \in Nat, NEW stage
  PROVE  LET new == Take(C, first, chain, n, stage)
             all == Eligible(C, first, chain.cursor, stage)
             taken == Earliest(all, n) IN
           /\ new.found <=> chain.found /\ Cardinality(taken) = n
           /\ new.found => /\ new.evidence = Append(chain.evidence, taken)
                           /\ taken \in SUBSET all
                           /\ new.cursor \in taken \cup {chain.cursor}
                           /\ \A e \in taken \cup {chain.cursor} : e = new.cursor \/ Before(e, new.cursor)
<1> DEFINE new == Take(C, first, chain, n, stage)
           all == Eligible(C, first, chain.cursor, stage)
           taken == Earliest(all, n)
           next == taken \cup {chain.cursor}
<1>1. taken \in SUBSET all /\ all \in SUBSET C /\ chain.cursor \in C
  BY DEF Earliest, Eligible, Chains
<1>2. Rows(next) /\ next # {}
  <2>1. next \in SUBSET C
    BY <1>1
  <2> HIDE DEF all, taken
  <2> QED BY <2>1, FS_Subset DEF Rows, OwnIds
<1>3. LatestOf(next) \in next /\ \A e \in next : e = LatestOf(next) \/ Before(e, LatestOf(next))
  <2> HIDE DEF next
  <2> QED BY <1>2, Latest
<1>4. new = IF chain.found /\ Cardinality(taken) = n
            THEN [found |-> TRUE, evidence |-> Append(chain.evidence, taken), cursor |-> LatestOf(next)]
            ELSE [chain EXCEPT !.found = FALSE]
  BY DEF Take
<1>5. "found" \in DOMAIN chain
  BY DEF Chains
<1> HIDE DEF new, all, taken
<1>6. CASE chain.found /\ Cardinality(taken) = n
  <2>1. new = [found |-> TRUE, evidence |-> Append(chain.evidence, taken), cursor |-> LatestOf(next)]
    BY <1>4, <1>6
  <2> HIDE DEF next
  <2>2. new.found /\ new.evidence = Append(chain.evidence, taken) /\ new.cursor = LatestOf(next)
    BY <2>1
  <2>3. new.found <=> chain.found /\ Cardinality(taken) = n
    BY <1>6, <2>2
  <2> QED BY <1>1, <1>3, <2>2, <2>3 DEF new, all, taken, next
<1>7. CASE ~(chain.found /\ Cardinality(taken) = n)
  <2>1. new = [chain EXCEPT !.found = FALSE]
    BY <1>4, <1>7
  <2>2. new.found = FALSE
    BY <1>5, <2>1
  <2> QED BY <1>7, <2>2 DEF new, all, taken
<1> QED BY <1>6, <1>7

\* With enough events to choose from, a stage takes its number and goes no
\* further than it must.
LEMMA TakeFinds ==
  ASSUME NEW C, Rows(C), NEW first \in C, NEW chain \in Chains(C), chain.found, NEW stage,
         NEW T \in SUBSET Eligible(C, first, chain.cursor, stage)
  PROVE  LET new == Take(C, first, chain, Cardinality(T), stage) IN
           /\ new.found
           /\ \/ new.cursor = chain.cursor
              \/ \E t \in T : new.cursor = t \/ Before(new.cursor, t)
<1> DEFINE all == Eligible(C, first, chain.cursor, stage)
           n == Cardinality(T)
           new == Take(C, first, chain, n, stage)
           taken == Earliest(all, n)
<1>1. Rows(all)
  BY FS_Subset DEF Eligible, Rows, OwnIds
<1>2. n \in Nat /\ n <= Cardinality(all)
  <2>1. IsFiniteSet(T) /\ n <= Cardinality(all)
    BY <1>1, FS_Subset DEF Rows
  <2> QED BY <2>1, FS_CardinalityType
<1>3. Cardinality(taken) = n
  <2> HIDE DEF all, n
  <2> QED BY <1>1, <1>2, EarliestCount
<1>4. /\ new.found <=> chain.found /\ Cardinality(taken) = n
      /\ new.found => new.cursor \in taken \cup {chain.cursor}
  <2> HIDE DEF n
  <2> QED BY <1>2, TakeIs
<1>5. \A e \in taken : \E t \in T : e = t \/ Before(e, t)
  <2> HIDE DEF all
  <2> QED BY <1>1, EarliestFirst DEF all
<1> HIDE DEF new, taken
<1> QED BY <1>3, <1>4, <1>5 DEF new

\* Nothing that fits is missed: while some events fit, the chain is found, and
\* after each stage its cursor is no later than they are.
LEMMA GreedyFinds ==
  ASSUME rule \in Rules, Chaining, NEW C, Rows(C), NEW first \in C,
         NEW parts \in [Steps -> SUBSET C], Fits(first, parts)
  PROVE  \A i \in Steps :
           /\ Stages(C, first)[i].found
           /\ \E t \in parts[i] : Stages(C, first)[i].cursor = t \/ Before(Stages(C, first)[i].cursor, t)
<1> DEFINE ch == Stages(C, first)
           Good(i) == /\ ch[i].found
                      /\ \E t \in parts[i] : ch[i].cursor = t \/ Before(ch[i].cursor, t)
           bad == {i \in Steps : ~Good(i)}
<1>1. /\ Len(rule.stages) \in Nat \ {0} /\ Len(rule.stages) \in Steps
      /\ \A i \in Steps : rule.stages[i].min_count \in Nat \ {0}
  BY RuleShape, StagesAre DEF Chaining, Steps
<1>2. \A i \in Steps :
        /\ Wanted(i) \in Nat /\ ch[i] \in Chains(C)
        /\ ch[i] = Take(C, first, IF i = 1 THEN Begin(first) ELSE ch[i - 1], Wanted(i), rule.stages[i])
  BY StagesAre
<1>3. /\ \A i \in Steps : /\ Cardinality(parts[i]) = rule.stages[i].min_count
                          /\ \A e \in parts[i] : Matches(e, rule.stages[i].condition)
      /\ first \in parts[1]
      /\ \A i \in Steps : \A e \in parts[i] :
           /\ e = first \/ Before(first, e)
           /\ e.time - first.time <= rule.span
           /\ KeyOf(e, rule.shared) = KeyOf(first, rule.shared)
      /\ \A i \in Steps : i # 1 => \A e \in parts[i - 1], f \in parts[i] : Before(e, f)
  <2>1. \A i \in Steps : i # 1 => i - 1 \in 1 .. Len(rule.stages) - 1 /\ (i - 1) + 1 = i
    BY <1>1 DEF Steps
  <2>2. \A i \in 1 .. Len(rule.stages) - 1 : \A e \in parts[i], f \in parts[i + 1] : Before(e, f)
    BY DEF Fits
  <2>3. \A i \in Steps : i # 1 => \A e \in parts[i - 1], f \in parts[i] : Before(e, f)
    BY <2>1, <2>2
  <2> QED BY <2>3 DEF Fits, Steps
<1>4. \A i \in Steps : parts[i] \in SUBSET C /\ IsFiniteSet(parts[i]) /\ parts[i] # {}
  <2> TAKE i \in Steps
  <2>1. parts[i] \in SUBSET C /\ IsFiniteSet(parts[i])
    BY FS_Subset DEF Rows
  <2>2. Cardinality(parts[i]) # 0
    BY <1>1, <1>3
  <2> QED BY <2>1, <2>2, FS_EmptySet
<1> HIDE DEF ch
<1>5. 1 \in Steps => Good(1)
  <2> SUFFICES ASSUME 1 \in Steps PROVE Good(1)
    OBVIOUS
  <2> DEFINE T == parts[1] \ {first}
             chain == Begin(first)
  <2>1. chain \in Chains(C) /\ chain.found /\ chain.cursor = first
    BY DEF Begin, Chains
  <2>2. T \in SUBSET Eligible(C, first, first, rule.stages[1])
    BY <1>3, <1>4 DEF Eligible
  <2>3. Cardinality(T) = Wanted(1)
    <3>1. Cardinality(T) = Cardinality(parts[1]) - 1
      BY <1>3, <1>4, FS_RemoveElement
    <3> HIDE DEF T
    <3> QED BY <1>3, <3>1 DEF Wanted
  <2>4. ch[1] = Take(C, first, chain, Cardinality(T), rule.stages[1])
    BY <1>2, <2>3
  <2> HIDE DEF chain, T
  <2>5. /\ ch[1].found
        /\ ch[1].cursor = first \/ \E t \in T : ch[1].cursor = t \/ Before(ch[1].cursor, t)
    BY <2>1, <2>2, <2>4, TakeFinds
  <2> QED BY <1>3, <2>5 DEF T
<1>6. ASSUME NEW i \in Steps, i # 1, Good(i - 1) PROVE Good(i)
  <2> DEFINE T == parts[i]
             chain == ch[i - 1]
             c == chain.cursor
  <2>1. i - 1 \in Steps
    BY <1>1, <1>6 DEF Steps
  <2>2. chain \in Chains(C) /\ chain.found /\ c \in C
    BY <1>2, <1>6, <2>1 DEF Chains
  <2>3. PICK s \in parts[i - 1] : c = s \/ Before(c, s)
    BY <1>6
  <2>4. s \in C /\ T \in SUBSET C
    BY <1>4, <2>1
  <2> HIDE DEF c
  <2>5. \A e \in T : Before(c, e)
    <3> TAKE e \in T
    <3>1. Before(s, e) /\ e \in C
      BY <1>3, <1>6, <2>4
    <3> QED BY <2>2, <2>3, <2>4, <3>1, Order
  <2>6. T \in SUBSET Eligible(C, first, c, rule.stages[i])
    BY <1>3, <2>4, <2>5 DEF Eligible
  <2>7. Cardinality(T) = Wanted(i)
    BY <1>3, <1>6 DEF Wanted
  <2>8. ch[i] = Take(C, first, chain, Cardinality(T), rule.stages[i])
    BY <1>2, <1>6, <2>7
  <2> HIDE DEF chain, T
  <2>9. /\ ch[i].found
        /\ ch[i].cursor = c \/ \E t \in T : ch[i].cursor = t \/ Before(ch[i].cursor, t)
    BY <2>2, <2>6, <2>8, TakeFinds DEF c
  <2>10. \E t \in T : Before(c, t)
    BY <1>4, <2>5 DEF T
  <2> QED BY <2>9, <2>10 DEF T
<1> HIDE DEF Good
<1>7. ASSUME bad # {} PROVE FALSE
  <2>1. bad \subseteq Nat
    BY <1>1 DEF Steps
  <2>2. PICK i \in bad : \A j \in bad : i <= j
    <3> HIDE DEF bad
    <3> QED BY <1>7, <2>1, LeastMember
  <2>3. i \in Steps /\ ~Good(i) /\ i # 1
    BY <1>5, <2>2
  <2>4. i - 1 \in Steps /\ ~(i <= i - 1)
    BY <1>1, <2>3 DEF Steps
  <2>5. Good(i - 1)
    BY <2>2, <2>4
  <2> QED BY <1>6, <2>3, <2>5
<1> QED BY <1>7 DEF Good, ch

\* An event that a stage may take for a chain.
Apt(first, e, j) == /\ Before(first, e)
                    /\ e.time - first.time <= rule.span
                    /\ KeyOf(e, rule.shared) = KeyOf(first, rule.shared)
                    /\ Matches(e, rule.stages[j].condition)
\* What a chain has taken for its first i stages is what they ask for, and no
\* later than its cursor.
SoFar(first, chain, i) ==
  /\ Len(chain.evidence) = i
  /\ first = chain.cursor \/ Before(first, chain.cursor)
  /\ \A j \in 1 .. i : Cardinality(chain.evidence[j]) = Wanted(j)
  /\ \A j \in 1 .. i : \A e \in chain.evidence[j] :
       Apt(first, e, j) /\ (e = chain.cursor \/ Before(e, chain.cursor))
  /\ \A j \in 1 .. i : j < i =>
       \A e \in chain.evidence[j], f \in chain.evidence[j + 1] : Before(e, f)

\* A stage that finds its number keeps to that.
LEMMA TakeFits ==
  ASSUME NEW C, Rows(C), NEW first \in C, NEW chain \in Chains(C), NEW i \in Nat,
         Wanted(i + 1) \in Nat, SoFar(first, chain, i),
         Take(C, first, chain, Wanted(i + 1), rule.stages[i + 1]).found
  PROVE  chain.found /\ SoFar(first, Take(C, first, chain, Wanted(i + 1), rule.stages[i + 1]), i + 1)
<1> DEFINE n == Wanted(i + 1)
           stage == rule.stages[i + 1]
           new == Take(C, first, chain, n, stage)
           all == Eligible(C, first, chain.cursor, stage)
           taken == Earliest(all, n)
           old == chain.evidence
<1>1. new.found <=> chain.found /\ Cardinality(taken) = n
  BY TakeIs
<1>2. /\ new.evidence = Append(old, taken)
      /\ taken \in SUBSET all
      /\ new.cursor \in taken \cup {chain.cursor}
      /\ \A e \in taken \cup {chain.cursor} : e = new.cursor \/ Before(e, new.cursor)
  BY TakeIs
<1>3. chain.found /\ Cardinality(taken) = n
  BY <1>1
<1>4. chain.cursor \in C /\ old \in Seq(SUBSET C)
  BY DEF Chains
<1>5. all \in SUBSET C /\ taken \in SUBSET C /\ new.cursor \in C
  BY <1>2, <1>4 DEF Eligible
<1>6. \A e, f, g \in C : Before(e, f) /\ Before(f, g) => Before(e, g)
  BY Order
<1>7. /\ Len(old) = i /\ (first = chain.cursor \/ Before(first, chain.cursor))
      /\ \A j \in 1 .. i : Cardinality(old[j]) = Wanted(j)
      /\ \A j \in 1 .. i : \A e \in old[j] :
           Apt(first, e, j) /\ (e = chain.cursor \/ Before(e, chain.cursor))
      /\ \A j \in 1 .. i : j < i => \A e \in old[j], f \in old[j + 1] : Before(e, f)
  BY DEF SoFar
<1>8. \A e \in taken : Before(chain.cursor, e)
  BY <1>2 DEF Eligible
<1>9. \A e \in taken : Apt(first, e, i + 1)
  <2> TAKE e \in taken
  <2>1. e \in C /\ Before(chain.cursor, e)
    BY <1>5, <1>8
  <2>2. Before(first, e)
    BY <1>4, <1>6, <1>7, <2>1
  <2>3. /\ e.time - first.time <= rule.span /\ KeyOf(e, rule.shared) = KeyOf(first, rule.shared)
        /\ Matches(e, stage.condition)
    BY <1>2 DEF Eligible
  <2> QED BY <2>2, <2>3 DEF Apt
<1> HIDE DEF new, all, taken, old, n, stage
<1>10. /\ Len(new.evidence) = i + 1 /\ new.evidence[i + 1] = taken
       /\ \A j \in 1 .. i : new.evidence[j] = old[j] /\ old[j] \in SUBSET C
  BY <1>2, <1>4, <1>5, <1>7
<1>11. chain.cursor = new.cursor \/ Before(chain.cursor, new.cursor)
  BY <1>2
<1>12. first = new.cursor \/ Before(first, new.cursor)
  BY <1>4, <1>5, <1>6, <1>7, <1>11
<1>13. \A j \in 1 .. i + 1 : Cardinality(new.evidence[j]) = Wanted(j)
  <2> TAKE j \in 1 .. i + 1
  <2>1. j = i + 1 \/ j \in 1 .. i
    OBVIOUS
  <2> QED BY <1>3, <1>7, <1>10, <2>1 DEF n
<1>14. \A j \in 1 .. i + 1 : \A e \in new.evidence[j] :
         Apt(first, e, j) /\ (e = new.cursor \/ Before(e, new.cursor))
  <2> TAKE j \in 1 .. i + 1
  <2> TAKE e \in new.evidence[j]
  <2>1. CASE j = i + 1
    BY <1>2, <1>9, <1>10, <2>1
  <2>2. CASE j \in 1 .. i
    <3>1. e \in old[j] /\ e \in C
      BY <1>10, <2>2
    <3>2. Apt(first, e, j) /\ (e = chain.cursor \/ Before(e, chain.cursor))
      BY <1>7, <2>2, <3>1
    <3> QED BY <1>4, <1>5, <1>6, <1>11, <3>1, <3>2
  <2> QED BY <2>1, <2>2
<1>15. \A j \in 1 .. i + 1 : j < i + 1 =>
         \A e \in new.evidence[j], f \in new.evidence[j + 1] : Before(e, f)
  <2> SUFFICES ASSUME NEW j \in 1 .. i, NEW e \in new.evidence[j], NEW f \in new.evidence[j + 1]
               PROVE  Before(e, f)
    OBVIOUS
  <2>1. e \in old[j] /\ e \in C
    BY <1>10
  <2>2. CASE j = i
    <3>1. f \in taken /\ f \in C
      BY <1>5, <1>10, <2>2
    <3>2. e = chain.cursor \/ Before(e, chain.cursor)
      BY <1>7, <2>1
    <3> QED BY <1>4, <1>6, <1>8, <2>1, <3>1, <3>2
  <2>3. CASE j # i
    <3>1. j + 1 \in 1 .. i /\ j < i
      BY <2>3
    <3> QED BY <1>7, <1>10, <2>1, <3>1
  <2> QED BY <2>2, <2>3
<1>16. SoFar(first, new, i + 1)
  BY <1>10, <1>12, <1>13, <1>14, <1>15 DEF SoFar
<1> QED BY <1>3, <1>16 DEF new, n, stage

\* A chain that is found keeps to it with every stage.
LEMMA GreedyFits ==
  ASSUME rule \in Rules, Chaining, NEW C, Rows(C), NEW first \in C
  PROVE  \A i \in Steps : Stages(C, first)[i].found => SoFar(first, Stages(C, first)[i], i)
<1> DEFINE ch == Stages(C, first)
           Good(i) == ch[i].found => SoFar(first, ch[i], i)
           bad == {i \in Steps : ~Good(i)}
<1>1. Len(rule.stages) \in Nat \ {0}
  BY RuleShape DEF Chaining
<1>2. \A i \in Steps :
        /\ Wanted(i) \in Nat /\ ch[i] \in Chains(C)
        /\ ch[i] = Take(C, first, IF i = 1 THEN Begin(first) ELSE ch[i - 1], Wanted(i), rule.stages[i])
  BY StagesAre
<1> HIDE DEF ch
<1>3. 1 \in Steps => Good(1)
  <2> SUFFICES ASSUME 1 \in Steps, ch[1].found PROVE SoFar(first, ch[1], 1)
    OBVIOUS
  <2> DEFINE chain == Begin(first)
  <2>1. chain \in Chains(C) /\ SoFar(first, chain, 0)
    BY DEF Begin, Chains, SoFar
  <2>2. ch[1] = Take(C, first, chain, Wanted(0 + 1), rule.stages[0 + 1]) /\ Wanted(0 + 1) \in Nat
    BY <1>2
  <2> HIDE DEF chain
  <2>3. SoFar(first, ch[1], 0 + 1)
    BY <2>1, <2>2, TakeFits
  <2> QED BY <2>3
<1>4. ASSUME NEW i \in Steps, i # 1, Good(i - 1), ch[i].found PROVE SoFar(first, ch[i], i)
  <2> DEFINE k == i - 1
             chain == ch[k]
  <2>1. k \in Steps /\ k \in Nat /\ i = k + 1
    BY <1>1, <1>4 DEF Steps
  <2>2. chain \in Chains(C)
    BY <1>2, <2>1
  <2>3. ch[i] = Take(C, first, chain, Wanted(k + 1), rule.stages[k + 1]) /\ Wanted(k + 1) \in Nat
    BY <1>2, <1>4, <2>1
  <2>4. chain.found
    <3> DEFINE n == Wanted(k + 1)
    <3> DEFINE all == Eligible(C, first, chain.cursor, rule.stages[k + 1])
    <3>1. ch[i].found <=> chain.found /\ Cardinality(Earliest(all, n)) = n
      <4> HIDE DEF chain, n, k
      <4> QED BY <2>2, <2>3, TakeIs DEF n
    <3> QED BY <1>4, <3>1
  <2>5. SoFar(first, chain, k)
    BY <1>4, <2>4
  <2> HIDE DEF chain, k
  <2>6. SoFar(first, ch[i], k + 1)
    BY <1>4, <2>1, <2>2, <2>3, <2>5, TakeFits
  <2> QED BY <2>1, <2>6
<1> HIDE DEF Good
<1>5. ASSUME bad # {} PROVE FALSE
  <2>1. bad \subseteq Nat
    BY <1>1 DEF Steps
  <2>2. PICK i \in bad : \A j \in bad : i <= j
    <3> HIDE DEF bad
    <3> QED BY <1>5, <2>1, LeastMember
  <2>3. i \in Steps /\ ~Good(i) /\ i # 1
    BY <1>3, <2>2
  <2>4. i - 1 \in Steps /\ ~(i <= i - 1)
    BY <1>1, <2>3 DEF Steps
  <2>5. Good(i - 1)
    BY <2>2, <2>4
  <2> QED BY <1>4, <2>3, <2>5 DEF Good
<1> QED BY <1>5 DEF Good, ch

\* The evidence of a chain that is found fits it.
LEMMA ChainFits ==
  ASSUME rule \in Rules, Chaining, NEW C, Rows(C), NEW first \in Chained(C)
  PROVE  /\ first \in C /\ HasKeys(first, rule.shared)
         /\ Chain(C, first).evidence \in [Steps -> SUBSET C]
         /\ Fits(first, Chain(C, first).evidence)
<1> DEFINE n == Len(rule.stages)
           last == Stages(C, first)[n]
           old == last.evidence
           new == Chain(C, first).evidence
<1>1. /\ first \in C /\ HasKeys(first, rule.shared) /\ Matches(first, rule.stages[1].condition)
      /\ Chain(C, first).found
  BY DEF Chained, Starts
<1>2. n \in Steps /\ n \in Nat \ {0} /\ Wanted(1) \in Nat /\ last \in Chains(C)
  <2>1. n \in Steps /\ (\A i \in Steps : Wanted(i) \in Nat /\ Stages(C, first)[i] \in Chains(C))
    BY <1>1, StagesAre
  <2>2. n \in Nat \ {0}
    BY RuleShape DEF Chaining
  <2>3. 1 \in Steps
    BY <2>2 DEF Steps
  <2> QED BY <2>1, <2>2, <2>3
<1>3. Chain(C, first) = IF last.found THEN [last EXCEPT !.evidence[1] = @ \cup {first}] ELSE last
  BY DEF Chain
<1>4. last.found
  <2> HIDE DEF last
  <2> QED BY <1>1, <1>3
<1>5. SoFar(first, last, n)
  BY <1>1, <1>2, <1>4, GreedyFits
<1>6. Len(old) = n /\ old \in Seq(SUBSET C)
  <2> HIDE DEF last
  <2> QED BY <1>2, <1>5 DEF SoFar, Chains
<1>7. new = [old EXCEPT ![1] = @ \cup {first}]
  <2>1. "evidence" \in DOMAIN last
    <3> HIDE DEF last
    <3> QED BY <1>2 DEF Chains
  <2> HIDE DEF last
  <2> QED BY <1>3, <1>4, <2>1
<1>8. /\ \A j \in 1 .. n : Cardinality(old[j]) = Wanted(j)
      /\ \A j \in 1 .. n : \A e \in old[j] : Apt(first, e, j)
      /\ \A j \in 1 .. n : j < n => \A e \in old[j], f \in old[j + 1] : Before(e, f)
  <2> HIDE DEF n, last
  <2> QED BY <1>5 DEF SoFar
<1> HIDE DEF last, old, new
<1>9. /\ old \in [1 .. n -> SUBSET C] /\ 1 \in 1 .. n
      /\ new \in [1 .. n -> SUBSET C] /\ new[1] = old[1] \cup {first}
      /\ \A j \in 1 .. n : j # 1 => new[j] = old[j]
  BY <1>1, <1>2, <1>6, <1>7
<1>10. \A e \in old[1] : e # first
  <2>1. ~Before(first, first)
    BY <1>1, Order
  <2> QED BY <1>8, <1>9, <2>1 DEF Apt
<1>11. \A j \in 1 .. n : Cardinality(new[j]) = rule.stages[j].min_count
  <2> TAKE j \in 1 .. n
  <2>1. CASE j = 1
    <3>1. old[1] \in SUBSET C /\ IsFiniteSet(old[1])
      BY <1>9, FS_Subset DEF Rows
    <3>2. Cardinality(old[1] \cup {first}) = Cardinality(old[1]) + 1
      BY <1>10, <3>1, FS_AddElement
    <3>3. rule.stages[1].min_count \in Nat
      BY <1>2, RuleShape DEF Chaining, Steps
    <3>4. Cardinality(old[1]) = rule.stages[1].min_count - 1
      BY <1>8, <1>9 DEF Wanted
    <3>5. new[j] = old[1] \cup {first} /\ rule.stages[j].min_count = rule.stages[1].min_count
      BY <1>9, <2>1
    <3>6. Cardinality(new[j]) = Cardinality(old[1]) + 1
      BY <3>2, <3>5
    <3>7. Cardinality(old[1]) + 1 = rule.stages[1].min_count
      BY <3>3, <3>4
    <3> QED BY <3>5, <3>6, <3>7
  <2>2. CASE j # 1
    BY <1>8, <1>9, <2>2 DEF Wanted
  <2> QED BY <2>1, <2>2
<1>12. \A j \in 1 .. n : \A e \in new[j] : (j = 1 /\ e = first) \/ Apt(first, e, j)
  BY <1>8, <1>9
<1>13. first.time - first.time <= rule.span
  <2>1. first.time \in Nat /\ rule.span \in Nat
    BY <1>1, RuleShape DEF Chaining, Rows, Row
  <2> QED BY <2>1
<1>14. \A j \in 1 .. n : \A e \in new[j] :
         /\ Matches(e, rule.stages[j].condition)
         /\ e = first \/ Before(first, e)
         /\ e.time - first.time <= rule.span
         /\ KeyOf(e, rule.shared) = KeyOf(first, rule.shared)
  BY <1>1, <1>12, <1>13 DEF Apt
<1>15. \A i \in 1 .. n - 1 : \A e \in new[i], f \in new[i + 1] : Before(e, f)
  <2> TAKE i \in 1 .. n - 1
  <2>1. i \in 1 .. n /\ i + 1 \in 1 .. n /\ i + 1 # 1 /\ i < n
    BY <1>2
  <2>2. \A e \in old[i], f \in old[i + 1] : Before(e, f)
    BY <1>8, <2>1
  <2>3. new[i + 1] = old[i + 1]
    BY <1>9, <2>1
  <2>4. \A f \in new[i + 1] : Before(first, f)
    BY <1>8, <2>1, <2>3 DEF Apt
  <2>5. \A e \in new[i] : e \in old[i] \/ e = first
    BY <1>9, <2>1
  <2> QED BY <2>2, <2>3, <2>4, <2>5
<1>16. first \in new[1]
  BY <1>9
<1>17. Fits(first, new)
  BY <1>11, <1>14, <1>15, <1>16 DEF Fits, n
<1> QED BY <1>1, <1>9, <1>17 DEF new, n, Steps

\* A chain that starts with an event is found whenever some events fit it.
LEMMA ChainedIs ==
  ASSUME rule \in Rules, Chaining, NEW C, Rows(C), NEW first \in C
  PROVE  first \in Chained(C) <=> /\ HasKeys(first, rule.shared)
                                  /\ \E parts \in [1 .. Len(rule.stages) -> SUBSET C] : Fits(first, parts)
<1>1. ASSUME first \in Chained(C)
      PROVE  /\ HasKeys(first, rule.shared)
             /\ \E parts \in [1 .. Len(rule.stages) -> SUBSET C] : Fits(first, parts)
  BY <1>1, ChainFits DEF Steps
<1>2. ASSUME HasKeys(first, rule.shared),
             NEW parts \in [1 .. Len(rule.stages) -> SUBSET C], Fits(first, parts)
      PROVE  first \in Chained(C)
  <2> DEFINE n == Len(rule.stages)
             last == Stages(C, first)[n]
  <2>1. n \in Steps /\ 1 \in 1 .. n
    BY StagesAre DEF Steps
  <2>2. last.found
    BY <1>2, <2>1, GreedyFinds DEF Steps
  <2>3. last \in Chains(C)
    BY <2>1, StagesAre
  <2>4. Chain(C, first) = [last EXCEPT !.evidence[1] = @ \cup {first}]
    BY <2>2 DEF Chain
  <2> HIDE DEF last
  <2>5. Chain(C, first).found
    BY <2>2, <2>3, <2>4 DEF Chains
  <2>6. Matches(first, rule.stages[1].condition)
    BY <1>2, <2>1 DEF Fits
  <2> QED BY <1>2, <2>5, <2>6 DEF Chained, Starts
<1> QED BY <1>1, <1>2

\* Taking the earliest event for every stage misses no chain, and the evidence a
\* chain names fits the stages, in order and within the span (evaluate_sequence).
THEOREM ChainsAreFound == Spec => []EveryChainIsFound
<1>1. Stored => EveryChainIsFound
  <2> SUFFICES ASSUME Stored, Chaining, NEW w \in Windows
               PROVE  LET C == Candidates(w, events) IN
                        /\ \A first \in C : first \in Chained(C) <=>
                            /\ HasKeys(first, rule.shared)
                            /\ \E parts \in [1 .. Len(rule.stages) -> SUBSET C] : Fits(first, parts)
                        /\ \A first \in Chained(C) : Fits(first, Chain(C, first).evidence)
    BY Zenon DEF EveryChainIsFound
  <2> DEFINE C == Candidates(w, events)
  <2>1. rule \in Rules /\ Rows(C)
    BY CandidatesAre DEF Stored
  <2> HIDE DEF C
  <2>2. \A first \in C : first \in Chained(C) <=>
          /\ HasKeys(first, rule.shared)
          /\ \E parts \in [1 .. Len(rule.stages) -> SUBSET C] : Fits(first, parts)
    BY <2>1, ChainedIs
  <2>3. \A first \in Chained(C) : Fits(first, Chain(C, first).evidence)
    BY <2>1, ChainFits
  <2> QED BY <2>2, <2>3 DEF C
<1> QED BY StoredInit, StoredStep, <1>1, PTL DEF Spec
-----------------------------------------------------------------------------
\* With more events in the window, and all of them looked at, the groups that
\* fire still fire and the chains that start with an event still do.
LEMMA MoreFinds ==
  ASSUME rule \in Rules, NEW S, NEW T \in SUBSET S, Rows(S), Rows(T), NEW w \in Windows,
         ~Truncated(w, S)
  PROVE  /\ Bursting => \A B \in Bursts(w, Candidates(w, T)) :
                          \E B2 \in Bursts(w, Candidates(w, S)) : B \subseteq B2
         /\ Chaining => Chained(Candidates(w, T)) \subseteq Chained(Candidates(w, S))
<1> DEFINE C == Candidates(w, T)
           D == Candidates(w, S)
<1>1. Rows(C) /\ Rows(D) /\ C \subseteq InWindow(w, T)
  BY CandidatesAre
<1>2. C \in SUBSET D
  <2>1. D = InWindow(w, S)
    BY Untruncated
  <2>2. InWindow(w, T) \subseteq InWindow(w, S)
    BY DEF InWindow
  <2> HIDE DEF C, D
  <2> QED BY <1>1, <2>1, <2>2
<1> HIDE DEF C, D
<1>3. ASSUME Bursting, NEW B \in Bursts(w, C)
      PROVE  \E B2 \in Bursts(w, D) : B \subseteq B2
  <2>1. PICK e \in Grouped(C) : B = Bucket(w, C, e) /\ e \in B /\ Enough(B)
    BY <1>3, BurstsAre
  <2> DEFINE B2 == Bucket(w, D, e)
  <2>2. Grouped(C) \subseteq Grouped(D) /\ Grouped(D) \subseteq D
    BY <1>2 DEF Grouped
  <2>3. B \subseteq B2 /\ B2 \subseteq D
    BY <2>1, <2>2 DEF Bucket
  <2> HIDE DEF B2
  <2>4. IsFiniteSet(B2)
    BY <1>1, <2>3, FS_Subset DEF Rows
  <2>5. Count(B) \in Nat /\ Count(B2) \in Nat /\ Count(B) <= Count(B2)
    BY <2>3, <2>4, CountIs, FS_Subset
  <2>6. rule.min_count \in Nat
    BY <1>3, RuleShape DEF Bursting
  <2>7. Enough(B2)
    BY <2>1, <2>5, <2>6 DEF Enough
  <2>8. B2 \in Bursts(w, D)
    BY <2>1, <2>2, <2>3, <2>7, BurstsAre DEF B2
  <2> QED BY <2>3, <2>8
<1>4. ASSUME Chaining, NEW first \in Chained(C) PROVE first \in Chained(D)
  <2>1. /\ first \in C /\ HasKeys(first, rule.shared)
        /\ Chain(C, first).evidence \in [Steps -> SUBSET C]
        /\ Fits(first, Chain(C, first).evidence)
    BY <1>1, <1>4, ChainFits
  <2>2. PICK parts \in [1 .. Len(rule.stages) -> SUBSET C] : Fits(first, parts)
    BY <2>1 DEF Steps
  <2>3. parts \in [1 .. Len(rule.stages) -> SUBSET D] /\ first \in D
    BY <1>2, <2>1
  <2> QED BY <1>1, <1>4, <2>1, <2>2, <2>3, ChainedIs
<1> QED BY <1>3, <1>4 DEF C, D

\* An event that arrives late silences nothing that a run over the same window
\* would have found, unless it fills the run's limit: a run evaluates what is stored
\* in its window, in the order of the events' own times (execute_rule).
THEOREM LateEventsAddOnly == Spec => ArrivalSilencesNothing
<1> DEFINE Step ==
      \A w \in Windows :
        ~Truncated(w, events') =>
          LET C == Candidates(w, events)
              D == Candidates(w, events') IN
            /\ Bursting => \A B \in Bursts(w, C) : \E B2 \in Bursts(w, D) : B \subseteq B2
            /\ Chaining => Chained(C) \subseteq Chained(D)
<1>1. Stored /\ Stored' /\ [Next]_vars => [Step]_vars
  <2> SUFFICES ASSUME Stored, Stored', Next PROVE Step
    OBVIOUS
  <2>1. PICK S : S = events'
    OBVIOUS
  <2>2. PICK T : T = events
    OBVIOUS
  <2>3. T \in SUBSET S
    BY <2>1, <2>2, Zenon DEF Next, Arrive
  <2>4. rule \in Rules /\ Rows(S) /\ Rows(T)
    BY <2>1, <2>2 DEF Stored
  <2>5. \A w \in Windows :
          ~Truncated(w, S) =>
            /\ Bursting => \A B \in Bursts(w, Candidates(w, T)) :
                             \E B2 \in Bursts(w, Candidates(w, S)) : B \subseteq B2
            /\ Chaining => Chained(Candidates(w, T)) \subseteq Chained(Candidates(w, S))
    BY <2>3, <2>4, MoreFinds
  <2> QED BY <2>1, <2>2, <2>5
<1> HIDE DEF Step
<1>2. Spec => [][Step]_vars
  BY StoredInit, StoredStep, <1>1, PTL DEF Spec
<1> QED BY <1>2 DEF ArrivalSilencesNothing, Step
=============================================================================
