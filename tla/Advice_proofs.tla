---------------------------- MODULE Advice_proofs ----------------------------
(***************************************************************************)
(* Proofs about Advice, for every set of requests, cases and alerts, every *)
(* size of evidence and all limits.                                        *)
(*                                                                         *)
(* The first half is about what a request computes: that the alerts have   *)
(* an order (OrderExists), that FlattenSeq keeps every part after its      *)
(* alert (FlattenNested), that what is sent is a beginning of the items    *)
(* that fits (SelectedIs).  The second half is about what happens          *)
(* meanwhile: each change of a link is told by an activity committed with  *)
(* it (StepExplained), so what has happened to the links since a request   *)
(* read them is told by the activities since then, which it reads last     *)
(* (CaseReq), and what was in the scope of an analysis stays there         *)
(* (AnalysisInv).                                                          *)
(***************************************************************************)
EXTENDS Advice, FiniteSetTheorems, SequenceTheorems, NaturalsInduction,
        WellFoundedInduction, TLAPS

\* A set of naturals has a least member.
LEMMA LeastMember ==
  ASSUME NEW S, S \subseteq Nat, S # {}
  PROVE  \E x \in S : \A y \in S : x <= y
<1> DEFINE R == OpToRel(<, Nat)
<1>1. IsWellFoundedOn(R, Nat)
  BY NatLessThanWellFounded
<1>2. \A x, y \in Nat : <<x, y>> \in R <=> x < y
  BY DEF OpToRel
<1> HIDE DEF R
<1>3. PICK x \in S : \A y \in S : ~(<<y, x>> \in R)
  BY <1>1, WFMin
<1>4. ASSUME NEW y \in S PROVE x <= y
  <2>1. x \in Nat /\ y \in Nat /\ ~(y < x)
    BY <1>2, <1>3
  <2> QED BY <2>1
<1> QED BY <1>3, <1>4
-----------------------------------------------------------------------------
(* The order of alerts. *)

UpTo(S, x) == {y \in S : y <= x}

\* Finitely many naturals can be put in order: a number has as its place the number of
\* those up to it.
LEMMA OrderExists ==
  ASSUME NEW S, IsFiniteSet(S), S \subseteq Nat
  PROVE  \E s \in [1 .. Cardinality(S) -> S] :
           \A i, j \in 1 .. Cardinality(S) : i < j => s[i] < s[j]
<1> DEFINE n == Cardinality(S)
           place == [x \in S |-> Cardinality(UpTo(S, x))]
<1>0. n \in Nat
  BY FS_CardinalityType
<1>1. ASSUME NEW x \in S
      PROVE  IsFiniteSet(UpTo(S, x)) /\ Cardinality(UpTo(S, x)) \in 1 .. n
  <2>1. UpTo(S, x) \in SUBSET S /\ x \in UpTo(S, x)
    BY DEF UpTo
  <2>2. IsFiniteSet(UpTo(S, x)) /\ Cardinality(UpTo(S, x)) <= n
    BY <2>1, FS_Subset
  <2>3. Cardinality(UpTo(S, x)) \in Nat /\ Cardinality(UpTo(S, x)) # 0
    BY <2>1, <2>2, FS_CardinalityType, FS_EmptySet
  <2> QED BY <1>0, <2>2, <2>3
<1>2. ASSUME NEW x \in S, NEW y \in S, x < y
      PROVE  Cardinality(UpTo(S, x)) < Cardinality(UpTo(S, y))
  <2>1. UpTo(S, x) \in SUBSET UpTo(S, y) /\ y \in UpTo(S, y) /\ y \notin UpTo(S, x)
    <3>1. x \in Nat /\ y \in Nat /\ \A z \in S : z \in Nat
      OBVIOUS
    <3>2. \A z \in S : z <= x => z <= y
      BY <1>2, <3>1
    <3>3. y <= y /\ ~(y <= x)
      BY <1>2, <3>1
    <3> QED BY <3>2, <3>3 DEF UpTo
  <2>2. Cardinality(UpTo(S, x)) <= Cardinality(UpTo(S, y))
        /\ Cardinality(UpTo(S, x)) # Cardinality(UpTo(S, y))
    BY <1>1, <2>1, FS_Subset
  <2>3. Cardinality(UpTo(S, x)) \in Nat /\ Cardinality(UpTo(S, y)) \in Nat
    BY <1>1, <1>0
  <2> QED BY <2>2, <2>3
<1>3. place \in [S -> 1 .. n]
  BY <1>1
<1>4. \A x \in S : place[x] \in Nat
  BY <1>0, <1>3
<1>5. \A x, y \in S : x < y => place[x] < place[y]
  BY <1>2
<1>6. \A x, y \in S : x \in Nat /\ y \in Nat
  OBVIOUS
<1> HIDE DEF place
<1>7. \A x, y \in S : place[x] = place[y] => x = y
  BY <1>4, <1>5, <1>6
<1>8. IsFiniteSet(1 .. n) /\ Cardinality(1 .. n) = n
  <2>1. n \in Int /\ 1 \in Int
    BY <1>0
  <2>2. IsFiniteSet(1 .. n) /\ Cardinality(1 .. n) = IF 1 > n THEN 0 ELSE n - 1 + 1
    BY <2>1, FS_Interval
  <2>3. Cardinality(1 .. n) = n
    BY <1>0, <2>2
  <2> QED BY <2>2, <2>3
<1>9. place \in Injection(S, 1 .. n)
  BY <1>3, <1>7 DEF Injection, IsInjective
<1>10. place \in Surjection(S, 1 .. n)
  BY <1>8, <1>9, FS_Injection
<1>11. \A i \in 1 .. n : \E x \in S : place[x] = i
  BY <1>10 DEF Surjection
<1> DEFINE s == [i \in 1 .. n |-> CHOOSE x \in S : place[x] = i]
<1>12. \A i \in 1 .. n : s[i] \in S /\ place[s[i]] = i
  BY <1>11
<1>13. s \in [1 .. n -> S]
  BY <1>12
<1>14. \A i, j \in 1 .. n : i < j => s[i] < s[j]
  <2> SUFFICES ASSUME NEW i \in 1 .. n, NEW j \in 1 .. n, i < j PROVE s[i] < s[j]
    OBVIOUS
  <2> HIDE DEF s, n
  <2>1. s[i] \in S /\ s[j] \in S /\ place[s[i]] = i /\ place[s[j]] = j
    BY <1>12
  <2>2. s[i] \in Nat /\ s[j] \in Nat
    BY <1>6, <2>1
  <2>3. i \in Nat /\ j \in Nat
    BY <1>0
  <2>4. ~(s[j] < s[i])
    BY <1>5, <2>1, <2>2, <2>3
  <2>5. s[i] # s[j]
    BY <2>1, <2>2, <2>3
  <2> QED BY <2>2, <2>4, <2>5
<1> HIDE DEF s
<1> QED BY <1>13, <1>14

\* So the alerts of an evidence are enumerated.
LEMMA ByIdIs ==
  ASSUME NEW S, IsFiniteSet(S), S \subseteq Nat
  PROVE  Cardinality(S) \in Nat /\ ById(S) \in [1 .. Cardinality(S) -> S]
BY OrderExists, FS_CardinalityType DEF ById
-----------------------------------------------------------------------------
(* The evidence is a sequence in which a part comes after its alert. *)

IsPart(x, a) == x \in Range(Parts[a])

\* At place k of q is an alert of A, or a part of one that is at an earlier place.
Placed(q, k, A) == \E a \in A : \/ q[k] = AlertItem(a)
                                \/ /\ IsPart(q[k], a)
                                   /\ \E j \in 1 .. k - 1 : q[j] = AlertItem(a)

Nested(q, A) == q \in Seq(Citable) /\ \A k \in 1 .. Len(q) : Placed(q, k, A)

Block(a) == <<AlertItem(a)>> \o Parts[a]

\* Alerts and their parts are evidence that can be cited.
LEMMA PartsAreCitable ==
  ASSUME NEW a \in Alerts
  PROVE  /\ AlertItem(a) \in Citable /\ Parts[a] \in Seq(Citable)
         /\ DOMAIN Parts[a] = 1 .. Len(Parts[a]) /\ Len(Parts[a]) \in Nat
<1>1. AlertItem(a) \in Citable
  BY DEF Citable
<1>2. Parts[a] \in Seq([type : Types, id : Seq(Nat)])
  BY ScopeAssumption
<1>3. Len(Parts[a]) \in Nat /\ DOMAIN Parts[a] = 1 .. Len(Parts[a])
      /\ Parts[a] = [i \in 1 .. Len(Parts[a]) |-> Parts[a][i]]
  BY <1>2, LenProperties
<1>4. \A i \in DOMAIN Parts[a] : Parts[a][i] \in Citable
  <2>1. \A i \in DOMAIN Parts[a] : Parts[a][i] \in Range(Parts[a])
    BY DEF Range
  <2> QED BY <2>1 DEF Citable
<1>5. Parts[a] \in [1 .. Len(Parts[a]) -> Citable]
  BY <1>3, <1>4
<1> QED BY <1>1, <1>3, <1>5, SeqDef

\* An alert with its parts is such a sequence.
LEMMA BlockNested ==
  ASSUME NEW A, A \subseteq Alerts, NEW a \in A
  PROVE  Block(a) \in Seq(Citable) /\ Nested(Block(a), A)
<1>1. a \in Alerts
  OBVIOUS
<1>2. /\ AlertItem(a) \in Citable /\ Parts[a] \in Seq(Citable)
      /\ DOMAIN Parts[a] = 1 .. Len(Parts[a]) /\ Len(Parts[a]) \in Nat
  BY <1>1, PartsAreCitable
<1>3. <<AlertItem(a)>> \in Seq(Citable) /\ Len(<<AlertItem(a)>>) = 1
      /\ <<AlertItem(a)>>[1] = AlertItem(a)
  BY <1>2
<1> DEFINE q == Block(a)
<1>4. /\ q \in Seq(Citable)
      /\ Len(q) = 1 + Len(Parts[a])
      /\ \A i \in 1 .. 1 + Len(Parts[a]) :
           q[i] = IF i <= 1 THEN <<AlertItem(a)>>[i] ELSE Parts[a][i - 1]
  BY <1>2, <1>3, ConcatProperties DEF Block
<1> HIDE DEF q
<1>5. q[1] = AlertItem(a)
  BY <1>2, <1>3, <1>4
<1>6. ASSUME NEW k \in 1 .. Len(q) PROVE Placed(q, k, A)
  <2>1. CASE k = 1
    BY <1>5, <2>1 DEF Placed
  <2>2. CASE k # 1
    <3>1. k - 1 \in 1 .. Len(Parts[a]) /\ q[k] = Parts[a][k - 1] /\ 1 \in 1 .. k - 1
      BY <1>2, <1>4, <2>2
    <3>2. IsPart(q[k], a)
      BY <1>2, <3>1 DEF IsPart, Range
    <3> QED BY <1>5, <3>1, <3>2 DEF Placed
  <2> QED BY <2>1, <2>2
<1> QED BY <1>4, <1>6 DEF Nested, q

\* Two such sequences are one, in a row.
LEMMA NestedConcat ==
  ASSUME NEW A, NEW p, NEW q, Nested(p, A), Nested(q, A)
  PROVE  Nested(p \o q, A)
<1> DEFINE w == p \o q
<1>1. p \in Seq(Citable) /\ q \in Seq(Citable) /\ Len(p) \in Nat /\ Len(q) \in Nat
  BY LenProperties DEF Nested
<1>2. /\ w \in Seq(Citable) /\ Len(w) = Len(p) + Len(q)
      /\ \A i \in 1 .. Len(p) + Len(q) : w[i] = IF i <= Len(p) THEN p[i] ELSE q[i - Len(p)]
  BY <1>1, ConcatProperties
<1> HIDE DEF w
<1>3. ASSUME NEW k \in 1 .. Len(w) PROVE Placed(w, k, A)
  <2>1. CASE k <= Len(p)
    <3>1. k \in 1 .. Len(p) /\ \A j \in 1 .. k : w[j] = p[j]
      BY <1>1, <1>2, <2>1
    <3>2. Placed(p, k, A)
      BY <3>1 DEF Nested
    <3>3. k \in 1 .. k /\ \A j \in 1 .. k - 1 : j \in 1 .. k
      BY <1>1, <3>1
    <3> QED BY <3>1, <3>2, <3>3 DEF Placed
  <2>2. CASE ~(k <= Len(p))
    <3> DEFINE m == k - Len(p)
    <3>1. /\ m \in 1 .. Len(q) /\ w[k] = q[m]
          /\ \A j \in 1 .. m - 1 : /\ j + Len(p) \in 1 .. k - 1 /\ w[j + Len(p)] = q[j]
      <4>1. k \in Nat /\ m \in 1 .. Len(q) /\ k = m + Len(p)
        BY <1>1, <1>2, <2>2
      <4>2. w[k] = q[m]
        BY <1>1, <1>2, <2>2, <4>1
      <4>3. ASSUME NEW j \in 1 .. m - 1
            PROVE  /\ j + Len(p) \in 1 .. k - 1 /\ w[j + Len(p)] = q[j]
        <5> HIDE DEF m
        <5>1. j \in Nat /\ j >= 1 /\ j <= m - 1 /\ m \in Nat /\ m <= Len(q)
          BY <1>1, <4>1
        <5>2. /\ j + Len(p) \in 1 .. k - 1 /\ j + Len(p) \in 1 .. Len(p) + Len(q)
              /\ ~(j + Len(p) <= Len(p)) /\ (j + Len(p)) - Len(p) = j
          BY <1>1, <4>1, <5>1
        <5> QED BY <1>2, <5>2
      <4> QED BY <4>1, <4>2, <4>3
    <3> HIDE DEF m
    <3>2. Placed(q, m, A)
      BY <3>1 DEF Nested
    <3>3. PICK a \in A : \/ q[m] = AlertItem(a)
                         \/ IsPart(q[m], a) /\ \E j \in 1 .. m - 1 : q[j] = AlertItem(a)
      BY <3>2 DEF Placed
    <3> QED BY <3>1, <3>3 DEF Placed
  <2> QED BY <2>1, <2>2
<1> QED BY <1>2, <1>3 DEF Nested, w

\* The blocks of the alerts, and what FlattenSeq computes of them, block by block.
Blocks(s, n) == [i \in 1 .. n |-> Block(s[i])]
Flattening(bs) == CHOOSE f : f = [i \in 1 .. Len(bs) |-> IF i = 1 THEN bs[i] ELSE f[i - 1] \o bs[i]]

\* FlattenSeq has a value: it extends by one block what it is for the blocks before.
LEMMA FlatteningExists ==
  ASSUME NEW A, A \subseteq Alerts, NEW n \in Nat, NEW s \in [1 .. n -> A]
  PROVE  \E g : g = [i \in 1 .. n |-> IF i = 1 THEN Blocks(s, n)[i] ELSE g[i - 1] \o Blocks(s, n)[i]]
<1> DEFINE bs == Blocks(s, n)
           Upto(m) == \E g : g = [i \in 1 .. m |-> IF i = 1 THEN bs[i] ELSE g[i - 1] \o bs[i]]
           none == {m \in 0 .. n : ~Upto(m)}
<1> HIDE DEF bs
<1>1. Upto(0)
  <2> DEFINE g == [i \in 1 .. 0 |-> bs[i]]
  <2>1. g = [i \in 1 .. 0 |-> IF i = 1 THEN bs[i] ELSE g[i - 1] \o bs[i]]
    OBVIOUS
  <2> HIDE DEF g
  <2> QED BY <2>1, Zenon
<1>2. ASSUME NEW m \in 0 .. n, m # 0, Upto(m - 1) PROVE Upto(m)
  <2>1. PICK g : g = [i \in 1 .. m - 1 |-> IF i = 1 THEN bs[i] ELSE g[i - 1] \o bs[i]]
    BY <1>2
  <2> DEFINE next(i) == IF i = 1 THEN bs[i] ELSE g[i - 1] \o bs[i]
             h == [i \in 1 .. m |-> next(i)]
  <2>2. \A i \in 1 .. m - 1 : h[i] = g[i]
    <3>1. \A i \in 1 .. m - 1 : i \in 1 .. m
      OBVIOUS
    <3>2. g = [i \in 1 .. m - 1 |-> next(i)]
      BY <2>1
    <3> HIDE DEF next
    <3>3. \A i \in 1 .. m - 1 : g[i] = next(i)
      BY <3>2
    <3> QED BY <3>1, <3>3
  <2>3. \A i \in 1 .. m : i # 1 => i - 1 \in 1 .. m - 1
    OBVIOUS
  <2>4. \A i \in 1 .. m : h[i] = IF i = 1 THEN bs[i] ELSE h[i - 1] \o bs[i]
    BY <2>2, <2>3
  <2>5. h = [i \in 1 .. m |-> h[i]]
    OBVIOUS
  <2> HIDE DEF h
  <2>6. h = [i \in 1 .. m |-> IF i = 1 THEN bs[i] ELSE h[i - 1] \o bs[i]]
    BY <2>4, <2>5
  <2> QED BY <2>6
<1> HIDE DEF Upto
<1>3. none = {}
  <2> SUFFICES ASSUME none # {} PROVE FALSE
    OBVIOUS
  <2>1. none \subseteq Nat
    OBVIOUS
  <2>2. PICK m \in none : \A k \in none : m <= k
    BY <2>1, LeastMember
  <2>3. m \in 0 .. n /\ m # 0 /\ ~Upto(m)
    BY <1>1, <2>2
  <2>4. m - 1 \in 0 .. n /\ m - 1 \notin none
    BY <2>2, <2>3
  <2> QED BY <1>2, <2>3, <2>4
<1>4. Upto(n)
  BY <1>3
<1> QED BY <1>4 DEF Upto, bs

\* Alerts in any order, each with its parts after it, are such a sequence.
LEMMA FlattenNested ==
  ASSUME NEW A, A \subseteq Alerts, NEW n \in Nat, NEW s \in [1 .. n -> A]
  PROVE  Nested(FlattenSeq(Blocks(s, n)), A)
<1> DEFINE bs == Blocks(s, n)
           f == Flattening(bs)
<1>1. \A i \in 1 .. n : bs[i] = Block(s[i]) /\ Nested(bs[i], A) /\ bs[i] \in Seq(Citable)
  BY BlockNested DEF Blocks
<1>2. bs \in Seq(Seq(Citable)) /\ Len(bs) = n /\ DOMAIN bs = 1 .. n
  <2>1. bs = [i \in 1 .. n |-> bs[i]]
    BY DEF Blocks
  <2> HIDE DEF bs
  <2>2. bs \in [1 .. n -> Seq(Citable)]
    BY <1>1, <2>1
  <2>3. bs \in Seq(Seq(Citable))
    BY <2>2, SeqDef
  <2>4. Len(bs) \in Nat /\ DOMAIN bs = 1 .. Len(bs)
    BY <2>3, LenProperties
  <2>5. 1 .. n = 1 .. Len(bs)
    BY <2>2, <2>4
  <2>6. Len(bs) = n
    <3> DEFINE l == Len(bs)
    <3> HIDE DEF l
    <3>1. l \in Nat /\ 1 .. n = 1 .. l
      BY <2>4, <2>5 DEF l
    <3>2. n = 0 \/ n \in 1 .. n
      OBVIOUS
    <3>3. l = 0 \/ l \in 1 .. l
      BY <3>1
    <3>4. n <= l
      BY <3>1, <3>2
    <3>5. l <= n
      BY <3>1, <3>3
    <3> QED BY <3>1, <3>4, <3>5 DEF l
  <2> QED BY <2>3, <2>4, <2>6
<1>3. CASE n = 0
  <2>1. FlattenSeq(bs) = bs
    BY <1>2, <1>3 DEF FlattenSeq
  <2>2. bs = <<>>
    BY <1>2, <1>3, EmptySeq
  <2>3. Nested(<<>>, A)
    <3>1. <<>> \in Seq(Citable) /\ Len(<<>>) = 0
      BY EmptySeq
    <3> QED BY <3>1 DEF Nested
  <2> QED BY <2>1, <2>2, <2>3
<1>4. CASE n # 0
  <2>1. f = [i \in 1 .. n |-> IF i = 1 THEN bs[i] ELSE f[i - 1] \o bs[i]]
    <3>1. \E g : g = [i \in 1 .. n |-> IF i = 1 THEN bs[i] ELSE g[i - 1] \o bs[i]]
      BY FlatteningExists
    <3>2. \E g : g = [i \in 1 .. Len(bs) |-> IF i = 1 THEN bs[i] ELSE g[i - 1] \o bs[i]]
      BY <1>2, <3>1
    <3> HIDE DEF bs
    <3>3. f = [i \in 1 .. Len(bs) |-> IF i = 1 THEN bs[i] ELSE f[i - 1] \o bs[i]]
      BY <3>2 DEF Flattening
    <3> QED BY <1>2, <3>3
  <2>2. FlattenSeq(bs) = f[n]
    <3> HIDE DEF bs
    <3>1. FlattenSeq(bs) = IF Len(bs) = 0 THEN bs ELSE Flattening(bs)[Len(bs)]
      BY DEF FlattenSeq, Flattening
    <3> QED BY <1>2, <1>4, <3>1
  <2> HIDE DEF f, bs
  <2>3. \A i \in 1 .. n : f[i] = IF i = 1 THEN bs[i] ELSE f[i - 1] \o bs[i]
    BY <2>1
  <2> DEFINE bad == {i \in 1 .. n : ~Nested(f[i], A)}
  <2>4. bad = {}
    <3> SUFFICES ASSUME bad # {} PROVE FALSE
      OBVIOUS
    <3>1. bad \subseteq Nat
      OBVIOUS
    <3>2. PICK m \in bad : \A k \in bad : m <= k
      BY <3>1, LeastMember
    <3>3. m \in 1 .. n /\ ~Nested(f[m], A)
      BY <3>2
    <3>4. CASE m = 1
      BY <1>1, <2>3, <3>3, <3>4
    <3>5. CASE m # 1
      <4>1. m - 1 \in 1 .. n /\ m - 1 \notin bad
        BY <3>2, <3>3, <3>5
      <4>2. Nested(f[m - 1], A) /\ Nested(bs[m], A) /\ f[m] = f[m - 1] \o bs[m]
        BY <1>1, <2>3, <3>3, <3>5, <4>1
      <4> QED BY <3>3, <4>2, NestedConcat
    <3> QED BY <3>4, <3>5
  <2>5. n \in 1 .. n /\ n \notin bad
    BY <1>4, <2>4
  <2>6. Nested(f[n], A)
    BY <2>5
  <2> QED BY <2>2, <2>6 DEF bs
<1> QED BY <1>3, <1>4
-----------------------------------------------------------------------------
(* What is sent is a beginning of the items, within the limits. *)

\* What FoldSeq computes for Used, for the places of a set of places.
Sums(items, Z) ==
  CHOOSE f : f = [s \in SUBSET Z |-> IF s = {} THEN 0
                                     ELSE LET x == CHOOSE x \in s : TRUE IN
                                            f[s \ {x}] + Size[items[x].type]]

\* No items use nothing, and so they fit.
LEMMA NothingFits == Fits(<<>>)
<1> DEFINE f == Sums(<<>>, {})
           term(g, s) == LET x == CHOOSE x \in s : TRUE IN g[s \ {x}] + Size[<<>>[x].type]
<1>1. DOMAIN <<>> = {}
  OBVIOUS
<1>2. Used(<<>>) = Sums(<<>>, DOMAIN <<>>)[DOMAIN <<>>]
  BY DEF Used, Sums, FoldSeq, FoldFunction, FoldFunctionOnSet, MapThenFoldSet
<1>3. \E g : g = [s \in SUBSET {} |-> IF s = {} THEN 0 ELSE term(g, s)]
  <2> DEFINE g == [s \in SUBSET {} |-> 0]
  <2> HIDE DEF term
  <2>1. g = [s \in SUBSET {} |-> IF s = {} THEN 0 ELSE term(g, s)]
    OBVIOUS
  <2> HIDE DEF g
  <2> QED BY <2>1, Zenon
<1>4. f = [s \in SUBSET {} |-> IF s = {} THEN 0 ELSE term(f, s)]
  BY <1>3 DEF Sums
<1> HIDE DEF f, term
<1>5. f[{}] = 0
  BY <1>4
<1>6. Used(<<>>) = 0
  BY <1>1, <1>2, <1>5 DEF f
<1>7. Len(<<>>) = 0
  OBVIOUS
<1> QED BY <1>6, <1>7, LimitAssumption DEF Fits

\* Selected is a beginning of the items that fits.
LEMMA SelectedIs ==
  ASSUME NEW q \in Seq(Citable)
  PROVE  /\ Fits(Selected(q))
         /\ \E n \in 0 .. Len(q) :
              /\ Selected(q) = SubSeq(q, 1, n)
              /\ Len(Selected(q)) = n /\ DOMAIN Selected(q) = 1 .. n
              /\ \A k \in 1 .. n : Selected(q)[k] = q[k]
<1>1. Len(q) \in Nat /\ \A i \in 1 .. Len(q) : q[i] \in Citable
  BY LenProperties, ElementOfSeq
<1> DEFINE l == Len(q)
           Ends(n) == n < l => ~Fits(SubSeq(q, 1, n + 1))
           ends == {n \in 0 .. l : Ends(n)}
<1>2. \E n \in 0 .. l : Fits(SubSeq(q, 1, n)) /\ Ends(n)
  <2> HIDE DEF l
  <2>0. l \in Nat
    BY <1>1 DEF l
  <2>1. l \in ends /\ ends \subseteq Nat
    BY <2>0
  <2>2. PICK n \in ends : \A m \in ends : n <= m
    BY <2>1, LeastMember
  <2>3. CASE n = 0
    <3>1. SubSeq(q, 1, 0) = <<>>
      BY SubSeqEmpty
    <3> QED BY <2>2, <2>3, <3>1, NothingFits
  <2>4. CASE n # 0
    <3>1. n - 1 \in 0 .. l /\ n - 1 \notin ends /\ (n - 1) + 1 = n
      BY <2>0, <2>2, <2>4
    <3>2. Fits(SubSeq(q, 1, n))
      BY <3>1
    <3> QED BY <2>2, <3>2
  <2> QED BY <2>3, <2>4
<1> DEFINE n == CHOOSE n \in 0 .. l : Fits(SubSeq(q, 1, n)) /\ Ends(n)
<1>3. n \in 0 .. l /\ Fits(SubSeq(q, 1, n))
  BY <1>2
<1>4. Selected(q) = SubSeq(q, 1, n)
  BY DEF Selected
<1> HIDE DEF n
<1>5. n \in Nat /\ n \in Int /\ 1 \in Int /\ \A i \in 1 .. n : q[i] \in Citable
  BY <1>1, <1>3
<1> DEFINE w == SubSeq(q, 1, n)
<1>6. w \in Seq(Citable) /\ Len(w) = n /\ \A i \in 1 .. n : w[i] = q[i]
  <2>1. /\ w \in Seq(Citable) /\ Len(w) = IF 1 <= n THEN n - 1 + 1 ELSE 0
        /\ \A i \in 1 .. n - 1 + 1 : w[i] = q[1 + i - 1]
    BY <1>5, SubSeqProperties
  <2> HIDE DEF w
  <2>2. n - 1 + 1 = n /\ (IF 1 <= n THEN n - 1 + 1 ELSE 0) = n
    BY <1>5
  <2>3. \A i \in 1 .. n : 1 + i - 1 = i
    BY <1>5
  <2> QED BY <2>1, <2>2, <2>3
<1>7. DOMAIN w = 1 .. n
  BY <1>6, LenProperties
<1> QED BY <1>3, <1>4, <1>6, <1>7
-----------------------------------------------------------------------------
(***************************************************************************)
(* The invariant.                                                          *)
(***************************************************************************)
Activity == [type : ActivityTypes, alert : Alerts \cup {0}, by : {"server", "analyst"}]
Reading == [kind : Kinds \cup {None}, of : Cases \cup Alerts \cup {0}, at : 0 .. 5,
            alerts : SUBSET Alerts, upto : Nat, since : Nat, now : SUBSET Alerts]

Shapes == /\ linked \in [Cases -> SUBSET Alerts]
          /\ notes \in [Cases -> Seq(Activity)]
          /\ req \in [Requests -> Reading]

\* The activities, each with its case: no more than MaxNotes.
Places == UNION {{c} \X DOMAIN notes[c] : c \in Cases}
Bounded == IsFiniteSet(Places) /\ Cardinality(Places) <= MaxNotes

\* What the server tells, in any sequence s of activities.
ToldIn(s, type, a, m, n) == \E i \in m + 1 .. n : /\ s[i].type = type
                                                  /\ s[i].alert = a
                                                  /\ s[i].by = "server"
AddedIn(s, n) == {a \in Alerts : ToldIn(s, "alerts_added", a, 0, n)}
ExplainedIn(s, before, links, m, n) ==
  /\ \A a \in before \ links : ToldIn(s, "alert_removed", a, m, n)
  /\ \A a \in links \ before : ToldIn(s, "alerts_added", a, m, n)

\* A link was there first or the server has told that it was made.
CaseInv(c) == linked[c] \subseteq First[c] \cup AddedIn(notes[c], Len(notes[c]))

\* A request about a case, with these activities and links, has read alerts that were
\* linked at some time.  What has become of the links since it read them is explained by
\* the activities since then; and when it has read these, by what it has read.
CaseReq(q, s, links) ==
  /\ q.upto <= Len(s) /\ q.since <= Len(s)
  /\ q.alerts \subseteq First[q.of] \cup AddedIn(s, Len(s))
  /\ q.at >= 2 => ExplainedIn(s, q.alerts, links, q.since, Len(s))
  /\ q.at >= 4 => /\ ExplainedIn(s, q.alerts, q.now, q.since, q.upto)
                  /\ q.alerts \subseteq First[q.of] \cup AddedIn(s, q.upto)

ReqInv(r) ==
  LET q == req[r] IN
  /\ q.at = 0 => q = Idle
  /\ q.at # 0 /\ q.kind = "triage" => q.of \in Alerts /\ q.alerts \subseteq {q.of}
  /\ q.at # 0 /\ q.kind # "triage" => q.of \in Cases /\ CaseReq(q, notes[q.of], linked[q.of])

\* An analysis cites what belongs to its alert or its case.
AnalysisInv(x) ==
  /\ x.kind # "triage" => x.of \in Cases
  /\ x.evidence_refs \subseteq Scope(x)
  /\ x.output # None =>
       /\ x.output.refs \subseteq x.evidence_refs
       /\ x.kind # "report_draft" => x.output.facts \subseteq x.evidence_refs

IInv == /\ Shapes /\ Bounded
        /\ \A c \in Cases : CaseInv(c)
        /\ \A r \in Requests : ReqInv(r)
        /\ \A x \in analyses : AnalysisInv(x)
-----------------------------------------------------------------------------
(* What activities tell. *)

\* The definitions of the model are these, of the activities of a case.
LEMMA TellingIs ==
  ASSUME NEW c, NEW before, NEW links, NEW m, NEW n
  PROVE  /\ Added(c, n) = AddedIn(notes[c], n)
         /\ Explained(c, before, links, m, n) <=> ExplainedIn(notes[c], before, links, m, n)
<1>1. \A type, a, k : Told(c, type, a, k, n) <=> ToldIn(notes[c], type, a, k, n)
  BY DEF Told, ToldIn
<1>2. Added(c, n) = AddedIn(notes[c], n)
  BY <1>1 DEF Added, AddedIn
<1> QED BY <1>1, <1>2 DEF Explained, ExplainedIn

\* A later activity does not change what earlier ones tell.
LEMMA EarlierTell ==
  ASSUME NEW s, NEW u, NEW n \in Nat, \A i \in 1 .. n : u[i] = s[i]
  PROVE  /\ \A m \in Nat : \A type, a : ToldIn(u, type, a, m, n) <=> ToldIn(s, type, a, m, n)
         /\ AddedIn(u, n) = AddedIn(s, n)
<1>1. ASSUME NEW m \in Nat, NEW type, NEW a
      PROVE  ToldIn(u, type, a, m, n) <=> ToldIn(s, type, a, m, n)
  <2>1. \A i \in m + 1 .. n : i \in 1 .. n
    OBVIOUS
  <2>2. \A i \in m + 1 .. n : u[i] = s[i]
    BY <2>1
  <2> QED BY <2>2 DEF ToldIn
<1> QED BY <1>1 DEF AddedIn

\* More activities tell no less.
LEMMA MoreTell ==
  ASSUME NEW s, NEW k \in Nat, NEW m \in Nat, NEW n \in Nat, NEW l \in Nat, k <= m, n <= l,
         NEW type, NEW a, ToldIn(s, type, a, m, n)
  PROVE  ToldIn(s, type, a, k, l)
<1>1. \A i \in m + 1 .. n : i \in k + 1 .. l
  OBVIOUS
<1> QED BY <1>1 DEF ToldIn

\* And what was linked by them stays so.
LEMMA AddedGrows ==
  ASSUME NEW s, NEW m \in Nat, NEW n \in Nat, m <= n
  PROVE  AddedIn(s, m) \subseteq AddedIn(s, n)
<1>1. \A a : ToldIn(s, "alerts_added", a, 0, m) => ToldIn(s, "alerts_added", a, 0, n)
  BY MoreTell
<1> QED BY <1>1 DEF AddedIn

\* What explains a first change and what explains a second one explain both.
LEMMA ExplainedTwice ==
  ASSUME NEW s, NEW A, NEW B, NEW C, NEW m \in Nat, NEW n \in Nat, NEW l \in Nat,
         m <= n, n <= l, ExplainedIn(s, A, B, m, n), ExplainedIn(s, B, C, n, l)
  PROVE  ExplainedIn(s, A, C, m, l)
<1>1. \A type, a : ToldIn(s, type, a, m, n) \/ ToldIn(s, type, a, n, l)
                     => ToldIn(s, type, a, m, l)
  <2> SUFFICES ASSUME NEW type, NEW a, ToldIn(s, type, a, m, n) \/ ToldIn(s, type, a, n, l)
               PROVE  ToldIn(s, type, a, m, l)
    OBVIOUS
  <2>1. m <= m /\ l <= l
    OBVIOUS
  <2>2. CASE ToldIn(s, type, a, m, n)
    BY <2>1, <2>2, MoreTell
  <2>3. CASE ToldIn(s, type, a, n, l)
    BY <2>1, <2>3, MoreTell
  <2> QED BY <2>2, <2>3
<1>2. ASSUME NEW a \in A \ C PROVE ToldIn(s, "alert_removed", a, m, l)
  BY <1>1, <1>2 DEF ExplainedIn
<1>3. ASSUME NEW a \in C \ A PROVE ToldIn(s, "alerts_added", a, m, l)
  BY <1>1, <1>3 DEF ExplainedIn
<1> QED BY <1>2, <1>3 DEF ExplainedIn
-----------------------------------------------------------------------------
(* What others do. *)

\* Activities are only added, at the end, and those that are tell what becomes of the links.
Grown == \A d \in Cases : /\ Len(notes[d]) \in Nat /\ Len(notes'[d]) \in Nat
                          /\ Len(notes[d]) <= Len(notes'[d])
                          /\ \A i \in 1 .. Len(notes[d]) : notes'[d][i] = notes[d][i]
StepExplained == \A d \in Cases : ExplainedIn(notes'[d], linked[d], linked'[d],
                                              Len(notes[d]), Len(notes'[d]))

\* What was added stays so.
LEMMA AddedStays ==
  ASSUME Grown, NEW d \in Cases
  PROVE  AddedIn(notes[d], Len(notes[d])) \subseteq AddedIn(notes'[d], Len(notes'[d]))
<1>1. PICK s, u : s = notes[d] /\ u = notes'[d]
  OBVIOUS
<1>2. /\ Len(s) \in Nat /\ Len(u) \in Nat /\ Len(s) <= Len(u)
      /\ \A i \in 1 .. Len(s) : u[i] = s[i]
  BY <1>1 DEF Grown
<1>3. AddedIn(u, Len(s)) = AddedIn(s, Len(s))
  BY <1>2, EarlierTell
<1>4. AddedIn(u, Len(s)) \subseteq AddedIn(u, Len(u))
  BY <1>2, AddedGrows
<1> QED BY <1>1, <1>3, <1>4

\* A request that stays where it is keeps what it has read and what explains it.
LEMMA RequestStays ==
  ASSUME Shapes, Grown, StepExplained, NEW r \in Requests, ReqInv(r), req'[r] = req[r]
  PROVE  ReqInv(r)'
<1>1. PICK q : q = req[r]
  OBVIOUS
<1>2. q = req'[r] /\ q.upto \in Nat /\ q.since \in Nat /\ q.at \in 0 .. 5
  BY <1>1 DEF Shapes, Reading
<1>3. CASE q.at # 0 /\ q.kind # "triage"
  <2>1. PICK s, u, A, B : s = notes[q.of] /\ u = notes'[q.of]
                          /\ A = linked[q.of] /\ B = linked'[q.of]
    OBVIOUS
  <2>2. q.of \in Cases /\ CaseReq(q, s, A)
    BY <1>1, <1>3, <2>1 DEF ReqInv
  <2>3. /\ Len(s) \in Nat /\ Len(u) \in Nat /\ Len(s) <= Len(u)
        /\ \A i \in 1 .. Len(s) : u[i] = s[i]
        /\ ExplainedIn(u, A, B, Len(s), Len(u))
        /\ AddedIn(s, Len(s)) \subseteq AddedIn(u, Len(u))
    <3>1. AddedIn(notes[q.of], Len(notes[q.of])) \subseteq AddedIn(notes'[q.of], Len(notes'[q.of]))
      BY <2>2, AddedStays
    <3> QED BY <2>1, <2>2, <3>1 DEF Grown, StepExplained
  <2>4. /\ q.upto <= Len(s) /\ q.since <= Len(s)
        /\ q.alerts \subseteq First[q.of] \cup AddedIn(s, Len(s))
        /\ q.at >= 2 => ExplainedIn(s, q.alerts, A, q.since, Len(s))
        /\ q.at >= 4 => /\ ExplainedIn(s, q.alerts, q.now, q.since, q.upto)
                        /\ q.alerts \subseteq First[q.of] \cup AddedIn(s, q.upto)
    BY <2>2 DEF CaseReq
  <2>5. ASSUME NEW n \in Nat, n <= Len(s), NEW C, NEW D
        PROVE  /\ AddedIn(u, n) = AddedIn(s, n)
               /\ ExplainedIn(s, C, D, q.since, n) => ExplainedIn(u, C, D, q.since, n)
    <3>1. \A i \in 1 .. n : u[i] = s[i]
      BY <2>3, <2>5
    <3>2. /\ \A type, a : ToldIn(u, type, a, q.since, n) <=> ToldIn(s, type, a, q.since, n)
          /\ AddedIn(u, n) = AddedIn(s, n)
      BY <1>2, <3>1, EarlierTell
    <3> QED BY <3>2 DEF ExplainedIn
  <2>6. q.at >= 2 => ExplainedIn(u, q.alerts, B, q.since, Len(u))
    <3> SUFFICES ASSUME q.at >= 2 PROVE ExplainedIn(u, q.alerts, B, q.since, Len(u))
      OBVIOUS
    <3>1. ExplainedIn(u, q.alerts, A, q.since, Len(s))
      BY <2>3, <2>4, <2>5
    <3> QED BY <1>2, <2>3, <2>4, <3>1, ExplainedTwice
  <2>7. q.at >= 4 => /\ ExplainedIn(u, q.alerts, q.now, q.since, q.upto)
                     /\ q.alerts \subseteq First[q.of] \cup AddedIn(u, q.upto)
    BY <1>2, <2>4, <2>5
  <2>8. CaseReq(q, u, B)
    BY <1>2, <2>3, <2>4, <2>6, <2>7 DEF CaseReq
  <2> QED BY <1>2, <1>3, <2>1, <2>2, <2>8 DEF ReqInv
<1>4. CASE q.at = 0 \/ q.kind = "triage"
  BY <1>1, <1>2, <1>4 DEF ReqInv, Idle
<1> QED BY <1>3, <1>4

\* What belonged to an analysis still does.
LEMMA AnalysisStays ==
  ASSUME Grown, NEW x, AnalysisInv(x)
  PROVE  AnalysisInv(x)'
<1>1. Scope(x) \subseteq Scope(x)'
  <2>1. CASE x.kind = "triage"
    BY <2>1 DEF Scope
  <2>2. CASE x.kind # "triage"
    <3>1. x.of \in Cases
      BY <2>2 DEF AnalysisInv
    <3>2. Added(x.of, Len(notes[x.of])) \subseteq Added(x.of, Len(notes[x.of]))'
      <4>1. AddedIn(notes[x.of], Len(notes[x.of])) \subseteq AddedIn(notes'[x.of], Len(notes'[x.of]))
        BY <3>1, AddedStays
      <4>2. Added(x.of, Len(notes[x.of]))' = AddedIn(notes'[x.of], Len(notes'[x.of]))
        BY DEF Added, AddedIn, Told, ToldIn
      <4> QED BY <4>1, <4>2, TellingIs
    <3> QED BY <2>2, <3>2 DEF Scope
  <2> QED BY <2>1, <2>2
<1> QED BY <1>1 DEF AnalysisInv

\* An activity of a case, if the server tells with it what was done to the links.
LEMMA NoteStep ==
  ASSUME IInv, NEW c \in Cases, NEW a \in Alerts \cup {0},
         NEW type \in ActivityTypes, NEW by \in {"server", "analyst"}, Note(c, type, a, by),
         linked' \in [Cases -> SUBSET Alerts],
         \A d \in Cases : d # c => linked'[d] = linked[d],
         \/ linked'[c] = linked[c]
         \/ by = "server" /\ type = "alerts_added" /\ linked'[c] = linked[c] \cup {a}
         \/ by = "server" /\ type = "alert_removed" /\ linked'[c] = linked[c] \ {a}
  PROVE  IInv'
<1> DEFINE e == [type |-> type, alert |-> a, by |-> by]
<1>1. /\ notes' = [notes EXCEPT ![c] = Append(notes[c], e)] /\ Cardinality(Places) < MaxNotes
      /\ UNCHANGED <<req, analyses>>
  BY DEF Note, Written, Places
<1>2. e \in Activity /\ e.type = type /\ e.alert = a /\ e.by = by
  BY DEF Activity
<1>3. notes \in [Cases -> Seq(Activity)]
  BY DEF IInv, Shapes
<1> HIDE DEF e
<1>4. PICK l \in Nat : l = Len(notes[c])
  BY <1>3, LenProperties
<1>5. /\ notes'[c] \in Seq(Activity) /\ Len(notes'[c]) = l + 1
      /\ \A i \in 1 .. l : notes'[c][i] = notes[c][i]
      /\ notes'[c][l + 1] = e
  <2>1. notes'[c] = Append(notes[c], e) /\ notes[c] \in Seq(Activity)
    BY <1>1, <1>3
  <2> QED BY <1>2, <1>4, <2>1, AppendProperties
<1>6. \A d \in Cases : d # c => notes'[d] = notes[d]
  BY <1>1, <1>3
<1>7. Grown
  <2> SUFFICES ASSUME NEW d \in Cases
               PROVE  /\ Len(notes[d]) \in Nat /\ Len(notes'[d]) \in Nat
                      /\ Len(notes[d]) <= Len(notes'[d])
                      /\ \A i \in 1 .. Len(notes[d]) : notes'[d][i] = notes[d][i]
    BY DEF Grown
  <2>1. Len(notes[d]) \in Nat
    BY <1>3, LenProperties
  <2> QED BY <1>4, <1>5, <1>6, <2>1
<1>8. Shapes'
  <2>1. notes' = [d \in Cases |-> notes'[d]]
    BY <1>1, <1>3
  <2>2. \A d \in Cases : notes'[d] \in Seq(Activity)
    BY <1>3, <1>5, <1>6
  <2> QED BY <1>1, <2>1, <2>2 DEF IInv, Shapes
<1>9. Bounded'
  <2>1. ASSUME NEW s \in Seq(Activity) PROVE DOMAIN s = 1 .. Len(s)
    BY LenProperties
  <2>2. DOMAIN notes'[c] = DOMAIN notes[c] \cup {l + 1}
    <3>1. DOMAIN notes'[c] = 1 .. l + 1 /\ DOMAIN notes[c] = 1 .. l
      BY <1>3, <1>4, <1>5, <2>1
    <3> QED BY <3>1
  <2>3. Places' = Places \cup {<<c, l + 1>>}
    BY <1>6, <2>2 DEF Places
  <2>4. IsFiniteSet(Places) /\ Cardinality(Places) \in Nat
    BY FS_CardinalityType DEF IInv, Bounded
  <2>5. IsFiniteSet(Places') /\ Cardinality(Places') <= Cardinality(Places) + 1
    <3>1. PICK w : w = <<c, l + 1>>
      OBVIOUS
    <3>2. /\ IsFiniteSet(Places \cup {w})
          /\ \/ Cardinality(Places \cup {w}) = Cardinality(Places)
             \/ Cardinality(Places \cup {w}) = Cardinality(Places) + 1
      BY <2>4, FS_AddElement
    <3> QED BY <2>3, <2>4, <3>1, <3>2
  <2>6. Cardinality(Places') \in Nat
    BY <2>5, FS_CardinalityType
  <2> QED BY <1>1, <2>4, <2>5, <2>6, LimitAssumption DEF Bounded
<1>10. by = "server" => ToldIn(notes'[c], type, a, l, l + 1)
  <2>1. l + 1 \in l + 1 .. l + 1
    OBVIOUS
  <2> QED BY <1>2, <1>5, <2>1 DEF ToldIn
<1>11. StepExplained
  <2> SUFFICES ASSUME NEW d \in Cases
               PROVE  ExplainedIn(notes'[d], linked[d], linked'[d], Len(notes[d]), Len(notes'[d]))
    BY DEF StepExplained
  <2>1. CASE linked'[d] = linked[d]
    BY <2>1 DEF ExplainedIn
  <2>2. CASE linked'[d] # linked[d]
    <3>1. d = c /\ by = "server"
      BY <2>2
    <3>2. PICK u, A, B : u = notes'[c] /\ A = linked[c] /\ B = linked'[c]
      OBVIOUS
    <3>3. ToldIn(u, type, a, l, l + 1)
      BY <1>10, <3>1, <3>2
    <3>4. \/ type = "alerts_added" /\ B = A \cup {a}
          \/ type = "alert_removed" /\ B = A \ {a}
      BY <2>2, <3>1, <3>2
    <3>5. ExplainedIn(u, A, B, l, l + 1)
      BY <3>3, <3>4 DEF ExplainedIn
    <3> QED BY <1>4, <1>5, <3>1, <3>2, <3>5
  <2> QED BY <2>1, <2>2
<1>12. ASSUME NEW d \in Cases PROVE CaseInv(d)'
  <2>1. PICK s, u, A, B : s = notes[d] /\ u = notes'[d] /\ A = linked[d] /\ B = linked'[d]
    OBVIOUS
  <2>2. /\ A \subseteq First[d] \cup AddedIn(s, Len(s))
        /\ AddedIn(s, Len(s)) \subseteq AddedIn(u, Len(u))
        /\ ExplainedIn(u, A, B, Len(s), Len(u)) /\ B \subseteq Alerts
        /\ Len(s) \in Nat /\ Len(u) \in Nat
    <3>1. AddedIn(notes[d], Len(notes[d])) \subseteq AddedIn(notes'[d], Len(notes'[d]))
      BY <1>7, AddedStays
    <3>2. linked'[d] \subseteq Alerts
      OBVIOUS
    <3> QED BY <1>7, <1>11, <2>1, <3>1, <3>2 DEF IInv, CaseInv, Grown, StepExplained
  <2>3. ASSUME NEW b \in B, b \notin A PROVE b \in AddedIn(u, Len(u))
    <3>1. ToldIn(u, "alerts_added", b, Len(s), Len(u))
      BY <2>2, <2>3 DEF ExplainedIn
    <3>2. 0 <= Len(s) /\ Len(u) <= Len(u) /\ 0 \in Nat
      BY <2>2
    <3>3. ToldIn(u, "alerts_added", b, 0, Len(u))
      BY <2>2, <3>1, <3>2, MoreTell
    <3> QED BY <2>2, <3>3 DEF AddedIn
  <2>4. B \subseteq First[d] \cup AddedIn(u, Len(u))
    BY <2>2, <2>3
  <2> QED BY <2>1, <2>4 DEF CaseInv
<1>13. ASSUME NEW r \in Requests PROVE ReqInv(r)'
  <2>1. req'[r] = req[r] /\ ReqInv(r) /\ Shapes
    BY <1>1 DEF IInv
  <2> QED BY <1>7, <1>11, <2>1, RequestStays
<1>14. ASSUME NEW x \in analyses' PROVE AnalysisInv(x)'
  BY <1>1, <1>7, AnalysisStays DEF IInv
<1> QED BY <1>8, <1>9, <1>12, <1>13, <1>14 DEF IInv

\* A link or its removal; or a removal of a link that is gone, which is told once more.
LEMMA OthersStep ==
  ASSUME IInv, NEW c \in Cases, NEW a \in Alerts,
         add_case_alerts(c, a) \/ remove_case_alert(c, a)
  PROVE  IInv'
<1>1. linked \in [Cases -> SUBSET Alerts] /\ a \in Alerts \cup {0}
      /\ {"alerts_added", "alert_removed"} \subseteq ActivityTypes
  BY DEF IInv, Shapes, ActivityTypes
<1>2. CASE add_case_alerts(c, a)
  <2>1. Note(c, "alerts_added", a, "server") /\ linked' = [linked EXCEPT ![c] = @ \cup {a}]
    BY <1>2 DEF add_case_alerts
  <2>2. /\ linked' \in [Cases -> SUBSET Alerts]
        /\ \A d \in Cases : d # c => linked'[d] = linked[d]
        /\ linked'[c] = linked[c] \cup {a}
    BY <1>1, <2>1
  <2> QED BY <1>1, <2>1, <2>2, NoteStep
<1>3. CASE remove_case_alert(c, a)
  <2>1. /\ Note(c, "alert_removed", a, "server")
        /\ linked' = [linked EXCEPT ![c] = @ \ {a}] \/ linked' = linked
    BY <1>3 DEF remove_case_alert
  <2>2. /\ linked' \in [Cases -> SUBSET Alerts]
        /\ \A d \in Cases : d # c => linked'[d] = linked[d]
        /\ linked'[c] = linked[c] \ {a} \/ linked'[c] = linked[c]
    BY <1>1, <2>1
  <2> QED BY <1>1, <2>1, <2>2, NoteStep
<1> QED BY <1>2, <1>3

\* An analyst's entry leaves the links alone.
LEMMA WriteStep ==
  ASSUME IInv, NEW c \in Cases, create_case_activity(c)
  PROVE  IInv'
<1>1. PICK post \in Posts : Note(c, post[1], post[2], "analyst") /\ linked' = linked
  BY DEF create_case_activity
<1>2. linked' \in [Cases -> SUBSET Alerts]
  BY <1>1 DEF IInv, Shapes
<1>3. post[1] \in ActivityTypes /\ post[2] \in Alerts \cup {0}
  BY ScopeAssumption
<1> QED BY <1>1, <1>2, <1>3, NoteStep
-----------------------------------------------------------------------------
(* What a request does. *)

\* A step of a request disturbs nothing that is said of others.
LEMMA RequestFrame ==
  ASSUME IInv, NEW r \in Requests, NEW v \in Reading, req' = [req EXCEPT ![r] = v],
         UNCHANGED <<linked, notes>>, ReqInv(r)'
  PROVE  /\ Shapes' /\ Bounded' /\ \A c \in Cases : CaseInv(c)'
         /\ \A s \in Requests : ReqInv(s)'
         /\ \A x \in analyses : AnalysisInv(x)'
<1>1. Shapes' /\ Bounded'
  BY DEF IInv, Shapes, Bounded, Places
<1>2. Grown
  BY LenProperties DEF IInv, Shapes, Grown
<1>3. \A c \in Cases : CaseInv(c)'
  BY DEF IInv, CaseInv
<1>4. ASSUME NEW s \in Requests PROVE ReqInv(s)'
  <2>1. CASE s = r
    BY <2>1
  <2>2. CASE s # r
    <3>1. req'[s] = req[s]
      BY <2>2 DEF IInv, Shapes
    <3> QED BY <3>1 DEF IInv, ReqInv, Idle
  <2> QED BY <2>1, <2>2
<1>5. \A x \in analyses : AnalysisInv(x)'
  BY <1>2, AnalysisStays DEF IInv
<1> QED BY <1>1, <1>3, <1>4, <1>5

\* A new request has read nothing.
LEMMA RequestStep ==
  ASSUME IInv, NEW r \in Requests, Request(r)
  PROVE  IInv'
<1>1. PICK k \in Kinds : \E x \in IF k = "triage" THEN Alerts ELSE Cases :
        req' = [req EXCEPT ![r] = [Idle EXCEPT !.kind = k, !.of = x, !.at = 1]]
  BY DEF Request
<1>2. PICK x \in IF k = "triage" THEN Alerts ELSE Cases :
        req' = [req EXCEPT ![r] = [Idle EXCEPT !.kind = k, !.of = x, !.at = 1]]
  BY <1>1
<1> DEFINE v == [kind |-> k, of |-> x, at |-> 1, alerts |-> {}, upto |-> 0, since |-> 0,
                 now |-> {}]
<1>3. req' = [req EXCEPT ![r] = v]
  <2>1. v = [Idle EXCEPT !.kind = k, !.of = x, !.at = 1]
    <3> DEFINE e == [Idle EXCEPT !.kind = k]
               f == [e EXCEPT !.of = x]
    <3>1. e = [kind |-> k, of |-> 0, at |-> 0, alerts |-> {}, upto |-> 0, since |-> 0,
               now |-> {}]
      BY DEF Idle
    <3>2. [Idle EXCEPT !.kind = k, !.of = x, !.at = 1] = [f EXCEPT !.at = 1]
      OBVIOUS
    <3> HIDE DEF e
    <3>3. f = [kind |-> k, of |-> x, at |-> 0, alerts |-> {}, upto |-> 0, since |-> 0,
               now |-> {}]
      BY <3>1
    <3> HIDE DEF f
    <3> QED BY <3>2, <3>3
  <2> HIDE DEF v
  <2> QED BY <1>2, <2>1
<1>4. v \in Reading
  BY DEF Reading
<1>5. req'[r] = v
  BY <1>3 DEF IInv, Shapes
<1>6. /\ v.kind = k /\ v.of = x /\ v.at = 1 /\ v.alerts = {} /\ v.upto = 0 /\ v.since = 0
      /\ v.now = {}
  OBVIOUS
<1> HIDE DEF v
<1>7. UNCHANGED <<linked, notes, analyses>>
  BY DEF Request
<1>8. ReqInv(r)'
  <2>1. k = "triage" => x \in Alerts
    OBVIOUS
  <2>2. k # "triage" => x \in Cases /\ 0 <= Len(notes[x])
    BY LenProperties DEF IInv, Shapes
  <2>3. k # "triage" => CaseReq(v, notes[x], linked[x])
    BY <1>6, <2>2 DEF CaseReq
  <2> QED BY <1>5, <1>6, <1>7, <2>1, <2>2, <2>3 DEF ReqInv
<1> QED BY <1>3, <1>4, <1>7, <1>8, RequestFrame DEF IInv

\* What a request has read after its next statement: the links of now, or the activities
\* up to now.
Links(q) == IF q.kind # "triage" THEN linked[q.of] ELSE {q.of}
Here(q) == IF q.kind # "triage" THEN linked[q.of] ELSE {}
Latest(q) == IF q.kind # "triage" THEN Len(notes[q.of]) ELSE 0
After(q, alerts, u, n) == [kind |-> q.kind, of |-> q.of, at |-> q.at + 1, alerts |-> alerts,
                           upto |-> u, since |-> n, now |-> Here(q)]

\* The statements of a request as what they make of its record.
LEMMA ReadsAre ==
  ASSUME Shapes, NEW r \in Requests, ReadLinks(r) \/ ReadAlerts(r) \/ ReadNotes(r),
         NEW q, q = req[r]
  PROVE  /\ UNCHANGED <<linked, notes, analyses>>
         /\ \/ q.at = 1 /\ req' = [req EXCEPT ![r] = After(q, Links(q), q.upto, Latest(q))]
            \/ q.at = 2 /\ req' = [req EXCEPT ![r] = After(q, q.alerts, q.upto, q.since)]
            \/ q.at = 3 /\ req' = [req EXCEPT ![r] = After(q, q.alerts, Latest(q), q.since)]
<1>1. q \in Reading
  BY DEF Shapes
<1>2. q = [kind |-> q.kind, of |-> q.of, at |-> q.at, alerts |-> q.alerts,
           upto |-> q.upto, since |-> q.since, now |-> q.now]
  BY <1>1 DEF Reading
<1>3. ASSUME NEW found, found.of = q.of, found.at = q.at, NEW alerts, NEW u, NEW n,
             found = [kind |-> q.kind, of |-> q.of, at |-> q.at, alerts |-> alerts,
                      upto |-> u, since |-> n, now |-> q.now],
             Read(r, found)
      PROVE  req' = [req EXCEPT ![r] = After(q, alerts, u, n)]
             /\ UNCHANGED <<linked, notes, analyses>>
  <2>1. /\ req' = [req EXCEPT ![r] = [found EXCEPT !.at = @ + 1, !.now = Here(q)]]
        /\ UNCHANGED <<linked, notes, analyses>>
    BY <1>3 DEF Read, InCase, Here
  <2>2. [found EXCEPT !.at = @ + 1, !.now = Here(q)] = After(q, alerts, u, n)
    <3> DEFINE e == [found EXCEPT !.at = found.at + 1]
    <3>1. e = [kind |-> q.kind, of |-> q.of, at |-> q.at + 1, alerts |-> alerts,
               upto |-> u, since |-> n, now |-> q.now]
      BY <1>3
    <3>2. [found EXCEPT !.at = @ + 1, !.now = Here(q)] = [e EXCEPT !.now = Here(q)]
      BY <1>3
    <3> HIDE DEF e
    <3> QED BY <3>1, <3>2 DEF After
  <2> QED BY <2>1, <2>2
<1>4. CASE ReadLinks(r)
  <2> DEFINE e == [q EXCEPT !.alerts = Links(q)]
             f == [q EXCEPT !.alerts = Links(q), !.since = Latest(q)]
  <2>1. Read(r, f) /\ q.at \in DOMAIN Statements /\ Statements[q.at] = "links"
    BY <1>4 DEF ReadLinks, Reads, InCase, Links, Latest
  <2>2. q.at = 1
    BY <2>1 DEF Statements
  <2>3. f = [kind |-> q.kind, of |-> q.of, at |-> q.at, alerts |-> Links(q),
             upto |-> q.upto, since |-> Latest(q), now |-> q.now]
    <3>1. e = [kind |-> q.kind, of |-> q.of, at |-> q.at, alerts |-> Links(q),
               upto |-> q.upto, since |-> q.since, now |-> q.now]
      BY <1>2
    <3>2. f = [e EXCEPT !.since = Latest(q)]
      OBVIOUS
    <3> HIDE DEF e
    <3> QED BY <3>1, <3>2
  <2>4. f.of = q.of /\ f.at = q.at
    BY <2>3
  <2> HIDE DEF f
  <2> QED BY <1>3, <2>1, <2>2, <2>3, <2>4
<1>5. CASE ReadAlerts(r)
  <2>1. Read(r, q) /\ q.at \in DOMAIN Statements /\ Statements[q.at] = "alerts"
    BY <1>5 DEF ReadAlerts, Reads
  <2>2. q.at = 2
    BY <2>1 DEF Statements
  <2> QED BY <1>2, <1>3, <2>1, <2>2
<1>6. CASE ReadNotes(r)
  <2> DEFINE f == [q EXCEPT !.upto = Latest(q)]
  <2>1. Read(r, f) /\ q.at \in DOMAIN Statements /\ Statements[q.at] = "notes"
    BY <1>6 DEF ReadNotes, Reads, InCase, Latest
  <2>2. q.at = 3
    BY <2>1 DEF Statements
  <2>3. f = [kind |-> q.kind, of |-> q.of, at |-> q.at, alerts |-> q.alerts,
             upto |-> Latest(q), since |-> q.since, now |-> q.now]
    BY <1>2
  <2>4. f.of = q.of /\ f.at = q.at
    BY <2>3
  <2> HIDE DEF f
  <2> QED BY <1>3, <2>1, <2>2, <2>3, <2>4
<1> QED BY <1>4, <1>5, <1>6

\* Reading on, a request finds activities that explain what has become of the links.
LEMMA ReadStep ==
  ASSUME IInv, NEW r \in Requests, ReadLinks(r) \/ ReadAlerts(r) \/ ReadNotes(r)
  PROVE  IInv'
<1>1. PICK q : q = req[r]
  OBVIOUS
<1>2. q \in Reading /\ ReqInv(r)
  BY <1>1 DEF IInv, Shapes
<1>3. PICK alerts, u, n :
        /\ req' = [req EXCEPT ![r] = After(q, alerts, u, n)]
        /\ UNCHANGED <<linked, notes, analyses>>
        /\ \/ q.at = 1 /\ alerts = Links(q) /\ u = q.upto /\ n = Latest(q)
           \/ q.at = 2 /\ alerts = q.alerts /\ u = q.upto /\ n = q.since
           \/ q.at = 3 /\ alerts = q.alerts /\ u = Latest(q) /\ n = q.since
  BY <1>1, ReadsAre DEF IInv
<1>4. q.at # 0 /\ q.at \in 1 .. 3
  BY <1>3
<1>5. PICK v : v = After(q, alerts, u, n)
  OBVIOUS
<1>6. /\ v.kind = q.kind /\ v.of = q.of /\ v.at = q.at + 1 /\ v.alerts = alerts /\ v.upto = u
      /\ v.since = n /\ v.now = Here(q)
  BY <1>5 DEF After
<1>7. q.kind = "triage" => q.of \in Alerts /\ q.alerts \subseteq {q.of}
  BY <1>1, <1>2, <1>4 DEF ReqInv
<1>8. PICK s, links : s = notes[q.of] /\ links = linked[q.of]
  OBVIOUS
<1>9. q.kind # "triage" =>
        /\ q.of \in Cases /\ CaseReq(q, s, links) /\ Len(s) \in Nat
        /\ links \subseteq Alerts /\ links \subseteq First[q.of] \cup AddedIn(s, Len(s))
        /\ Links(q) = links /\ Here(q) = links /\ Latest(q) = Len(s)
  BY <1>1, <1>2, <1>4, <1>8, LenProperties
  DEF ReqInv, IInv, CaseInv, Shapes, Links, Here, Latest
<1>10. alerts \in SUBSET Alerts /\ u \in Nat /\ n \in Nat /\ Here(q) \in SUBSET Alerts
  <2>1. CASE q.kind = "triage"
    BY <1>2, <1>3, <1>7, <2>1 DEF Reading, Links, Here, Latest
  <2>2. CASE q.kind # "triage"
    BY <1>2, <1>3, <1>9, <2>2 DEF Reading
  <2> QED BY <2>1, <2>2
<1>11. v \in Reading
  <2>1. q.at + 1 \in 0 .. 5 /\ q.kind \in Kinds \cup {None} /\ q.of \in Cases \cup Alerts \cup {0}
    BY <1>2, <1>4 DEF Reading
  <2> QED BY <1>5, <1>10, <2>1 DEF Reading, After
<1>12. req' = [req EXCEPT ![r] = v] /\ req'[r] = v
  BY <1>3, <1>5 DEF IInv, Shapes
<1>13. ReqInv(r)'
  <2>1. CASE q.kind = "triage"
    <3>1. alerts \subseteq {q.of}
      BY <1>3, <1>7, <2>1 DEF Links
    <3> QED BY <1>4, <1>6, <1>7, <1>12, <2>1, <3>1 DEF ReqInv
  <2>2. CASE q.kind # "triage"
    <3>1. /\ q.upto <= Len(s) /\ q.since <= Len(s)
          /\ q.alerts \subseteq First[q.of] \cup AddedIn(s, Len(s))
          /\ q.at >= 2 => ExplainedIn(s, q.alerts, links, q.since, Len(s))
      BY <1>9, <2>2 DEF CaseReq
    <3>2. \A m : ExplainedIn(s, links, links, m, Len(s))
      BY DEF ExplainedIn
    <3>3. CaseReq(v, s, links)
      <4>1. CASE q.at = 1
        BY <1>3, <1>6, <1>9, <2>2, <3>1, <3>2, <4>1 DEF CaseReq
      <4>2. CASE q.at = 2
        BY <1>3, <1>6, <1>9, <2>2, <3>1, <4>2 DEF CaseReq
      <4>3. CASE q.at = 3
        BY <1>3, <1>6, <1>9, <2>2, <3>1, <4>3 DEF CaseReq
      <4> QED BY <1>4, <4>1, <4>2, <4>3
    <3>4. s = notes'[v.of] /\ links = linked'[v.of] /\ v.of \in Cases
      BY <1>3, <1>6, <1>8, <1>9, <2>2
    <3> QED BY <1>4, <1>6, <1>12, <2>2, <3>3, <3>4 DEF ReqInv
  <2> QED BY <2>1, <2>2
<1> QED BY <1>3, <1>11, <1>12, <1>13, RequestFrame DEF IInv
-----------------------------------------------------------------------------
(* What a request sends. *)

\* A case has no more activities than all have.
LEMMA NotesBounded ==
  ASSUME Shapes, Bounded, NEW c \in Cases
  PROVE  Len(notes[c]) \in Nat /\ Len(notes[c]) <= MaxNotes
<1>1. PICK l \in Nat : l = Len(notes[c]) /\ DOMAIN notes[c] = 1 .. l
  BY LenProperties DEF Shapes
<1>2. IsFiniteSet(1 .. l) /\ Cardinality(1 .. l) = l
  <2>1. l \in Int /\ 1 \in Int
    BY <1>1
  <2>2. IsFiniteSet(1 .. l) /\ Cardinality(1 .. l) = IF 1 > l THEN 0 ELSE l - 1 + 1
    BY <2>1, FS_Interval
  <2>3. Cardinality(1 .. l) = l
    BY <1>1, <2>2
  <2> QED BY <2>2, <2>3
<1>3. IsFiniteSet({c}) /\ Cardinality({c}) = 1
  BY FS_Singleton
<1>4. Cardinality({c} \X (1 .. l)) = Cardinality({c}) * Cardinality(1 .. l)
  BY <1>2, <1>3, FS_Product
<1>5. {c} \X (1 .. l) \in SUBSET Places
  <2>1. {c} \X DOMAIN notes[c] \subseteq Places
    BY DEF Places
  <2> QED BY <1>1, <2>1
<1>6. Cardinality({c} \X (1 .. l)) <= Cardinality(Places) /\ Cardinality(Places) \in Nat
  BY <1>5, FS_Subset, FS_CardinalityType DEF Bounded
<1>7. Cardinality({c} \X (1 .. l)) = l
  BY <1>2, <1>3, <1>4
<1> QED BY <1>1, <1>6, <1>7, LimitAssumption DEF Bounded

NoteItems(c, n) == [i \in 1 .. n |-> NoteItem(c, i)]
With(A) == FlattenSeq(Blocks(ById(A), Cardinality(A)))

\* The items of a request: the alerts with their parts, for a case between the case and its
\* activities.
LEMMA ItemsAre ==
  ASSUME Shapes, NEW r \in Requests, NEW q, q = req[r]
  PROVE  /\ Items(r) = IF q.kind # "triage"
                         THEN (<<CaseItem(q.of)>> \o With(q.alerts)) \o NoteItems(q.of, q.upto + 1)
                         ELSE With(q.alerts)
         /\ Nested(With(q.alerts), q.alerts)
         /\ With(q.alerts) \in Seq(Citable)
<1>1. q.alerts \subseteq Alerts
  BY DEF Shapes, Reading
<1>2. IsFiniteSet(q.alerts) /\ q.alerts \subseteq Nat
  BY <1>1, ScopeAssumption, FS_Subset
<1>3. Cardinality(q.alerts) \in Nat /\ ById(q.alerts) \in [1 .. Cardinality(q.alerts) -> q.alerts]
  BY <1>2, ByIdIs
<1>4. Nested(With(q.alerts), q.alerts)
  BY <1>1, <1>3, FlattenNested DEF With
<1>5. DOMAIN ById(q.alerts) = 1 .. Cardinality(q.alerts)
  BY <1>3
<1>6. [i \in DOMAIN ById(q.alerts) |-> <<AlertItem(ById(q.alerts)[i])>> \o Parts[ById(q.alerts)[i]]]
        = Blocks(ById(q.alerts), Cardinality(q.alerts))
  BY <1>5 DEF Blocks, Block
<1>7. Items(r) = IF q.kind # "triage"
                   THEN (<<CaseItem(q.of)>> \o With(q.alerts)) \o NoteItems(q.of, q.upto + 1)
                   ELSE With(q.alerts)
  BY <1>6 DEF Items, InCase, With, NoteItems
<1> QED BY <1>4, <1>7 DEF Nested

\* An activity of a case can be cited.
LEMMA NoteIsCitable ==
  ASSUME NEW d \in Cases, NEW j \in 1 .. MaxNotes + 1
  PROVE  NoteItem(d, j) \in Citable
BY DEF Citable

\* So can as many as there are.
LEMMA NotesAreCitable ==
  ASSUME NEW c \in Cases, NEW n \in Nat, n <= MaxNotes + 1
  PROVE  /\ NoteItems(c, n) \in Seq(Citable) /\ Len(NoteItems(c, n)) = n
         /\ \A i \in 1 .. n : i \in 1 .. MaxNotes + 1 /\ NoteItems(c, n)[i] = NoteItem(c, i)
<1> DEFINE s == NoteItems(c, n)
<1>1. \A i \in 1 .. n : i \in 1 .. MaxNotes + 1
  BY LimitAssumption
<1>2. \A i \in 1 .. MaxNotes + 1 : NoteItem(c, i) \in Citable
  BY NoteIsCitable
<1>3. s = [i \in 1 .. n |-> s[i]] /\ \A i \in 1 .. n : s[i] = NoteItem(c, i)
  BY DEF NoteItems
<1> HIDE DEF s
<1>4. s \in [1 .. n -> Citable]
  BY <1>1, <1>2, <1>3
<1>5. s \in Seq(Citable)
  BY <1>4, SeqDef
<1>6. Len(s) \in Nat /\ 1 .. n = 1 .. Len(s)
  BY <1>4, <1>5, LenProperties
<1>7. Len(s) = n
  <2> DEFINE l == Len(s)
  <2> HIDE DEF l
  <2>1. l \in Nat /\ 1 .. n = 1 .. l
    BY <1>6 DEF l
  <2>2. (n = 0 \/ n \in 1 .. n) /\ (l = 0 \/ l \in 1 .. l)
    BY <2>1
  <2>3. n <= l
    BY <2>1, <2>2
  <2>4. l <= n
    BY <2>1, <2>2
  <2> QED BY <2>1, <2>3, <2>4 DEF l
<1> QED BY <1>1, <1>3, <1>5, <1>7 DEF s

\* So can the case.
LEMMA CaseIsCitable ==
  ASSUME NEW c \in Cases
  PROVE  CaseItem(c) \in Citable
BY DEF Citable

\* At place k of the items q of a case is the case, which is the first, or an activity, or
\* what belongs to an alert.
InPlace(q, k, c, A) == \/ q[k] = CaseItem(c)
                       \/ \E i \in 1 .. MaxNotes + 1 : q[k] = NoteItem(c, i)
                       \/ Placed(q, k, A)

\* So it is at every place: the case is put before the alerts, the activities after them.
LEMMA CaseItemsAre ==
  ASSUME NEW c \in Cases, NEW A, NEW n \in Nat, n <= MaxNotes + 1, NEW p, Nested(p, A),
         NEW q, q = (<<CaseItem(c)>> \o p) \o NoteItems(c, n)
  PROVE  /\ q \in Seq(Citable) /\ Len(q) \in Nat /\ q[1] = CaseItem(c) /\ 1 <= Len(q)
         /\ \A k \in 1 .. Len(q) : InPlace(q, k, c, A)
<1> DEFINE h == <<CaseItem(c)>>
           m == NoteItems(c, n)
           w == h \o p
<1>1. h \in Seq(Citable) /\ Len(h) = 1 /\ h[1] = CaseItem(c)
  <2>1. CaseItem(c) \in Citable
    BY CaseIsCitable
  <2> QED BY <2>1
<1>2. p \in Seq(Citable) /\ Len(p) \in Nat
  BY LenProperties DEF Nested
<1>3. /\ m \in Seq(Citable) /\ Len(m) = n
      /\ \A i \in 1 .. n : i \in 1 .. MaxNotes + 1 /\ m[i] = NoteItem(c, i)
  BY NotesAreCitable
<1>4. q = w \o m
  OBVIOUS
<1>5. /\ w \in Seq(Citable) /\ Len(w) = 1 + Len(p)
      /\ \A i \in 1 .. 1 + Len(p) : w[i] = IF i <= 1 THEN h[i] ELSE p[i - 1]
  BY <1>1, <1>2, ConcatProperties
<1> HIDE DEF w, m, h
<1>6. /\ q \in Seq(Citable) /\ Len(q) = Len(w) + n
      /\ \A i \in 1 .. Len(w) + n : q[i] = IF i <= Len(w) THEN w[i] ELSE m[i - Len(w)]
  <2>1. /\ w \o m \in Seq(Citable) /\ Len(w \o m) = Len(w) + Len(m)
        /\ \A i \in 1 .. Len(w) + Len(m) : (w \o m)[i] = IF i <= Len(w) THEN w[i]
                                                                      ELSE m[i - Len(w)]
    BY <1>3, <1>5, ConcatProperties
  <2> QED BY <1>3, <1>4, <2>1
<1>7. /\ Len(q) \in Nat /\ 1 <= Len(q) /\ q[1] = CaseItem(c)
      /\ \A i \in 1 .. Len(p) : i + 1 \in 1 .. Len(q) /\ q[i + 1] = p[i]
  BY <1>1, <1>2, <1>5, <1>6
<1>8. ASSUME NEW k \in 1 .. Len(q) PROVE InPlace(q, k, c, A)
  <2>1. CASE k = 1
    BY <1>7, <2>1 DEF InPlace
  <2>2. CASE k > 1 /\ k <= Len(p) + 1
    <3> DEFINE j == k - 1
    <3>1. j \in 1 .. Len(p) /\ k = j + 1
      BY <1>2, <1>7, <2>2
    <3>2. \A i \in 1 .. j - 1 : i \in 1 .. Len(p) /\ i + 1 \in 1 .. k - 1
      BY <1>2, <3>1
    <3> HIDE DEF j
    <3>3. Placed(p, j, A) /\ q[k] = p[j]
      BY <1>7, <3>1 DEF Nested
    <3>4. PICK a \in A : \/ p[j] = AlertItem(a)
                         \/ IsPart(p[j], a) /\ \E i \in 1 .. j - 1 : p[i] = AlertItem(a)
      BY <3>3 DEF Placed
    <3>5. CASE p[j] = AlertItem(a)
      BY <3>3, <3>5 DEF InPlace, Placed
    <3>6. CASE IsPart(p[j], a) /\ \E i \in 1 .. j - 1 : p[i] = AlertItem(a)
      <4>1. PICK i \in 1 .. j - 1 : p[i] = AlertItem(a)
        BY <3>6
      <4>2. i + 1 \in 1 .. k - 1 /\ q[i + 1] = AlertItem(a)
        BY <1>7, <3>2, <4>1
      <4>3. Placed(q, k, A)
        BY <3>3, <3>6, <4>2 DEF Placed
      <4> QED BY <4>3 DEF InPlace
    <3> QED BY <3>4, <3>5, <3>6
  <2>3. CASE k > Len(p) + 1
    <3>1. k - Len(w) \in 1 .. n /\ q[k] = m[k - Len(w)]
      BY <1>2, <1>5, <1>6, <2>3
    <3> QED BY <1>3, <3>1 DEF InPlace
  <2> QED BY <1>2, <1>7, <2>1, <2>2, <2>3
<1> QED BY <1>6, <1>7, <1>8

\* What a piece x of the evidence ev of a request with record q is: the case, or an activity
\* or an alert with the case, or a part with its alert.
Belongs(x, q, ev) ==
  \/ q.kind # "triage" /\ x = CaseItem(q.of)
  \/ /\ q.kind # "triage" /\ CaseItem(q.of) \in ev
     /\ \E i \in 1 .. MaxNotes + 1 : x = NoteItem(q.of, i)
  \/ /\ \E a \in q.alerts : x = AlertItem(a)
     /\ q.kind # "triage" => CaseItem(q.of) \in ev
  \/ \E a \in q.alerts : IsPart(x, a) /\ AlertItem(a) \in ev

\* The items of a request, all of them, are in their places.
LEMMA ItemsInPlace ==
  ASSUME Shapes, Bounded, NEW r \in Requests, ReqInv(r), NEW q, q = req[r], q.at # 0
  PROVE  /\ Items(r) \in Seq(Citable)
         /\ \A k \in 1 .. Len(Items(r)) :
              \/ q.kind # "triage" /\ InPlace(Items(r), k, q.of, q.alerts)
              \/ q.kind = "triage" /\ Placed(Items(r), k, q.alerts)
         /\ q.kind # "triage" => Items(r)[1] = CaseItem(q.of)
<1>1. /\ Items(r) = IF q.kind # "triage"
                      THEN (<<CaseItem(q.of)>> \o With(q.alerts)) \o NoteItems(q.of, q.upto + 1)
                      ELSE With(q.alerts)
      /\ Nested(With(q.alerts), q.alerts) /\ With(q.alerts) \in Seq(Citable)
  BY ItemsAre
<1>2. CASE q.kind = "triage"
  BY <1>1, <1>2 DEF Nested
<1>3. CASE q.kind # "triage"
  <2>1. q.of \in Cases /\ q.upto <= Len(notes[q.of]) /\ q.upto \in Nat
    BY <1>3 DEF ReqInv, CaseReq, Shapes, Reading
  <2>2. Len(notes[q.of]) \in Nat /\ Len(notes[q.of]) <= MaxNotes
    BY <2>1, NotesBounded
  <2>3. q.upto + 1 \in Nat /\ q.upto + 1 <= MaxNotes + 1
    BY <2>1, <2>2, LimitAssumption
  <2>4. PICK n, p, c, A : n = q.upto + 1 /\ p = With(q.alerts) /\ c = q.of /\ A = q.alerts
    OBVIOUS
  <2>5. PICK items : items = (<<CaseItem(c)>> \o p) \o NoteItems(c, n)
    OBVIOUS
  <2>6. /\ items \in Seq(Citable) /\ items[1] = CaseItem(c)
        /\ \A k \in 1 .. Len(items) : InPlace(items, k, c, A)
    <3>1. Nested(p, A)
      BY <1>1, <2>4
    <3>2. c \in Cases /\ n \in Nat /\ n <= MaxNotes + 1
      BY <2>1, <2>3, <2>4
    <3> QED BY <2>5, <3>1, <3>2, CaseItemsAre
  <2>7. Items(r) = items
    BY <1>1, <1>3, <2>4, <2>5
  <2> QED BY <1>3, <2>4, <2>6, <2>7
<1> QED BY <1>2, <1>3

\* What is sent fits, and has with each piece of evidence what it belongs to.
LEMMA EvidenceIs ==
  ASSUME Shapes, Bounded, NEW r \in Requests, ReqInv(r), NEW q, q = req[r], q.at # 0
  PROVE  /\ Fits(Sent(r))
         /\ \A x \in evidence_ids(r) : x \in Citable /\ Belongs(x, q, evidence_ids(r))
<1>1. PICK items : items = Items(r)
  OBVIOUS
<1>2. /\ items \in Seq(Citable)
      /\ \A k \in 1 .. Len(items) :
           \/ q.kind # "triage" /\ InPlace(items, k, q.of, q.alerts)
           \/ q.kind = "triage" /\ Placed(items, k, q.alerts)
      /\ q.kind # "triage" => items[1] = CaseItem(q.of)
  BY <1>1, ItemsInPlace
<1>3. PICK s : s = Sent(r)
  OBVIOUS
<1>4. s = Selected(items) /\ evidence_ids(r) = {s[i] : i \in DOMAIN s}
  BY <1>1, <1>3 DEF Sent, evidence_ids
<1>5. Fits(s)
  BY <1>2, <1>4, SelectedIs
<1>6. PICK n \in 0 .. Len(items) : DOMAIN s = 1 .. n /\ \A k \in 1 .. n : s[k] = items[k]
  BY <1>2, <1>4, SelectedIs
<1>7. PICK ev : ev = {s[i] : i \in 1 .. n} /\ ev = evidence_ids(r)
  BY <1>4, <1>6
<1>8. Len(items) \in Nat /\ n \in Nat /\ n <= Len(items)
  BY <1>2, <1>6, LenProperties
<1>9. \A j \in 1 .. n : items[j] \in ev
  BY <1>6, <1>7
<1>10. ASSUME NEW k \in 1 .. n
       PROVE  items[k] \in Citable /\ Belongs(items[k], q, ev)
  <2>1. k \in 1 .. Len(items) /\ 1 \in 1 .. n /\ \A j \in 1 .. k - 1 : j \in 1 .. n
    BY <1>8
  <2>2. items[k] \in Citable
    BY <1>2, <2>1, ElementOfSeq
  <2>3. q.kind # "triage" => CaseItem(q.of) \in ev
    BY <1>2, <1>9, <2>1
  <2>4. CASE Placed(items, k, q.alerts)
    <3>1. PICK a \in q.alerts : \/ items[k] = AlertItem(a)
                                \/ /\ IsPart(items[k], a)
                                   /\ \E j \in 1 .. k - 1 : items[j] = AlertItem(a)
      BY <2>4 DEF Placed
    <3>2. CASE items[k] = AlertItem(a)
      BY <2>2, <2>3, <3>2 DEF Belongs
    <3>3. CASE IsPart(items[k], a) /\ \E j \in 1 .. k - 1 : items[j] = AlertItem(a)
      <4>1. AlertItem(a) \in ev
        BY <1>9, <2>1, <3>3
      <4> QED BY <2>2, <3>3, <4>1 DEF Belongs
    <3> QED BY <3>1, <3>2, <3>3
  <2>5. CASE q.kind # "triage" /\ ~Placed(items, k, q.alerts)
    <3>1. \/ items[k] = CaseItem(q.of)
          \/ \E i \in 1 .. MaxNotes + 1 : items[k] = NoteItem(q.of, i)
      BY <1>2, <2>1, <2>5 DEF InPlace
    <3> QED BY <2>2, <2>3, <2>5, <3>1 DEF Belongs
  <2>6. Placed(items, k, q.alerts) \/ q.kind # "triage"
    BY <1>2, <2>1
  <2> QED BY <2>4, <2>5, <2>6
<1>11. \A x \in ev : x \in Citable /\ Belongs(x, q, ev)
  BY <1>6, <1>7, <1>10
<1> QED BY <1>3, <1>5, <1>7, <1>11

\* All of it is in the scope of an analysis of the request.
LEMMA EvidenceInScope ==
  ASSUME IInv, NEW r \in Requests, NEW q, q = req[r], q.at # 0,
         NEW x, x.kind = q.kind, x.of = q.of
  PROVE  evidence_ids(r) \subseteq Scope(x)
<1> DEFINE alerts == IF x.kind = "triage" THEN {x.of}
                     ELSE First[x.of] \cup Added(x.of, Len(notes[x.of]))
<1>1. Shapes /\ Bounded /\ ReqInv(r)
  BY DEF IInv
<1>2. PICK ev : ev = evidence_ids(r) /\ \A y \in ev : y \in Citable /\ Belongs(y, q, ev)
  BY <1>1, EvidenceIs
<1>3. q.alerts \subseteq alerts
  <2>1. Added(q.of, Len(notes[q.of])) = AddedIn(notes[q.of], Len(notes[q.of]))
    BY TellingIs
  <2> QED BY <1>1, <2>1 DEF ReqInv, CaseReq
<1>4. Scope(x) = {y \in Citable :
        \/ y.type = "alert" /\ y.id[1] \in alerts
        \/ \E a \in alerts : y \in Range(Parts[a])
        \/ x.kind # "triage" /\ y.type \in {"case", "analyst_note"} /\ y.id[1] = x.of}
  BY DEF Scope
<1> HIDE DEF alerts
<1>5. ASSUME NEW y \in ev PROVE y \in Scope(x)
  <2>1. y \in Citable /\ Belongs(y, q, ev)
    BY <1>2
  <2>2. CASE x.kind # "triage" /\ y = CaseItem(x.of)
    <3>1. y.type = "case" /\ y.id[1] = x.of
      BY <2>2 DEF CaseItem
    <3> QED BY <1>4, <2>1, <2>2, <3>1
  <2>3. CASE x.kind # "triage" /\ \E i \in 1 .. MaxNotes + 1 : y = NoteItem(x.of, i)
    <3>1. y.type = "analyst_note" /\ y.id[1] = x.of
      BY <2>3 DEF NoteItem
    <3> QED BY <1>4, <2>1, <2>3, <3>1
  <2>4. CASE \E a \in q.alerts : y = AlertItem(a)
    <3>1. y.type = "alert" /\ y.id[1] \in alerts
      BY <1>3, <2>4 DEF AlertItem
    <3> QED BY <1>4, <2>1, <3>1
  <2>5. CASE \E a \in q.alerts : IsPart(y, a)
    <3>1. \E a \in alerts : y \in Range(Parts[a])
      BY <1>3, <2>5 DEF IsPart
    <3> QED BY <1>4, <2>1, <3>1
  <2> QED BY <2>1, <2>2, <2>3, <2>4, <2>5 DEF Belongs
<1> QED BY <1>2, <1>5

\* Recording an analysis ends the request; the analysis must be right.
LEMMA RecordStep ==
  ASSUME IInv, NEW r \in Requests, NEW x, Record(r, x), AnalysisInv(x)
  PROVE  IInv'
<1>1. PICK q : q = req[r]
  OBVIOUS
<1>2. q \in Reading /\ ReqInv(r)
  BY <1>1 DEF IInv, Shapes
<1>3. q.at = 4 /\ Ended = 5
  BY <1>1 DEF Record, Assembled, Statements, Ended
<1>4. PICK v : v = [q EXCEPT !.at = 5]
  OBVIOUS
<1>5. /\ v \in Reading
      /\ v.kind = q.kind /\ v.of = q.of /\ v.at = 5 /\ v.alerts = q.alerts /\ v.upto = q.upto
      /\ v.now = q.now /\ v.since = q.since
  BY <1>2, <1>4 DEF Reading
<1>6. /\ req' = [req EXCEPT ![r] = v] /\ req'[r] = v
      /\ UNCHANGED <<linked, notes>> /\ analyses' = analyses \cup {x}
  BY <1>1, <1>3, <1>4 DEF Record, IInv, Shapes
<1>7. ReqInv(r)'
  <2>2. CASE q.kind = "triage"
    BY <1>1, <1>2, <1>3, <1>5, <1>6, <2>2 DEF ReqInv
  <2>3. CASE q.kind # "triage"
    <3>1. q.of \in Cases /\ CaseReq(q, notes[q.of], linked[q.of])
      BY <1>1, <1>2, <1>3, <2>3 DEF ReqInv
    <3>2. CaseReq(v, notes[q.of], linked[q.of])
      BY <1>3, <1>5, <3>1 DEF CaseReq
    <3> QED BY <1>5, <1>6, <2>3, <3>1, <3>2 DEF ReqInv
  <2> QED BY <2>2, <2>3
<1>8. AnalysisInv(x)'
  <2>1. Grown
    BY <1>6, LenProperties DEF IInv, Shapes, Grown
  <2> QED BY <2>1, AnalysisStays
<1>9. /\ Shapes' /\ Bounded' /\ \A c \in Cases : CaseInv(c)'
      /\ \A s \in Requests : ReqInv(s)'
      /\ \A y \in analyses : AnalysisInv(y)'
  BY <1>5, <1>6, <1>7, RequestFrame
<1>10. \A y \in analyses' : AnalysisInv(y)'
  BY <1>6, <1>8, <1>9
<1> QED BY <1>9, <1>10 DEF IInv

\* An analysis of what was sent, with no output or one that was found valid, is right.
LEMMA AnalysisIsRight ==
  ASSUME IInv, NEW r \in Requests, Assembled(r), NEW status, NEW output,
         output = None \/ Valid(r, output)
  PROVE  AnalysisInv(Analysis(r, status, output))
<1>1. PICK q : q = req[r]
  OBVIOUS
<1>2. q.at = 4
  BY <1>1 DEF Assembled, Statements
<1>3. PICK ev : ev = evidence_ids(r)
  OBVIOUS
<1>4. PICK x : x = Analysis(r, status, output)
  OBVIOUS
<1>5. /\ x.kind = q.kind /\ x.of = q.of /\ x.output = output /\ x.evidence_refs = ev
  BY <1>1, <1>3, <1>4 DEF Analysis
<1>6. ev \subseteq Scope(x)
  BY <1>1, <1>2, <1>3, <1>5, EvidenceInScope
<1>7. x.kind # "triage" => x.of \in Cases
  BY <1>1, <1>2, <1>5 DEF IInv, ReqInv
<1>8. output # None =>
        output.refs \cup (IF q.kind = "report_draft" THEN {} ELSE output.facts) \subseteq ev
  BY <1>1, <1>3 DEF Valid, Cited
<1>9. AnalysisInv(x)
  BY <1>5, <1>6, <1>7, <1>8 DEF AnalysisInv
<1> QED BY <1>4, <1>9

\* So is what is recorded after an answer, or without one.
LEMMA AnswerStep ==
  ASSUME IInv, NEW r \in Requests, Answer(r) \/ NoAnswer(r)
  PROVE  IInv'
<1>1. PICK x : Record(r, x) /\ \E status : \/ x = Analysis(r, status, None)
                                           \/ \E output : /\ x = Analysis(r, status, output)
                                                          /\ Valid(r, output)
  <2>1. CASE Answer(r)
    <3>1. PICK output : Record(r, IF Valid(r, output) THEN Analysis(r, "succeeded", output)
                                                      ELSE Analysis(r, "failed", None))
      BY <2>1 DEF Answer
    <3>2. CASE Valid(r, output)
      BY <3>1, <3>2, Zenon
    <3>3. CASE ~Valid(r, output)
      BY <3>1, <3>3, Zenon
    <3> QED BY <3>2, <3>3
  <2>2. CASE NoAnswer(r)
    BY <2>2, Zenon DEF NoAnswer
  <2> QED BY <2>1, <2>2
<1>2. Assembled(r)
  BY <1>1 DEF Record
<1>3. AnalysisInv(x)
  BY <1>1, <1>2, AnalysisIsRight
<1> QED BY <1>1, <1>3, RecordStep
-----------------------------------------------------------------------------
(***************************************************************************)
(* The specification.                                                      *)
(***************************************************************************)

\* At first no activity tells of anything but the alerts a case was created with.
LEMMA InitIInv == Init => IInv
<1> SUFFICES ASSUME Init PROVE IInv
  OBVIOUS
<1>1. \A c \in Cases : notes[c] = <<>> /\ linked[c] = First[c]
  BY DEF Init
<1>2. Shapes
  <2>1. linked \in [Cases -> SUBSET Alerts]
    BY ScopeAssumption DEF Init
  <2>2. notes \in [Cases -> Seq(Activity)]
    BY DEF Init
  <2>3. Idle \in Reading
    BY DEF Idle, Reading
  <2>4. req \in [Requests -> Reading]
    BY <2>3 DEF Init
  <2> QED BY <2>1, <2>2, <2>4 DEF Shapes
<1>3. Bounded
  <2>1. \A c \in Cases : {c} \X DOMAIN notes[c] = {}
    BY <1>1
  <2>2. Places = {}
    BY <2>1 DEF Places
  <2> QED BY <2>2, FS_EmptySet, LimitAssumption DEF Bounded
<1>4. ASSUME NEW c \in Cases PROVE CaseInv(c)
  BY <1>1 DEF CaseInv
<1>5. \A r \in Requests : ReqInv(r)
  BY DEF Init, ReqInv, Idle
<1>6. \A x \in analyses : AnalysisInv(x)
  BY DEF Init
<1> QED BY <1>2, <1>3, <1>4, <1>5, <1>6 DEF IInv

\* Every step keeps the invariant.
LEMMA NextIInv == IInv /\ [Next]_vars => IInv'
<1> SUFFICES ASSUME IInv, [Next]_vars PROVE IInv'
  OBVIOUS
<1>1. ASSUME NEW c \in Cases, NEW a \in Alerts,
             add_case_alerts(c, a) \/ remove_case_alert(c, a)
      PROVE  IInv'
  BY <1>1, OthersStep
<1>2. ASSUME NEW c \in Cases, create_case_activity(c) PROVE IInv'
  BY <1>2, WriteStep
<1>3. ASSUME NEW r \in Requests, Request(r) PROVE IInv'
  BY <1>3, RequestStep
<1>4. ASSUME NEW r \in Requests, ReadLinks(r) \/ ReadAlerts(r) \/ ReadNotes(r) PROVE IInv'
  BY <1>4, ReadStep
<1>5. ASSUME NEW r \in Requests, Answer(r) \/ NoAnswer(r) PROVE IInv'
  BY <1>5, AnswerStep
<1>6. CASE UNCHANGED vars
  <2>1. linked' = linked /\ notes' = notes /\ req' = req /\ analyses' = analyses
    BY <1>6 DEF vars
  <2>2. Shapes' /\ Bounded'
    BY <2>1 DEF IInv, Shapes, Bounded, Places
  <2>3. \A c \in Cases : CaseInv(c)'
    BY <2>1 DEF IInv, CaseInv
  <2>4. \A r \in Requests : ReqInv(r)'
    BY <2>1 DEF IInv, ReqInv, Idle
  <2>5. \A x \in analyses' : AnalysisInv(x)'
    <3>1. Grown
      BY <2>1, LenProperties DEF IInv, Shapes, Grown
    <3> QED BY <2>1, <3>1, AnalysisStays DEF IInv
  <2> QED BY <2>2, <2>3, <2>4, <2>5 DEF IInv
<1> QED BY <1>1, <1>2, <1>3, <1>4, <1>5, <1>6, Zenon DEF Next

\* The invariant holds always.
LEMMA Invariant == Spec => []IInv
BY InitIInv, NextIInv, PTL DEF Spec

\* Complete evidence is not silently out of date: whatever analysts linked and unlinked
\* between the statements of build_evidence_context, and whatever they or a late request
\* wrote, the activities it ends with tell of each alert that has left the case or come to
\* it since the links were read, and that each alert in it was once linked.
THEOREM LinksTold == Spec => []LinksAreTold
<1>1. IInv => LinksAreTold
  <2> SUFFICES ASSUME IInv, NEW r \in Requests, Assembled(r), InCase(r), NEW q, q = req[r]
               PROVE  /\ Explained(q.of, q.alerts, q.now, q.since, q.upto)
                      /\ q.alerts \subseteq First[q.of] \cup Added(q.of, q.upto)
    BY DEF LinksAreTold
  <2>1. q.at = 4 /\ q.kind # "triage" /\ ReqInv(r)
    BY DEF Assembled, Statements, IInv, InCase
  <2>2. CaseReq(q, notes[q.of], linked[q.of])
    BY <2>1 DEF ReqInv
  <2>3. /\ ExplainedIn(notes[q.of], q.alerts, q.now, q.since, q.upto)
        /\ q.alerts \subseteq First[q.of] \cup AddedIn(notes[q.of], q.upto)
    BY <2>1, <2>2 DEF CaseReq
  <2> QED BY <2>3, TellingIs
<1> QED BY <1>1, Invariant, PTL

\* No event, snapshot or mapping reaches the provider without an alert it belongs to, and
\* nothing of a case without the case, wherever max_items and max_chars cut the evidence;
\* and what reaches it is within both.
THEOREM EvidenceInContext == Spec => []EvidenceHasItsParents
<1>1. IInv => EvidenceHasItsParents
  <2> SUFFICES ASSUME IInv, NEW r \in Requests, Assembled(r)
               PROVE  /\ Fits(Sent(r))
                      /\ \A x \in evidence_ids(r) :
                           \/ x.type = "case"
                           \/ /\ x.type \in {"alert", "analyst_note"}
                              /\ InCase(r) => CaseItem(req[r].of) \in evidence_ids(r)
                           \/ \E a \in Alerts : AlertItem(a) \in evidence_ids(r)
                                                /\ x \in Range(Parts[a])
    BY DEF EvidenceHasItsParents
  <2>1. PICK q : q = req[r]
    OBVIOUS
  <2>2. q.at # 0 /\ q.alerts \subseteq Alerts
    BY <2>1 DEF Assembled, Statements, IInv, Shapes, Reading
  <2>3. /\ Fits(Sent(r))
        /\ \A x \in evidence_ids(r) : Belongs(x, q, evidence_ids(r))
    BY <2>1, <2>2, EvidenceIs DEF IInv
  <2>4. PICK ev : ev = evidence_ids(r)
    OBVIOUS
  <2>5. ASSUME NEW x \in ev
        PROVE  \/ x.type = "case"
               \/ /\ x.type \in {"alert", "analyst_note"}
                  /\ InCase(r) => CaseItem(req[r].of) \in ev
               \/ \E a \in Alerts : AlertItem(a) \in ev /\ x \in Range(Parts[a])
    <3>1. Belongs(x, q, ev)
      BY <2>3, <2>4
    <3>2. InCase(r) <=> q.kind # "triage"
      BY <2>1 DEF InCase
    <3>3. CASE x = CaseItem(q.of)
      BY <3>3 DEF CaseItem
    <3>4. CASE \E i \in 1 .. MaxNotes + 1 : x = NoteItem(q.of, i) /\ CaseItem(q.of) \in ev
      <4>1. x.type = "analyst_note"
        BY <3>4 DEF NoteItem
      <4> QED BY <2>1, <3>4, <4>1
    <3>5. CASE (\E a \in q.alerts : x = AlertItem(a))
               /\ (q.kind # "triage" => CaseItem(q.of) \in ev)
      <4>1. x.type = "alert"
        BY <3>5 DEF AlertItem
      <4> QED BY <2>1, <3>2, <3>5, <4>1
    <3>6. CASE \E a \in q.alerts : IsPart(x, a) /\ AlertItem(a) \in ev
      BY <2>2, <3>6 DEF IsPart
    <3> QED BY <3>1, <3>3, <3>4, <3>5, <3>6 DEF Belongs
  <2> QED BY <2>3, <2>4, <2>5
<1> QED BY <1>1, Invariant, PTL

\* A recorded analysis has as its evidence only what was of its alert, or of its case and
\* the alerts linked to it by then or before; and its output cites only that evidence, but
\* for the entries of a report.
THEOREM CitationsInScope == Spec => []CitesOnlyItsEvidence
<1>1. IInv => CitesOnlyItsEvidence
  BY DEF IInv, AnalysisInv, CitesOnlyItsEvidence
<1> QED BY <1>1, Invariant, PTL
=============================================================================
