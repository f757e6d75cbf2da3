---------------------------- MODULE Ingestion_proofs ----------------------------
(***************************************************************************)
(* For any number of syncs and records: overlapping syncs store a record   *)
(* once, runs account for their pages, and the checkpoint lets a later     *)
(* sync skip what is not stored only if it came late or a sync of another  *)
(* window moved the checkpoint.                                            *)
(*                                                                         *)
(* Accounts is about a run and its rows; Covers about the checkpoints: the *)
(* one in the table, the ones syncs have loaded and the ones they will save.*)
(***************************************************************************)
EXTENDS Ingestion, FiniteSetTheorems, WellFoundedInduction, TLAPS

Shapes ==
  /\ adapter \in Adapters /\ source \subseteq Records /\ (adapter = "fixture" => source = Records)
  /\ rows \subseteq [record : Records, run : Requests]
  /\ runs = [r \in Requests |-> runs[r]] /\ pc = [r \in Requests |-> pc[r]]
  /\ request = [r \in Requests |-> request[r]] /\ base = [r \in Requests |-> base[r]]
  /\ page \in [Requests -> SUBSET Records] /\ known = [r \in Requests |-> known[r]]
  /\ \A r \in Requests : pc[r] \notin {"idle", "done"} => request[r].window \in Windows

RowsOf(r) == {row \in rows : row.run = r}

\* A run that has not ended has no row, and one that has ended counts its rows.
Accounts(r) ==
  /\ pc[r] # "done" => runs[r] = NoRun /\ RowsOf(r) = {}
  /\ pc[r] \in {"save", "commit"} => known[r] \subseteq Normalized(r) /\ known[r] \subseteq Stored
  /\ runs[r].persisted = Cardinality(RowsOf(r))
  /\ runs[r].fetched = runs[r].normalized + runs[r].failed
  /\ runs[r].status \in {"succeeded", "partial"} =>
       runs[r].normalized = runs[r].persisted + runs[r].duplicate

RowsInv == Shapes /\ OneEventPerRecord /\ \A r \in Requests : Accounts(r)

InWin(src, w) == {p \in src : w[1] <= Stamp[p] /\ Stamp[p] < w[2]}

\* What a checkpoint lets a sync of window w skip of the records src.
Skipped(ad, src, cp, w) ==
  IF ad = "elastic" THEN {p \in InWin(src, w) : p <= Offset(cp)}
                    ELSE {p \in InWin(src, w) : Rank(InWin(src, w), p) < Offset(cp)}

\* That is among the records st that are stored, the rejected and the late ones, or
\* a sync of another of the windows ws has moved the checkpoint.
CoveredBy(ad, src, st, lt, ws, cp) ==
  cp # None =>
    /\ cp \in Nat
    /\ \A w \in Windows : \A p \in Skipped(ad, src, cp, w) \ (st \cup Bad \cup lt) :
         \E v \in ws : v # w /\ (ad = "elastic" => p \notin InWin(src, v))

Covers(cp) == CoveredBy(adapter, source, Stored, late, asked, cp)

\* A page leaves no gap after the checkpoint it was fetched from.
GapFree(ad, src, lt, next, from, recs, w) ==
  next # None => /\ next \in Nat
                 /\ Skipped(ad, src, next, w) \subseteq Skipped(ad, src, from, w) \cup recs \cup lt

NoGap(r) ==
  pc[r] \in {"keys", "save", "commit"} =>
    GapFree(adapter, source, late, NextCheckpoint(base[r], page[r]), base[r], page[r],
            request[r].window)

CheckpointInv == Covers(checkpoint) /\ \A r \in Requests : Covers(base[r]) /\ NoGap(r)
-----------------------------------------------------------------------------
\* The records of a page are those that normalize and those that do not.
LEMMA CountPage ==
  ASSUME NEW P \in SUBSET Records
  PROVE  Cardinality(P) = Cardinality(P \ Bad) + Cardinality(P \cap Bad)
<1>1. IsFiniteSet(P) /\ IsFiniteSet(P \ Bad) /\ IsFiniteSet(P \cap Bad)
  BY RecordAssumption, FS_Subset, FS_Difference, FS_Intersection
<1>2. /\ Cardinality(P) \in Nat /\ Cardinality(P \ Bad) \in Nat
      /\ Cardinality(P \cap Bad) \in Nat
  BY <1>1, FS_CardinalityType
<1>3. Cardinality(P \ Bad) = Cardinality(P) - Cardinality(P \cap Bad)
  BY <1>1, FS_Difference
<1> QED BY <1>2, <1>3

\* What normalizes is new or known.
LEMMA CountKnown ==
  ASSUME NEW N \in SUBSET Records, NEW K \in SUBSET N
  PROVE  Cardinality(N) = Cardinality(N \ K) + Cardinality(K)
<1>1. IsFiniteSet(N) /\ IsFiniteSet(K) /\ IsFiniteSet(N \ K) /\ N \cap K = K
  BY RecordAssumption, FS_Subset, FS_Difference
<1>2. Cardinality(N) \in Nat /\ Cardinality(K) \in Nat /\ Cardinality(N \ K) \in Nat
  BY <1>1, FS_CardinalityType
<1>3. Cardinality(N \ K) = Cardinality(N) - Cardinality(K)
  BY <1>1, FS_Difference
<1> QED BY <1>2, <1>3

\* A sync inserts one row for a record.
LEMMA CountRows ==
  ASSUME NEW F \in SUBSET Records, NEW r
  PROVE  Cardinality({[record |-> p, run |-> r] : p \in F}) = Cardinality(F)
<1> DEFINE T == {[record |-> p, run |-> r] : p \in F}
           f == [p \in F |-> [record |-> p, run |-> r]]
<1>1. f \in Bijection(F, T)
  <2>1. f \in [F -> T]
    OBVIOUS
  <2>2. \A p, q \in F : f[p] = f[q] => p = q
    <3>1. \A p \in F : f[p].record = p
      OBVIOUS
    <3> HIDE DEF f
    <3> QED BY <3>1
  <2>3. \A s \in T : \E p \in F : f[p] = s
    OBVIOUS
  <2> HIDE DEF f, T
  <2> QED BY <2>1, <2>2, <2>3 DEF Bijection, Injection, Surjection, IsInjective
<1>2. ExistsBijection(F, T)
  BY <1>1 DEF ExistsBijection
<1> HIDE DEF T
<1>3. IsFiniteSet(F)
  BY RecordAssumption, FS_Subset
<1> QED BY <1>2, <1>3, FS_Bijection DEF T

\* Before any sync there is no row, and no checkpoint.
LEMMA InitInv == Init => RowsInv /\ CheckpointInv
<1> SUFFICES ASSUME Init PROVE RowsInv /\ CheckpointInv
  OBVIOUS
<1>1. Shapes /\ OneEventPerRecord
  BY DEF Init, Shapes, OneEventPerRecord
<1>2. ASSUME NEW r \in Requests PROVE Accounts(r) /\ Covers(base[r]) /\ NoGap(r)
  <2>1. pc[r] = "idle" /\ RowsOf(r) = {} /\ runs[r] = NoRun /\ base[r] = None
    BY DEF Init, RowsOf
  <2>2. Cardinality({}) = 0
    BY FS_EmptySet
  <2> QED BY <2>1, <2>2 DEF Accounts, NoRun, Covers, CoveredBy, NoGap
<1> QED BY <1>1, <1>2 DEF RowsInv, CheckpointInv, Init, Covers, CoveredBy

\* Pages are of records of the source; a fixture source does not grow.
LEMMA ShapesStep == ASSUME Shapes, [Next]_vars PROVE Shapes'
<1> USE DEF Shapes, database, local, history, Goto
<1>1. CASE UNCHANGED vars
  BY <1>1 DEF vars
<1>2. ASSUME NEW p \in Records, Append(p) PROVE Shapes'
  <2>1. adapter = "fixture" => FALSE
    BY <1>2, RecordAssumption DEF Append
  <2> QED BY <1>2, <2>1 DEF Append
<1>3. CASE Crash
  BY <1>3 DEF Crash, End
<1>4. ASSUME NEW r \in Requests, Start(r) \/ Steps(r) PROVE Shapes'
  <2>1. CASE Start(r)
    <3>1. PICK w \in Windows, dry \in BOOLEAN :
             request' = [request EXCEPT ![r] = [window |-> w, dry |-> dry]]
      BY <2>1 DEF Start
    <3>2. request'[r].window \in Windows /\ \A q \in Requests : q # r => request'[q] = request[q]
      BY <3>1
    <3>3. request' = [q \in Requests |-> request'[q]]
      BY <3>1
    <3>4. \A q \in Requests : q # r => pc'[q] = pc[q]
      BY <2>1 DEF Start
    <3>5. /\ UNCHANGED <<adapter, source, database, page, known>>
          /\ pc' = [pc EXCEPT ![r] = "fetch"] /\ base' = [base EXCEPT ![r] = checkpoint]
      BY <2>1 DEF Start
    <3> QED BY <3>2, <3>3, <3>4, <3>5
  <2>2. CASE Fetch(r)
    <3>1. FirstPage(Remaining(base[r], request[r].window)) \in SUBSET Records
      BY DEF FirstPage, Remaining, InWindow
    <3> QED BY <2>2, <3>1 DEF Fetch
  <2>3. CASE FetchFails(r) \/ Retry(r)
    BY <2>3 DEF FetchFails, Retry
  <2>4. CASE ReadKeys(r) \/ Save(r)
    BY <2>4 DEF ReadKeys, Save
  <2>5. CASE Commit(r)
    <3>1. Fresh(r) \subseteq Records
      BY DEF Fresh, Normalized
    <3>2. rows' \subseteq [record : Records, run : Requests]
      BY <2>5, <3>1 DEF Commit
    <3>3. runs' = [q \in Requests |-> runs'[q]]
      BY <2>5 DEF Commit
    <3> QED BY <2>5, <3>2, <3>3 DEF Commit, End
  <2>6. CASE Collide(r)
    BY <2>6 DEF Collide, LeftBehind
  <2>7. CASE RecordFailedRun(r)
    <3>1. runs' = [q \in Requests |-> runs'[q]]
      BY <2>7 DEF RecordFailedRun
    <3> QED BY <2>7, <3>1 DEF RecordFailedRun, End
  <2> QED BY <1>4, <2>1, <2>2, <2>3, <2>4, <2>5, <2>6, <2>7 DEF Steps
<1> QED BY <1>1, <1>2, <1>3, <1>4 DEF Next

Untouched(q) ==
  /\ pc'[q] = pc[q] /\ page'[q] = page[q] /\ known'[q] = known[q] /\ base'[q] = base[q]
  /\ request'[q] = request[q] /\ runs'[q] = runs[q]

\* The step of a sync leaves what other syncs hold, and their runs.
LEMMA OthersUntouched ==
  ASSUME Shapes, NEW r \in Requests, Start(r) \/ Steps(r), NEW q \in Requests, q # r
  PROVE  Untouched(q)
<1> USE DEF Shapes, database, local, history, Goto, Untouched
<1>1. CASE Start(r) \/ Fetch(r) \/ FetchFails(r) \/ Retry(r)
  BY <1>1 DEF Start, Fetch, FetchFails, Retry
<1>2. CASE ReadKeys(r) \/ Save(r) \/ Collide(r)
  BY <1>2 DEF ReadKeys, Save, Collide
<1>3. CASE Commit(r) \/ RecordFailedRun(r)
  BY <1>3 DEF Commit, RecordFailedRun, End
<1> QED BY <1>1, <1>2, <1>3 DEF Steps

\* Only a commit changes the events, and it adds those of its own run.
LEMMA RowsChange ==
  ASSUME [Next]_vars
  PROVE  \/ UNCHANGED rows
         \/ \E r \in Requests : /\ Commit(r) /\ Fresh(r) \cap Stored = {}
                                /\ rows' = rows \cup {[record |-> p, run |-> r] : p \in Fresh(r)}
<1> USE DEF database, history
<1>1. ASSUME NEW r \in Requests, Start(r) \/ Steps(r)
      PROVE  UNCHANGED rows \/ Commit(r)
  BY <1>1 DEF Steps, Start, Fetch, FetchFails, Retry, ReadKeys, Save, Collide, LeftBehind,
              RecordFailedRun
<1>2. ASSUME NEW r \in Requests, Commit(r)
      PROVE  /\ Fresh(r) \cap Stored = {}
             /\ rows' = rows \cup {[record |-> p, run |-> r] : p \in Fresh(r)}
  BY <1>2 DEF Commit, KeyCollides
<1>3. UNCHANGED rows \/ \E r \in Requests : Start(r) \/ Steps(r)
  BY DEF Next, vars, Append, Crash
<1> QED BY <1>1, <1>2, <1>3

\* A row that is inserted is of a record that has none.
LEMMA OneEventStep ==
  ASSUME Shapes, OneEventPerRecord, [Next]_vars
  PROVE  OneEventPerRecord' /\ Stored \subseteq Stored'
<1>1. CASE UNCHANGED rows
  BY <1>1 DEF OneEventPerRecord, Stored
<1>2. ASSUME NEW r \in Requests, Fresh(r) \cap Stored = {},
             rows' = rows \cup {[record |-> p, run |-> r] : p \in Fresh(r)}
      PROVE  OneEventPerRecord' /\ Stored \subseteq Stored'
  <2>1. \A a \in rows : a.record \in Stored
    BY DEF Stored
  <2>2. ASSUME NEW a \in rows', NEW b \in rows', a.record = b.record PROVE a = b
    <3>1. \A c \in rows' : c \in rows \/ (c.record \in Fresh(r) /\ c = [record |-> c.record, run |-> r])
      BY <1>2
    <3>2. CASE a \in rows /\ b \in rows
      BY <2>2, <3>2 DEF OneEventPerRecord
    <3>3. CASE a \in rows /\ b \notin rows
      BY <1>2, <2>1, <2>2, <3>1, <3>3
    <3>4. CASE a \notin rows /\ b \in rows
      BY <1>2, <2>1, <2>2, <3>1, <3>4
    <3>5. CASE a \notin rows /\ b \notin rows
      BY <2>2, <3>1, <3>5
    <3> QED BY <3>2, <3>3, <3>4, <3>5
  <2>3. Stored \subseteq Stored'
    BY <1>2 DEF Stored
  <2> QED BY <2>2, <2>3 DEF OneEventPerRecord
<1> QED BY <1>1, <1>2, RowsChange
\* A sync that does not commit leaves every run's rows, and its own run to the end.
LEMMA AccountsKept ==
  ASSUME NEW q \in Requests, Accounts(q), runs'[q] = runs[q], RowsOf(q)' = RowsOf(q),
         pc'[q] # "done" => pc[q] # "done",
         pc'[q] \in {"save", "commit"} =>
           known'[q] \subseteq Normalized(q)' /\ known'[q] \subseteq Stored'
  PROVE  Accounts(q)'
BY DEF Accounts

\* The other syncs.
LEMMA AccountsOfOthers ==
  ASSUME NEW q \in Requests, Accounts(q), Untouched(q), RowsOf(q)' = RowsOf(q),
         Stored \subseteq Stored'
  PROVE  Accounts(q)'
<1>1. Normalized(q)' = Normalized(q)
  BY DEF Untouched, Normalized
<1>2. pc[q] \in {"save", "commit"} => known[q] \subseteq Normalized(q) /\ known[q] \subseteq Stored
  BY DEF Accounts
<1>3. /\ runs'[q] = runs[q] /\ pc'[q] = pc[q] /\ known'[q] = known[q]
  BY DEF Untouched
<1> QED BY <1>1, <1>2, <1>3, AccountsKept

\* The run that commits counts what it has stored.
LEMMA CommitAccounts ==
  ASSUME Shapes, NEW r \in Requests, Accounts(r), Commit(r)
  PROVE  Accounts(r)'
<1>1. /\ pc[r] = "commit" /\ RowsOf(r) = {} /\ known[r] \in SUBSET Normalized(r)
      /\ page[r] \in SUBSET Records /\ Normalized(r) \in SUBSET Records
  BY DEF Commit, Accounts, Shapes, Normalized
<1>2. /\ pc'[r] = "done" /\ runs'[r] = RunRow(r)
      /\ rows' = rows \cup {[record |-> p, run |-> r] : p \in Fresh(r)}
  BY DEF Commit, End, Shapes
<1>3. RowsOf(r)' = {[record |-> p, run |-> r] : p \in Fresh(r)}
  BY <1>1, <1>2 DEF RowsOf
<1>4. Fresh(r) \in SUBSET Records
  BY <1>1 DEF Fresh
<1>5. Cardinality(RowsOf(r)') = Cardinality(Fresh(r))
  BY <1>3, <1>4, CountRows
<1>6. Cardinality(page[r]) = Cardinality(Normalized(r)) + Cardinality(page[r] \cap Bad)
  BY <1>1, CountPage DEF Normalized
<1>7. ~request[r].dry =>
        Cardinality(Normalized(r)) = Cardinality(Fresh(r)) + Cardinality(known[r])
  BY <1>1, CountKnown DEF Fresh
<1>8. /\ runs'[r].persisted = Cardinality(Fresh(r)) /\ runs'[r].fetched = Cardinality(page[r])
      /\ runs'[r].normalized = Cardinality(Normalized(r))
      /\ runs'[r].failed = Cardinality(page[r] \cap Bad)
      /\ runs'[r].duplicate = Cardinality(known[r])
      /\ runs'[r].status \in {"succeeded", "partial"} => ~request[r].dry
  BY <1>2 DEF RunRow
<1> QED BY <1>2, <1>5, <1>6, <1>7, <1>8 DEF Accounts

\* A sync that fails, waits or ends without a commit counts nothing.
LEMMA OwnAccounts ==
  ASSUME RowsInv, NEW r \in Requests, Start(r) \/ Steps(r), ~Commit(r)
  PROVE  Accounts(r)'
<1> USE DEF database, local, history, Goto
<1>0. Shapes /\ Accounts(r)
  BY DEF RowsInv
<1>1. UNCHANGED rows /\ pc[r] # "done"
  BY DEF Start, Steps, Fetch, FetchFails, Retry, ReadKeys, Save, Collide, LeftBehind, RecordFailedRun
<1>2. RowsOf(r)' = {} /\ RowsOf(r) = {} /\ runs[r] = NoRun
  BY <1>0, <1>1 DEF RowsOf, Accounts
<1>3. CASE Start(r) \/ Fetch(r) \/ FetchFails(r) \/ Retry(r) \/ Collide(r)
  <2>1. pc'[r] \notin {"save", "commit", "done"} /\ runs'[r] = runs[r]
    BY <1>0, <1>3 DEF Start, Fetch, FetchFails, Retry, Collide, Shapes
  <2> QED BY <1>0, <1>1, <1>2, <2>1, AccountsKept
<1>4. CASE ReadKeys(r)
  <2>1. /\ pc'[r] \in {"save", "commit"} /\ runs'[r] = runs[r] /\ UNCHANGED <<page, rows>>
        /\ known'[r] = Normalized(r) \cap Stored
    BY <1>0, <1>4 DEF ReadKeys, Shapes
  <2>2. known'[r] \subseteq Normalized(r)' /\ known'[r] \subseteq Stored'
    BY <2>1 DEF Normalized, Stored
  <2> QED BY <1>0, <1>1, <1>2, <2>1, <2>2, AccountsKept
<1>5. CASE Save(r)
  <2>1. /\ pc[r] = "save" /\ runs'[r] = runs[r] /\ UNCHANGED <<page, known, rows>>
    BY <1>0, <1>5 DEF Save, Shapes
  <2>2. known[r] \subseteq Normalized(r) /\ known[r] \subseteq Stored
    BY <1>0, <2>1 DEF Accounts
  <2>3. known'[r] \subseteq Normalized(r)' /\ known'[r] \subseteq Stored'
    BY <2>1, <2>2 DEF Normalized, Stored
  <2> QED BY <1>0, <1>1, <1>2, <2>1, <2>3, AccountsKept
<1>6. CASE RecordFailedRun(r)
  <2>1. /\ pc'[r] = "done"
        /\ runs'[r] = runs[r] \/ runs'[r] = [NoRun EXCEPT !.status = "failed"]
    BY <1>0, <1>6 DEF RecordFailedRun, End, Shapes
  <2>2. CASE runs'[r] = runs[r]
    BY <1>0, <1>1, <1>2, <2>1, <2>2, AccountsKept
  <2>3. CASE runs'[r] = [NoRun EXCEPT !.status = "failed"]
    <3>1. /\ runs'[r].persisted = 0 /\ runs'[r].fetched = 0 /\ runs'[r].normalized = 0
          /\ runs'[r].failed = 0 /\ runs'[r].status = "failed"
      BY <2>3 DEF NoRun
    <3>2. Cardinality(RowsOf(r)') = 0
      BY <1>2, FS_EmptySet
    <3> QED BY <2>1, <3>1, <3>2 DEF Accounts
  <2> QED BY <2>1, <2>2, <2>3
<1> QED BY <1>3, <1>4, <1>5, <1>6 DEF Steps

\* Every step keeps what is known of runs and their rows.
LEMMA RowsStep == ASSUME RowsInv, [Next]_vars PROVE RowsInv'
<1> USE DEF database, local, history
<1>0. Shapes /\ OneEventPerRecord /\ Shapes' /\ OneEventPerRecord' /\ Stored \subseteq Stored'
      /\ \A q \in Requests : Accounts(q)
  BY ShapesStep, OneEventStep DEF RowsInv
<1>1. ASSUME UNCHANGED <<database, pc, page, known>> PROVE RowsInv'
  BY <1>0, <1>1 DEF RowsInv, Accounts, RowsOf, Normalized, Stored
<1>2. CASE Crash
  <2>1. UNCHANGED <<rows, runs>>
    BY <1>2 DEF Crash
  <2>2. ASSUME NEW q \in Requests PROVE Accounts(q)'
    <3>1. pc'[q] \in {"idle", "done"} /\ (pc'[q] # "done" => pc[q] # "done")
      BY <1>2 DEF Crash, End
    <3>2. RowsOf(q)' = RowsOf(q)
      BY <2>1 DEF RowsOf
    <3> QED BY <1>0, <2>1, <3>1, <3>2, AccountsKept
  <2> QED BY <1>0, <2>2 DEF RowsInv
<1>3. ASSUME NEW r \in Requests, Start(r) \/ Steps(r) PROVE RowsInv'
  <2>1. ASSUME NEW q \in Requests, q # r PROVE Accounts(q)'
    <3>1. Untouched(q)
      BY <1>0, <1>3, <2>1, OthersUntouched
    <3>2. RowsOf(q)' = RowsOf(q)
      <4>1. CASE Commit(r)
        BY <2>1, <4>1 DEF Commit, RowsOf
      <4>2. CASE ~Commit(r)
        BY <1>3, <4>2 DEF RowsOf, Start, Steps, Fetch, FetchFails, Retry, ReadKeys, Save, Collide,
                          LeftBehind, RecordFailedRun
      <4> QED BY <4>1, <4>2
    <3> QED BY <1>0, <3>1, <3>2, AccountsOfOthers
  <2>2. Accounts(r)'
    BY <1>0, <1>3, CommitAccounts, OwnAccounts
  <2> QED BY <1>0, <2>1, <2>2 DEF RowsInv
<1> QED BY <1>1, <1>2, <1>3 DEF Next, vars, Append

\* What is known of runs and rows holds in every state.
LEMMA RowsHold == Spec => []RowsInv
<1>1. Init => RowsInv
  BY InitInv
<1>2. RowsInv /\ [Next]_vars => RowsInv'
  BY RowsStep
<1> QED BY <1>1, <1>2, PTL DEF Spec
-----------------------------------------------------------------------------
\* A record of the source becomes one event, whatever syncs overlap, repeat a
\* page or start again from an older checkpoint (run(), the dedup key's index).
THEOREM RecordsAreStoredOnce == Spec => []OneEventPerRecord
<1>1. RowsInv => OneEventPerRecord
  BY DEF RowsInv
<1> QED BY <1>1, RowsHold, PTL

\* A run accounts for its page and owns the rows it counts; a run that failed, was
\* a dry run or never committed owns none (run(), _record_failed_run).
THEOREM RunsAccountForTheirPages == Spec => []RunAccountsForItsPage
<1>1. RowsInv => RunAccountsForItsPage
  BY DEF RowsInv, Accounts, RowsOf, RunAccountsForItsPage
<1> QED BY <1>1, RowsHold, PTL
-----------------------------------------------------------------------------
\* A set of naturals has a least member.
LEMMA Least ==
  ASSUME NEW S, S \subseteq Nat, S # {}
  PROVE  \E x \in S : \A y \in S : x <= y
<1> DEFINE R == OpToRel(<, Nat)
<1>1. IsWellFoundedOn(R, Nat)
  BY NatLessThanWellFounded
<1>2. \A x, y \in Nat : <<x, y>> \in R <=> x < y
  BY DEF OpToRel
<1> HIDE DEF R
<1>3. PICK x \in S : \A y \in S : ~(<<y, x>> \in R)
  BY <1>1, WFMin
<1>4. ASSUME NEW y \in S PROVE x <= y
  <2>1. x \in Nat /\ y \in Nat /\ ~(y < x)
    BY <1>2, <1>3
  <2> QED BY <2>1
<1> QED BY <1>3, <1>4

Below(S, p) == {q \in S : q < p}

\* Ranks of the records of S, which grow with them.
LEMMA Ranks ==
  ASSUME NEW S \in SUBSET Records
  PROVE  /\ \A p \in S : Rank(S, p) = Cardinality(Below(S, p)) /\ Rank(S, p) \in Nat
         /\ \A p, q \in S : p <= q => Rank(S, p) <= Rank(S, q)
         /\ S \subseteq Nat /\ IsFiniteSet(S)
<1>1. IsFiniteSet(S) /\ S \subseteq Nat
  BY RecordAssumption, FS_Subset
<1>2. ASSUME NEW p \in S
      PROVE  /\ Rank(S, p) = Cardinality(Below(S, p)) /\ Rank(S, p) \in Nat
             /\ IsFiniteSet(Below(S, p))
  <2>1. Below(S, p) \in SUBSET S
    BY DEF Below
  <2>2. IsFiniteSet(Below(S, p)) /\ Cardinality(Below(S, p)) \in Nat
    BY <1>1, <2>1, FS_Subset, FS_CardinalityType
  <2> QED BY <2>2 DEF Rank, Below
<1>3. ASSUME NEW p \in S, NEW q \in S, p <= q PROVE Rank(S, p) <= Rank(S, q)
  <2>0. \A x \in S : x < p => x < q
    <3>1. \A x \in S : x \in Nat
      BY <1>1
    <3> QED BY <1>3, <3>1
  <2>1. Below(S, p) \in SUBSET Below(S, q)
    BY <2>0 DEF Below
  <2> QED BY <1>2, <2>1, FS_Subset
<1> QED BY <1>1, <1>2, <1>3

\* Finitely many records have a last one.
LEMMA Greatest ==
  ASSUME NEW S \in SUBSET Records, S # {}
  PROVE  Max(S) \in S /\ \A q \in S : q <= Max(S)
<1>1. S \subseteq Nat /\ IsFiniteSet(S)
  BY Ranks
<1>2. \E x \in S : \A q \in S : q <= x
  <2> DEFINE Above(x) == {y \in S : y > x}
             Aboves == {Above(x) : x \in S}
             R == StrictSubsetOrdering(S)
  <2>1. IsWellFoundedOn(R, SUBSET S)
    BY <1>1, FS_StrictSubsetOrderingWellFounded, FS_FiniteSubsetsOfFinite
  <2>2. \A A, B \in SUBSET S : <<A, B>> \in R <=> A \subseteq B /\ A # B
    BY DEF StrictSubsetOrdering
  <2>3. Aboves \subseteq SUBSET S /\ Aboves # {}
    OBVIOUS
  <2> HIDE DEF R, Aboves
  <2>4. PICK A \in Aboves : \A B \in Aboves : ~(<<B, A>> \in R)
    BY <2>1, <2>3, WFMin
  <2>5. PICK x \in S : A = Above(x)
    BY <2>4 DEF Aboves
  <2>6. ASSUME NEW y \in S, ~(y <= x) PROVE FALSE
    <3>1. x \in Nat /\ y \in Nat /\ y > x
      BY <1>1, <2>6
    <3>a. \A z \in S : z > y => z > x
      <4>1. \A z \in S : z \in Nat
        BY <1>1
      <4> QED BY <3>1, <4>1
    <3>b. ~(y > y)
      BY <3>1
    <3>2. y \in Above(x) /\ y \notin Above(y) /\ Above(y) \subseteq Above(x)
      BY <3>1, <3>a, <3>b
    <3>3. Above(y) \in Aboves
      BY DEF Aboves
    <3> HIDE DEF Above
    <3>4. <<Above(y), A>> \in R
      BY <2>2, <2>3, <2>4, <2>5, <3>2, <3>3
    <3> QED BY <2>4, <3>3, <3>4
  <2> QED BY <2>6
<1>3. PICK x \in S : \A q \in S : x >= q
  BY <1>1, <1>2
<1>4. Max(S) \in S /\ \A q \in S : Max(S) >= q
  BY <1>3 DEF Max
<1> QED BY <1>1, <1>4

\* No checkpoint is an offset of zero.
LEMMA OffsetType ==
  ASSUME NEW cp, cp = None \/ cp \in Nat
  PROVE  Offset(cp) \in Nat /\ (cp = None => Offset(cp) = 0) /\ (cp # None => Offset(cp) = cp)
BY DEF Offset

\* Without a checkpoint nothing is skipped.
LEMMA NothingSkipped ==
  ASSUME NEW ad, NEW src \in SUBSET Records, NEW w
  PROVE  Skipped(ad, src, None, w) = {}
<1>1. InWin(src, w) \in SUBSET Records /\ Offset(None) = 0
  BY DEF InWin, Offset
<1>2. \A p \in Records : ~(p <= 0)
  BY RecordAssumption
<1>3. \A p \in InWin(src, w) : ~(Rank(InWin(src, w), p) < 0)
  BY <1>1, Ranks
<1> QED BY <1>1, <1>2, <1>3 DEF Skipped

\* What the page of a checkpoint starts after is what the checkpoint skips.
LEMMA RemainingIs ==
  ASSUME Shapes, NEW cp, cp = None \/ cp \in Nat, NEW w
  PROVE  /\ InWindow(w) = InWin(source, w)
         /\ Remaining(cp, w) = InWindow(w) \ Skipped(adapter, source, cp, w)
<1> DEFINE W == InWin(source, w)
<1>1. InWindow(w) = W /\ W \in SUBSET Records
  BY DEF InWindow, InWin, Shapes
<1>2. Offset(cp) \in Nat
  BY OffsetType
<1>3. \A p \in W : p \in Nat /\ Rank(W, p) \in Nat
  BY <1>1, Ranks
<1> HIDE DEF W
<1>4. \A p \in W : /\ p > Offset(cp) <=> ~(p <= Offset(cp))
                   /\ Rank(W, p) >= Offset(cp) <=> ~(Rank(W, p) < Offset(cp))
  BY <1>2, <1>3
<1>5. CASE adapter = "elastic"
  <2>1. /\ Remaining(cp, w) = {p \in W : p > Offset(cp)}
        /\ Skipped(adapter, source, cp, w) = {p \in W : p <= Offset(cp)}
    BY <1>1, <1>5 DEF Remaining, Skipped, W
  <2>2. {p \in W : p > Offset(cp)} = W \ {p \in W : p <= Offset(cp)}
    BY <1>4
  <2> QED BY <1>1, <2>1, <2>2 DEF W
<1>6. CASE adapter # "elastic"
  <2>1. /\ Remaining(cp, w) = {p \in W : Rank(W, p) >= Offset(cp)}
        /\ Skipped(adapter, source, cp, w) = {p \in W : Rank(W, p) < Offset(cp)}
    BY <1>1, <1>6 DEF Remaining, Skipped, W
  <2>2. {p \in W : Rank(W, p) >= Offset(cp)} = W \ {p \in W : Rank(W, p) < Offset(cp)}
    BY <1>4
  <2> QED BY <1>1, <2>1, <2>2 DEF W
<1> QED BY <1>5, <1>6
\* A page of the Elastic adapter ends where the next one begins.
LEMMA ElasticPage ==
  ASSUME NEW W \in SUBSET Records, NEW k \in Nat, NEW recs,
         recs = FirstPage({p \in W : p > k}), recs # {}
  PROVE  /\ Max(recs) \in recs /\ Max(recs) \in W
         /\ \A p \in W : p <= Max(recs) => p <= k \/ p \in recs
<1> DEFINE Rem == {p \in W : p > k}
<1>1. Rem \in SUBSET Records /\ recs \in SUBSET Rem /\ recs = {p \in Rem : Rank(Rem, p) < Limit}
      /\ recs \in SUBSET Records /\ W \subseteq Nat
  BY Ranks DEF FirstPage
<1>2. Max(recs) \in recs
  BY <1>1, Greatest
<1>3. ASSUME NEW p \in W, p <= Max(recs), ~(p <= k) PROVE p \in recs
  <2>1. p \in Rem /\ p \in Nat
    BY <1>1, <1>3
  <2> HIDE DEF Rem
  <2>2. /\ Rank(Rem, p) <= Rank(Rem, Max(recs)) /\ Rank(Rem, p) \in Nat
        /\ Rank(Rem, Max(recs)) \in Nat /\ Rank(Rem, Max(recs)) < Limit
    BY <1>1, <1>2, <1>3, <2>1, Ranks
  <2>3. Limit \in Nat
    BY RequestAssumption
  <2>4. Rank(Rem, p) < Limit
    BY <2>2, <2>3
  <2> QED BY <1>1, <2>1, <2>4
<1> QED BY <1>1, <1>2, <1>3

\* So does one of the fixture adapter: its offset counts the records before it.
LEMMA FixturePage ==
  ASSUME NEW W \in SUBSET Records, NEW k \in Nat, NEW recs,
         recs = FirstPage({p \in W : Rank(W, p) >= k})
  PROVE  /\ Cardinality(recs) \in Nat
         /\ \A p \in W : Rank(W, p) < k + Cardinality(recs) => Rank(W, p) < k \/ p \in recs
<1> DEFINE Rem == {p \in W : Rank(W, p) >= k}
<1>1. /\ Rem \in SUBSET Records /\ recs \in SUBSET Rem
      /\ recs = {p \in Rem : Rank(Rem, p) < Limit}
      /\ recs \in SUBSET Records /\ Rem \in SUBSET W
  BY DEF FirstPage
<1>2. IsFiniteSet(recs) /\ Cardinality(recs) \in Nat /\ W \subseteq Nat /\ Limit \in Nat
  BY <1>1, Ranks, FS_CardinalityType, RequestAssumption
<1>3. ASSUME NEW p \in W, ~(Rank(W, p) < k), p \notin recs
      PROVE  Rank(W, p) >= k + Cardinality(recs)
  <2>1. Rank(W, p) \in Nat /\ p \in Rem
    BY <1>3, Ranks
  <2>2. PICK m \in Rem : \A q \in Rem : m <= q
    BY <1>1, <1>2, <2>1, Least
  <2>3. Rank(W, m) >= k /\ Rank(W, m) \in Nat /\ m \in W
    BY <1>1, <2>2, Ranks
  <2> HIDE DEF Rem
  \* the records before the first that is left come before p ...
  <2>4. Below(W, m) \cup Below(Rem, p) \subseteq Below(W, p)
    <3>1. m <= p /\ \A q \in W : q \in Nat
      BY <1>2, <2>1, <2>2
    <3>2. \A q \in W : q < m => q < p
      BY <2>3, <3>1
    <3> QED BY <1>1, <3>2 DEF Below
  <2>5. Below(W, m) \cap Below(Rem, p) = {}
    <3>1. \A q \in Rem : ~(q < m)
      BY <1>1, <1>2, <2>2
    <3> QED BY <3>1 DEF Below
  \* ... and so does the page.
  <2>6. recs \subseteq Below(Rem, p)
    <3>1. ASSUME NEW q \in recs, ~(q < p) PROVE FALSE
      <4>1. q \in Nat /\ p \in Nat /\ q \in Rem /\ p <= q
        BY <1>1, <1>2, <3>1
      <4>2. Rank(Rem, p) <= Rank(Rem, q) /\ Rank(Rem, p) \in Nat /\ Rank(Rem, q) \in Nat
        BY <1>1, <2>1, <4>1, Ranks
      <4>3. Rank(Rem, q) < Limit /\ ~(Rank(Rem, p) < Limit)
        BY <1>1, <1>3, <2>1
      <4> QED BY <1>2, <4>2, <4>3
    <3> QED BY <1>1, <3>1 DEF Below
  <2>7. /\ IsFiniteSet(Below(W, m)) /\ IsFiniteSet(Below(Rem, p)) /\ IsFiniteSet(Below(W, p))
    <3>1. IsFiniteSet(W)
      BY Ranks
    <3>2. Below(W, m) \in SUBSET W /\ Below(Rem, p) \in SUBSET W /\ Below(W, p) \in SUBSET W
      BY <1>1 DEF Below
    <3> QED BY <3>1, <3>2, FS_Subset
  <2>8. /\ Cardinality(Below(W, m)) \in Nat /\ Cardinality(Below(Rem, p)) \in Nat
        /\ Cardinality(Below(W, p)) \in Nat
    BY <2>7, FS_CardinalityType
  <2>9. Cardinality(Below(W, m) \cup Below(Rem, p))
        = Cardinality(Below(W, m)) + Cardinality(Below(Rem, p))
    BY <2>5, <2>7, <2>8, FS_Union, FS_EmptySet
  <2>10. Cardinality(Below(W, m) \cup Below(Rem, p)) <= Cardinality(Below(W, p))
    BY <2>4, <2>7, FS_Subset
  <2>11. Cardinality(recs) <= Cardinality(Below(Rem, p))
    BY <2>6, <2>7, FS_Subset
  <2>12. /\ Rank(W, p) = Cardinality(Below(W, p)) /\ Rank(W, m) = Cardinality(Below(W, m))
    BY <2>3, Ranks
  <2> QED BY <1>2, <2>3, <2>8, <2>9, <2>10, <2>11, <2>12
<1>4. ASSUME NEW p \in W, Rank(W, p) < k + Cardinality(recs), ~(Rank(W, p) < k)
      PROVE  p \in recs
  <2>1. Rank(W, p) \in Nat
    BY Ranks
  <2> QED BY <1>2, <1>3, <1>4, <2>1
<1> QED BY <1>2, <1>4
\* The page a sync fetches leaves no gap after the checkpoint it has loaded.
LEMMA FetchedPage ==
  ASSUME Shapes, NEW cp, cp = None \/ cp \in Nat, NEW w, NEW recs,
         recs = FirstPage(Remaining(cp, w))
  PROVE  GapFree(adapter, source, late, NextCheckpoint(cp, recs), cp, recs, w)
<1> DEFINE W == InWin(source, w)
           next == NextCheckpoint(cp, recs)
<1>1. InWindow(w) = W /\ W \in SUBSET Records /\ W \subseteq source /\ source \subseteq Nat
  BY RemainingIs, RecordAssumption DEF InWin, Shapes
<1>2. Offset(cp) \in Nat
  BY OffsetType
<1> HIDE DEF W
<1>3. CASE adapter = "elastic"
  <2>1. recs = FirstPage({p \in W : p > Offset(cp)})
    BY <1>1, <1>3 DEF Remaining
  <2>2. next = IF recs = {} THEN None ELSE Max(recs)
    BY <1>3 DEF NextCheckpoint
  <2>3. CASE recs = {}
    BY <2>2, <2>3 DEF GapFree
  <2>4. CASE recs # {}
    <3>1. /\ Max(recs) \in recs /\ Max(recs) \in W
          /\ \A p \in W : p <= Max(recs) => p <= Offset(cp) \/ p \in recs
      BY <1>1, <1>2, <2>1, <2>4, ElasticPage
    <3>2. next = Max(recs) /\ next \in source /\ next \in Nat /\ Offset(next) = next
      BY <1>1, <2>2, <2>4, <3>1, RecordAssumption DEF Offset
    <3>3. /\ Skipped(adapter, source, next, w) = {p \in W : p <= Max(recs)}
          /\ Skipped(adapter, source, cp, w) = {p \in W : p <= Offset(cp)}
      BY <1>3, <3>2 DEF Skipped, W
    <3> HIDE DEF next
    <3> QED BY <3>1, <3>2, <3>3 DEF GapFree, next
  <2> QED BY <2>3, <2>4
<1>4. CASE adapter # "elastic"
  <2>1. recs = FirstPage({p \in W : Rank(W, p) >= Offset(cp)})
    BY <1>1, <1>4 DEF Remaining
  <2>2. /\ Cardinality(recs) \in Nat
        /\ \A p \in W : Rank(W, p) < Offset(cp) + Cardinality(recs)
                          => Rank(W, p) < Offset(cp) \/ p \in recs
    BY <1>1, <1>2, <2>1, FixturePage
  <2>3. next = Offset(cp) + Cardinality(recs) /\ next \in Nat
    BY <1>2, <1>4, <2>2 DEF NextCheckpoint
  <2>4. Offset(next) = Offset(cp) + Cardinality(recs)
    BY <2>3, RecordAssumption DEF Offset
  <2>5. /\ Skipped(adapter, source, next, w) = {p \in W : Rank(W, p) < Offset(cp) + Cardinality(recs)}
        /\ Skipped(adapter, source, cp, w) = {p \in W : Rank(W, p) < Offset(cp)}
    BY <1>4, <2>4 DEF Skipped, W
  <2> HIDE DEF next
  <2> QED BY <1>4, <2>2, <2>3, <2>5 DEF GapFree, next
<1> QED BY <1>3, <1>4

\* The source grows by records that the cursor cp has not passed, unless they are
\* among the late ones.
Grows(src, lt, src2, lt2, cp) ==
  /\ src \subseteq src2 /\ lt \subseteq lt2
  /\ \A p \in src2 \ src : p <= Offset(cp) => p \in lt2

\* No step changes the adapter, or the source of any but Elastic; one that adds a
\* record leaves all else, and knows the cursors.
LEMMA SourceGrows ==
  ASSUME Shapes, [Next]_vars
  PROVE  /\ adapter' = adapter
         /\ adapter # "elastic" => source' = source
         /\ \/ UNCHANGED <<source, late>>
            \/ \E p \in Records : /\ Append(p) /\ adapter = "elastic"
                                  /\ source' = source \cup {p} /\ late \subseteq late'
                                  /\ BehindCursor(p) => p \in late'
<1> USE DEF local, database, history
<1>1. ASSUME NEW p \in Records, Append(p)
      PROVE  /\ adapter = "elastic" /\ source' = source \cup {p} /\ late \subseteq late'
             /\ BehindCursor(p) => p \in late'
  <2>1. adapter # "fixture"
    BY <1>1 DEF Append, Shapes
  <2> QED BY <1>1, <2>1, RequestAssumption DEF Append, Shapes
<1>2. UNCHANGED <<adapter, source, late>> \/ \E p \in Records : Append(p)
  BY DEF Next, vars, Start, Steps, Fetch, FetchFails, Retry, ReadKeys, Save, Commit, Collide,
         RecordFailedRun, Crash
<1>3. UNCHANGED adapter
  BY <1>2 DEF Append
<1> QED BY <1>1, <1>2, <1>3

\* What a checkpoint skips grows by late records only.
LEMMA SkippedStays ==
  ASSUME NEW src, NEW src2, NEW ad, NEW lt, NEW lt2, NEW cp,
         Grows(src, lt, src2, lt2, cp), ad # "elastic" => src2 = src
  PROVE  /\ \A w : Skipped(ad, src2, cp, w) \subseteq Skipped(ad, src, cp, w) \cup lt2
         /\ \A x, w : Skipped(ad, src, x, w) \subseteq Skipped(ad, src2, x, w)
         /\ \A v : \A p \in src : p \in InWin(src2, v) => p \in InWin(src, v)
         /\ \A x, w : Skipped(ad, src, x, w) \subseteq src
<1>1. \A w : InWin(src, w) \subseteq InWin(src2, w) /\ InWin(src2, w) \subseteq InWin(src, w) \cup (src2 \ src)
  BY DEF InWin, Grows
<1>2. CASE ad = "elastic"
  <2>1. \A s, x, w : Skipped(ad, s, x, w) = {p \in InWin(s, w) : p <= Offset(x)}
    BY <1>2 DEF Skipped
  <2> QED BY <1>1, <2>1 DEF Grows, InWin
<1>3. CASE ad # "elastic"
  <2>1. src2 = src
    BY <1>3
  <2>2. \A x, w : Skipped(ad, src, x, w) \subseteq src
    BY DEF Skipped, InWin
  <2>3. \A v : \A p \in src : p \in InWin(src2, v) => p \in InWin(src, v)
    BY <2>1
  <2> HIDE <1>3
  <2> QED BY <2>1, <2>2, <2>3
<1> QED BY <1>2, <1>3

\* A checkpoint that covers what is stored goes on to.
LEMMA CoversStays ==
  ASSUME NEW src, NEW src2, NEW ad, NEW st, NEW st2, NEW lt, NEW lt2, NEW ws, NEW ws2, NEW cp,
         Grows(src, lt, src2, lt2, cp), ad # "elastic" => src2 = src,
         st \subseteq st2, ws \subseteq ws2, CoveredBy(ad, src, st, lt, ws, cp)
  PROVE  CoveredBy(ad, src2, st2, lt2, ws2, cp)
<1> SUFFICES ASSUME cp # None, NEW w \in Windows,
                    NEW p \in Skipped(ad, src2, cp, w) \ (st2 \cup Bad \cup lt2)
             PROVE  \E v \in ws2 : v # w /\ (ad = "elastic" => p \notin InWin(src2, v))
  BY DEF CoveredBy
<1>1. p \in Skipped(ad, src, cp, w) \ (st \cup Bad \cup lt) /\ p \in src
  <2>1. /\ Skipped(ad, src2, cp, w) \subseteq Skipped(ad, src, cp, w) \cup lt2
        /\ Skipped(ad, src, cp, w) \subseteq src
    BY SkippedStays
  <2>2. lt \subseteq lt2
    BY DEF Grows
  <2> QED BY <2>1, <2>2
<1>2. PICK v \in ws : v # w /\ (ad = "elastic" => p \notin InWin(src, v))
  BY <1>1 DEF CoveredBy
<1>3. ad = "elastic" => p \notin InWin(src2, v)
  BY <1>1, <1>2, SkippedStays
<1> QED BY <1>2, <1>3

\* And a page that leaves no gap.
LEMMA GapFreeStays ==
  ASSUME NEW src, NEW src2, NEW ad, NEW lt, NEW lt2, NEW next, NEW from, NEW recs, NEW w,
         Grows(src, lt, src2, lt2, next), ad # "elastic" => src2 = src,
         GapFree(ad, src, lt, next, from, recs, w)
  PROVE  GapFree(ad, src2, lt2, next, from, recs, w)
<1>1. /\ Skipped(ad, src2, next, w) \subseteq Skipped(ad, src, next, w) \cup lt2
      /\ Skipped(ad, src, from, w) \subseteq Skipped(ad, src2, from, w) /\ lt \subseteq lt2
  BY SkippedStays DEF Grows
<1> QED BY <1>1 DEF GapFree

\* What a commit stores is all its page lets later syncs of its window skip.
LEMMA CommitCovers ==
  ASSUME RowsInv, CheckpointInv, NEW r \in Requests, Commit(r), Saves(r)
  PROVE  CoveredBy(adapter, source, Stored', late, asked', NextCheckpoint(base[r], page[r]))
<1> DEFINE next == NextCheckpoint(base[r], page[r])  u == request[r].window
<1>1. /\ Shapes /\ pc[r] = "commit" /\ u \in Windows /\ ~request[r].dry /\ next # None
      /\ Covers(base[r]) /\ Accounts(r) /\ asked' = asked \cup {u}
      /\ GapFree(adapter, source, late, next, base[r], page[r], u)
  BY DEF RowsInv, CheckpointInv, Shapes, NoGap, Commit, Saves
<1>2. Stored \subseteq Stored' /\ Normalized(r) \subseteq Stored'
  <2>1. rows' = rows \cup {[record |-> p, run |-> r] : p \in Fresh(r)}
    BY DEF Commit
  <2>2. Stored \subseteq Stored'
    BY <2>1 DEF Stored
  <2>3. Fresh(r) \subseteq Stored'
    <3>1. ASSUME NEW p \in Fresh(r) PROVE p \in {row.record : row \in rows'}
      <4>1. [record |-> p, run |-> r] \in rows' /\ [record |-> p, run |-> r].record = p
        BY <2>1
      <4> QED BY <4>1
    <3> QED BY <3>1 DEF Stored
  <2>4. Normalized(r) \subseteq Fresh(r) \cup known[r] /\ known[r] \subseteq Stored
    BY <1>1 DEF Fresh, Accounts
  <2> QED BY <2>2, <2>3, <2>4
<1>3. base[r] = None \/ base[r] \in Nat
  BY <1>1 DEF Covers, CoveredBy
<1>4. \A w : base[r] = None => Skipped(adapter, source, base[r], w) = {}
  BY <1>1, NothingSkipped DEF Shapes
<1> HIDE DEF next, u
<1> SUFFICES ASSUME NEW w \in Windows,
                    NEW p \in Skipped(adapter, source, next, w) \ (Stored' \cup Bad \cup late)
             PROVE  \E v \in asked' : v # w /\ (adapter = "elastic" => p \notin InWin(source, v))
  BY <1>1 DEF CoveredBy, GapFree, next
\* What the loaded checkpoint skips already.
<1>5. CASE p \in Skipped(adapter, source, base[r], w)
  <2>1. PICK v \in asked : v # w /\ (adapter = "elastic" => p \notin InWin(source, v))
    BY <1>1, <1>2, <1>4, <1>5 DEF Covers, CoveredBy
  <2> QED BY <1>1, <2>1
\* What the page passes in the window of the sync is stored or rejected.
<1>6. p \in Skipped(adapter, source, next, u) => p \in Skipped(adapter, source, base[r], u)
  <2>1. p \notin page[r]
    BY <1>2 DEF Normalized
  <2> QED BY <1>1, <2>1 DEF GapFree
<1>7. CASE u # w /\ adapter # "elastic"
  BY <1>1, <1>7
<1>8. CASE u = w
  BY <1>5, <1>6, <1>8
<1>9. CASE adapter = "elastic" /\ p \notin Skipped(adapter, source, base[r], w)
  <2>1. \A x, v : Skipped(adapter, source, x, v) = {q \in InWin(source, v) : q <= Offset(x)}
    BY <1>9 DEF Skipped
  <2>2. p \in InWin(source, w) /\ p <= Offset(next) /\ ~(p <= Offset(base[r]))
    BY <1>9, <2>1
  <2>3. p \notin InWin(source, u)
    BY <1>6, <2>1, <2>2
  <2> QED BY <1>1, <2>2, <2>3
<1> QED BY <1>5, <1>7, <1>8, <1>9

\* Every step keeps what is known of checkpoints.
LEMMA CheckpointStep ==
  ASSUME RowsInv, CheckpointInv, [Next]_vars
  PROVE  CheckpointInv'
<1> USE DEF database, local, history
<1>0. /\ Shapes /\ Shapes' /\ Stored \subseteq Stored'
      /\ adapter' = adapter /\ (adapter # "elastic" => source' = source)
      /\ source \in SUBSET Records /\ source' \in SUBSET Records
  BY ShapesStep, OneEventStep, SourceGrows DEF RowsInv, Shapes
<1>a. asked \subseteq asked'
  BY DEF Next, vars, Append, Crash, Start, Steps, Fetch, FetchFails, Retry, ReadKeys, Save, Commit,
         Collide, RecordFailedRun
\* A record that no cursor up to cp has passed, or is late.
<1>b. ASSUME NEW cp, \A p \in Records : p <= Offset(cp) /\ Append(p) => BehindCursor(p)
      PROVE  Grows(source, late, source', late', cp)
  BY <1>0, <1>b, SourceGrows DEF Grows
<1>c. /\ Grows(source, late, source', late', checkpoint)
      /\ \A q \in Requests : Grows(source, late, source', late', base[q])
  BY <1>b DEF BehindCursor
<1>d. ASSUME NEW q \in Requests, NextCheckpoint(base[q], page[q]) # None
      PROVE  Grows(source, late, source', late', NextCheckpoint(base[q], page[q]))
  <2>1. CASE adapter # "elastic"
    <3>1. UNCHANGED <<source, late>>
      BY <1>0, <2>1, SourceGrows
    <3> QED BY <3>1 DEF Grows
  <2>2. CASE adapter = "elastic"
    <3>1. page[q] # {} /\ NextCheckpoint(base[q], page[q]) = Max(page[q])
      BY <1>d, <2>2 DEF NextCheckpoint
    <3>2. Max(page[q]) \in page[q] /\ Offset(Max(page[q])) = Max(page[q])
      <4>1. page[q] \in SUBSET Records
        BY <1>0 DEF Shapes
      <4>2. Max(page[q]) \in page[q] /\ Max(page[q]) # None
        BY <3>1, <4>1, Greatest, RecordAssumption
      <4> QED BY <4>2 DEF Offset
    <3> QED BY <1>b, <3>1, <3>2 DEF BehindCursor
  <2> QED BY <2>1, <2>2
<1>1. ASSUME NEW cp, Covers(cp), Grows(source, late, source', late', cp)
      PROVE  CoveredBy(adapter', source', Stored', late', asked', cp)
  <2>1. CoveredBy(adapter, source, Stored, late, asked, cp)
    BY <1>1 DEF Covers
  <2> QED BY <1>0, <1>a, <1>1, <2>1, CoversStays
<1>2. ASSUME NEW q \in Requests, Untouched(q) PROVE (Covers(base[q]) /\ NoGap(q))'
  <2>1. Covers(base[q])'
    BY <1>1, <1>2, <1>c DEF CheckpointInv, Covers, Untouched
  <2>2. pc[q] \in {"keys", "save", "commit"} =>
          GapFree(adapter, source', late', NextCheckpoint(base[q], page[q]), base[q], page[q],
                  request[q].window)
    <3>1. CASE NextCheckpoint(base[q], page[q]) = None
      BY <3>1 DEF GapFree
    <3>2. CASE NextCheckpoint(base[q], page[q]) # None
      BY <1>0, <1>d, <3>2, GapFreeStays DEF CheckpointInv, NoGap
    <3> QED BY <3>1, <3>2
  <2>3. NextCheckpoint(base[q], page[q])' = NextCheckpoint(base[q], page[q])
    BY <1>0, <1>2 DEF NextCheckpoint, Untouched
  <2> QED BY <1>0, <1>2, <2>1, <2>2, <2>3 DEF NoGap, Untouched
<1>3. Covers(checkpoint)'
  <2>1. CASE UNCHANGED checkpoint
    BY <1>1, <1>c, <2>1 DEF CheckpointInv, Covers
  <2>2. ASSUME NEW r \in Requests, Commit(r), checkpoint' # checkpoint PROVE Covers(checkpoint)'
    <3>1. /\ Saves(r) /\ checkpoint' = NextCheckpoint(base[r], page[r])
          /\ UNCHANGED <<adapter, source, late>>
      BY <2>2 DEF Commit
    <3> QED BY <2>2, <3>1, CommitCovers DEF Covers
  <2>3. UNCHANGED checkpoint \/ \E r \in Requests : Commit(r)
    BY DEF Next, vars, Append, Crash, Start, Steps, Fetch, FetchFails, Retry, ReadKeys, Save,
           Collide, RecordFailedRun
  <2> QED BY <2>1, <2>2, <2>3
<1>4. ASSUME NEW q \in Requests, base'[q] = None, pc'[q] \notin {"keys", "save", "commit"}
      PROVE  (Covers(base[q]) /\ NoGap(q))'
  BY <1>4 DEF Covers, CoveredBy, NoGap
<1>5. ASSUME NEW r \in Requests, Start(r) \/ Steps(r) PROVE (Covers(base[r]) /\ NoGap(r))'
  <2> USE DEF Goto
  <2>1. CASE Start(r)
    <3>1. base'[r] = checkpoint /\ pc'[r] = "fetch"
      BY <1>0, <2>1 DEF Start, Shapes
    <3> QED BY <1>1, <1>c, <3>1 DEF Covers, CheckpointInv, NoGap
  <2>2. CASE FetchFails(r) \/ Retry(r) \/ Collide(r)
    <3>1. base'[r] = base[r] /\ pc'[r] \notin {"keys", "save", "commit"}
      BY <1>0, <2>2 DEF FetchFails, Retry, Collide, Shapes
    <3> QED BY <1>1, <1>c, <3>1 DEF Covers, CheckpointInv, NoGap
  <2>3. CASE Fetch(r)
    <3>1. UNCHANGED <<adapter, source, rows, base, request, late, asked>>
      BY <2>3 DEF Fetch
    <3>2. Covers(base[r])'
      BY <1>1, <1>c, <3>1 DEF Covers, CheckpointInv
    <3>3. \/ pc'[r] = "refused"
          \/ /\ pc'[r] = "keys"
             /\ page'[r] = FirstPage(Remaining(base[r], request[r].window))
      BY <1>0, <2>3 DEF Fetch, Shapes
    <3>4. base[r] = None \/ base[r] \in Nat
      BY DEF CheckpointInv, Covers, CoveredBy
    <3>5. CASE pc'[r] = "keys"
      <4>1. GapFree(adapter, source, late, NextCheckpoint(base[r], page'[r]), base[r], page'[r],
                    request[r].window)
        BY <1>0, <3>3, <3>4, <3>5, FetchedPage
      <4>2. NextCheckpoint(base[r], page[r])' = NextCheckpoint(base[r], page'[r])
        BY <3>1 DEF NextCheckpoint
      <4> QED BY <3>1, <3>2, <4>1, <4>2 DEF NoGap
    <3> QED BY <3>2, <3>3, <3>5 DEF NoGap
  <2>4. CASE ReadKeys(r) \/ Save(r)
    <3>1. /\ UNCHANGED <<adapter, source, rows, base, request, page, late, asked>>
          /\ pc[r] \in {"keys", "save"}
      BY <2>4 DEF ReadKeys, Save
    <3>2. Covers(base[r])'
      BY <1>1, <1>c, <3>1 DEF Covers, CheckpointInv
    <3> QED BY <3>1, <3>2 DEF CheckpointInv, NoGap, NextCheckpoint
  <2>5. CASE Commit(r) \/ RecordFailedRun(r)
    <3>1. base'[r] = None /\ pc'[r] = "done"
      BY <2>5 DEF Commit, RecordFailedRun, End
    <3> QED BY <1>4, <3>1
  <2> QED BY <1>5, <2>1, <2>2, <2>3, <2>4, <2>5 DEF Steps
<1>6. ASSUME NEW q \in Requests PROVE (Covers(base[q]) /\ NoGap(q))'
  <2>1. CASE Crash
    <3>1. Untouched(q) \/ (base'[q] = None /\ pc'[q] = "done")
      BY <2>1 DEF Crash, End, Untouched
    <3> QED BY <1>2, <1>4, <3>1
  <2>2. ASSUME NEW r \in Requests, Start(r) \/ Steps(r) PROVE (Covers(base[q]) /\ NoGap(q))'
    <3>1. CASE q = r
      BY <1>5, <2>2, <3>1
    <3>2. CASE q # r
      BY <1>0, <1>2, <2>2, <3>2, OthersUntouched
    <3> QED BY <3>1, <3>2
  <2>3. CASE UNCHANGED vars \/ \E p \in Records : Append(p)
    BY <1>2, <2>3 DEF vars, Append, Untouched
  <2> QED BY <2>1, <2>2, <2>3 DEF Next
<1> QED BY <1>3, <1>6 DEF CheckpointInv

\* What the checkpoint lets a later sync of a window skip is stored, rejected by the
\* normalizer or came behind a cursor, or a sync of another window, for Elastic one
\* that does not hold the record, has moved the checkpoint (run(), fetch_records,
\* _save_checkpoint); for any windows, records, ties, overlaps and crashes.
THEOREM CheckpointNeverAhead == Spec => []CheckpointCoversStored
<1>1. Init => CheckpointInv
  BY InitInv
<1>2. RowsInv /\ CheckpointInv /\ [Next]_vars => CheckpointInv'
  BY CheckpointStep
<1>3. RowsInv /\ CheckpointInv => CheckpointCoversStored
  <2> SUFFICES ASSUME RowsInv, CheckpointInv, checkpoint # None, NEW w \in Windows,
                      NEW p \in (InWindow(w) \ Remaining(checkpoint, w)) \ (Stored \cup Bad \cup late)
               PROVE  \E v \in asked : v # w /\ (adapter = "elastic" => p \notin InWindow(v))
    BY DEF CheckpointCoversStored
  <2>1. Shapes /\ checkpoint \in Nat /\ CoveredBy(adapter, source, Stored, late, asked, checkpoint)
    BY DEF RowsInv, CheckpointInv, Covers, CoveredBy
  <2>2. p \in Skipped(adapter, source, checkpoint, w) \ (Stored \cup Bad \cup late)
    BY <2>1, RemainingIs
  <2>3. \A v : InWindow(v) = InWin(source, v)
    BY DEF InWindow, InWin
  <2> QED BY <2>1, <2>2, <2>3 DEF CoveredBy
<1> QED BY <1>1, <1>2, <1>3, RowsHold, PTL DEF Spec
=============================================================================
