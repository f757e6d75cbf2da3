----------------------------- MODULE Cases_proofs -----------------------------
(***************************************************************************)
(* For any number of requests, cases, alerts, notes and restarts: what a   *)
(* case is and which alerts it has is what its creation and the handlers'  *)
(* entries tell, and while a year has no more cases than the widest number *)
(* plus one, they are numbered without a gap and no creation collides with *)
(* another one.                                                            *)
(*                                                                         *)
(* Both invariants of the timeline are inductive once a request that       *)
(* unlinks is known to have read links of its alert only (AskInv).         *)
(* NumbersInv adds that the request about to insert a case holds the lock  *)
(* and the next number.                                                    *)
(***************************************************************************)
EXTENDS Cases, SequenceTheorems, FiniteSetTheorems, NaturalsInduction, WellFoundedInduction, TLAPS

Links == [alert : Alerts, by : Requests]
Told == {"open", "in_progress", "closed", "low", "high", "", None}
EntryKinds == {"case_created", "status_change", "priority_change", "alerts_added",
               "alert_removed", "note"}
Entries == [kind : EntryKinds, to : Told, alerts : SUBSET Alerts, own : BOOLEAN]

\* What a request asks for: its alerts are known ones, and so is its case.
AskInv(r) ==
  /\ ask[r].alerts \subseteq Alerts
  /\ ask[r].patch \in [status : {"open", "in_progress", "closed", None},
                       priority : {"low", "high", None}]
  /\ pc[r] \in {"number", "insert"} => ask[r].patch.status # None
  /\ pc[r] \in {"read", "write"} => ask[r].case \in CaseIds /\ Exists(ask[r].case)
  /\ ask[r].op = "remove" => \A a, b \in ask[r].alerts : a = b
  /\ pc[r] = "write" => \A l \in read[r].links : l.alert \in ask[r].alerts

Shapes ==
  /\ cases = [c \in CaseIds |-> cases[c]]
  /\ links \in [CaseIds -> SUBSET Links]
  /\ timeline \in [CaseIds -> Seq(Entries)]
  /\ created = [c \in CaseIds |-> created[c]] /\ raced = [c \in CaseIds |-> raced[c]]
  /\ pc = [r \in Requests |-> pc[r]]
  /\ ask = [r \in Requests |-> ask[r]] /\ read = [r \in Requests |-> read[r]]
  /\ \A c \in CaseIds : Exists(c) <=> cases[c].status # "none"
  /\ \A r \in Requests : AskInv(r) /\ read[r].links \subseteq Links
  /\ \A r \in Requests : pc[r] \in {"idle", "number", "insert"} => ~Exists(r)

\* The place of the last entry of s in M, or 0.
Places(s, M) == {i \in 1 .. Len(s) : s[i] \in M}
LastIn(s, M) == IF Places(s, M) # {} THEN Max(Places(s, M)) ELSE 0

\* The entries that handlers write, by type, and those of them that name a.
Written(kinds) == {e \in Entries : e.own /\ e.kind \in kinds}
Linking == {"alerts_added", "alert_removed"}
Naming(a) == {e \in Entries : e.own /\ e.kind \in Linking /\ a \in e.alerts}

\* What the last entry of s in M says, or else d.
Said(s, M, d) == IF LastIn(s, M) = 0 THEN d ELSE s[LastIn(s, M)].to
\* Whether s says that a is linked, when those in A were at first.
SaidIn(s, a, A) == IF LastIn(s, Naming(a)) = 0 THEN a \in A
                   ELSE s[LastIn(s, Naming(a))].kind = "alerts_added"

Statuses == Written({"status_change"})
Priorities == Written({"priority_change"})

StateInv == \A c \in CaseIds :
  /\ cases[c].status = Said(timeline[c], Statuses, created[c].status)
  /\ cases[c].priority = Said(timeline[c], Priorities, created[c].priority)

HasLink(c, a) == \E l \in links[c] : l.alert = a

CaseInv(c) ==
  /\ \A k, l \in links[c] : k.alert = l.alert => k = l
  /\ \A a \in Alerts : LET told == SaidIn(timeline[c], a, created[c].alerts) IN
       /\ told => HasLink(c, a)
       /\ HasLink(c, a) => told \/ a \in raced[c]

LinksInv == \A c \in CaseIds : CaseInv(c)

Existing == {c \in CaseIds : Exists(c)}

\* The holder of the lock inserts the number after those that are taken.
NumbersInv ==
  /\ IsFiniteSet(Existing)
  /\ Numbers = 1 .. Cardinality(Existing)
  /\ \A r \in Requests : /\ pc[r] # "collided"
                         /\ pc[r] = "insert" => /\ lock = r
                                                /\ read[r].number = Cardinality(Existing) + 1

CasesInv == Shapes /\ LinksInv /\ StateInv
-----------------------------------------------------------------------------
\* What the handlers append is an entry of theirs.
LEMMA EntryIs ==
  ASSUME NEW kind \in EntryKinds, NEW to \in Told, NEW A \in SUBSET Alerts
  PROVE  /\ Entry(kind, to, A) \in Entries
         /\ Entry(kind, to, A).kind = kind /\ Entry(kind, to, A).to = to
         /\ Entry(kind, to, A).alerts = A /\ Entry(kind, to, A).own = TRUE
BY DEF Entry, Entries

\* The greatest of a set of numbers.
LEMMA MaxIs ==
  ASSUME NEW I, I \subseteq Nat, NEW n \in I, \A i \in I : i <= n
  PROVE  Max(I) = n
<1>1. \A i \in I : i \in Nat
  OBVIOUS
<1>2. \A i \in I : n >= i
  BY <1>1
<1>3. \A x \in I : (\A y \in I : x >= y) => x = n
  BY <1>1, <1>2
<1> QED BY <1>2, <1>3 DEF Max

\* A set of places up to n has a greatest one.
LEMMA HasMax ==
  ASSUME NEW n \in Nat, NEW I, I \subseteq 1 .. n, I # {}
  PROVE  Max(I) \in I
<1> DEFINE R == OpToRel(<, Nat)
           T == {n - i : i \in I}
<1>1. IsWellFoundedOn(R, Nat)
  BY NatLessThanWellFounded
<1>2. \A x, y \in Nat : <<x, y>> \in R <=> x < y
  BY DEF OpToRel
<1>3. T \subseteq Nat /\ T # {}
  <2>1. \A i \in I : n - i \in Nat
    OBVIOUS
  <2> HIDE DEF R
  <2> QED BY <2>1, Zenon
<1> HIDE DEF R, T
<1>4. PICK x \in T : \A y \in T : ~(<<y, x>> \in R)
  BY <1>1, <1>3, WFMin
<1>5. \A y \in T : ~(y < x)
  BY <1>2, <1>3, <1>4
<1>6. PICK i \in I : x = n - i
  BY <1>4 DEF T
<1>7. \A j \in I : ~(n - j < n - i)
  BY <1>5, <1>6 DEF T
<1>8. \A j \in I : j <= i
  BY <1>7
<1>9. I \subseteq Nat
  OBVIOUS
<1> QED BY <1>6, <1>8, <1>9, MaxIs

\* The last place of s in M is one of them; there is none in an empty sequence.
LEMMA LastPlace ==
  ASSUME NEW s \in Seq(Entries), NEW M
  PROVE  /\ LastIn(s, M) = 0 <=> Places(s, M) = {}
         /\ LastIn(s, M) # 0 => LastIn(s, M) \in 1 .. Len(s) /\ s[LastIn(s, M)] \in M
<1>1. Len(s) \in Nat /\ Places(s, M) \subseteq 1 .. Len(s)
  BY LenProperties DEF Places
<1>2. Places(s, M) # {} => Max(Places(s, M)) \in Places(s, M)
  BY <1>1, HasMax
<1> QED BY <1>1, <1>2 DEF LastIn, Places

\* The last place in M moves to an entry of M, and to no other.
LEMMA LastAppend ==
  ASSUME NEW s \in Seq(Entries), NEW e \in Entries, NEW M
  PROVE  /\ Append(s, e) \in Seq(Entries) /\ Len(s) + 1 # 0 /\ Append(s, e)[Len(s) + 1] = e
         /\ e \in M => LastIn(Append(s, e), M) = Len(s) + 1
         /\ e \notin M => /\ LastIn(Append(s, e), M) = LastIn(s, M)
                          /\ LastIn(s, M) # 0 => Append(s, e)[LastIn(s, M)] = s[LastIn(s, M)]
<1> DEFINE u == Append(s, e)
           n == Len(s)
<1>1. /\ n \in Nat /\ u \in Seq(Entries) /\ Len(u) = n + 1 /\ u[n + 1] = e
      /\ \A i \in 1 .. n : u[i] = s[i]
  BY AppendProperties, LenProperties
<1> HIDE DEF u, n
<1>2. ASSUME e \in M PROVE LastIn(u, M) = n + 1
  <2>1. n + 1 \in Places(u, M) /\ Places(u, M) \subseteq Nat /\ \A i \in Places(u, M) : i <= n + 1
    BY <1>1, <1>2 DEF Places
  <2>2. Max(Places(u, M)) = n + 1
    BY <2>1, MaxIs
  <2> QED BY <2>1, <2>2 DEF LastIn
<1>3. ASSUME e \notin M PROVE LastIn(u, M) = LastIn(s, M)
  <2>1. 1 .. n + 1 = (1 .. n) \cup {n + 1}
    BY <1>1
  <2>2. Places(u, M) = Places(s, M)
    BY <1>1, <1>3, <2>1 DEF Places, n
  <2> QED BY <2>2 DEF LastIn
<1>4. LastIn(s, M) # 0 => u[LastIn(s, M)] = s[LastIn(s, M)]
  BY <1>1, LastPlace DEF n
<1>5. n + 1 # 0
  BY <1>1
<1> QED BY <1>1, <1>2, <1>3, <1>4, <1>5 DEF u, n

\* What the last entry says stays, unless another one of its kind follows.
LEMMA SaidAppend ==
  ASSUME NEW s \in Seq(Entries), NEW e \in Entries, NEW M, NEW d
  PROVE  /\ e \in M => Said(Append(s, e), M, d) = e.to
         /\ e \notin M => Said(Append(s, e), M, d) = Said(s, M, d)
<1>1. /\ Len(s) + 1 # 0 /\ Append(s, e)[Len(s) + 1] = e
      /\ e \in M => LastIn(Append(s, e), M) = Len(s) + 1
      /\ e \notin M => /\ LastIn(Append(s, e), M) = LastIn(s, M)
                       /\ LastIn(s, M) # 0 => Append(s, e)[LastIn(s, M)] = s[LastIn(s, M)]
  BY LastAppend
<1> QED BY <1>1 DEF Said

\* So does what is said of the links of an alert.
LEMMA SaidInAppend ==
  ASSUME NEW s \in Seq(Entries), NEW e \in Entries, NEW a, NEW A
  PROVE  /\ e \in Naming(a) => (SaidIn(Append(s, e), a, A) <=> e.kind = "alerts_added")
         /\ e \notin Naming(a) => (SaidIn(Append(s, e), a, A) <=> SaidIn(s, a, A))
<1> DEFINE M == Naming(a)
<1>1. /\ Len(s) + 1 # 0 /\ Append(s, e)[Len(s) + 1] = e
      /\ e \in M => LastIn(Append(s, e), M) = Len(s) + 1
      /\ e \notin M => /\ LastIn(Append(s, e), M) = LastIn(s, M)
                       /\ LastIn(s, M) # 0 => Append(s, e)[LastIn(s, M)] = s[LastIn(s, M)]
  BY LastAppend
<1> HIDE DEF M
<1> QED BY <1>1 DEF SaidIn, M

\* A timeline without an entry in question says what was there at first.
LEMMA SaidAtFirst ==
  ASSUME NEW s \in Seq(Entries), NEW M, NEW d, \A i \in 1 .. Len(s) : s[i] \notin M
  PROVE  LastIn(s, M) = 0 /\ Said(s, M, d) = d
BY LastPlace DEF Said, Places

-----------------------------------------------------------------------------
StatusEntry(r) == Entry("status_change", ask[r].patch.status, {})
PriorityEntry(r) == Entry("priority_change", ask[r].patch.priority, {})
AfterStatus(s, r) == IF Changes(r, "status") THEN Append(s, StatusEntry(r)) ELSE s
AfterUpdate(s, r) == IF Changes(r, "priority") THEN Append(AfterStatus(s, r), PriorityEntry(r))
                     ELSE AfterStatus(s, r)

\* An update appends an entry for the status, then one for the priority.
LEMMA UpdateAppends ==
  ASSUME NEW s \in Seq(Entries), NEW r \in Requests, AskInv(r)
  PROVE  /\ StatusEntry(r) \in Entries /\ PriorityEntry(r) \in Entries
         /\ s \o UpdateEntries(r) = AfterUpdate(s, r)
         /\ AfterStatus(s, r) \in Seq(Entries) /\ AfterUpdate(s, r) \in Seq(Entries)
<1> DEFINE e == StatusEntry(r)
           f == PriorityEntry(r)
<1>1. e \in Entries /\ f \in Entries
  <2>1. ask[r].patch.status \in Told /\ ask[r].patch.priority \in Told
    BY DEF AskInv, Told
  <2> QED BY <2>1, EntryIs DEF StatusEntry, PriorityEntry, EntryKinds
<1>2. UpdateEntries(r) = (IF Changes(r, "status") THEN <<e>> ELSE <<>>)
                         \o (IF Changes(r, "priority") THEN <<f>> ELSE <<>>)
  BY DEF UpdateEntries, StatusEntry, PriorityEntry
<1> HIDE DEF e, f
<1>3. s \o <<e>> = Append(s, e) /\ s \o <<f>> = Append(s, f) /\ s \o <<>> = s
      /\ Append(s, e) \in Seq(Entries) /\ Append(s, f) \in Seq(Entries)
  BY <1>1, AppendIsConcat, AppendProperties, ConcatEmptySeq
<1>4. Append(s, e) \o <<f>> = Append(Append(s, e), f) /\ Append(Append(s, e), f) \in Seq(Entries)
  BY <1>1, <1>3, AppendIsConcat, AppendProperties
<1>5. <<e>> \in Seq(Entries) /\ <<f>> \in Seq(Entries) /\ <<>> \in Seq(Entries)
  BY <1>1
<1>6. s \o (<<e>> \o <<f>>) = (s \o <<e>>) \o <<f>>
  BY <1>5, ConcatAssociative
<1>7. <<e>> \o <<>> = <<e>> /\ <<>> \o <<f>> = <<f>> /\ <<>> \o <<>> = <<>>
  BY <1>5, ConcatEmptySeq
<1>8. s \o UpdateEntries(r) =
        IF Changes(r, "status")
        THEN IF Changes(r, "priority") THEN Append(Append(s, e), f) ELSE Append(s, e)
        ELSE IF Changes(r, "priority") THEN Append(s, f) ELSE s
  BY <1>2, <1>3, <1>4, <1>6, <1>7
<1> QED BY <1>1, <1>3, <1>4, <1>8 DEF AfterUpdate, AfterStatus, e, f

Creation == Entry("case_created", "", {})

\* The entry of a creation says nothing of the state or the links.
LEMMA CreationIs ==
  /\ Creation \in Entries /\ <<Creation>> \in Seq(Entries)
  /\ \A d : Said(<<Creation>>, Statuses, d) = d /\ Said(<<Creation>>, Priorities, d) = d
  /\ \A a, A : SaidIn(<<Creation>>, a, A) <=> a \in A
<1>1. Creation \in Entries /\ Creation.kind = "case_created"
  <2>1. "case_created" \in EntryKinds /\ "" \in Told /\ {} \in SUBSET Alerts
    BY DEF EntryKinds, Told
  <2> QED BY <2>1 DEF Creation, Entry, Entries
<1>2. <<Creation>> \in Seq(Entries) /\ Len(<<Creation>>) = 1 /\ <<Creation>>[1] = Creation
  BY <1>1
<1>3. /\ Creation \notin Statuses /\ Creation \notin Priorities
      /\ \A a : Creation \notin Naming(a)
  BY <1>1 DEF Statuses, Priorities, Written, Naming, Linking
<1> HIDE DEF Creation
<1>4. \A i \in 1 .. Len(<<Creation>>) : <<Creation>>[i] = Creation
  BY <1>2
<1> DEFINE s == <<Creation>>
<1>5. s \in Seq(Entries) /\ \A i \in 1 .. Len(s) : s[i] = Creation
  BY <1>2, <1>4
<1> HIDE DEF s
<1>6. \A d : Said(s, Statuses, d) = d /\ Said(s, Priorities, d) = d
  BY <1>3, <1>5, SaidAtFirst
<1>7. \A a, A : SaidIn(s, a, A) <=> a \in A
  BY <1>3, <1>5, SaidAtFirst DEF SaidIn
<1> QED BY <1>1, <1>2, <1>6, <1>7 DEF s

\* An empty timeline says nothing either.
LEMMA EmptySays ==
  /\ <<>> \in Seq(Entries)
  /\ \A d, M : Said(<<>>, M, d) = d
  /\ \A a, A : SaidIn(<<>>, a, A) <=> a \in A
<1> DEFINE s == <<>>
<1>1. s \in Seq(Entries) /\ Len(s) = 0
  OBVIOUS
<1> HIDE DEF s
<1>2. \A i \in 1 .. Len(s) : FALSE
  BY <1>1
<1>3. \A d, M : Said(s, M, d) = d /\ LastIn(s, M) = 0
  BY <1>1, <1>2, SaidAtFirst
<1> QED BY <1>1, <1>3 DEF s, SaidIn

\* At the start there is one case, and nothing is asked for.
LEMMA InitInv == Init => CasesInv /\ NumbersInv
<1> SUFFICES ASSUME Init PROVE CasesInv /\ NumbersInv
  OBVIOUS
<1>1. timeline = [c \in CaseIds |-> IF c = Old THEN <<Creation>> ELSE <<>>]
  BY DEF Init, Creation
<1>2. timeline \in [CaseIds -> Seq(Entries)]
  BY <1>1, CreationIs, EmptySays
<1>3. \A c \in CaseIds :
        /\ created[c].alerts = {} /\ links[c] = {}
        /\ cases[c].status = created[c].status /\ cases[c].priority = created[c].priority
        /\ cases[c] = IF c = Old THEN [number |-> 1, status |-> "open",
                                       priority |-> "low", closedAt |-> FALSE]
                      ELSE NoCase
  BY DEF Init, NoCase, NoRow
<1>4. \A c \in CaseIds : (Exists(c) <=> cases[c].status # "none") /\ (Exists(c) <=> c = Old)
  BY <1>3 DEF Exists, NoCase
<1>5. Old \in CaseIds /\ cases[Old].number = 1
  BY <1>3 DEF CaseIds
<1>6. Shapes
  <2>1. \A r \in Requests : AskInv(r) /\ read[r].links \subseteq Links
    BY DEF Init, AskInv, NoAsk, Nothing
  <2>2. links \in [CaseIds -> SUBSET Links]
    BY DEF Init
  <2>3. \A r \in Requests : ~Exists(r)
    BY <1>4, NameAssumption DEF CaseIds
  <2> QED BY <1>2, <1>4, <2>1, <2>2, <2>3 DEF Init, Shapes
<1>7. LinksInv
  <2>1. \A c \in CaseIds : \A a, A : SaidIn(timeline[c], a, A) <=> a \in A
    BY <1>1, CreationIs, EmptySays
  <2>2. \A c \in CaseIds, a \in Alerts : ~HasLink(c, a) /\ ~(a \in created[c].alerts)
    BY <1>3 DEF HasLink
  <2> QED BY <1>3, <2>1, <2>2 DEF LinksInv, CaseInv
<1>8. StateInv
  BY <1>1, <1>3, CreationIs, EmptySays DEF StateInv
<1>9. NumbersInv
  <2>1. Existing = {Old}
    BY <1>4, <1>5 DEF Existing
  <2>2. IsFiniteSet(Existing) /\ Cardinality(Existing) = 1
    BY <2>1, FS_Singleton
  <2>3. Numbers = {1}
    BY <1>4, <1>5 DEF Numbers
  <2>4. \A r \in Requests : pc[r] = "idle"
    BY DEF Init
  <2> QED BY <2>2, <2>3, <2>4 DEF NumbersInv
<1> QED BY <1>6, <1>7, <1>8, <1>9 DEF CasesInv

\* The handlers of other requests keep what they have read and where they are.
Alone(r) ==
  \A q \in Requests : q # r => pc'[q] = pc[q] /\ ask'[q] = ask[q] /\ read'[q] = read[q]

\* A request is answered: it is over, and has nothing left.
LEMMA EndIs ==
  ASSUME NEW S, End(S), NEW r \in Requests
  PROVE  /\ r \in S => pc'[r] = "done" /\ ask'[r] = NoAsk /\ read'[r] = Nothing
         /\ r \notin S => pc'[r] = pc[r] /\ ask'[r] = ask[r] /\ read'[r] = read[r]
BY DEF End

\* No handler writes what another one has read.
LEMMA HandlersAlone ==
  ASSUME Shapes, NEW r \in Requests, Arrive(r) \/ Handle(r)
  PROVE  Alone(r)
<1> USE DEF Shapes, Alone, End
<1>1. CASE Arrive(r)
  BY <1>1 DEF Arrive
<1>2. CASE TakeNumber(r)
  BY <1>2 DEF TakeNumber
<1>3. CASE CommitCreate(r)
  BY <1>3 DEF CommitCreate
<1>4. CASE Read(r)
  BY <1>4 DEF Read
<1>5. CASE CommitUpdate(r) \/ CommitAdd(r) \/ CommitRemove(r) \/ CommitNote(r)
  BY <1>5 DEF CommitUpdate, CommitAdd, CommitRemove, CommitNote
<1> QED BY <1>1, <1>2, <1>3, <1>4, <1>5 DEF Handle
-----------------------------------------------------------------------------
\* The links a request adds are rows of known alerts, one for each of them.
LEMMA NewLinksAre ==
  ASSUME NEW r \in Requests, AskInv(r)
  PROVE  /\ NewLinks(r) \subseteq Links /\ NewAlerts(r) \subseteq Alerts
         /\ \A k, l \in NewLinks(r) : k.alert = l.alert => k = l
         /\ \A a \in Alerts : a \in NewAlerts(r) <=> \E l \in NewLinks(r) : l.alert = a
<1>1. NewAlerts(r) \subseteq Alerts
  BY DEF NewAlerts, AskInv
<1>2. \A a : Link(a, r).alert = a
  BY DEF Link
<1>3. \A l \in NewLinks(r) : \E a \in NewAlerts(r) : l = Link(a, r)
  BY DEF NewLinks
<1>4. \A a \in NewAlerts(r) : Link(a, r) \in NewLinks(r)
  BY DEF NewLinks
<1>5. \A a \in Alerts : Link(a, r) \in Links
  BY DEF Link, Links
<1> QED BY <1>1, <1>2, <1>3, <1>4, <1>5

FirstLinks(r) == {Link(a, r) : a \in ask[r].alerts}

\* So are those of a case it creates.
LEMMA FirstLinksAre ==
  ASSUME NEW r \in Requests, AskInv(r)
  PROVE  /\ FirstLinks(r) \subseteq Links
         /\ \A k, l \in FirstLinks(r) : k.alert = l.alert => k = l
         /\ \A a \in Alerts : a \in ask[r].alerts <=> \E l \in FirstLinks(r) : l.alert = a
<1>1. ask[r].alerts \subseteq Alerts
  BY DEF AskInv
<1>2. \A a : Link(a, r).alert = a
  BY DEF Link
<1>3. \A l \in FirstLinks(r) : \E a \in ask[r].alerts : l = Link(a, r)
  BY DEF FirstLinks
<1>4. \A a \in ask[r].alerts : Link(a, r) \in FirstLinks(r)
  BY DEF FirstLinks
<1>5. \A a \in Alerts : Link(a, r) \in Links
  BY DEF Link, Links
<1> QED BY <1>1, <1>2, <1>3, <1>4, <1>5

AddedEntry(r) == Entry("alerts_added", "", NewAlerts(r))
RemovedEntry(r) == Entry("alert_removed", "", ask[r].alerts)

\* The entries that handlers and clients append.
LEMMA EntriesAre ==
  ASSUME NEW r \in Requests, AskInv(r)
  PROVE  /\ AddedEntry(r) \in Entries /\ AddedEntry(r).own /\ AddedEntry(r).kind = "alerts_added"
         /\ AddedEntry(r).alerts = NewAlerts(r)
         /\ RemovedEntry(r) \in Entries /\ RemovedEntry(r).own
         /\ RemovedEntry(r).kind = "alert_removed" /\ RemovedEntry(r).alerts = ask[r].alerts
         /\ Posts \subseteq Entries /\ \A e \in Posts : ~e.own
<1>1. /\ "alerts_added" \in EntryKinds /\ "alert_removed" \in EntryKinds /\ "" \in Told
      /\ NewAlerts(r) \in SUBSET Alerts /\ ask[r].alerts \in SUBSET Alerts
  BY NewLinksAre DEF EntryKinds, Told, AskInv
<1>2. Posts \subseteq Entries /\ \A e \in Posts : ~e.own
  BY PostAssumption DEF Entries, EntryKinds, Told
<1>3. /\ AddedEntry(r) \in Entries /\ AddedEntry(r).own /\ AddedEntry(r).kind = "alerts_added"
      /\ AddedEntry(r).alerts = NewAlerts(r)
  BY <1>1 DEF AddedEntry, Entry, Entries
<1>4. /\ RemovedEntry(r) \in Entries /\ RemovedEntry(r).own
      /\ RemovedEntry(r).kind = "alert_removed" /\ RemovedEntry(r).alerts = ask[r].alerts
  BY <1>1 DEF RemovedEntry, Entry, Entries
<1> QED BY <1>2, <1>3, <1>4

\* A case stays, and keeps its number.
LEMMA CasesStay ==
  ASSUME Shapes, [Next]_vars
  PROVE  /\ \A c \in CaseIds : Exists(c) => Exists(c)' /\ cases'[c].number = cases[c].number
         /\ \A c \in CaseIds : Exists(c)' <=> cases'[c].status # "none"
         /\ cases' = [c \in CaseIds |-> cases'[c]]
<1> USE DEF Shapes
<1>1. CASE UNCHANGED cases
  BY <1>1 DEF Exists
<1>2. ASSUME NEW r \in Requests, CommitCreate(r),
             cases' = [cases EXCEPT ![r] = [number |-> read[r].number,
                                            status |-> ask[r].patch.status,
                                            priority |-> ask[r].patch.priority,
                                            closedAt |-> FALSE]]
      PROVE  /\ \A c \in CaseIds : Exists(c) => Exists(c)' /\ cases'[c].number = cases[c].number
             /\ \A c \in CaseIds : Exists(c)' <=> cases'[c].status # "none"
             /\ cases' = [c \in CaseIds |-> cases'[c]]
  <2>1. ~Exists(r) /\ r \in CaseIds /\ ask[r].patch.status # "none"
    BY <1>2 DEF CommitCreate, AskInv, CaseIds
  <2>2. cases'[r].status = ask[r].patch.status /\ \A c \in CaseIds : c # r => cases'[c] = cases[c]
    BY <1>2, <2>1
  <2>3. NoCase.status = "none"
    BY DEF NoCase
  <2> QED BY <1>2, <2>1, <2>2, <2>3 DEF Exists
<1>3. ASSUME NEW r \in Requests, CommitUpdate(r)
      PROVE  /\ \A c \in CaseIds : Exists(c) => Exists(c)' /\ cases'[c].number = cases[c].number
             /\ \A c \in CaseIds : Exists(c)' <=> cases'[c].status # "none"
             /\ cases' = [c \in CaseIds |-> cases'[c]]
  <2> DEFINE c == ask[r].case
             p == ask[r].patch
             was == read[r].row
  <2>1. c \in CaseIds /\ Exists(c) /\ (p.status = None \/ p.status # "none")
    BY <1>3 DEF CommitUpdate, AskInv
  <2>2. /\ cases'[c].number = cases[c].number
        /\ cases'[c].status = Set(p.status, was.status, cases[c].status)
        /\ \A d \in CaseIds : d # c => cases'[d] = cases[d]
        /\ cases' = [d \in CaseIds |-> cases'[d]]
    BY <1>3, <2>1 DEF CommitUpdate
  <2>3. cases'[c].status # "none"
    BY <2>1, <2>2 DEF Set
  <2>4. NoCase.status = "none"
    BY DEF NoCase
  <2> QED BY <2>1, <2>2, <2>3, <2>4 DEF Exists
<1>4. UNCHANGED cases \/ \E r \in Requests : CommitCreate(r) \/ CommitUpdate(r)
  BY DEF Next, Handle, vars, store, Arrive, TakeNumber, Read, CommitAdd, CommitRemove, CommitNote,
         Crash
<1> QED BY <1>1, <1>2, <1>3, <1>4 DEF CommitCreate

\* What the timeline of a case is followed by.
LEMMA TimelinesStep ==
  ASSUME Shapes, [Next]_vars
  PROVE  timeline' \in [CaseIds -> Seq(Entries)] /\ links' \in [CaseIds -> SUBSET Links]
<1> USE DEF Shapes
<1>1. CASE UNCHANGED <<timeline, links>>
  BY <1>1
<1>2. ASSUME NEW r \in Requests, CommitCreate(r)
      PROVE  timeline' \in [CaseIds -> Seq(Entries)] /\ links' \in [CaseIds -> SUBSET Links]
  BY <1>2, FirstLinksAre, CreationIs DEF CommitCreate, FirstLinks, Creation
<1>3. ASSUME NEW r \in Requests, CommitUpdate(r)
      PROVE  timeline' \in [CaseIds -> Seq(Entries)] /\ links' \in [CaseIds -> SUBSET Links]
  <2>1. ask[r].case \in CaseIds /\ timeline[ask[r].case] \o UpdateEntries(r) \in Seq(Entries)
    <3>1. AskInv(r) /\ ask[r].case \in CaseIds
      BY <1>3 DEF CommitUpdate, AskInv
    <3>2. timeline[ask[r].case] \in Seq(Entries)
      BY <3>1
    <3> QED BY <3>1, <3>2, UpdateAppends
  <2> QED BY <1>3, <2>1 DEF CommitUpdate
<1>4. ASSUME NEW r \in Requests, CommitAdd(r)
      PROVE  timeline' \in [CaseIds -> Seq(Entries)] /\ links' \in [CaseIds -> SUBSET Links]
  <2>1. NewLinks(r) \subseteq Links
    BY NewLinksAre
  <2>2. ask[r].case \in CaseIds /\ Append(timeline[ask[r].case], AddedEntry(r)) \in Seq(Entries)
    BY <1>4, EntriesAre, AppendProperties DEF CommitAdd, AskInv
  <2>3. CASE UNCHANGED <<timeline, links>>
    BY <2>3
  <2>4. CASE timeline' = [timeline EXCEPT ![ask[r].case] = Append(@, AddedEntry(r))]
             /\ links' = [links EXCEPT ![ask[r].case] = @ \cup NewLinks(r)]
    BY <2>1, <2>2, <2>4
  <2>5. CASE timeline' = [timeline EXCEPT ![ask[r].case] = @]
             /\ links' = [links EXCEPT ![ask[r].case] = @ \cup NewLinks(r)]
    BY <2>1, <2>2, <2>5
  <2> QED BY <1>4, <2>3, <2>4, <2>5 DEF CommitAdd, AddedEntry
<1>5. ASSUME NEW r \in Requests, CommitRemove(r)
      PROVE  timeline' \in [CaseIds -> Seq(Entries)] /\ links' \in [CaseIds -> SUBSET Links]
  <2>1. timeline' = [timeline EXCEPT ![ask[r].case] = Append(@, RemovedEntry(r))]
    BY <1>5 DEF CommitRemove, RemovedEntry
  <2>2. AskInv(r) /\ ask[r].case \in CaseIds
    BY <1>5 DEF CommitRemove, AskInv
  <2>3. RemovedEntry(r) \in Entries
    BY <2>2, EntriesAre
  <2>4. Append(timeline[ask[r].case], RemovedEntry(r)) \in Seq(Entries)
    BY <2>2, <2>3, AppendProperties
  <2> QED BY <1>5, <2>1, <2>2, <2>4 DEF CommitRemove, Without
<1>6. ASSUME NEW r \in Requests, CommitNote(r)
      PROVE  timeline' \in [CaseIds -> Seq(Entries)] /\ links' \in [CaseIds -> SUBSET Links]
  <2>1. AskInv(r) /\ ask[r].case \in CaseIds /\ links' = links
    BY <1>6 DEF CommitNote, AskInv
  <2>2. PICK e \in Posts : timeline' = [timeline EXCEPT ![ask[r].case] = Append(@, e)]
    BY <1>6 DEF CommitNote
  <2>3. e \in Entries
    BY <2>1, EntriesAre
  <2>4. Append(timeline[ask[r].case], e) \in Seq(Entries)
    BY <2>1, <2>3, AppendProperties
  <2> QED BY <2>1, <2>2, <2>4
<1>7. \/ UNCHANGED <<timeline, links>>
      \/ \E r \in Requests : \/ CommitCreate(r) \/ CommitUpdate(r) \/ CommitAdd(r)
                             \/ CommitRemove(r) \/ CommitNote(r)
  BY DEF Next, Handle, vars, store, Arrive, TakeNumber, Read, Crash
<1> QED BY <1>1, <1>2, <1>3, <1>4, <1>5, <1>6, <1>7

\* What a request asks for and reads stays well formed.
RequestInv(r) ==
  /\ AskInv(r) /\ read[r].links \subseteq Links
  /\ pc[r] \in {"idle", "number", "insert"} => ~Exists(r)

\* A request that is over asks for nothing.
LEMMA OverIs ==
  ASSUME NEW r \in Requests, pc'[r] \in {"done", "collided"}, ask'[r] = NoAsk, read'[r] = Nothing
  PROVE  RequestInv(r)'
BY DEF RequestInv, AskInv, NoAsk, Nothing

\* A request asks for what there is, and reads links that are there.
LEMMA RequestMoves ==
  ASSUME Shapes, [Next]_vars, NEW r \in Requests, Arrive(r) \/ Handle(r)
  PROVE  RequestInv(r)'
<1> USE DEF Shapes
<1>0. RequestInv(r) /\ r \in CaseIds
  BY DEF RequestInv, CaseIds
<1>1. \A c \in CaseIds : Exists(c) => Exists(c)'
  BY CasesStay
<1>2. CASE Arrive(r)
  <2>1. UNCHANGED cases /\ pc[r] = "idle" /\ ~Exists(r)
    BY <1>0, <1>2 DEF Arrive, store, RequestInv
  <2>2. CASE End({r})
    BY <2>2, EndIs, OverIs
  <2>3. ASSUME pc'[r] = "number", read' = read, ask'[r].alerts \subseteq Alerts,
               ask'[r].patch \in Patches, ask'[r].patch.status # None, ask'[r].op # "remove"
        PROVE  RequestInv(r)'
    BY <1>0, <2>1, <2>3, PatchAssumption DEF RequestInv, AskInv, Exists
  <2>4. ASSUME pc'[r] = "read", read' = read, ask'[r].alerts \subseteq Alerts,
               ask'[r].patch \in Patches \/ ask'[r].patch = NoAsk.patch,
               NEW c \in CaseIds, ask'[r].case = c, Exists(c),
               ask'[r].op = "remove" => \A a, b \in ask'[r].alerts : a = b
        PROVE  RequestInv(r)'
    <3>1. Exists(c)'
      BY <2>1, <2>4 DEF Exists
    <3>2. NoAsk.patch = [status |-> None, priority |-> None]
      BY DEF NoAsk
    <3>3. ask'[r].patch \in [status : {"open", "in_progress", "closed", None},
                             priority : {"low", "high", None}]
      BY <2>4, <3>2, PatchAssumption
    <3> QED BY <1>0, <2>4, <3>1, <3>3 DEF RequestInv, AskInv
  <2>5. CASE \E S \in SUBSET (Alerts \cup {Missing}), p \in Patches :
               /\ Missing \notin S /\ p.status # None /\ p.priority # None
               /\ ask' = [ask EXCEPT ![r] = [op |-> "create", case |-> r, patch |-> p, alerts |-> S]]
               /\ pc' = [pc EXCEPT ![r] = "number"]
               /\ UNCHANGED read
    BY <2>3, <2>5
  <2>6. ASSUME NEW c \in CaseIds, Exists(c), pc' = [pc EXCEPT ![r] = "read"], UNCHANGED read,
               \/ \E p \in Patches : ask' = [ask EXCEPT ![r] = [op |-> "update", case |-> c,
                                                               patch |-> p, alerts |-> {}]]
               \/ \E S \in (SUBSET Alerts) \ {{}} :
                    ask' = [ask EXCEPT ![r] = [NoAsk EXCEPT !.op = "add", !.case = c, !.alerts = S]]
               \/ \E a \in Alerts :
                    ask' = [ask EXCEPT ![r] = [NoAsk EXCEPT !.op = "remove", !.case = c, !.alerts = {a}]]
               \/ ask' = [ask EXCEPT ![r] = [NoAsk EXCEPT !.op = "note", !.case = c]]
        PROVE  RequestInv(r)'
    <3>1. /\ ask'[r].case = c /\ ask'[r].alerts \subseteq Alerts
          /\ ask'[r].patch \in Patches \/ ask'[r].patch = NoAsk.patch
          /\ ask'[r].op = "remove" => \A a, b \in ask'[r].alerts : a = b
      <4>0. ask = [q \in Requests |-> ask[q]]
        OBVIOUS
      <4>1. NoAsk.alerts = {} /\ NoAsk = [op |-> NoAsk.op, case |-> NoAsk.case,
                                          patch |-> NoAsk.patch, alerts |-> NoAsk.alerts]
        BY DEF NoAsk
      <4>2. CASE \E p \in Patches : ask'[r] = [op |-> "update", case |-> c,
                                               patch |-> p, alerts |-> {}]
        BY <4>2
      <4>3. CASE \E S \in (SUBSET Alerts) \ {{}} :
                   ask'[r] = [NoAsk EXCEPT !.op = "add", !.case = c, !.alerts = S]
        BY <4>1, <4>3
      <4>4. CASE \E a \in Alerts :
                   ask'[r] = [NoAsk EXCEPT !.op = "remove", !.case = c, !.alerts = {a}]
        BY <4>1, <4>4
      <4>5. CASE ask'[r] = [NoAsk EXCEPT !.op = "note", !.case = c]
        BY <4>1, <4>5
      <4> QED BY <2>6, <4>0, <4>2, <4>3, <4>4, <4>5
    <3>2. pc'[r] = "read" /\ read' = read
      BY <2>6
    <3> QED BY <2>4, <2>6, <3>1, <3>2
  <2> QED BY <1>2, <2>2, <2>5, <2>6 DEF Arrive
<1>3. CASE TakeNumber(r)
  BY <1>0, <1>3 DEF TakeNumber, store, RequestInv, AskInv, Exists
<1>4. CASE CommitCreate(r)
  BY <1>4, OverIs DEF CommitCreate
<1>5. CASE Read(r)
  <2>1. ASSUME End({r}) PROVE RequestInv(r)'
    BY <2>1, EndIs, OverIs
  <2>2. ASSUME ~End({r}) PROVE RequestInv(r)'
    <3>0. pc[r] = "read" /\ links[ask[r].case] \subseteq Links
      BY <1>5 DEF Read, AskInv
    <3>1. /\ pc[r] = "read" /\ pc'[r] = "write" /\ ask' = ask /\ cases' = cases
          /\ read'[r].links = {l \in links[ask[r].case] : l.alert \in ask[r].alerts}
          /\ links[ask[r].case] \subseteq Links
      BY <1>5, <2>2, <3>0 DEF Read, store
    <3> QED BY <1>0, <1>1, <3>1 DEF RequestInv, AskInv
  <2> QED BY <2>1, <2>2
<1>6. CASE CommitUpdate(r) \/ CommitAdd(r) \/ CommitRemove(r) \/ CommitNote(r)
  <2>1. End({r})
    BY <1>6 DEF CommitUpdate, CommitAdd, CommitRemove, CommitNote
  <2> QED BY <2>1, EndIs, OverIs
<1> QED BY <1>2, <1>3, <1>4, <1>5, <1>6 DEF Handle

\* So does every other request.
LEMMA RequestStays ==
  ASSUME Shapes, [Next]_vars, NEW r \in Requests,
         pc'[r] = pc[r] /\ ask'[r] = ask[r] /\ read'[r] = read[r],
         Exists(r)' => Exists(r)
  PROVE  RequestInv(r)'
<1>1. \A c \in CaseIds : Exists(c) => Exists(c)'
  BY CasesStay
<1>2. RequestInv(r)
  BY DEF RequestInv, Shapes
<1> QED BY <1>1, <1>2 DEF RequestInv, AskInv

\* Only the request that creates a case makes it exist.
LEMMA OthersCreate ==
  ASSUME Shapes, NEW r \in Requests, Arrive(r) \/ Handle(r), NEW q \in Requests, q # r
  PROVE  Exists(q)' => Exists(q)
<1> USE DEF Shapes
<1>1. CASE UNCHANGED cases
  BY <1>1 DEF Exists
<1>2. CASE CommitCreate(r)
  BY <1>2 DEF CommitCreate, Exists, CaseIds
<1>3. CASE CommitUpdate(r)
  BY <1>3 DEF CommitUpdate, Exists, CaseIds, AskInv
<1> QED BY <1>1, <1>2, <1>3 DEF Handle, store, Arrive, TakeNumber, Read, CommitAdd, CommitRemove,
                                CommitNote

\* Every step keeps the shapes.
LEMMA ShapesStep == ASSUME Shapes, [Next]_vars PROVE Shapes'
<1>1. cases' = [c \in CaseIds |-> cases'[c]] /\ \A c \in CaseIds : Exists(c)' <=> cases'[c].status # "none"
  BY CasesStay
<1>2. timeline' \in [CaseIds -> Seq(Entries)] /\ links' \in [CaseIds -> SUBSET Links]
  BY TimelinesStep
<1>3. /\ created' = [c \in CaseIds |-> created'[c]] /\ raced' = [c \in CaseIds |-> raced'[c]]
  BY DEF Shapes, Next, Handle, vars, store, Arrive, TakeNumber, Read, CommitCreate, CommitUpdate,
         CommitAdd, CommitRemove, CommitNote, Crash
<1>4. pc' = [r \in Requests |-> pc'[r]] /\ ask' = [r \in Requests |-> ask'[r]]
      /\ read' = [r \in Requests |-> read'[r]]
  BY DEF Shapes, Next, Handle, vars, End, Arrive, TakeNumber, Read, CommitCreate, CommitUpdate,
         CommitAdd, CommitRemove, CommitNote, Crash
<1>5. ASSUME NEW q \in Requests PROVE RequestInv(q)'
  <2>1. CASE UNCHANGED vars
    BY <2>1, RequestStays DEF vars, store, Exists
  <2>2. ASSUME NEW r \in Requests, Arrive(r) \/ Handle(r) PROVE RequestInv(q)'
    <3>1. CASE q = r
      BY <2>2, <3>1, RequestMoves
    <3>2. CASE q # r
      BY <2>2, <3>2, HandlersAlone, OthersCreate, RequestStays DEF Alone
    <3> QED BY <3>1, <3>2
  <2>3. CASE Crash
    <3>1. CASE pc[q] # "idle"
      BY <2>3, <3>1, EndIs, OverIs DEF Crash
    <3>2. CASE pc[q] = "idle"
      BY <2>3, <3>2, EndIs, RequestStays DEF Crash, store, Exists
    <3> QED BY <3>1, <3>2
  <2> QED BY <2>1, <2>2, <2>3 DEF Next
<1> QED BY <1>1, <1>2, <1>3, <1>4, <1>5 DEF Shapes, RequestInv
-----------------------------------------------------------------------------
\* What a step does not write is kept.
LEMMA CaseKept ==
  ASSUME NEW c \in CaseIds, CaseInv(c), links'[c] = links[c], timeline'[c] = timeline[c],
         created'[c] = created[c], raced'[c] = raced[c]
  PROVE  CaseInv(c)'
BY DEF CaseInv, HasLink, SaidIn

\* So are the links of a case when an entry is appended that names no alert as a handler.
LEMMA CaseTold ==
  ASSUME Shapes, NEW c \in CaseIds, CaseInv(c), links'[c] = links[c], created'[c] = created[c],
         raced'[c] = raced[c], NEW s \in Seq(Entries),
         NEW e \in Entries, ~e.own \/ e.kind \notin Linking \/ e.alerts = {},
         \A a \in Alerts : SaidIn(s, a, created[c].alerts)
                             <=> SaidIn(timeline[c], a, created[c].alerts),
         timeline'[c] = Append(s, e)
  PROVE  CaseInv(c)'
<1>1. \A a : e \notin Naming(a)
  BY DEF Naming
<1>2. \A a \in Alerts : SaidIn(timeline'[c], a, created[c].alerts)
                         <=> SaidIn(timeline[c], a, created[c].alerts)
  BY <1>1, SaidInAppend
<1> QED BY <1>2 DEF CaseInv, HasLink

\* A case is created with the links its audit row names.
LEMMA CreateLinks ==
  ASSUME Shapes, LinksInv, NEW r \in Requests, CommitCreate(r), NEW c \in CaseIds
  PROVE  CaseInv(c)'
<1>1. CASE c # r \/ ~(read[r].number \notin Numbers)
  <2>1. /\ links'[c] = links[c] /\ timeline'[c] = timeline[c]
        /\ created'[c] = created[c] /\ raced'[c] = raced[c]
    BY <1>1 DEF CommitCreate, Shapes
  <2> QED BY <2>1, CaseKept DEF LinksInv
<1>2. CASE c = r /\ read[r].number \notin Numbers
  <2>1. /\ links'[c] = FirstLinks(r) /\ timeline'[c] = <<Creation>>
        /\ created'[c].alerts = ask[r].alerts
    BY <1>2 DEF CommitCreate, Shapes, FirstLinks, Creation
  <2>2. \A a \in Alerts : SaidIn(timeline'[c], a, created'[c].alerts) <=> a \in ask[r].alerts
    BY <2>1, CreationIs
  <2>3. /\ \A a \in Alerts : a \in ask[r].alerts <=> HasLink(c, a)'
        /\ \A k, l \in links'[c] : k.alert = l.alert => k = l
    BY <2>1, FirstLinksAre DEF HasLink, Shapes
  <2> QED BY <2>2, <2>3 DEF CaseInv
<1> QED BY <1>1, <1>2

\* An update names no alert.
LEMMA UpdateLinks ==
  ASSUME Shapes, LinksInv, NEW r \in Requests, CommitUpdate(r), NEW c \in CaseIds
  PROVE  CaseInv(c)'
<1>0. /\ links' = links /\ created' = created /\ raced' = raced /\ CaseInv(c) /\ AskInv(r)
      /\ timeline[c] \in Seq(Entries)
  BY DEF CommitUpdate, LinksInv, Shapes
<1>1. CASE c # ask[r].case
  BY <1>0, <1>1, CaseKept DEF CommitUpdate, Shapes
<1>2. CASE c = ask[r].case
  <2> DEFINE s == timeline[c]
             u == AfterStatus(s, r)
             e == StatusEntry(r)
             f == PriorityEntry(r)
  <2>1. /\ e \in Entries /\ f \in Entries /\ e.alerts = {} /\ f.alerts = {}
        /\ s \o UpdateEntries(r) = AfterUpdate(s, r) /\ u \in Seq(Entries)
    BY <1>0, UpdateAppends DEF StatusEntry, PriorityEntry, Entry
  <2>2. timeline'[c] = IF Changes(r, "priority") THEN Append(u, f) ELSE u
    BY <1>2, <2>1 DEF CommitUpdate, Shapes, AfterUpdate
  <2>3. u = IF Changes(r, "status") THEN Append(s, e) ELSE s
    BY DEF AfterStatus
  <2> HIDE DEF u, e, f
  <2>4. \A a : e \notin Naming(a) /\ f \notin Naming(a)
    BY <2>1 DEF Naming
  <2>5. \A a, A : SaidIn(u, a, A) <=> SaidIn(s, a, A)
    BY <1>0, <2>1, <2>3, <2>4, SaidInAppend
  <2>6. CASE Changes(r, "priority")
    BY <1>0, <2>1, <2>2, <2>5, <2>6, CaseTold
  <2>7. CASE ~Changes(r, "priority") /\ Changes(r, "status")
    BY <1>0, <2>1, <2>2, <2>3, <2>7, CaseTold
  <2>8. CASE ~Changes(r, "priority") /\ ~Changes(r, "status")
    BY <1>0, <2>2, <2>3, <2>8, CaseKept
  <2> QED BY <2>6, <2>7, <2>8
<1> QED BY <1>1, <1>2

\* Alerts are linked with the entry that names them, when none of them is.
LEMMA AddLinks ==
  ASSUME Shapes, LinksInv, NEW r \in Requests, CommitAdd(r), NEW c \in CaseIds
  PROVE  CaseInv(c)'
<1> DEFINE new == NewLinks(r)
           e == AddedEntry(r)
           s == timeline[c]
<1>0. /\ created' = created /\ raced' = raced /\ CaseInv(c) /\ AskInv(r) /\ s \in Seq(Entries)
  BY DEF CommitAdd, LinksInv, Shapes
<1>1. CASE c # ask[r].case \/ UNCHANGED <<links, timeline>>
  BY <1>0, <1>1, CaseKept DEF CommitAdd, Shapes
<1>2. CASE c = ask[r].case /\ ~UNCHANGED <<links, timeline>>
  <2>1. /\ \A k, l \in new : k.alert = l.alert => k = l
        /\ \A a \in Alerts : a \in NewAlerts(r) <=> \E l \in new : l.alert = a
        /\ NewAlerts(r) \subseteq Alerts
        /\ e \in Entries /\ e.own /\ e.kind = "alerts_added" /\ e.alerts = NewAlerts(r)
    BY <1>0, NewLinksAre, EntriesAre
  <2>2. /\ links'[c] = links[c] \cup new
        /\ timeline'[c] = IF NewAlerts(r) = {} THEN s ELSE Append(s, e)
        /\ \A l \in links[c] : l.alert \notin NewAlerts(r)
    BY <1>2 DEF CommitAdd, Shapes, AlreadyLinked, AddedEntry
  <2>3. \A k \in links[c], l \in new : k.alert # l.alert
    BY <2>2 DEF NewLinks, Link
  <2> HIDE DEF new, e
  <2>4. \A k, l \in links'[c] : k.alert = l.alert => k = l
    BY <1>0, <2>1, <2>2, <2>3 DEF CaseInv
  <2>5. \A a \in Alerts : HasLink(c, a)' <=> HasLink(c, a) \/ a \in NewAlerts(r)
    BY <2>1, <2>2 DEF HasLink
  <2>6. ASSUME NEW a \in Alerts, NEW A
        PROVE  SaidIn(timeline'[c], a, A) <=> SaidIn(s, a, A) \/ a \in NewAlerts(r)
    <3>1. CASE a \in NewAlerts(r)
      <4>1. e \in Naming(a) /\ timeline'[c] = Append(s, e)
        BY <2>1, <2>2, <3>1 DEF Naming, Linking
      <4> QED BY <1>0, <2>1, <3>1, <4>1, SaidInAppend
    <3>2. CASE a \notin NewAlerts(r)
      <4>1. e \notin Naming(a) /\ timeline'[c] \in {s, Append(s, e)}
        BY <2>1, <2>2, <3>2 DEF Naming
      <4>2. SaidIn(Append(s, e), a, A) <=> SaidIn(s, a, A)
        BY <1>0, <2>1, <4>1, SaidInAppend
      <4> QED BY <3>2, <4>1, <4>2
    <3> QED BY <3>1, <3>2
  <2>7. ASSUME NEW a \in Alerts
        PROVE  /\ SaidIn(s, a, created[c].alerts) => HasLink(c, a)
               /\ HasLink(c, a) => SaidIn(s, a, created[c].alerts) \/ a \in raced[c]
               /\ SaidIn(timeline'[c], a, created[c].alerts)
                  <=> SaidIn(s, a, created[c].alerts) \/ a \in NewAlerts(r)
    BY <1>0, <2>6 DEF CaseInv
  <2> HIDE DEF s
  <2> QED BY <1>0, <2>4, <2>5, <2>7 DEF CaseInv
<1> QED BY <1>1, <1>2

\* An alert is unlinked with the entry that names it, unless its link has gone: then
\* it is one that was raced for.
LEMMA RemoveLinks ==
  ASSUME Shapes, LinksInv, NEW r \in Requests, CommitRemove(r), NEW c \in CaseIds
  PROVE  CaseInv(c)'
<1> DEFINE old == read[r].links
           A == ask[r].alerts
           e == RemovedEntry(r)
           s == timeline[c]
<1>0. /\ created' = created /\ CaseInv(c) /\ AskInv(r) /\ s \in Seq(Entries)
      /\ pc[r] = "write" /\ ask[r].op = "remove"
  BY DEF CommitRemove, LinksInv, Shapes
<1>1. CASE c # ask[r].case
  <2>1. links'[c] = links[c] /\ timeline'[c] = timeline[c] /\ raced'[c] = raced[c]
    BY <1>1 DEF CommitRemove, Shapes
  <2> QED BY <1>0, <2>1, CaseKept
<1>2. CASE c = ask[r].case
  <2>1. /\ \A l \in old : l.alert \in A /\ (\A a, b \in A : a = b) /\ A \subseteq Alerts
        /\ e \in Entries /\ e.own /\ e.kind = "alert_removed" /\ e.alerts = A
    BY <1>0, EntriesAre DEF AskInv
  <2>2. /\ links'[c] = links[c] \ old /\ timeline'[c] = Append(s, e)
        /\ raced'[c] = IF old \cap links[c] = {} THEN raced[c] \cup A ELSE raced[c]
    BY <1>2 DEF CommitRemove, Shapes, Without, RemovedEntry
  <2>3. /\ \A k, l \in links[c] : k.alert = l.alert => k = l
    BY <1>0 DEF CaseInv
  <2> HIDE DEF old, A, e
  <2>4. ASSUME NEW a \in Alerts, a \notin A
        PROVE  HasLink(c, a)' <=> HasLink(c, a)
    BY <2>1, <2>2, <2>4 DEF HasLink
  <2>5. ASSUME NEW a \in A, HasLink(c, a)' PROVE a \in raced'[c]
    <3>1. PICK l \in links[c] : l \notin old /\ l.alert = a
      BY <2>2, <2>5 DEF HasLink
    <3>2. \A k \in old \cap links[c] : k.alert = a
      BY <2>1
    <3>3. old \cap links[c] = {}
      BY <2>3, <3>1, <3>2
    <3> QED BY <2>2, <3>3
  <2>6. ASSUME NEW a \in A, NEW B PROVE ~SaidIn(timeline'[c], a, B)
    <3>1. e \in Naming(a)
      BY <2>1 DEF Naming, Linking
    <3>2. SaidIn(timeline'[c], a, B) <=> e.kind = "alerts_added"
      BY <1>0, <2>1, <2>2, <3>1, SaidInAppend
    <3> QED BY <2>1, <3>2
  <2>7. ASSUME NEW a \in Alerts, a \notin A, NEW B
        PROVE  SaidIn(timeline'[c], a, B) <=> SaidIn(s, a, B)
    <3>1. e \notin Naming(a)
      BY <2>1, <2>7 DEF Naming
    <3> QED BY <1>0, <2>1, <2>2, <3>1, SaidInAppend
  <2>8. raced[c] \subseteq raced'[c]
    BY <2>2
  <2>9. ASSUME NEW a \in Alerts
        PROVE  /\ SaidIn(timeline'[c], a, created[c].alerts) => HasLink(c, a)'
               /\ HasLink(c, a)' =>
                    SaidIn(timeline'[c], a, created[c].alerts) \/ a \in raced'[c]
    <3>1. CASE a \in A
      BY <2>5, <2>6, <3>1
    <3>2. CASE a \notin A
      <4>1. /\ SaidIn(s, a, created[c].alerts) => HasLink(c, a)
            /\ HasLink(c, a) => SaidIn(s, a, created[c].alerts) \/ a \in raced[c]
        BY <1>0 DEF CaseInv
      <4>2. SaidIn(timeline'[c], a, created[c].alerts) <=> SaidIn(s, a, created[c].alerts)
        BY <2>7, <3>2
      <4> QED BY <2>4, <2>8, <3>2, <4>1, <4>2
    <3> QED BY <3>1, <3>2
  <2>10. \A k, l \in links'[c] : k.alert = l.alert => k = l
    BY <2>2, <2>3
  <2> QED BY <1>0, <2>9, <2>10 DEF CaseInv
<1> QED BY <1>1, <1>2

\* A note is no entry of a handler.
LEMMA NoteLinks ==
  ASSUME Shapes, LinksInv, NEW r \in Requests, CommitNote(r), NEW c \in CaseIds
  PROVE  CaseInv(c)'
<1>0. /\ links' = links /\ created' = created /\ raced' = raced /\ CaseInv(c) /\ AskInv(r)
      /\ timeline[c] \in Seq(Entries)
  BY DEF CommitNote, LinksInv, Shapes
<1>1. CASE c # ask[r].case
  BY <1>0, <1>1, CaseKept DEF CommitNote, Shapes
<1>2. CASE c = ask[r].case
  <2>1. PICK e \in Posts : timeline'[c] = Append(timeline[c], e)
    BY <1>2 DEF CommitNote, Shapes
  <2>2. e \in Entries /\ ~e.own
    BY <1>0, EntriesAre
  <2> QED BY <1>0, <2>1, <2>2, CaseTold
<1> QED BY <1>1, <1>2

\* Every step keeps the links of a case those its timeline tells.
LEMMA LinksStep == ASSUME Shapes, LinksInv, [Next]_vars PROVE LinksInv'
<1> SUFFICES ASSUME NEW c \in CaseIds PROVE CaseInv(c)'
  BY DEF LinksInv
<1>1. CASE UNCHANGED <<links, timeline, created, raced>>
  BY <1>1, CaseKept DEF LinksInv
<1>2. \/ UNCHANGED <<links, timeline, created, raced>>
      \/ \E r \in Requests : \/ CommitCreate(r) \/ CommitUpdate(r) \/ CommitAdd(r)
                             \/ CommitRemove(r) \/ CommitNote(r)
  BY DEF Next, Handle, vars, store, Arrive, TakeNumber, Read, Crash
<1> QED BY <1>1, <1>2, CreateLinks, UpdateLinks, AddLinks, RemoveLinks, NoteLinks

\* What the timeline of a case names last is in the place the properties look it up.
LEMMA PlacesAre ==
  ASSUME Shapes, NEW c \in CaseIds
  PROVE  /\ \A kinds : LastOf(c, kinds) = LastIn(timeline[c], Written(kinds))
         /\ \A a : LastNaming(c, Linking, a) = LastIn(timeline[c], Naming(a))
<1>1. \A i \in 1 .. Len(timeline[c]) : timeline[c][i] \in Entries
  <2>1. timeline[c] \in Seq(Entries)
    BY DEF Shapes
  <2> QED BY <2>1
<1>2. ASSUME NEW kinds PROVE LastOf(c, kinds) = LastIn(timeline[c], Written(kinds))
  BY <1>1 DEF LastOf, SelectLastInSeq, LastIn, Places, Written
<1>3. ASSUME NEW a PROVE LastNaming(c, Linking, a) = LastIn(timeline[c], Naming(a))
  BY <1>1 DEF LastNaming, SelectLastInSeq, LastIn, Places, Naming
<1> QED BY <1>2, <1>3

\* An alert is linked once; it is linked when the handlers' entries say so, and only
\* then, unless a request has unlinked it whose link was already gone: however additions
\* and removals overlap, and whatever clients post.
THEOREM LinksAreNamed == Spec => []LinksFollowTimeline
<1>1. Init => Shapes /\ LinksInv
  BY InitInv DEF CasesInv
<1>2. (Shapes /\ LinksInv) /\ [Next]_vars => (Shapes /\ LinksInv)'
  BY ShapesStep, LinksStep
<1>3. Shapes /\ LinksInv => LinksFollowTimeline
  <2> SUFFICES ASSUME Shapes, LinksInv, NEW c \in CaseIds, NEW a \in Alerts
               PROVE  /\ \A k, l \in links[c] : k.alert = l.alert => k = l
                      /\ SaidLinked(c, a) => HasLink(c, a)
                      /\ HasLink(c, a) => SaidLinked(c, a) \/ a \in raced[c]
    BY DEF LinksFollowTimeline, HasLink, LinksInv, CaseInv
  <2>1. SaidLinked(c, a) <=> SaidIn(timeline[c], a, created[c].alerts)
    BY PlacesAre DEF SaidLinked, SaidIn, Linking
  <2> QED BY <2>1 DEF LinksInv, CaseInv
<1> QED BY <1>1, <1>2, <1>3, PTL DEF Spec
-----------------------------------------------------------------------------
Stated(c) ==
  /\ cases[c].status = Said(timeline[c], Statuses, created[c].status)
  /\ cases[c].priority = Said(timeline[c], Priorities, created[c].priority)

\* The state of a case stays what is said with an entry of another kind, or of a client.
LEMMA StateKept ==
  ASSUME Shapes, NEW c \in CaseIds, Stated(c), NEW e \in Entries,
         ~e.own \/ e.kind \in Linking,
         timeline'[c] \in {timeline[c], Append(timeline[c], e)},
         UNCHANGED <<cases, created>>
  PROVE  Stated(c)'
<1>1. e \notin Statuses /\ e \notin Priorities
  BY DEF Statuses, Priorities, Written, Linking
<1>2. timeline[c] \in Seq(Entries)
  BY DEF Shapes
<1>3. /\ \A d : Said(timeline'[c], Statuses, d) = Said(timeline[c], Statuses, d)
      /\ \A d : Said(timeline'[c], Priorities, d) = Said(timeline[c], Priorities, d)
  <2>1. CASE timeline'[c] = timeline[c]
    BY <2>1
  <2>2. CASE timeline'[c] = Append(timeline[c], e)
    BY <1>1, <1>2, <2>2, SaidAppend
  <2> QED BY <2>1, <2>2
<1> QED BY <1>3 DEF Stated

\* A created case has the state its audit row names.
LEMMA CreateState ==
  ASSUME Shapes, NEW r \in Requests, CommitCreate(r), NEW c \in CaseIds, Stated(c)
  PROVE  Stated(c)'
<1>1. CASE c # r \/ ~(read[r].number \notin Numbers)
  <2>1. cases'[c] = cases[c] /\ timeline'[c] = timeline[c] /\ created'[c] = created[c]
    BY <1>1 DEF CommitCreate, Shapes
  <2> QED BY <2>1 DEF Stated, Said
<1>2. CASE c = r /\ read[r].number \notin Numbers
  <2>1. /\ timeline'[c] = <<Creation>>
        /\ cases'[c].status = created'[c].status /\ cases'[c].priority = created'[c].priority
    BY <1>2 DEF CommitCreate, Shapes, Creation
  <2> QED BY <2>1, CreationIs DEF Stated
<1> QED BY <1>1, <1>2

\* An update names the columns it has changed, and changes no other.
LEMMA UpdateState ==
  ASSUME Shapes, NEW r \in Requests, CommitUpdate(r), NEW c \in CaseIds, Stated(c)
  PROVE  Stated(c)'
<1>1. CASE c # ask[r].case
  <2>1. cases'[c] = cases[c] /\ timeline'[c] = timeline[c] /\ created'[c] = created[c]
    BY <1>1 DEF CommitUpdate, Shapes
  <2> QED BY <2>1 DEF Stated, Said
<1>2. CASE c = ask[r].case
  <2> DEFINE s == timeline[c]
             e == StatusEntry(r)
             f == PriorityEntry(r)
             p == ask[r].patch
             was == read[r].row
             u == AfterStatus(s, r)
  <2>1. AskInv(r) /\ s \in Seq(Entries)
    BY DEF Shapes
  <2>2. /\ e \in Entries /\ f \in Entries
        /\ s \o UpdateEntries(r) = AfterUpdate(s, r) /\ u \in Seq(Entries)
    BY <2>1, UpdateAppends
  <2>3. /\ e.kind = "status_change" /\ e.to = p.status /\ e.own = TRUE
        /\ f.kind = "priority_change" /\ f.to = p.priority /\ f.own = TRUE
    BY DEF StatusEntry, PriorityEntry, Entry
  <2>4. /\ timeline'[c] = AfterUpdate(s, r) /\ created' = created
        /\ cases'[c].status = Set(p.status, was.status, cases[c].status)
        /\ cases'[c].priority = Set(p.priority, was.priority, cases[c].priority)
    BY <1>2, <2>2 DEF CommitUpdate, Shapes
  <2>5. Changes(r, "status") <=> ~(p.status = None \/ p.status = was.status)
    BY <2>1 DEF Changes, AskInv
  <2>6. Changes(r, "priority") <=> ~(p.priority = None \/ p.priority = was.priority)
    BY <2>1 DEF Changes, AskInv
  <2>7. /\ Said(s, Statuses, created[c].status) = cases[c].status
        /\ Said(s, Priorities, created[c].priority) = cases[c].priority
    BY DEF Stated
  <2> HIDE DEF s, e, f
  <2>8. e \in Statuses /\ e \notin Priorities /\ f \in Priorities /\ f \notin Statuses
    BY <2>2, <2>3 DEF Statuses, Priorities, Written
  <2>9. /\ Said(u, Statuses, created[c].status) = cases'[c].status
        /\ Said(u, Priorities, created[c].priority) = cases[c].priority
    <3>1. CASE Changes(r, "status")
      <4>1. u = Append(s, e) /\ cases'[c].status = e.to
        BY <2>3, <2>4, <2>5, <3>1 DEF AfterStatus, e, Set
      <4> HIDE DEF u
      <4> QED BY <2>1, <2>2, <2>7, <2>8, <4>1, SaidAppend
    <3>2. CASE ~Changes(r, "status")
      BY <2>4, <2>5, <2>7, <3>2 DEF AfterStatus, Set
    <3> QED BY <3>1, <3>2
  <2> HIDE DEF u
  <2>10. CASE Changes(r, "priority")
    <3>1. timeline'[c] = Append(u, f) /\ cases'[c].priority = f.to
      BY <2>3, <2>4, <2>6, <2>10 DEF AfterUpdate, f, u, Set
    <3> QED BY <2>2, <2>4, <2>8, <2>9, <3>1, SaidAppend DEF Stated
  <2>11. CASE ~Changes(r, "priority")
    <3>1. timeline'[c] = u /\ cases'[c].priority = cases[c].priority
      BY <2>4, <2>6, <2>11 DEF AfterUpdate, u, Set
    <3> QED BY <2>4, <2>9, <3>1 DEF Stated
  <2> QED BY <2>10, <2>11
<1> QED BY <1>1, <1>2

\* Every step keeps the status and the priority of a case those that are named last.
LEMMA StateStep == ASSUME Shapes, StateInv, [Next]_vars PROVE StateInv'
<1> SUFFICES ASSUME NEW c \in CaseIds PROVE Stated(c)'
  BY DEF StateInv, Stated
<1>0. Stated(c) /\ timeline[c] \in Seq(Entries)
  BY DEF Shapes, StateInv, Stated
<1>1. CASE UNCHANGED <<timeline, cases, created>>
  BY <1>0, <1>1 DEF Stated, Said
<1>2. ASSUME NEW r \in Requests, CommitAdd(r) PROVE Stated(c)'
  <2>1. /\ timeline'[c] \in {timeline[c], Append(timeline[c], AddedEntry(r))}
        /\ UNCHANGED <<cases, created>> /\ AskInv(r)
    BY <1>2 DEF CommitAdd, Shapes, AddedEntry
  <2>2. AddedEntry(r) \in Entries /\ AddedEntry(r).kind \in Linking
    BY <2>1, EntriesAre DEF Linking
  <2> QED BY <1>0, <2>1, <2>2, StateKept
<1>3. ASSUME NEW r \in Requests, CommitRemove(r) PROVE Stated(c)'
  <2>1. /\ timeline'[c] \in {timeline[c], Append(timeline[c], RemovedEntry(r))}
        /\ UNCHANGED <<cases, created>> /\ AskInv(r)
    BY <1>3 DEF CommitRemove, Shapes, RemovedEntry
  <2>2. RemovedEntry(r) \in Entries /\ RemovedEntry(r).kind \in Linking
    BY <2>1, EntriesAre DEF Linking
  <2> QED BY <1>0, <2>1, <2>2, StateKept
<1>4. ASSUME NEW r \in Requests, CommitNote(r) PROVE Stated(c)'
  <2>1. PICK e \in Posts : timeline' = [timeline EXCEPT ![ask[r].case] = Append(@, e)]
    BY <1>4 DEF CommitNote
  <2>2. /\ timeline'[c] \in {timeline[c], Append(timeline[c], e)}
        /\ UNCHANGED <<cases, created>> /\ AskInv(r)
    BY <1>4, <2>1 DEF CommitNote, Shapes
  <2>3. e \in Entries /\ ~e.own
    BY <2>2, EntriesAre
  <2> QED BY <1>0, <2>2, <2>3, StateKept
<1>5. \/ UNCHANGED <<timeline, cases, created>>
      \/ \E r \in Requests : \/ CommitCreate(r) \/ CommitUpdate(r) \/ CommitAdd(r)
                             \/ CommitRemove(r) \/ CommitNote(r)
  BY DEF Next, Handle, vars, store, Arrive, TakeNumber, Read, Crash
<1> QED BY <1>0, <1>1, <1>2, <1>3, <1>4, <1>5, CreateState, UpdateState

\* The status and the priority of a case are those the handlers' entries name last, and
\* without one those it was created with, although overlapping updates each wrote
\* columns they had read before, and whatever clients post.
THEOREM StateIsNamed == Spec => []StateFollowsTimeline
<1>1. Init => Shapes /\ StateInv
  BY InitInv DEF CasesInv
<1>2. (Shapes /\ StateInv) /\ [Next]_vars => (Shapes /\ StateInv)'
  BY ShapesStep, StateStep
<1>3. Shapes /\ StateInv => StateFollowsTimeline
  <2> SUFFICES ASSUME Shapes, StateInv, NEW c \in CaseIds
               PROVE  /\ LET i == LastOf(c, {"status_change"}) IN
                           cases[c].status = IF i = 0 THEN created[c].status ELSE timeline[c][i].to
                      /\ LET i == LastOf(c, {"priority_change"}) IN
                           cases[c].priority = IF i = 0 THEN created[c].priority ELSE timeline[c][i].to
    BY DEF StateFollowsTimeline
  <2>1. /\ LastOf(c, {"status_change"}) = LastIn(timeline[c], Statuses)
        /\ LastOf(c, {"priority_change"}) = LastIn(timeline[c], Priorities)
    BY PlacesAre DEF Statuses, Priorities
  <2> QED BY <2>1 DEF StateInv, Said
<1> QED BY <1>1, <1>2, <1>3, PTL DEF Spec
-----------------------------------------------------------------------------
\* A year has no more cases than numbers that are read in order.
Fits == IsFiniteSet(Requests) /\ Cardinality(Requests) <= Widest

\* The numbers are those of the cases that exist.
LEMMA NumbersAre == Numbers = {cases[c].number : c \in Existing}
BY DEF Numbers, Existing

\* While not all cases exist, the last number as text is the last one.
LEMMA LastIsLast ==
  ASSUME Fits, Shapes, NumbersInv, NEW r \in Requests, ~Exists(r)
  PROVE  LastNumber = Cardinality(Existing)
<1> DEFINE n == Cardinality(Existing)
<1>1. n \in Nat /\ Numbers = 1 .. n
  BY FS_CardinalityType DEF NumbersInv
<1>2. n <= Widest /\ Widest \in Nat \ {0}
  <2>1. IsFiniteSet(CaseIds) /\ Cardinality(CaseIds) = Cardinality(Requests) + 1
    <3>1. Old \notin Requests
      BY NameAssumption
    <3> QED BY <3>1, FS_AddElement DEF CaseIds, Fits
  <2>2. Existing \cup {r} \in SUBSET CaseIds /\ r \notin Existing
    BY DEF Existing, CaseIds
  <2>3. Cardinality(Existing \cup {r}) = n + 1
    BY <2>2, FS_AddElement DEF NumbersInv
  <2>4. n + 1 <= Cardinality(Requests) + 1
    BY <2>1, <2>2, <2>3, FS_Subset
  <2>5. Cardinality(Requests) \in Nat
    BY FS_CardinalityType DEF Fits
  <2> QED BY <1>1, <2>4, <2>5, NumberAssumption DEF Fits
<1> HIDE DEF n
<1>3. CASE n = 0
  <2>1. Numbers = {}
    BY <1>1, <1>3
  <2> QED BY <1>3, <2>1 DEF LastNumber, n
<1>4. CASE n # 0
  <2>1. n \in Numbers /\ Numbers \subseteq Nat /\ \A i \in Numbers : i <= n
    BY <1>1, <1>4
  <2>2. Max(Numbers) = n
    BY <2>1, MaxIs
  <2>3. Widest \in Numbers => Widest = n
    BY <1>1, <1>2
  <2>4. Numbers # {}
    BY <2>1
  <2> QED BY <2>2, <2>3, <2>4 DEF LastNumber, n
<1> QED BY <1>3, <1>4

\* A step that creates no case changes neither the cases nor their numbers.
LEMMA NoneCreated ==
  ASSUME Shapes, [Next]_vars, \A r \in Requests : Exists(r)' => Exists(r)
  PROVE  Existing' = Existing /\ Numbers' = Numbers
<1>0. Exists(Old)' => Exists(Old)
  <2> USE DEF Shapes
  <2>1. ASSUME NEW r \in Requests, CommitUpdate(r) PROVE Exists(Old)' => Exists(Old)
    <3>1. ask[r].case \in CaseIds /\ Exists(ask[r].case)
      BY <2>1 DEF CommitUpdate, AskInv
    <3>2. Old = ask[r].case \/ cases'[Old] = cases[Old]
      BY <2>1, <3>1 DEF CommitUpdate, CaseIds
    <3> QED BY <3>1, <3>2 DEF Exists
  <2>2. ASSUME NEW r \in Requests, CommitCreate(r) PROVE Exists(Old)' => Exists(Old)
    <3>1. r # Old /\ Old \in CaseIds
      BY NameAssumption DEF CaseIds
    <3> QED BY <2>2, <3>1 DEF CommitCreate, Exists
  <2>3. UNCHANGED cases \/ \E r \in Requests : CommitCreate(r) \/ CommitUpdate(r)
    BY DEF Next, Handle, vars, store, Arrive, TakeNumber, Read, CommitAdd, CommitRemove, CommitNote,
           Crash
  <2> QED BY <2>1, <2>2, <2>3 DEF Exists
<1>1. \A c \in CaseIds : Exists(c) => Exists(c)' /\ cases'[c].number = cases[c].number
  BY CasesStay
<1>2. \A c \in CaseIds : Exists(c)' <=> Exists(c)
  BY <1>0, <1>1 DEF CaseIds
<1>3. Existing' = Existing
  BY <1>2 DEF Existing
<1>4. \A c \in Existing : cases'[c].number = cases[c].number
  BY <1>1 DEF Existing
<1>5. Numbers' = {cases'[c].number : c \in Existing'}
  BY NumbersAre DEF Numbers, Existing
<1> QED BY <1>3, <1>4, <1>5, NumbersAre

\* Every step keeps the numbers consecutive: the one about to be inserted is the next.
LEMMA NumbersStep == ASSUME Fits, Shapes, NumbersInv, [Next]_vars PROVE NumbersInv'
<1> DEFINE n == Cardinality(Existing)
<1>0. /\ n \in Nat /\ IsFiniteSet(Existing) /\ Numbers = 1 .. n
      /\ \A r \in Requests : /\ pc[r] # "collided"
                             /\ pc[r] = "insert" => lock = r /\ read[r].number = n + 1
  BY FS_CardinalityType DEF NumbersInv
<1> HIDE DEF n
<1>1. ASSUME Existing' = Existing, Numbers' = Numbers,
             \A r \in Requests : /\ pc'[r] # "collided"
                                 /\ pc'[r] = "insert" => lock' = r /\ read'[r].number = n + 1
      PROVE  NumbersInv'
  BY <1>0, <1>1 DEF NumbersInv, n
<1>2. CASE UNCHANGED vars
  <2>1. Existing' = Existing /\ Numbers' = Numbers
    BY <1>2, NoneCreated DEF vars, store, Exists
  <2> QED BY <1>0, <1>1, <1>2, <2>1 DEF vars
<1>3. CASE Crash
  <2>1. Existing' = Existing /\ Numbers' = Numbers
    BY <1>3, NoneCreated DEF Crash, store, Exists
  <2>2. \A r \in Requests : pc'[r] \in {"idle", "done"}
    BY <1>3 DEF Crash, End
  <2> QED BY <1>1, <2>1, <2>2
<1>4. ASSUME NEW r \in Requests, TakeNumber(r) PROVE NumbersInv'
  <2>1. Existing' = Existing /\ Numbers' = Numbers
    BY <1>4, NoneCreated DEF TakeNumber, store, Exists, Next, Handle
  <2>2. LastNumber = n
    BY <1>4, LastIsLast DEF TakeNumber, Shapes, n
  <2>3. \A q \in Requests : pc[q] # "insert"
    BY <1>0, <1>4, NameAssumption DEF TakeNumber, Unlocked
  <2>4. /\ lock' = r /\ read'[r].number = n + 1 /\ pc'[r] = "insert"
        /\ \A q \in Requests : q # r => pc'[q] = pc[q]
    BY <1>4, <2>2 DEF TakeNumber, Shapes
  <2> QED BY <1>0, <1>1, <2>1, <2>3, <2>4
<1>5. ASSUME NEW r \in Requests, CommitCreate(r) PROVE NumbersInv'
  <2>1. read[r].number = n + 1 /\ ~Exists(r) /\ r \in CaseIds /\ pc[r] = "insert"
    BY <1>0, <1>5 DEF CommitCreate, Shapes, CaseIds
  <2>2. read[r].number \notin Numbers
    BY <1>0, <2>1
  <2>3. /\ pc' = [pc EXCEPT ![r] = "done"]
        /\ cases'[r].number = n + 1 /\ cases'[r].status = ask[r].patch.status
        /\ \A c \in CaseIds : c # r => cases'[c] = cases[c]
    BY <1>5, <2>1, <2>2 DEF CommitCreate, Shapes
  <2>4. Exists(r)'
    <3>1. ask[r].patch.status # "none"
      BY <1>5 DEF CommitCreate, Shapes, AskInv
    <3> QED BY <2>3, <3>1 DEF Exists, NoCase
  <2>5. Existing' = Existing \cup {r} /\ r \notin Existing
    BY <2>1, <2>3, <2>4 DEF Existing, Exists
  <2>6. IsFiniteSet(Existing') /\ Cardinality(Existing') = n + 1
    BY <1>0, <2>5, FS_AddElement DEF n
  <2>7. Numbers' = Numbers \cup {n + 1}
    <3>1. Numbers' = {cases'[c].number : c \in Existing'}
      BY DEF Numbers, Existing
    <3>2. \A c \in Existing : c \in CaseIds /\ c # r /\ cases'[c].number = cases[c].number
      BY <2>3, <2>5 DEF Existing
    <3> QED BY <2>3, <2>5, <3>1, <3>2, NumbersAre
  <2>8. Numbers' = 1 .. n + 1
    BY <1>0, <2>7
  <2>9. \A q \in Requests : pc'[q] # "collided" /\ pc'[q] # "insert"
    BY <1>0, <2>1, <2>3 DEF Shapes
  <2> QED BY <2>6, <2>8, <2>9 DEF NumbersInv
<1>6. ASSUME NEW r \in Requests, \/ Arrive(r) \/ Read(r) \/ CommitUpdate(r)
                                 \/ CommitAdd(r) \/ CommitRemove(r) \/ CommitNote(r)
      PROVE  NumbersInv'
  <2>1. \A q \in Requests : Exists(q)' => Exists(q)
    <3>1. CASE UNCHANGED cases
      BY <3>1 DEF Exists
    <3>2. CASE CommitUpdate(r)
      BY <3>2 DEF CommitUpdate, Exists, CaseIds, AskInv, Shapes
    <3> QED BY <1>6, <3>1, <3>2 DEF Arrive, Read, store, CommitAdd, CommitRemove, CommitNote
  <2>2. Existing' = Existing /\ Numbers' = Numbers
    BY <1>6, <2>1, NoneCreated DEF Next, Handle
  <2>3. lock' = lock /\ pc'[r] \notin {"insert", "collided"}
    BY <1>6 DEF Arrive, Read, CommitUpdate, CommitAdd, CommitRemove, CommitNote, End, Shapes
  <2>4. Alone(r)
    BY <1>6, HandlersAlone DEF Handle
  <2> QED BY <1>0, <1>1, <2>2, <2>3, <2>4 DEF Alone
<1> QED BY <1>2, <1>3, <1>4, <1>5, <1>6 DEF Next, Handle

\* While a year has no more cases than there are numbers of four digits, and one, they
\* are numbered 1, 2, ... without a gap, and no creation fails because another one has
\* taken its number, however many overlap or die.
THEOREM NumbersHaveNoGap == ASSUME Fits PROVE Spec => []NumbersAreConsecutive
<1>1. Init => Shapes /\ NumbersInv
  BY InitInv DEF CasesInv
<1>2. (Shapes /\ NumbersInv) /\ [Next]_vars => (Shapes /\ NumbersInv)'
  BY ShapesStep, NumbersStep
<1>3. NumbersInv => NumbersAreConsecutive
  BY DEF NumbersInv, NumbersAreConsecutive, Existing
<1> QED BY <1>1, <1>2, <1>3, PTL DEF Spec
=============================================================================
