-------------------------------- MODULE Cases --------------------------------
(***************************************************************************)
(* The write endpoints of cases (api/v1/endpoints/cases.py): creation with *)
(* a number of its own, partial updates, linking and unlinking alerts, and *)
(* notes, each of which appends to the timeline of its case in the same    *)
(* transaction.  The idempotency key of a creation is IdempotencyKeys.     *)
(*                                                                         *)
(* The entry of a creation says neither the status, the priority nor the   *)
(* alerts of the case: the audit row of the same transaction does.  A note *)
(* is stored with the type and the text its client chose, so it may look   *)
(* like an entry of a handler.                                             *)
(*                                                                         *)
(* A case is named by the request that creates it.  A link is a row with a *)
(* primary key of its own, named by the request that inserts it.  Numbers  *)
(* are those of one year, without their prefix and padding.  Transactions  *)
(* are read committed: a request decides on what it read, and writes the   *)
(* columns it has changed.  An update writes its row before its entries,   *)
(* and keeps the row locked until it commits: so the entries of updates    *)
(* are stamped in the order of the commits.                                *)
(***************************************************************************)
EXTENDS Naturals, Sequences, SequencesExt, FiniteSetsExt

CONSTANTS
  Requests,
  Old,         \* a case that is there from the start
  Alerts,
  Missing,     \* an alert id that is in no row
  Patches,     \* what a PATCH may set: status and priority, or None
  Posts,       \* the entries clients post
  Widest,      \* the largest number of four digits
  MaxCrashes,  \* bound: restarts of the API process
  None

ASSUME PatchAssumption == Patches \subseteq [status : {"open", "in_progress", "closed", None},
                                             priority : {"low", "high", None}]
ASSUME PostAssumption == Posts \subseteq [kind : {"status_change", "priority_change", "alerts_added",
                                                  "alert_removed", "note"},
                                          to : {"open", "in_progress", "closed", "low", "high", ""},
                                          alerts : SUBSET Alerts, own : {FALSE}]
ASSUME NameAssumption == Old \notin Requests /\ Missing \notin Alerts /\ None \notin Requests
ASSUME NumberAssumption == Widest \in Nat \ {0} /\ MaxCrashes \in Nat

VARIABLES
  cases,     \* cases: its row, or NoCase
  links,     \* case_alerts: case -> its rows
  timeline,  \* case_activities: case -> its entries, in the order of their commits
  created,   \* audit_logs: case -> what its case.create row says
  lock,      \* holder of pg_advisory_xact_lock(year), or None
  pc,        \* request -> where its handler is
  ask,       \* request -> what it asks for
  read,      \* request -> what it decides on
  raced,     \* history: case -> alerts unlinked by a request whose link was gone by then
  crashes

store == <<cases, links, timeline, created>>
vars == <<store, lock, pc, ask, read, raced, crashes>>

CaseIds == Requests \cup {Old}
NoCase == [number |-> 0, status |-> "none", priority |-> "none", closedAt |-> FALSE]
NoAsk == [op |-> "none", case |-> None, patch |-> [status |-> None, priority |-> None], alerts |-> {}]
Nothing == [number |-> 0, row |-> NoCase, links |-> {}]

NoRow == [status |-> "none", priority |-> "none", alerts |-> {}]

\* An entry of a handler: its type, and the value or the alerts its message names.
\* That a handler wrote it (own) is history: a client may post one that looks the same.
Entry(kind, to, alerts) == [kind |-> kind, to |-> to, alerts |-> alerts, own |-> TRUE]
Link(a, r) == [alert |-> a, by |-> r]

Init == /\ cases = [c \in CaseIds |-> IF c = Old THEN [number |-> 1, status |-> "open",
                                                       priority |-> "low", closedAt |-> FALSE]
                                      ELSE NoCase]
        /\ links = [c \in CaseIds |-> {}]
        /\ timeline = [c \in CaseIds |-> IF c = Old THEN <<Entry("case_created", "", {})>>
                                         ELSE <<>>]
        /\ created = [c \in CaseIds |-> IF c = Old THEN [status |-> "open", priority |-> "low",
                                                         alerts |-> {}]
                                        ELSE NoRow]
        /\ raced = [c \in CaseIds |-> {}]
        /\ lock = None
        /\ pc = [r \in Requests |-> "idle"]
        /\ ask = [r \in Requests |-> NoAsk]
        /\ read = [r \in Requests |-> Nothing]
        /\ crashes = 0

Exists(c) == cases[c] # NoCase

\* The requests in S are answered or lost.
End(S) == /\ pc' = [r \in Requests |-> IF r \in S THEN "done" ELSE pc[r]]
          /\ ask' = [r \in Requests |-> IF r \in S THEN NoAsk ELSE ask[r]]
          /\ read' = [r \in Requests |-> IF r \in S THEN Nothing ELSE read[r]]

\* A handler starts: 404 for an unknown case (none is ever deleted) or alert.
Arrive(r) ==
  /\ pc[r] = "idle"
  /\ \/ \E S \in SUBSET (Alerts \cup {Missing}), p \in Patches :
          \/ /\ Missing \notin S /\ p.status # None /\ p.priority # None
             /\ ask' = [ask EXCEPT ![r] = [op |-> "create", case |-> r, patch |-> p, alerts |-> S]]
             /\ pc' = [pc EXCEPT ![r] = "number"]
             /\ UNCHANGED read
          \/ Missing \in S /\ End({r})
     \/ \E c \in CaseIds :
          /\ Exists(c)
          /\ \/ \E p \in Patches : ask' = [ask EXCEPT ![r] = [op |-> "update", case |-> c,
                                                             patch |-> p, alerts |-> {}]]
             \/ \E S \in (SUBSET Alerts) \ {{}} :
                  ask' = [ask EXCEPT ![r] = [NoAsk EXCEPT !.op = "add", !.case = c, !.alerts = S]]
             \/ \E a \in Alerts :
                  ask' = [ask EXCEPT ![r] = [NoAsk EXCEPT !.op = "remove", !.case = c, !.alerts = {a}]]
             \/ ask' = [ask EXCEPT ![r] = [NoAsk EXCEPT !.op = "note", !.case = c]]
          /\ pc' = [pc EXCEPT ![r] = "read"]
          /\ UNCHANGED read
  /\ UNCHANGED <<store, lock, raced, crashes>>
-----------------------------------------------------------------------------
Numbers == {cases[c].number : c \in {d \in CaseIds : Exists(d)}}

\* The number that comes last as text: with more than four digits there are
\* texts that sort before 9999.
LastNumber == IF Numbers = {} THEN 0
              ELSE IF Widest \in Numbers THEN Widest ELSE Max(Numbers)

\* Mutant: no advisory lock, as on a database that is not PostgreSQL.
NeverLocked == TRUE
Unlocked == lock = None

\* _generate_case_number: wait for the lock, which the transaction keeps, and
\* read the last number.
TakeNumber(r) ==
  /\ pc[r] = "number"
  /\ Unlocked
  /\ lock' = r
  /\ read' = [read EXCEPT ![r] = [number |-> LastNumber + 1, row |-> NoCase, links |-> {}]]
  /\ pc' = [pc EXCEPT ![r] = "insert"]
  /\ UNCHANGED <<store, ask, raced, crashes>>

Freed(r) == IF lock = r THEN None ELSE lock

\* The case, its links, its first entry and its audit row are committed; or the unique index
\* refuses the number, and the request is rolled back and answered with 500.
CommitCreate(r) ==
  /\ pc[r] = "insert"
  /\ LET p == ask[r].patch
         rows == {Link(a, r) : a \in ask[r].alerts}
         row == [number |-> read[r].number, status |-> p.status,
                 priority |-> p.priority, closedAt |-> FALSE]
         free == read[r].number \notin Numbers IN
       /\ cases' = IF free THEN [cases EXCEPT ![r] = row] ELSE cases
       /\ links' = IF free THEN [links EXCEPT ![r] = rows] ELSE links
       /\ timeline' = IF free
                      THEN [timeline EXCEPT ![r] = <<Entry("case_created", "", {})>>]
                      ELSE timeline
       /\ created' = IF free
                     THEN [created EXCEPT ![r] = [status |-> p.status, priority |-> p.priority,
                                                  alerts |-> ask[r].alerts]]
                     ELSE created
       /\ pc' = [pc EXCEPT ![r] = IF free THEN "done" ELSE "collided"]
  /\ lock' = Freed(r)
  /\ ask' = [ask EXCEPT ![r] = NoAsk]
  /\ read' = [read EXCEPT ![r] = Nothing]
  /\ UNCHANGED <<raced, crashes>>
-----------------------------------------------------------------------------
\* The other handlers read the case and the links they ask about.
Read(r) ==
  /\ pc[r] = "read"
  /\ LET c == ask[r].case
         found == {l \in links[c] : l.alert \in ask[r].alerts} IN
       \/ /\ ask[r].op = "remove" /\ found = {}
          /\ End({r})
       \/ /\ ~(ask[r].op = "remove" /\ found = {})
          /\ read' = [read EXCEPT ![r] = [number |-> 0, row |-> cases[c], links |-> found]]
          /\ pc' = [pc EXCEPT ![r] = "write"]
          /\ UNCHANGED ask
  /\ UNCHANGED <<store, lock, raced, crashes>>

\* Mutant: every column is written, those that were not changed as well.
SetAlways(asked, was, is) == IF asked = None THEN was ELSE asked
\* A column after the commit: the value asked for, when it differs from the one
\* that was read; else the column is not written.
Set(asked, was, is) == IF asked = None \/ asked = was THEN is ELSE asked

Closes(r) == ask[r].patch.status = "closed" /\ read[r].row.status # "closed"
Reopens(r) == ask[r].patch.status \notin {"closed", None} /\ read[r].row.status = "closed"

Changes(r, field) == LET v == ask[r].patch[field] IN v # None /\ v # read[r].row[field]

\* The entries of an update, for the values that differ from those it read.
UpdateEntries(r) ==
  (IF Changes(r, "status") THEN <<Entry("status_change", ask[r].patch.status, {})>> ELSE <<>>)
  \o (IF Changes(r, "priority") THEN <<Entry("priority_change", ask[r].patch.priority, {})>> ELSE <<>>)

CommitUpdate(r) ==
  /\ pc[r] = "write" /\ ask[r].op = "update"
  /\ LET c == ask[r].case
         now == cases[c]
         p == ask[r].patch
         was == read[r].row IN
       /\ cases' = [cases EXCEPT ![c] =
            [number |-> now.number,
             status |-> Set(p.status, was.status, now.status),
             priority |-> Set(p.priority, was.priority, now.priority),
             closedAt |-> (now.closedAt \/ Closes(r)) /\ ~(Reopens(r) /\ was.closedAt)]]
       /\ timeline' = [timeline EXCEPT ![c] = @ \o UpdateEntries(r)]
  /\ End({r})
  /\ UNCHANGED <<links, created, lock, raced, crashes>>

\* The alerts an addition links: those it did not read as linked.
NewAlerts(r) == ask[r].alerts \ {l.alert : l \in read[r].links}
NewLinks(r) == {Link(a, r) : a \in NewAlerts(r)}
\* Mutant: no unique constraint on (case, alert).
NeverLinked(r) == FALSE
AlreadyLinked(r) ==
  \E l \in links[ask[r].case] : l.alert \in NewAlerts(r)

CommitAdd(r) ==
  /\ pc[r] = "write" /\ ask[r].op = "add"
  /\ LET c == ask[r].case IN
       \/ /\ ~AlreadyLinked(r)
          /\ links' = [links EXCEPT ![c] = @ \cup NewLinks(r)]
          /\ timeline' = [timeline EXCEPT ![c] =
               IF NewAlerts(r) = {} THEN @ ELSE Append(@, Entry("alerts_added", "", NewAlerts(r)))]
       \/ /\ AlreadyLinked(r)    \* the unique constraint: rollback, 500
          /\ UNCHANGED <<links, timeline>>
  /\ End({r})
  /\ UNCHANGED <<cases, created, lock, raced, crashes>>

\* The link that was read is deleted by its primary key.  One that is gone is a
\* warning of SQLAlchemy, not an error: the entry and the 200 follow all the same.
Without(rows, r) == rows \ read[r].links

CommitRemove(r) ==
  /\ pc[r] = "write" /\ ask[r].op = "remove"
  /\ LET c == ask[r].case IN
       /\ links' = [links EXCEPT ![c] = Without(@, r)]
       /\ timeline' = [timeline EXCEPT ![c] = Append(@, Entry("alert_removed", "", ask[r].alerts))]
       /\ raced' = IF read[r].links \cap links[c] = {}
                   THEN [raced EXCEPT ![c] = @ \cup ask[r].alerts] ELSE raced
  /\ End({r})
  /\ UNCHANGED <<cases, created, lock, crashes>>

\* create_case_activity: the entry as the client has posted it.
CommitNote(r) ==
  /\ pc[r] = "write" /\ ask[r].op = "note"
  /\ \E e \in Posts : timeline' = [timeline EXCEPT ![ask[r].case] = Append(@, e)]
  /\ End({r})
  /\ UNCHANGED <<cases, links, created, lock, raced, crashes>>

\* The API process dies: the transactions it had open are rolled back.
Crash ==
  /\ crashes < MaxCrashes
  /\ crashes' = crashes + 1
  /\ lock' = None
  /\ End({r \in Requests : pc[r] # "idle"})
  /\ UNCHANGED <<store, raced>>

Handle(r) == \/ TakeNumber(r) \/ CommitCreate(r) \/ Read(r)
             \/ CommitUpdate(r) \/ CommitAdd(r) \/ CommitRemove(r) \/ CommitNote(r)

Next == \/ \E r \in Requests : Arrive(r) \/ Handle(r)
        \/ Crash

Spec == Init /\ [][Next]_vars
-----------------------------------------------------------------------------
\* The cases of a year are numbered 1, 2, ... without a gap, and no creation fails
\* because another one has taken its number, however many overlap or die.
NumbersAreConsecutive ==
  /\ Numbers = 1 .. Cardinality({c \in CaseIds : Exists(c)})
  /\ \A r \in Requests : pc[r] # "collided"

\* The last entry of these kinds that a handler wrote about a case, or 0; and the last
\* of those that names an alert.
LastOf(c, kinds) == SelectLastInSeq(timeline[c], LAMBDA e : e.own /\ e.kind \in kinds)
LastNaming(c, kinds, a) ==
  SelectLastInSeq(timeline[c], LAMBDA e : e.own /\ e.kind \in kinds /\ a \in e.alerts)

\* The status and the priority of a case are those the handlers' entries name last,
\* and without one those its audit row was written with, although overlapping updates
\* each wrote columns they had read before, and whatever clients post.
StateFollowsTimeline ==
  \A c \in CaseIds :
    /\ LET i == LastOf(c, {"status_change"}) IN
         cases[c].status = IF i = 0 THEN created[c].status ELSE timeline[c][i].to
    /\ LET i == LastOf(c, {"priority_change"}) IN
         cases[c].priority = IF i = 0 THEN created[c].priority ELSE timeline[c][i].to

\* Whether the handlers' entries, and before them the audit row, say that a is linked to c.
SaidLinked(c, a) ==
  LET i == LastNaming(c, {"alerts_added", "alert_removed"}, a) IN
    IF i = 0 THEN a \in created[c].alerts ELSE timeline[c][i].kind = "alerts_added"

\* An alert is linked once; it is linked when the handlers' entries say so, and only
\* then, unless a request has unlinked it whose link was already gone: its entry may
\* follow that of a new link, which stays.
LinksFollowTimeline ==
  \A c \in CaseIds :
    /\ \A k, l \in links[c] : k.alert = l.alert => k = l
    /\ \A a \in Alerts :
         LET linked == \E l \in links[c] : l.alert = a IN
           /\ SaidLinked(c, a) => linked
           /\ linked => SaidLinked(c, a) \/ a \in raced[c]
=============================================================================
