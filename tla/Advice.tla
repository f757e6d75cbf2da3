-------------------------------- MODULE Advice --------------------------------
(***************************************************************************)
(* The advice of the AI provider (backend/ai and its three endpoints): the *)
(* triage of an alert, the answer to a question about a case, the draft of *)
(* a report on a case.                                                     *)
(*                                                                         *)
(* A request reads its evidence in several statements (read committed),    *)
(* keeps what fits the limits, sends it to the provider, and records one   *)
(* analysis with what the provider answered, if it cites only what it was  *)
(* sent.  Meanwhile analysts link and unlink alerts and write notes.       *)
(* Nothing deletes a case or an alert once one request was audited: see    *)
(* Deployment.                                                             *)
(*                                                                         *)
(* A piece of evidence is named by its evidence_id and has a size; what it *)
(* says is left out, and so is its redaction.  The audit row of an         *)
(* analysis is committed with it and has its status.  The limits on        *)
(* requests and the idempotency keys of a triage are in LoginLimits and    *)
(* IdempotencyKeys.                                                        *)
(***************************************************************************)
EXTENDS Naturals, Sequences, FiniteSets, SequencesExt

CONSTANTS
  Requests,
  Cases, Alerts,
  First,        \* case -> the alerts it was created with
  Parts,        \* alert -> its rule snapshot, MITRE mapping and events, in order
  Size,         \* type of evidence -> length of its encoding
  MaxItems, MaxChars,   \* max_items and max_chars
  Posts,        \* bound: what analysts post, types of activities with an alert or 0
  MaxNotes,     \* bound: activities of the cases after their creation
  None

ActivityTypes == {"note", "alerts_added", "alert_removed"}
Types == {"case", "alert", "rule_snapshot", "mitre", "event", "analyst_note"}

ASSUME ScopeAssumption == /\ Alerts \subseteq Nat \ {0} /\ IsFiniteSet(Alerts)
                          /\ First \in [Cases -> SUBSET Alerts]
                          /\ Posts \subseteq ActivityTypes \X (Alerts \cup {0})
                          /\ DOMAIN Parts = Alerts
                          /\ \A a \in Alerts : Parts[a] \in Seq([type : Types, id : Seq(Nat)])
ASSUME LimitAssumption == /\ MaxItems \in Nat \ {0} /\ MaxChars \in Nat \ {0}
                          /\ Size \in [Types -> Nat \ {0}]
                          /\ MaxNotes \in Nat

VARIABLES
  linked,    \* case -> its alerts
  notes,     \* case -> its activities since its creation
  req,       \* request -> where it is and what it has read
  analyses   \* ai_analyses

vars == <<linked, notes, req, analyses>>

Kinds == {"triage", "ask_copilot", "report_draft"}

\* kind and target of a request; the statements it has run; the alerts and the number of
\* activities it has read; history: the number of activities when it read the alerts, and
\* the links of the case at its latest statement.
Idle == [kind |-> None, of |-> 0, at |-> 0, alerts |-> {}, upto |-> 0, since |-> 0, now |-> {}]

Init == /\ linked = First
        /\ notes = [c \in Cases |-> <<>>]
        /\ req = [r \in Requests |-> Idle]
        /\ analyses = {}
-----------------------------------------------------------------------------
(* What others do meanwhile. *)

Written == Cardinality(UNION {{c} \X DOMAIN notes[c] : c \in Cases})

\* An activity says what it is about; history: by whom it was written.
Note(c, type, a, by) ==
  /\ Written < MaxNotes
  /\ notes' = [notes EXCEPT ![c] = Append(@, [type |-> type, alert |-> a, by |-> by])]
  /\ UNCHANGED <<req, analyses>>

\* Among the activities m + 1 .. n the server has told this of an alert.
Told(c, type, a, m, n) == \E i \in m + 1 .. n : /\ notes[c][i].type = type
                                               /\ notes[c][i].alert = a
                                               /\ notes[c][i].by = "server"

\* A link and its activity are committed together (Cases).
add_case_alerts(c, a) == /\ a \notin linked[c]
                         /\ linked' = [linked EXCEPT ![c] = @ \cup {a}]
                         /\ Note(c, "alerts_added", a, "server")
\* The link that was read is removed; or it is gone since, as another request has removed
\* it, and only the activity is written, whether or not the alert is linked again.
remove_case_alert(c, a) ==
  /\ \/ a \in linked[c] /\ linked' = [linked EXCEPT ![c] = @ \ {a}]
     \/ Told(c, "alert_removed", a, 0, Len(notes[c])) /\ UNCHANGED linked
  /\ Note(c, "alert_removed", a, "server")
\* An analyst's entry has the type that the analyst gives it, and says anything.
create_case_activity(c) ==
  /\ \E post \in Posts : Note(c, post[1], post[2], "analyst")
  /\ UNCHANGED linked

-----------------------------------------------------------------------------
(* The evidence (backend/ai/context.py). *)

InCase(r) == req[r].kind # "triage"

Request(r) ==
  /\ req[r] = Idle
  /\ \E k \in Kinds : \E x \in IF k = "triage" THEN Alerts ELSE Cases :
       req' = [req EXCEPT ![r] = [Idle EXCEPT !.kind = k, !.of = x, !.at = 1]]
  /\ UNCHANGED <<linked, notes, analyses>>

\* Mutant: the activities are read before the links.
NotesFirst == <<"notes", "links", "alerts">>
\* The statements of build_evidence_context, one snapshot each.
Statements == <<"links", "alerts", "notes">>

Reads(r, statement) == req[r].at \in DOMAIN Statements /\ Statements[req[r].at] = statement
Assembled(r) == req[r].at = Len(Statements) + 1
Ended == Len(Statements) + 2

Read(r, found) ==
  /\ req' = [req EXCEPT ![r] = [found EXCEPT !.at = @ + 1,
                                             !.now = IF InCase(r) THEN linked[found.of] ELSE {}]]
  /\ UNCHANGED <<linked, notes, analyses>>

ReadLinks(r) ==
  /\ Reads(r, "links")
  /\ Read(r, [req[r] EXCEPT
                !.alerts = IF InCase(r) THEN linked[req[r].of] ELSE {req[r].of},
                !.since = IF InCase(r) THEN Len(notes[req[r].of]) ELSE 0])

\* The alerts come with their parts, which never change.
ReadAlerts(r) == Reads(r, "alerts") /\ Read(r, req[r])

ReadNotes(r) ==
  /\ Reads(r, "notes")
  /\ Read(r, [req[r] EXCEPT !.upto = IF InCase(r) THEN Len(notes[req[r].of]) ELSE 0])

CaseItem(c) == [type |-> "case", id |-> <<c>>]
AlertItem(a) == [type |-> "alert", id |-> <<a>>]
NoteItem(c, i) == [type |-> "analyst_note", id |-> <<c, i>>]

\* Alerts, ordered by id.
ById(S) == CHOOSE s \in [1 .. Cardinality(S) -> S] :
             \A i, j \in 1 .. Cardinality(S) : i < j => s[i] < s[j]

\* The case, its alerts with their parts, and its activities, the first of which is its
\* creation; an alert alone for a triage.
Items(r) ==
  LET c == req[r].of
      alerts == ById(req[r].alerts)
      with == FlattenSeq([i \in DOMAIN alerts |-> <<AlertItem(alerts[i])>> \o Parts[alerts[i]]])
      activities == [i \in 1 .. req[r].upto + 1 |-> NoteItem(c, i)]
  IN IF InCase(r) THEN <<CaseItem(c)>> \o with \o activities ELSE with

Used(items) == FoldSeq(LAMBDA item, used : used + Size[item.type], 0, items)
Fits(items) == Len(items) <= MaxItems /\ Used(items) <= MaxChars

\* Mutant: an item that does not fit is passed over.
PassedOver(items) ==
  FoldLeft(LAMBDA kept, item : IF Fits(Append(kept, item)) THEN Append(kept, item) ELSE kept,
           <<>>, items)
\* The items up to the first one that does not fit.
Selected(items) ==
  SubSeq(items, 1, CHOOSE n \in 0 .. Len(items) :
                     /\ Fits(SubSeq(items, 1, n))
                     /\ n < Len(items) => ~Fits(SubSeq(items, 1, n + 1)))

Sent(r) == Selected(Items(r))
evidence_ids(r) == {Sent(r)[i] : i \in DOMAIN Sent(r)}
-----------------------------------------------------------------------------
(* The answer (backend/ai/provider.py and triage.py). *)

\* Everything an answer could cite: what exists, or nothing the server knows of.
Unknown == [type |-> "evidence-unavailable", id |-> <<>>]
Citable ==
  {CaseItem(c) : c \in Cases}
  \cup {AlertItem(a) : a \in Alerts}
  \cup (UNION {Range(Parts[a]) : a \in Alerts})
  \cup {NoteItem(c, i) : c \in Cases, i \in 1 .. MaxNotes + 1}
  \cup {Unknown}

\* What a provider says: evidence_refs, with one reference, and at most one observed fact,
\* or entry of a report, that cites evidence.
Output == [refs : {{x} : x \in Citable}, facts : {{}} \cup {{x} : x \in Citable}]

\* FakeAIProvider: it cites the first piece of evidence.
DefaultOutput(r) ==
  LET first == IF Sent(r) = <<>> THEN Unknown ELSE Sent(r)[1] IN
  [refs |-> {first}, facts |-> IF req[r].kind = "report_draft" THEN {} ELSE {first}]

\* Mutant: the references of the facts are not looked at.
TopLevel(kind, output) == output.refs
\* The citations that are looked at: the entries of a report may hold anything.
Cited(kind, output) == output.refs \cup IF kind = "report_draft" THEN {} ELSE output.facts

Valid(r, output) == Cited(req[r].kind, output) \subseteq evidence_ids(r)

Analysis(r, status, output) ==
  [by |-> r, kind |-> req[r].kind, of |-> req[r].of, status |-> status, output |-> output,
   evidence_refs |-> evidence_ids(r)]

Record(r, analysis) ==
  /\ Assembled(r)
  /\ analyses' = analyses \cup {analysis}
  /\ req' = [req EXCEPT ![r].at = Ended]
  /\ UNCHANGED <<linked, notes>>

\* The provider answers, and the analysis is recorded.
Answer(r) == \E output \in Output \cup {DefaultOutput(r)} :
               Record(r, IF Valid(r, output) THEN Analysis(r, "succeeded", output)
                                             ELSE Analysis(r, "failed", None))
\* It is not configured, does not answer in time, or answers with something else.
NoAnswer(r) == \E status \in {"unavailable", "failed"} : Record(r, Analysis(r, status, None))

Next == \/ \E c \in Cases, a \in Alerts : add_case_alerts(c, a) \/ remove_case_alert(c, a)
        \/ \E c \in Cases : create_case_activity(c)
        \/ \E r \in Requests : \/ Request(r) \/ ReadLinks(r) \/ ReadAlerts(r) \/ ReadNotes(r)
                               \/ Answer(r) \/ NoAnswer(r)

Spec == Init /\ [][Next]_vars
-----------------------------------------------------------------------------
\* The alerts that the server has told it linked, in the first n activities.
Added(c, n) == {a \in Alerts : Told(c, "alerts_added", a, 0, n)}

\* Activities m + 1 .. n tell how the links have become these from those before.
Explained(c, before, links, m, n) ==
  /\ \A a \in before \ links : Told(c, "alert_removed", a, m, n)
  /\ \A a \in links \ before : Told(c, "alerts_added", a, m, n)

\* Evidence of a case that was not cut short is not silently out of date: when it is
\* complete, each alert in it that has left the case, and each that has come to it
\* unnoticed, while it was read, has an activity in it that tells so, written since the
\* links were read.  And every alert in it is one of the case's first, or is told there
\* to have been linked.  (Activities may tell more: analysts write what they like, and a
\* second request to unlink tells what the first one did.)
LinksAreTold ==
  \A r \in Requests :
    LET q == req[r]  c == q.of IN
    Assembled(r) /\ InCase(r) /\ Len(Sent(r)) = Len(Items(r)) =>
      /\ Explained(c, q.alerts, q.now, q.since, q.upto)
      /\ q.alerts \subseteq First[c] \cup Added(c, q.upto)

\* Evidence is never out of context: an event, a snapshot or a mapping is sent with an
\* alert it belongs to, and what belongs to a case with the case, however little the
\* limits, which are kept, leave room for.
EvidenceHasItsParents ==
  \A r \in Requests : Assembled(r) =>
    LET sent == evidence_ids(r) IN
    /\ Fits(Sent(r))
    /\ \A x \in sent :
         \/ x.type = "case"
         \/ /\ x.type \in {"alert", "analyst_note"}
            /\ InCase(r) => CaseItem(req[r].of) \in sent
         \/ \E a \in Alerts : AlertItem(a) \in sent /\ x \in Range(Parts[a])

\* The evidence that may belong to an analysis: of its alert alone, or of its case and
\* the alerts that have been linked to it.
Scope(analysis) ==
  LET c == analysis.of
      alerts == IF analysis.kind = "triage" THEN {c}
                ELSE First[c] \cup Added(c, Len(notes[c]))
  IN {x \in Citable :
        \/ x.type = "alert" /\ x.id[1] \in alerts
        \/ \E a \in alerts : x \in Range(Parts[a])
        \/ analysis.kind # "triage" /\ x.type \in {"case", "analyst_note"} /\ x.id[1] = c}

\* Advice that is recorded cites only what the provider was sent for it, at every place
\* but the entries of a report, and that was of its own alert or case, although links have
\* changed before, during and after the call.
CitesOnlyItsEvidence ==
  \A x \in analyses :
    /\ x.evidence_refs \subseteq Scope(x)
    /\ x.output # None =>
         /\ x.output.refs \subseteq x.evidence_refs
         /\ x.kind # "report_draft" => x.output.facts \subseteq x.evidence_refs
=============================================================================
