-------------------------- MODULE DetectionExecution --------------------------
(***************************************************************************)
(* Executions of one detection rule (backend/detection/service.py driven   *)
(* by POST /rules/execute and /rules/test) next to edits of that rule      *)
(* (PATCH /rules/{id}) and to events arriving from ingestion.              *)
(*                                                                         *)
(* An event is a natural number, its place in the order (timestamp,        *)
(* event_id), and Stamp is its timestamp; windows are of timestamps.  The  *)
(* logic of a rule is of type single, one firing per matching event, or of *)
(* type threshold, one firing per group and tumbling window of the run;    *)
(* a threshold counts events here.  How conditions match, how distinct     *)
(* values are counted and what a sequence finds is in RuleEvaluation; the  *)
(* firings of a sequence are stored in the order of their first events, as *)
(* those of a single rule are.  A fingerprint is unique per rule, and      *)
(* rules share nothing else, so one rule is enough.                        *)
(*                                                                         *)
(* Every commit expires the objects of a session: the rule a request uses  *)
(* after it has committed the run header is read again from the database.  *)
(***************************************************************************)
EXTENDS Integers, FiniteSets, FiniteSetsExt

CONSTANTS
  Requests,    \* requests to execute or test the rule
  Editors,     \* requests to update the rule
  Events,      \* events that may be ingested, a set of naturals
  Stamp,       \* event -> its timestamp
  Conditions,  \* conditions of rules, told apart by their explanation trees
  Groupings,   \* lists of group_by fields; no two are of the same fields
  Matches,     \* condition -> the events it matches
  GroupOf,     \* grouping -> event -> the place of its group by repr, or None for a missing key
  Logics,      \* valid rule logics
  BadLogic,    \* stored JSON that parse_logic rejects (PATCH does not parse it)
  Windows,     \* windows that may be requested
  Lookback,    \* lookback_window_seconds
  MaxScan,     \* max_events_scanned
  MaxVersion,  \* bound: rule versions
  MaxCrashes,  \* bound: restarts of the API process
  Failures,    \* bound: what the evaluator and the database may raise
  None

ASSUME EventAssumption == /\ Events \subseteq Nat /\ Windows \subseteq Nat \X Nat
                          /\ Stamp \in [Events -> Nat]
                          /\ \A e, f \in Events : e < f => Stamp[e] <= Stamp[f]
Single == [rule_type : {"single"}, condition : Conditions]
Threshold == [rule_type : {"threshold"}, condition : Conditions, group_by : Groupings,
              duration : Nat \ {0}, min_count : Nat \ {0}]
ASSUME LogicAssumption == /\ Logics \subseteq Single \cup Threshold
                          /\ BadLogic \notin Logics /\ None \notin Logics \cup {BadLogic}
                          /\ Conditions \cap Groupings = {} /\ None \notin Nat
                          /\ Matches \in [Conditions -> SUBSET Events]
                          /\ GroupOf \in [Groupings -> [Events -> Nat \cup {None}]]
ASSUME NatAssumption == /\ Lookback \in Nat /\ MaxScan \in Nat
                        /\ MaxVersion \in Nat \ {0} /\ MaxCrashes \in Nat
ASSUME FailureAssumption == Failures \subseteq {"value", "other"}

VARIABLES
  version, logic, enabled,  \* the detection_rules row
  history,   \* detection_rule_versions: version -> its logic, or None
  events,    \* the events table
  runs,      \* detection_runs: request -> status of its run, or "none"
  ranAs,     \* detection_runs: request -> rule_version of its run
  created,   \* detection_runs: request -> alerts_created of its run
  alerts,    \* committed alerts
  audit,     \* request -> outcome of its audit row, or "none"
  pc,        \* request -> where execute_rule is
  parsed,    \* request -> the logic it parsed and evaluates
  window,    \* request -> the window it asks for
  cand,      \* request -> the candidate events it read
  todo,      \* request -> the firings not yet stored
  mine,      \* request -> the rule it reads again while storing
  added,     \* request -> the alerts it has flushed, not committed
  answer,    \* request -> the response
  seen,      \* editor -> the rule it read, or None
  crashes

rule == <<version, logic, enabled>>
store == <<events, runs, ranAs, created, alerts, audit>>
local == <<pc, parsed, window, cand, todo, mine, added, answer>>
vars == <<rule, history, store, local, seen, crashes>>

Versions == 1 .. MaxVersion
Unread == [version |-> 0, logic |-> None]

\* The start of the tumbling window of length d that a time t is in: those of a run
\* are counted from the start of its own window.
BucketStart(start, d, t) == start + ((t - start) \div d) * d

\* What a firing says next to its evidence, which all go into its fingerprint: the
\* explanation of a condition, or the fields and values of a group.
SingleFirings(l, C) ==
  {[says |-> <<l.condition, 0>>, evidence |-> {e}] : e \in C \cap Matches[l.condition]}

Grouped(l, C) == {e \in C \cap Matches[l.condition] : GroupOf[l.group_by][e] # None}
ThresholdFirings(l, C, w) ==
  LET bucket(e) == {f \in Grouped(l, C) :
                      /\ BucketStart(w[1], l.duration, Stamp[f]) = BucketStart(w[1], l.duration, Stamp[e])
                      /\ GroupOf[l.group_by][f] = GroupOf[l.group_by][e]} IN
    {[says |-> <<l.group_by, GroupOf[l.group_by][e]>>, evidence |-> bucket(e)] :
       e \in {x \in Grouped(l, C) : Cardinality(bucket(x)) >= l.min_count}}

\* What the evaluators find on the candidates C of a run over the window w.
Firings(l, C, w) == IF l.rule_type = "single" THEN SingleFirings(l, C) ELSE ThresholdFirings(l, C, w)

\* What the fingerprint hashes: the version of the rule and the firing.
\* Mutant: the run is part of it.
FingerprintPerRun(r, v, f) == <<r, v, f>>
\* Mutant: the version is not part of it.
FingerprintNoVersion(r, v, f) == <<0, 0, f>>
Fingerprint(r, v, f) == <<0, v, f>>

\* An alert row as execute_rule builds it from the rule it has read last.
NewAlert(r, m, f) == [fingerprint |-> Fingerprint(r, m.version, f), finding |-> f, run |-> r,
                      version |-> m.version, snapshot |-> m.logic]

Has(rows, fp) == \E a \in rows : a.fingerprint = fp

\* A rule created by the API has its first version recorded; a seeded or
\* migrated one has not.
Init == /\ version = 1 /\ logic \in Logics /\ enabled \in BOOLEAN
        /\ history \in {[v \in Versions |-> None],
                        [v \in Versions |-> IF v = 1 THEN logic ELSE None]}
        /\ events = {}
        /\ runs = [r \in Requests |-> "none"]
        /\ ranAs = [r \in Requests |-> 0]
        /\ created = [r \in Requests |-> 0]
        /\ alerts = {}
        /\ audit = [r \in Requests |-> "none"]
        /\ pc = [r \in Requests |-> "idle"]
        /\ parsed = [r \in Requests |-> None]
        /\ window = [r \in Requests |-> <<0, 0>>]
        /\ cand = [r \in Requests |-> {}]
        /\ todo = [r \in Requests |-> {}]
        /\ mine = [r \in Requests |-> Unread]
        /\ added = [r \in Requests |-> {}]
        /\ answer = [r \in Requests |-> "none"]
        /\ seen = [d \in Editors |-> None]
        /\ crashes = 0
-----------------------------------------------------------------------------
\* A committed ingestion run adds an event, of any timestamp.
Ingest(e) == /\ e \notin events
             /\ events' = events \cup {e}
             /\ UNCHANGED <<rule, history, runs, ranAs, created, alerts, audit, local, seen,
                            crashes>>

\* update_rule without a logic field: it writes the columns it was given.
SetEnabled == /\ enabled' = ~enabled
              /\ UNCHANGED <<version, logic, history, store, local, seen, crashes>>

\* update_rule reads the rule ...
ReadRule(d) == /\ seen[d] = None
               /\ seen' = [seen EXCEPT ![d] = [version |-> version, logic |-> logic]]
               /\ UNCHANGED <<rule, history, store, local, crashes>>

\* Mutant: no unique constraint on (rule, version).
VersionAlwaysFree(v) == TRUE
VersionFree(v) == history[v] = None

\* Mutant: the version the rule had is not recorded when it is missing.
RecordNewOnly(s, l) == [history EXCEPT ![s.version + 1] = l]
\* The snapshots after an edit of the logic: the version that was read, when it
\* has no row yet, and the new one.
Recorded(s, l) == [v \in Versions |-> CASE v = s.version + 1 -> l
                                        [] v = s.version /\ history[v] = None -> s.logic
                                        [] OTHER -> history[v]]

\* ... and commits a change of its logic.  A concurrent edit has taken the same
\* number: the unique constraint rejects this one, which is rolled back (500).
CommitUpdate(d) ==
  /\ seen[d] # None
  /\ seen[d].version < MaxVersion
  /\ \/ /\ VersionFree(seen[d].version + 1)
        /\ \E l \in Logics \cup {BadLogic} :
             /\ logic' = l
             /\ history' = Recorded(seen[d], l)
        /\ version' = seen[d].version + 1
     \/ /\ ~VersionFree(seen[d].version + 1)
        /\ UNCHANGED <<version, logic, history>>
  /\ seen' = [seen EXCEPT ![d] = None]
  /\ UNCHANGED <<enabled, store, local, crashes>>
-----------------------------------------------------------------------------
InWindow(w) == {e \in events : w[1] <= Stamp[e] /\ Stamp[e] < w[2]}

\* The first MaxScan events of the window, in the order of the query.
Candidates(w) == {e \in InWindow(w) : Cardinality({f \in InWindow(w) : f < e}) < MaxScan}

ValidWindow(w) == w[1] < w[2] /\ w[2] - w[1] <= Lookback

Finish(r, a) == pc' = [pc EXCEPT ![r] = "done"] /\ answer' = [answer EXCEPT ![r] = a]
Goto(r, where) == pc' = [pc EXCEPT ![r] = where] /\ UNCHANGED answer

\* execute_rule up to the commit of the run header, and the whole of it for a
\* rule that is not enabled, an invalid request and a dry run: those write
\* nothing but their audit row (_run_rule).
Begin(r) ==
  /\ pc[r] = "idle"
  /\ \E w \in Windows, dry \in BOOLEAN :
       /\ LET valid == ValidWindow(w) /\ logic # BadLogic IN
          \/ /\ ~enabled
             /\ audit' = [audit EXCEPT ![r] = "succeeded"]
             /\ Finish(r, "skipped")
             /\ UNCHANGED <<runs, ranAs, parsed, window, cand>>
          \/ /\ enabled /\ ~valid
             /\ audit' = [audit EXCEPT ![r] = "failed"]
             /\ Finish(r, "rejected")
             /\ UNCHANGED <<runs, ranAs, parsed, window, cand>>
          \/ /\ enabled /\ valid /\ dry
             /\ audit' = [audit EXCEPT ![r] = "succeeded"]
             /\ Finish(r, "dry_run")
             /\ UNCHANGED <<runs, ranAs, parsed, window, cand>>
          \/ /\ enabled /\ valid /\ ~dry
             /\ parsed' = [parsed EXCEPT ![r] = logic]
             /\ window' = [window EXCEPT ![r] = w]
             /\ cand' = [cand EXCEPT ![r] = Candidates(w)]
             /\ runs' = [runs EXCEPT ![r] = "running"]
             /\ ranAs' = [ranAs EXCEPT ![r] = version]
             /\ Goto(r, "evaluate")
             /\ UNCHANGED audit
  /\ UNCHANGED <<rule, history, events, created, alerts, todo, mine, added, seen, crashes>>

\* The evaluator: which firings the parsed logic has on the candidates.
Evaluate(r) ==
  /\ pc[r] = "evaluate"
  /\ todo' = [todo EXCEPT ![r] = Firings(parsed[r], cand[r], window[r])]
  /\ Goto(r, "look")
  /\ UNCHANGED <<rule, history, store, parsed, window, cand, mine, added, seen, crashes>>

\* Firings are sorted: those of a single rule by their event, those of a threshold rule
\* by the start of the tumbling window and the repr of the group.
Key(r, f) ==
  LET e == Min(f.evidence) IN
    IF parsed[r].rule_type = "single" THEN <<e, 0>>
    ELSE <<BucketStart(window[r][1], parsed[r].duration, Stamp[e]), f.says[2]>>
Before(k, m) == k[1] < m[1] \/ (k[1] = m[1] /\ k[2] < m[2])

\* Mutant: one run stores in the order of the others, reversed.
OwnOrder(r) == {f \in todo[r] : \A g \in todo[r] \ {f} :
                  IF r = (CHOOSE q \in Requests : TRUE) THEN Before(Key(r, g), Key(r, f))
                  ELSE Before(Key(r, f), Key(r, g))}
\* The firing that is stored next.
NextOf(r) == {f \in todo[r] : \A g \in todo[r] \ {f} : Before(Key(r, f), Key(r, g))}

\* The rule the request works with: loaded once, at its first use after the
\* header was committed.
Loaded(r) == IF mine[r] = Unread THEN [version |-> version, logic |-> logic] ELSE mine[r]

\* Look an alert with the fingerprint up.  One that is there is left as it is:
\* equal fingerprints mean equal evidence, so last_seen does not move.
Look(r) ==
  /\ pc[r] = "look"
  /\ \E f \in NextOf(r) :
       LET m == Loaded(r)
           found == Has(alerts \cup added[r], Fingerprint(r, m.version, f)) IN
       /\ mine' = [mine EXCEPT ![r] = m]
       /\ \/ /\ found
             /\ todo' = [todo EXCEPT ![r] = @ \ {f}]
             /\ Goto(r, "look")
          \/ /\ ~found
             /\ Goto(r, "insert")
             /\ UNCHANGED todo
  /\ UNCHANGED <<rule, history, store, parsed, window, cand, added, seen, crashes>>

\* The transaction of r has to wait for the one of q.
WaitsFor(r, q) ==
  /\ r # q /\ pc[r] = "insert"
  /\ \E f \in NextOf(r) : Has(added[q], NewAlert(r, mine[r], f).fingerprint)

\* Flush the new alert.  The unique index makes the insert wait for a
\* transaction that has flushed the same fingerprint, and fail when one has
\* committed it since the lookup.
Insert(r) ==
  /\ pc[r] = "insert"
  /\ \A q \in Requests : ~WaitsFor(r, q)
  /\ \E f \in NextOf(r) :
       LET a == NewAlert(r, mine[r], f) IN
          \/ /\ ~Has(alerts, a.fingerprint)
             /\ added' = [added EXCEPT ![r] = @ \cup {a}]
             /\ todo' = [todo EXCEPT ![r] = @ \ {f}]
             /\ Goto(r, "look")
          \/ /\ Has(alerts, a.fingerprint)
             /\ Goto(r, "failed_other")
             /\ UNCHANGED <<added, todo>>
  /\ UNCHANGED <<rule, history, store, parsed, window, cand, mine, seen, crashes>>

\* All firings are stored: the alerts, the run and its audit row commit together.
Complete(r) ==
  /\ pc[r] = "look" /\ todo[r] = {}
  /\ alerts' = alerts \cup added[r]
  /\ runs' = [runs EXCEPT ![r] = "completed"]
  /\ created' = [created EXCEPT ![r] = Cardinality(added[r])]
  /\ audit' = [audit EXCEPT ![r] = "succeeded"]
  /\ added' = [added EXCEPT ![r] = {}]
  /\ Finish(r, "completed")
  /\ UNCHANGED <<rule, history, events, ranAs, parsed, window, cand, todo, mine, seen, crashes>>

\* The run waits in a circle of runs.
Deadlocked(r) ==
  \E S \in SUBSET Requests : r \in S /\ \A p \in S : \E q \in S : WaitsFor(p, q)

\* The evaluator or the database raises; the database does so for one of the runs
\* that wait in a circle.
Raise(r) ==
  /\ pc[r] \in {"evaluate", "look", "insert"}
  /\ \/ "value" \in Failures /\ Goto(r, "failed_value")
     \/ "other" \in Failures /\ Goto(r, "failed_other")
     \/ Deadlocked(r) /\ Goto(r, "failed_other")
  /\ UNCHANGED <<rule, history, store, parsed, window, cand, todo, mine, added, seen, crashes>>

\* Mutant: what was flushed is committed with the status.
KeptWithoutRollback(r) == added[r]
\* What is left of the alerts a failed run has flushed.
Kept(r) == {}

\* The handler rolls back, records the run as failed and raises again; _run_rule
\* writes an audit row for a ValueError only, anything else becomes a 500.
RecordFailure(r) ==
  /\ pc[r] \in {"failed_value", "failed_other"}
  /\ alerts' = alerts \cup Kept(r)
  /\ added' = [added EXCEPT ![r] = {}]
  /\ runs' = [runs EXCEPT ![r] = "failed"]
  /\ IF pc[r] = "failed_value" THEN Goto(r, "audit") ELSE Finish(r, "error")
  /\ UNCHANGED <<rule, history, events, ranAs, created, audit, parsed, window, cand, todo,
                 mine, seen, crashes>>

AuditFailure(r) ==
  /\ pc[r] = "audit"
  /\ audit' = [audit EXCEPT ![r] = "failed"]
  /\ Finish(r, "rejected")
  /\ UNCHANGED <<rule, history, events, runs, ranAs, created, alerts, parsed, window, cand,
                 todo, mine, added, seen, crashes>>

InFlight(r) == pc[r] \notin {"idle", "done"}

\* The API process dies: transactions are rolled back, requests are lost.
Crash ==
  /\ crashes < MaxCrashes
  /\ crashes' = crashes + 1
  /\ pc' = [r \in Requests |-> IF InFlight(r) THEN "done" ELSE pc[r]]
  /\ answer' = [r \in Requests |-> IF InFlight(r) THEN "lost" ELSE answer[r]]
  /\ added' = [r \in Requests |-> {}]
  /\ seen' = [d \in Editors |-> None]
  /\ UNCHANGED <<rule, history, store, parsed, window, cand, todo, mine>>

Handle(r) == \/ Evaluate(r) \/ Look(r) \/ Insert(r) \/ Complete(r)
             \/ RecordFailure(r) \/ AuditFailure(r)

Next == \/ \E r \in Requests : Begin(r) \/ Handle(r) \/ Raise(r)
        \/ \E d \in Editors : ReadRule(d) \/ CommitUpdate(d)
        \/ \E e \in Events : Ingest(e)
        \/ SetEnabled
        \/ Crash

Spec == Init /\ [][Next]_vars
-----------------------------------------------------------------------------
\* What one version of the rule finds on some evidence has one alert, however many runs
\* report it, one after the other or at the same time: unless two logics were stored
\* under that version, by a run that an edit overtook, and say different things of it.
OneAlertPerFinding ==
  \A a, b \in alerts :
    /\ a.finding.evidence = b.finding.evidence /\ a.version = b.version
    /\ \/ a.finding.says = b.finding.says
       \/ ranAs[a.run] = a.version /\ ranAs[b.run] = b.version
    => a = b

\* A run and its alerts are one: a completed run counts the alerts that refer to
\* it, and no alert refers to a run that failed, was lost or is still running.
RunAndAlertsTogether ==
  \A r \in Requests :
    LET own == {a \in alerts : a.run = r} IN
      IF runs[r] = "completed" THEN created[r] = Cardinality(own) ELSE own = {}

\* A completed run has missed nothing: every firing of the logic it evaluated on
\* the candidates it read has an alert, of this run or of an earlier one, for
\* the version of the rule it stored under.
CompletedRunMissesNothing ==
  \A r \in Requests : runs[r] = "completed" =>
    \A f \in Firings(parsed[r], cand[r], window[r]) :
      \E a \in alerts : a.finding = f /\ a.version = mine[r].version

\* The logic an alert carries is the logic of the version it carries, and the
\* version table can prove it even after the rule has been edited.  It is the logic
\* that fired, unless the rule was edited while the run was at work: then the version
\* of the alert is later than that of its run.
AlertIsExplainable ==
  \A a \in alerts :
    /\ \/ history[a.version] = a.snapshot
       \/ history[a.version] = None /\ a.version = version /\ a.snapshot = logic
    /\ a.version >= ranAs[a.run]
    /\ a.version = ranAs[a.run] => a.snapshot = parsed[a.run]

\* What is recorded of a version is never rewritten or removed, and the version
\* of the rule never goes back, whatever edits overlap.
HistoryOnlyGrows ==
  [][/\ \A v \in Versions : history[v] # None => history'[v] = history[v]
     /\ version' >= version]_vars

\* Two runs agree on the order of the firings they may share: unless both evaluate
\* thresholds of one grouping with tumbling windows that differ.
Aligned(q, r) ==
  parsed[q].rule_type = "threshold" /\ parsed[r].rule_type = "threshold"
    /\ parsed[q].group_by = parsed[r].group_by
  => /\ parsed[q].duration = parsed[r].duration
     /\ window[q][1] % parsed[q].duration = window[r][1] % parsed[r].duration

\* Runs wait in a circle for each other's flushed fingerprints only when the tumbling
\* windows of two of them do not start a whole number of durations apart, which sorts
\* the same firings differently.
NoDeadlock ==
  \A S \in (SUBSET {r \in Requests : pc[r] = "insert"}) \ {{}} :
    (\A q, r \in S : Aligned(q, r)) => \E r \in S : \A q \in S : ~WaitsFor(r, q)
===============================================================================
