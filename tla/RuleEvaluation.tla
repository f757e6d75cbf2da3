--------------------------- MODULE RuleEvaluation ----------------------------
(***************************************************************************)
(* What a rule finds in a window of event time (backend/detection/         *)
(* threshold.py, sequence.py and the selection in service.py), as events   *)
(* arrive in any order.  Times are counted from the epoch in the unit of   *)
(* the windows; the execution that turns what is found into alerts is      *)
(* DetectionExecution, whose Firings are stored one by one.  The condition *)
(* of a rule reads every field of an event; the keys that group, correlate *)
(* and count events are read by another accessor, which knows five fields. *)
(***************************************************************************)
EXTENDS Matcher, FiniteSetsExt, SequencesExt

CONSTANTS
  Rules,       \* the rules, as parse_logic accepts them
  Ids,         \* event ids, in the order of their texts
  Times,
  Windows,     \* the windows <<start, end>> of executions
  MaxScanned,  \* max_events_scanned
  Fields,      \* bound: the values of a field by the type of the rule
  MaxEvents    \* bound: the number of events by the type of the rule

MaxWindowSeconds == 86400

\* What a rule may group by, share or count: any of EVENT_FIELDS.
Keys == FieldNames \cup {"id", "time"}

\* DetectionLogic.validate_rule_shape and the limits of its fields.
WellShaped(r) ==
  /\ r.rule_type \in {"single", "threshold", "sequence"}
  /\ r.rule_type # "sequence" => r.condition \in Conditions
  /\ r.rule_type = "threshold" => /\ r.min_count \in 1 .. 100 /\ r.duration \in 1 .. MaxWindowSeconds
                                  /\ r.group_by \subseteq Keys
                                  /\ r.distinct \in Keys \cup {None}
  /\ r.rule_type = "sequence" => /\ Len(r.stages) \in 1 .. 8 /\ r.span \in 1 .. MaxWindowSeconds
                                 /\ r.shared \subseteq Keys
                                 /\ \A i \in 1 .. Len(r.stages) :
                                      /\ r.stages[i].condition \in Conditions
                                      /\ r.stages[i].min_count \in 1 .. 100
ASSUME RuleAssumption == \A r \in Rules : WellShaped(r)
ASSUME BoundAssumption ==
  /\ Ids \subseteq Nat /\ Times \subseteq Nat /\ MaxScanned \in Nat \ {0}
  /\ \A w \in Windows : w[1] \in Nat /\ w[2] \in Nat /\ w[1] < w[2]

VARIABLES
  rule,   \* the rule that is evaluated
  events  \* events: the rows

vars == <<rule, events>>

Init == rule \in Rules /\ events = {}

Values(field) == Fields[rule.rule_type][field]

\* An event is ingested: its time is its own, not that of its arrival.
Arrive ==
  /\ Cardinality(events) < MaxEvents[rule.rule_type]
  /\ \E id \in Ids \ {e.id : e \in events}, t \in Times :
       \E values \in [FieldNames -> UNION {Values(f) : f \in FieldNames}] :
         /\ \A f \in FieldNames : values[f] \in Values(f)
         /\ events' = events \cup {[f \in Keys |->
                        CASE f = "id" -> id [] f = "time" -> t [] OTHER -> values[f]]}
  /\ UNCHANGED rule

Next == Arrive
Spec == Init /\ [][Next]_vars
-----------------------------------------------------------------------------
\* The order of candidates and of evidence.
Before(e, f) == e.time < f.time \/ (e.time = f.time /\ e.id < f.id)

\* The n earliest events of a set.
Earliest(S, n) == {e \in S : Cardinality({f \in S : Before(f, e)}) < n}

InWindow(w, S) == {e \in S : w[1] <= e.time /\ e.time < w[2]}
Truncated(w, S) == Cardinality(InWindow(w, S)) > MaxScanned
\* The events execute_rule evaluates.
Candidates(w, S) == Earliest(InWindow(w, S), MaxScanned)

\* _field: of the event rows that execute_rule loads it reads these; any other
\* field is None, whatever the row holds.
Readable == {"id", "time", "source_ip", "username", "hostname"}
FieldOf(e, k) == IF k \in Readable THEN e[k] ELSE None

\* The values of the keys of an event, and whether it has all of them.
KeyOf(e, keys) == [k \in keys |-> FieldOf(e, k)]
HasKeys(e, keys) == \A k \in keys : FieldOf(e, k) # None
-----------------------------------------------------------------------------
\* Mutant: windows are counted from the first event of the run.
FromFirstEvent(w, e) ==
  LET first == Min({f.time : f \in InWindow(w, events)}) IN
    first + ((e.time - first) \div rule.duration) * rule.duration
\* evaluate_threshold: the start of the tumbling window an event is in.
BucketStart(w, e) == w[1] + ((e.time - w[1]) \div rule.duration) * rule.duration

Count(S) == IF rule.distinct = None THEN Cardinality(S)
            ELSE Cardinality({FieldOf(e, rule.distinct) : e \in S} \ {None})

\* Mutant: one more event is needed than the rule says.
MoreThanEnough(S) == Count(S) > rule.min_count
Enough(S) == Count(S) >= rule.min_count

Grouped(C) == {e \in C : Matches(e, rule.condition) /\ HasKeys(e, rule.group_by)}

\* The evidence of each firing of a threshold rule.
Bursts(w, C) ==
  LET bucket(e) == {f \in Grouped(C) : /\ BucketStart(w, f) = BucketStart(w, e)
                                       /\ KeyOf(f, rule.group_by) = KeyOf(e, rule.group_by)} IN
    {S \in {bucket(e) : e \in Grouped(C)} : Enough(S)}
-----------------------------------------------------------------------------
\* Mutant: the chain goes on with the next event of its keys, whatever it is.
NextOnly(C, first, cursor, stage) ==
  {e \in Earliest({f \in C : Before(cursor, f) /\ KeyOf(f, rule.shared) = KeyOf(first, rule.shared)}, 1) :
     e.time - first.time <= rule.span /\ Matches(e, stage.condition)}
\* evaluate_sequence: the events a stage may take after the cursor.
Eligible(C, first, cursor, stage) ==
  {e \in C : /\ Before(cursor, e)
             /\ e.time - first.time <= rule.span
             /\ KeyOf(e, rule.shared) = KeyOf(first, rule.shared)
             /\ Matches(e, stage.condition)}

LatestOf(S) == CHOOSE e \in S : \A f \in S : f = e \/ Before(f, e)

\* A stage takes its number of events, the earliest from the cursor on, and
\* moves the cursor on; a chain is none when a stage does not find its number.
Take(C, first, chain, n, stage) ==
  LET taken == Earliest(Eligible(C, first, chain.cursor, stage), n) IN
    IF chain.found /\ Cardinality(taken) = n
    THEN [found |-> TRUE, evidence |-> Append(chain.evidence, taken),
          cursor |-> LatestOf(taken \cup {chain.cursor})]
    ELSE [chain EXCEPT !.found = FALSE]

\* The chain that starts with an event, after each of the stages; that event is
\* one of those of the first stage.
Stages(C, first) ==
  LET chain[i \in 1 .. Len(rule.stages)] ==
        LET stage == rule.stages[i] IN
          IF i = 1 THEN Take(C, first, [found |-> TRUE, evidence |-> <<>>, cursor |-> first],
                             stage.min_count - 1, stage)
          ELSE Take(C, first, chain[i - 1], stage.min_count, stage) IN
    chain

Chain(C, first) ==
  LET last == Stages(C, first)[Len(rule.stages)] IN
    IF last.found THEN [last EXCEPT !.evidence[1] = @ \cup {first}] ELSE last

Starts(C) == {e \in C : Matches(e, rule.stages[1].condition) /\ HasKeys(e, rule.shared)}
\* The first events of the chains that are found.
Chained(C) == {e \in Starts(C) : Chain(C, e).found}
-----------------------------------------------------------------------------
Bursting == rule.rule_type = "threshold"
Chaining == rule.rule_type = "sequence"

\* "Only not_exists asserts absence" (matcher.py): a condition without it that
\* matches an event with a missing field would match whatever the field held.
OnlyNotExistsAssertsAbsence ==
  (rule.rule_type = "single" /\ "not_exists" \notin LeafOperators[rule.condition]) =>
    \A e \in events, f \in FieldNames :
      e[f] = None /\ Matches(e, rule.condition) =>
        \A v \in Values(f) : Matches([e EXCEPT ![f] = v], rule.condition)

\* Wherever the borders of the tumbling windows fall, a burst of 2n - 1 matching
\* events of one group within the duration raises an alert with some of them as
\* evidence, and evidence is of events that have their keys.  Keys and the values
\* that are counted are those that the accessor of keys returns: events that share
\* any other field, which the rule may name, are not a burst.
BurstIsFound ==
  Bursting =>
    \A w \in Windows :
      LET C == Candidates(w, events)
          found == Bursts(w, C) IN
        /\ \A S \in SUBSET C :
             /\ \A e, f \in S : e.time - f.time < rule.duration
             /\ \A e \in S : Matches(e, rule.condition) /\ HasKeys(e, rule.group_by)
             /\ \A e, f \in S : KeyOf(e, rule.group_by) = KeyOf(f, rule.group_by)
             /\ Count(S) >= 2 * rule.min_count - 1
             => \E B \in found : B \cap S # {}
        /\ \A B \in found : \A e \in B : HasKeys(e, rule.group_by)

\* Two runs whose windows start a whole number of durations apart raise the same
\* alerts for the tumbling windows that are whole in both: so repeating a run, or
\* running the next hour, raises nothing twice.
AlignedRunsAgree ==
  Bursting =>
    \A v, w \in {x \in Windows : ~Truncated(x, events)} :
      v[1] <= w[1] /\ (w[1] - v[1]) % rule.duration = 0 =>
        LET end == IF v[2] < w[2] THEN v[2] ELSE w[2]
            last == w[1] + ((end - w[1]) \div rule.duration) * rule.duration
            common(found) == {B \in found : \A e \in B : w[1] <= e.time /\ e.time < last} IN
          w[1] < end => common(Bursts(v, Candidates(v, events))) = common(Bursts(w, Candidates(w, events)))

\* Events of each stage make up a chain that starts with an event: they are as
\* many as the stages ask for, they match, and they are in order and within the span.
Fits(first, parts) ==
  LET n == Len(rule.stages) IN
    /\ \A i \in 1 .. n : /\ Cardinality(parts[i]) = rule.stages[i].min_count
                         /\ \A e \in parts[i] : Matches(e, rule.stages[i].condition)
    /\ first \in parts[1]
    /\ \A i \in 1 .. n : \A e \in parts[i] :
         /\ e = first \/ Before(first, e)
         /\ e.time - first.time <= rule.span
         /\ KeyOf(e, rule.shared) = KeyOf(first, rule.shared)
    /\ \A i \in 1 .. n - 1 : \A e \in parts[i], f \in parts[i + 1] : Before(e, f)

\* Taking the earliest event for every stage misses no chain whose shared keys the
\* accessor of keys returns: if any choice of
\* events fits the stages of the rule, in order and within the span, the chain that
\* starts with the same event is found, and the evidence it names fits them.
EveryChainIsFound ==
  Chaining =>
    \A w \in Windows :
      LET C == Candidates(w, events) IN
        /\ \A first \in C : first \in Chained(C) <=>
            /\ HasKeys(first, rule.shared)
            /\ \E parts \in [1 .. Len(rule.stages) -> SUBSET C] : Fits(first, parts)
        /\ \A first \in Chained(C) : Fits(first, Chain(C, first).evidence)

\* An event that arrives late silences nothing that a run over the same window
\* would have found, unless it fills the run's limit: the groups that fire still
\* fire, and the chains that start with an event still do.
ArrivalSilencesNothing ==
  [][\A w \in Windows :
       ~Truncated(w, events') =>
         LET C == Candidates(w, events)
             D == Candidates(w, events') IN
           /\ Bursting => \A B \in Bursts(w, C) : \E B2 \in Bursts(w, D) : B \subseteq B2
           /\ Chaining => Chained(C) \subseteq Chained(D)]_vars
=============================================================================
