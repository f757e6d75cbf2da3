----------------------- MODULE DetectionExecution_proofs -----------------------
(***************************************************************************)
(* For any number of runs, edits, events, versions and crashes: what the   *)
(* alerts and the versions of a rule say is true, findings are stored once,*)
(* and runs wait for each other in a circle only when their tumbling       *)
(* windows differ.                                                         *)
(*                                                                         *)
(* RuleInv is about the rule, its versions and the editors alone.  IInv    *)
(* adds the runs: what a run has flushed belongs to it and meets no other  *)
(* alert (Flushed, Unique), what it is done with has an alert (Progress),  *)
(* and everything it works with was the rule at some moment (Explained).   *)
(***************************************************************************)
EXTENDS DetectionExecution, FiniteSetTheorems, WellFoundedInduction, TLAPS

AllLogics == Logics \cup {BadLogic}
RuleReads == [version : Versions, logic : AllLogics]

VersionsRecorded ==
  /\ \A v \in Versions : /\ v < version => history[v] # None
                         /\ v > version => history[v] = None
  /\ version > 1 => history[version] # None
  /\ history[version] \in {None, logic}

\* l is the logic of version v: recorded, or to be recorded with the next edit.
Proven(v, l) == /\ v \in Versions /\ v <= version /\ l \in AllLogics
                /\ history[v] = l \/ (history[v] = None /\ v = version /\ l = logic)

RuleInv ==
  /\ version \in Versions /\ logic \in AllLogics
  /\ history \in [Versions -> AllLogics \cup {None}]
  /\ seen \in [Editors -> RuleReads \cup {None}]
  /\ VersionsRecorded
  /\ \A d \in Editors : seen[d] # None => Proven(seen[d].version, seen[d].logic)
-----------------------------------------------------------------------------
\* The versions of a rule start right, whether or not the first one is recorded.
LEMMA RuleInit == Init => RuleInv
<1> SUFFICES ASSUME Init PROVE RuleInv
  OBVIOUS
<1>1. 1 \in Versions /\ Versions \subseteq Nat
  BY NatAssumption DEF Versions
<1>2. /\ version = 1 /\ logic \in AllLogics /\ seen = [d \in Editors |-> None]
      /\ history \in {[v \in Versions |-> None],
                      [v \in Versions |-> IF v = 1 THEN logic ELSE None]}
  BY DEF Init, AllLogics
<1>3. history \in [Versions -> AllLogics \cup {None}]
  BY <1>2
<1>4. VersionsRecorded
  <2>1. history[1] \in {None, logic} /\ \A v \in Versions : v # 1 => history[v] = None
    BY <1>1, <1>2
  <2>2. \A v \in Versions : ~(v < 1) /\ (v > 1 => v # 1)
    BY DEF Versions
  <2> QED BY <1>2, <2>1, <2>2 DEF VersionsRecorded
<1> QED BY <1>1, <1>2, <1>3, <1>4 DEF RuleInv

\* What is proven of a version leaves no doubt about the current one.
LEMMA CurrentLogic ==
  ASSUME RuleInv, NEW l, Proven(version, l)
  PROVE  l = logic
BY LogicAssumption DEF RuleInv, Proven, VersionsRecorded, AllLogics

\* An edit that is accepted was made on the current version.
LEMMA EditOfTheCurrent ==
  ASSUME RuleInv, NEW d \in Editors, seen[d] # None, seen[d].version < MaxVersion,
         VersionFree(seen[d].version + 1)
  PROVE  seen[d].version = version /\ seen[d].logic = logic
<1> DEFINE v == seen[d].version
<1>1. /\ v \in Versions /\ v <= version /\ version \in Versions /\ MaxVersion \in Nat
      /\ Proven(v, seen[d].logic)
  BY NatAssumption DEF RuleInv, Proven
<1>2. history[v + 1] = None /\ v < MaxVersion
  BY DEF VersionFree
<1> HIDE DEF v
<1>3. v + 1 \in Versions
  BY <1>1, <1>2 DEF Versions
<1>4. ~(v < version)
  BY <1>1, <1>2, <1>3 DEF RuleInv, VersionsRecorded, Versions
<1>5. v = version
  BY <1>1, <1>4 DEF Versions
<1>6. Proven(version, seen[d].logic)
  BY <1>1, <1>5
<1> QED BY <1>5, <1>6, CurrentLogic DEF v

\* The rule after a step: as it was, or one version later.
LEMMA RuleChanges ==
  ASSUME RuleInv, [Next]_vars
  PROVE  \/ UNCHANGED <<version, logic, history>>
         \/ /\ version' = version + 1 /\ version' \in Versions /\ logic' \in AllLogics
            /\ history' = [v \in Versions |-> CASE v = version + 1 -> logic'
                                                [] v = version -> logic
                                                [] OTHER -> history[v]]
<1> USE DEF rule, store, local
<1>1. CASE UNCHANGED vars
  BY <1>1 DEF vars
<1>2. CASE \E r \in Requests : Begin(r) \/ Handle(r) \/ Raise(r)
  BY <1>2 DEF Begin, Handle, Raise, Evaluate, Look, Insert, Complete, RecordFailure, AuditFailure
<1>3. CASE \E d \in Editors : ReadRule(d)
  BY <1>3 DEF ReadRule
<1>4. CASE (\E e \in Events : Ingest(e)) \/ SetEnabled \/ Crash
  BY <1>4 DEF Ingest, SetEnabled, Crash
<1>5. ASSUME NEW d \in Editors, CommitUpdate(d)
      PROVE  \/ UNCHANGED <<version, logic, history>>
             \/ /\ version' = version + 1 /\ version' \in Versions /\ logic' \in AllLogics
                /\ history' = [v \in Versions |-> CASE v = version + 1 -> logic'
                                                    [] v = version -> logic
                                                    [] OTHER -> history[v]]
  <2>1. CASE ~VersionFree(seen[d].version + 1)
    BY <1>5, <2>1 DEF CommitUpdate
  <2>2. CASE VersionFree(seen[d].version + 1)
    <3>1. /\ seen[d].version = version /\ seen[d].logic = logic /\ version < MaxVersion
      BY <1>5, <2>2, EditOfTheCurrent DEF CommitUpdate
    <3>2. /\ version' = version + 1 /\ logic' \in AllLogics
          /\ history' = Recorded(seen[d], logic')
      BY <1>5, <2>2, <3>1 DEF CommitUpdate, AllLogics
    <3>3. version' \in Versions /\ version \in Nat
      BY <3>1, <3>2, NatAssumption DEF RuleInv, Versions
    <3>4. history[version] \in {None, logic}
      BY DEF RuleInv, VersionsRecorded
    <3>5. ASSUME NEW v \in Versions
          PROVE  (CASE v = seen[d].version + 1 -> logic'
                    [] v = seen[d].version /\ history[v] = None -> seen[d].logic
                    [] OTHER -> history[v])
                 = (CASE v = version + 1 -> logic'
                      [] v = version -> logic
                      [] OTHER -> history[v])
      <4>1. CASE v = version + 1
        BY <3>1, <4>1
      <4>2. CASE v = version
        <5>1. v # version + 1
          BY <3>3, <4>2
        <5> QED BY <3>1, <3>4, <4>2, <5>1
      <4>3. CASE v # version /\ v # version + 1
        BY <3>1, <4>3
      <4> QED BY <4>1, <4>2, <4>3
    <3> QED BY <3>2, <3>3, <3>5 DEF Recorded
  <2> QED BY <2>1, <2>2
<1> QED BY <1>1, <1>2, <1>3, <1>4, <1>5 DEF Next

Edited ==
  /\ version' = version + 1 /\ version' \in Versions /\ logic' \in AllLogics
  /\ history' = [v \in Versions |-> CASE v = version + 1 -> logic'
                                      [] v = version -> logic
                                      [] OTHER -> history[v]]

\* What an edit leaves in the version table.
LEMMA EditedHistory ==
  ASSUME RuleInv, Edited
  PROVE  /\ history' \in [Versions -> AllLogics \cup {None}]
         /\ history'[version] = logic /\ history'[version'] = logic'
         /\ \A v \in Versions : v < version \/ v > version' => history'[v] = history[v]
         /\ version \in Nat /\ version' \in Versions /\ version < version'
<1>1. version \in Nat /\ version \in Versions /\ Versions \subseteq Nat
  BY NatAssumption DEF RuleInv, Versions
<1>2. version' = version + 1 /\ version' \in Versions /\ version < version'
      /\ version # version + 1
  BY <1>1 DEF Edited
<1>3. /\ history'[version] = logic /\ history'[version'] = logic'
  BY <1>1, <1>2 DEF Edited
<1>4. ASSUME NEW v \in Versions, v < version \/ v > version'
      PROVE  history'[v] = history[v]
  <2>1. v # version /\ v # version + 1
    BY <1>1, <1>2, <1>4
  <2> QED BY <2>1 DEF Edited
<1>5. history' \in [Versions -> AllLogics \cup {None}]
  BY DEF RuleInv, Edited
<1> QED BY <1>1, <1>2, <1>3, <1>4, <1>5

\* The same after the step.
ProvenNext(v, l) ==
  /\ v \in Versions /\ v <= version' /\ l \in AllLogics
  /\ history'[v] = l \/ (history'[v] = None /\ v = version' /\ l = logic')

\* What was proven of a version stays proven.
LEMMA ProvenStays ==
  ASSUME RuleInv, [Next]_vars, NEW v, NEW l, Proven(v, l)
  PROVE  ProvenNext(v, l)
<1>1. CASE UNCHANGED <<version, logic, history>>
  BY <1>1 DEF Proven, ProvenNext
<1>2. CASE Edited
  <2>1. v \in Versions /\ v <= version /\ l \in AllLogics /\ v \in Nat /\ version \in Nat
        /\ version < version' /\ version' \in Nat
    BY <1>2, EditedHistory, NatAssumption DEF Proven, Versions
  <2>2. v <= version'
    BY <2>1
  <2>3. history'[v] = l
    <3>1. CASE v = version
      BY <1>2, <3>1, CurrentLogic, EditedHistory
    <3>2. CASE v < version
      BY <1>2, <2>1, <3>2, EditedHistory DEF Proven
    <3> QED BY <2>1, <3>1, <3>2
  <2> QED BY <2>1, <2>2, <2>3 DEF ProvenNext
<1> QED BY <1>1, <1>2, RuleChanges DEF Edited

\* The logic of the rule is proven of its version.
LEMMA CurrentIsProven ==
  ASSUME RuleInv
  PROVE  Proven(version, logic) /\ [version |-> version, logic |-> logic] \in RuleReads
BY NatAssumption DEF RuleInv, VersionsRecorded, Proven, RuleReads, Versions

\* What an editor has read after a step.
LEMMA SeenChanges ==
  ASSUME RuleInv, [Next]_vars
  PROVE  /\ DOMAIN seen' = Editors
         /\ \A d \in Editors : \/ seen'[d] \in {seen[d], None}
                               \/ seen'[d] = [version |-> version, logic |-> logic]
<1> USE DEF rule, store, local
<1>1. DOMAIN seen = Editors
  BY DEF RuleInv
<1>2. CASE UNCHANGED seen
  BY <1>1, <1>2
<1>3. CASE Crash
  BY <1>3 DEF Crash
<1>4. ASSUME NEW d \in Editors, ReadRule(d) \/ CommitUpdate(d)
      PROVE  seen' = [seen EXCEPT ![d] = None]
             \/ seen' = [seen EXCEPT ![d] = [version |-> version, logic |-> logic]]
  BY <1>4 DEF ReadRule, CommitUpdate
<1>5. UNCHANGED seen \/ Crash \/ \E d \in Editors : ReadRule(d) \/ CommitUpdate(d)
  BY DEF Next, vars, Begin, Handle, Raise, Evaluate, Look, Insert, Complete, RecordFailure,
         AuditFailure, Ingest, SetEnabled
<1>6. CASE \E d \in Editors : ReadRule(d) \/ CommitUpdate(d)
  BY <1>1, <1>4, <1>6
<1> QED BY <1>2, <1>3, <1>5, <1>6

\* Edits, and everything else, keep the versions of the rule right.
LEMMA RuleStep == ASSUME RuleInv, [Next]_vars PROVE RuleInv'
<1>1. \/ UNCHANGED <<version, logic, history>>
      \/ Edited
  BY RuleChanges DEF Edited
<1>2. /\ version' \in Versions /\ logic' \in AllLogics
      /\ history' \in [Versions -> AllLogics \cup {None}]
  BY <1>1, EditedHistory DEF RuleInv, Edited
<1>3. VersionsRecorded'
  <2>1. CASE UNCHANGED <<version, logic, history>>
    BY <2>1 DEF RuleInv, VersionsRecorded
  <2>2. CASE Edited
    <3>1. version \in Nat /\ version' = version + 1 /\ Versions \subseteq Nat
      BY <2>2, EditedHistory DEF Edited, Versions
    <3>2. logic \in AllLogics /\ logic' \in AllLogics /\ None \notin AllLogics
      BY <2>2, LogicAssumption DEF RuleInv, Edited, AllLogics
    <3>3. ASSUME NEW v \in Versions
          PROVE  (v < version' => history'[v] # None) /\ (v > version' => history'[v] = None)
      <4>0. v \in Nat /\ (v < version => history[v] # None) /\ (v > version => history[v] = None)
        BY DEF RuleInv, VersionsRecorded, Versions
      <4>1. CASE v < version
        <5>1. history'[v] = history[v] /\ ~(v > version')
          BY <2>2, <3>1, <4>0, <4>1, EditedHistory
        <5> QED BY <4>0, <4>1, <5>1
      <4>2. CASE v = version
        <5>1. history'[v] = logic /\ ~(v > version')
          BY <2>2, <3>1, <4>0, <4>2, EditedHistory
        <5> QED BY <3>2, <5>1
      <4>3. CASE v = version'
        <5>1. ~(v < version') /\ ~(v > version')
          BY <3>1, <4>0, <4>3
        <5> QED BY <5>1
      <4>4. CASE v > version'
        <5>1. history'[v] = history[v] /\ ~(v < version') /\ v > version
          BY <2>2, <3>1, <4>0, <4>4, EditedHistory
        <5> QED BY <4>0, <5>1
      <4>5. v < version \/ v = version \/ v = version' \/ v > version'
        BY <3>1, <4>0
      <4> QED BY <4>1, <4>2, <4>3, <4>4, <4>5
    <3>4. history'[version'] = logic'
      BY <2>2, EditedHistory
    <3> QED BY <3>2, <3>3, <3>4 DEF VersionsRecorded
  <2> QED BY <1>1, <2>1, <2>2
<1>4. seen' \in [Editors -> RuleReads \cup {None}]
  <2>1. \A d \in Editors : seen'[d] \in RuleReads \cup {None}
    BY SeenChanges, CurrentIsProven DEF RuleInv
  <2>2. seen' = [d \in Editors |-> seen'[d]]
    <3>1. seen = [d \in Editors |-> seen[d]]
      BY DEF RuleInv
    <3> USE DEF rule, store, local
    <3>2. CASE UNCHANGED seen
      BY <3>1, <3>2
    <3>3. CASE \E d \in Editors : ReadRule(d) \/ CommitUpdate(d)
      BY <3>1, <3>3 DEF ReadRule, CommitUpdate
    <3>4. CASE Crash
      BY <3>4 DEF Crash
    <3> QED BY <3>2, <3>3, <3>4
         DEF Next, vars, Begin, Handle, Raise, Evaluate, Look, Insert, Complete, RecordFailure,
             AuditFailure, Ingest, SetEnabled
  <2> QED BY <2>1, <2>2
<1>5. ASSUME NEW d \in Editors, seen'[d] # None
      PROVE  ProvenNext(seen'[d].version, seen'[d].logic)
  <2>1. CASE seen'[d] = seen[d]
    BY <1>5, <2>1, ProvenStays DEF RuleInv
  <2>2. CASE seen'[d] = [version |-> version, logic |-> logic]
    BY <2>2, ProvenStays, CurrentIsProven
  <2> QED BY <1>5, <2>1, <2>2, SeenChanges
<1>6. \A d \in Editors : seen'[d] # None => Proven(seen[d].version, seen[d].logic)'
  BY <1>5 DEF Proven, ProvenNext
<1> QED BY <1>2, <1>3, <1>4, <1>6 DEF RuleInv
-----------------------------------------------------------------------------
Findings == [says : (Conditions \cup Groupings) \X Nat, evidence : (SUBSET Events) \ {{}}]

AlertRows == [fingerprint : {0} \X Versions \X Findings, finding : Findings, run : Requests,
              version : Versions, snapshot : AllLogics]

Places == {"idle", "evaluate", "look", "insert", "failed_value", "failed_other", "audit", "done"}

Types ==
  /\ events \subseteq Events
  /\ runs \in [Requests -> {"none", "running", "completed", "failed"}]
  /\ ranAs \in [Requests -> Nat]
  /\ created = [r \in Requests |-> created[r]]
  /\ pc \in [Requests -> Places]
  /\ parsed \in [Requests -> Logics \cup {None}]
  /\ window \in [Requests -> Nat \X Nat]
  /\ cand \in [Requests -> SUBSET Events]
  /\ todo \in [Requests -> SUBSET Findings]
  /\ mine \in [Requests -> RuleReads \cup {Unread}]
  /\ added \in [Requests -> SUBSET AlertRows]
  /\ alerts \subseteq AlertRows
  /\ IsFiniteSet({r \in Requests : pc[r] # "idle"})

\* What a run holds where it is.
Stage(r) ==
  /\ pc[r] \in {"idle", "evaluate"} => mine[r] = Unread
  /\ pc[r] \in {"idle", "evaluate", "audit", "done"} => added[r] = {}
  /\ pc[r] = "idle" => runs[r] = "none"
  /\ pc[r] \in {"evaluate", "look", "insert", "failed_value", "failed_other"} => runs[r] = "running"
  /\ runs[r] = "completed" => pc[r] = "done"
  /\ runs[r] # "none" => parsed[r] \in Logics
  /\ pc[r] = "insert" => mine[r] # Unread /\ todo[r] # {}

\* What it has flushed is built from the rule it has loaded.
Flushed(r) ==
  \A a \in added[r] : mine[r] # Unread /\ a = NewAlert(r, mine[r], a.finding)

Found(r) == Firings(parsed[r], cand[r], window[r])

\* It stores in the order of its keys, and what it has dealt with has an alert.
Progress(r) ==
  pc[r] \in {"look", "insert"} =>
    /\ todo[r] \subseteq Found(r)
    /\ \A a \in added[r], f \in todo[r] : Before(Key(r, a.finding), Key(r, f))
    /\ \A f \in Found(r) \ todo[r] :
         /\ mine[r] # Unread
         /\ \E a \in alerts \cup added[r] : a.finding = f /\ a.version = mine[r].version

\* What logic l says of the evidence of a finding.
SaidBy(l, f) ==
  IF l.rule_type = "single" THEN f.says = <<l.condition, 0>>
  ELSE \A e \in f.evidence : f.says = <<l.group_by, GroupOf[l.group_by][e]>>

\* Its alerts say what the logic it evaluated says.
Saying(r) == \A a \in alerts \cup added[r] : a.run = r => SaidBy(parsed[r], a.finding)

\* The version v with logic l is one that run r may store under.
Explains(r, v, l) ==
  /\ Proven(v, l) /\ v >= ranAs[r]
  /\ v = ranAs[r] => l = parsed[r]

Explained(r) ==
  /\ runs[r] # "none" => Proven(ranAs[r], parsed[r])
  /\ mine[r] # Unread => runs[r] # "none" /\ Explains(r, mine[r].version, mine[r].logic)
  /\ \A a \in alerts : a.run = r => Explains(r, a.version, a.snapshot)

OwnAlerts(r) == {a \in alerts : a.run = r}

Result(r) ==
  IF runs[r] = "completed"
  THEN /\ created[r] = Cardinality(OwnAlerts(r))
       /\ \A f \in Found(r) : \E a \in alerts : a.finding = f /\ a.version = mine[r].version
  ELSE OwnAlerts(r) = {}

RunInv(r) == Stage(r) /\ Flushed(r) /\ Progress(r) /\ Explained(r) /\ Saying(r) /\ Result(r)

SameFinding(a, b) == a.finding = b.finding /\ a.version = b.version

\* No two rows, committed or flushed, are of one finding.
Unique ==
  /\ \A a \in alerts : a.fingerprint = Fingerprint(a.run, a.version, a.finding)
  /\ \A a, b \in alerts : SameFinding(a, b) => a = b
  /\ \A r \in Requests : \A a \in added[r], b \in alerts : ~SameFinding(a, b)
  /\ \A q, r \in Requests : q # r => \A a \in added[q], b \in added[r] : ~SameFinding(a, b)

IInv == RuleInv /\ Types /\ Unique /\ \A r \in Requests : RunInv(r)
-----------------------------------------------------------------------------
\* Before any request nothing is flushed, stored or running.
LEMMA RunInit == Init => Types /\ Unique /\ \A r \in Requests : RunInv(r)
<1> SUFFICES ASSUME Init PROVE Types /\ Unique /\ \A r \in Requests : RunInv(r)
  OBVIOUS
<1>1. Types
  <2>1. {r \in Requests : pc[r] # "idle"} = {}
    BY DEF Init
  <2>2. IsFiniteSet({r \in Requests : pc[r] # "idle"})
    BY <2>1, FS_EmptySet
  <2> QED BY <2>2 DEF Init, Types, Places
<1>2. Unique
  BY DEF Init, Unique
<1>3. ASSUME NEW r \in Requests PROVE RunInv(r)
  <2>1. /\ pc[r] = "idle" /\ runs[r] = "none" /\ mine[r] = Unread /\ added[r] = {} /\ alerts = {}
    BY DEF Init
  <2> QED BY <2>1 DEF RunInv, Stage, Flushed, Progress, Explained, Saying, Result, OwnAlerts
<1> QED BY <1>1, <1>2, <1>3

Untouched(q) ==
  /\ pc'[q] = pc[q] /\ parsed'[q] = parsed[q] /\ cand'[q] = cand[q] /\ todo'[q] = todo[q]
  /\ window'[q] = window[q]
  /\ mine'[q] = mine[q] /\ added'[q] = added[q]
  /\ runs'[q] = runs[q] /\ ranAs'[q] = ranAs[q] /\ created'[q] = created[q]

\* The step of one run touches no other.
LEMMA OthersUntouched ==
  ASSUME Types, NEW r \in Requests, Begin(r) \/ Handle(r) \/ Raise(r),
         NEW q \in Requests, q # r
  PROVE  Untouched(q)
<1> USE DEF rule, store, local, Types, Untouched, Finish, Goto
<1>1. CASE Begin(r)
  BY <1>1 DEF Begin
<1>2. CASE Handle(r)
  <2>1. CASE Evaluate(r) \/ Look(r) \/ Insert(r)
    BY <2>1 DEF Evaluate, Look, Insert
  <2>2. CASE Complete(r) \/ RecordFailure(r) \/ AuditFailure(r)
    BY <2>2 DEF Complete, RecordFailure, AuditFailure
  <2> QED BY <1>2, <2>1, <2>2 DEF Handle
<1>3. CASE Raise(r)
  BY <1>3 DEF Raise
<1> QED BY <1>1, <1>2, <1>3

\* What was an explanation stays one.
LEMMA ExplainsStays ==
  ASSUME RuleInv, [Next]_vars, NEW q \in Requests, NEW v, NEW l, Explains(q, v, l),
         ranAs'[q] = ranAs[q], parsed'[q] = parsed[q]
  PROVE  ProvenNext(v, l) /\ v >= ranAs'[q] /\ (v = ranAs'[q] => l = parsed'[q])
BY ProvenStays DEF Explains

\* A run that a step does not touch keeps its invariant.
LEMMA OthersKeep ==
  ASSUME RuleInv, [Next]_vars, NEW q \in Requests, RunInv(q), Untouched(q),
         alerts \subseteq alerts', \A a \in alerts' \ alerts : a.run # q
  PROVE  RunInv(q)'
<1>1. Stage(q)' /\ Flushed(q)'
  BY DEF RunInv, Untouched, Stage, Flushed, NewAlert, Fingerprint
<1>2. Progress(q)' /\ Saying(q)'
  <2>1. Found(q)' = Found(q) /\ \A f : Key(q, f)' = Key(q, f)
    BY DEF Untouched, Found, Key
  <2> QED BY <2>1 DEF RunInv, Untouched, Progress, Saying
<1>3. OwnAlerts(q)' = OwnAlerts(q)
  BY DEF OwnAlerts
<1>4. Result(q)'
  <2>1. Found(q)' = Found(q)
    BY DEF Untouched, Found
  <2> QED BY <1>3, <2>1 DEF RunInv, Untouched, Result
<1>5. Explained(q)'
  <2>0. /\ runs'[q] = runs[q] /\ ranAs'[q] = ranAs[q] /\ parsed'[q] = parsed[q] /\ mine'[q] = mine[q]
    BY DEF Untouched
  <2>1. runs[q] # "none" => ProvenNext(ranAs'[q], parsed'[q])
    BY <2>0, ProvenStays DEF RunInv, Explained
  <2>2. mine[q] # Unread =>
           /\ runs[q] # "none" /\ ProvenNext(mine'[q].version, mine'[q].logic)
           /\ mine'[q].version >= ranAs'[q]
           /\ mine'[q].version = ranAs'[q] => mine'[q].logic = parsed'[q]
    BY <2>0, ExplainsStays DEF RunInv, Explained
  <2>3. \A a \in alerts : a.run = q =>
           /\ ProvenNext(a.version, a.snapshot) /\ a.version >= ranAs'[q]
           /\ a.version = ranAs'[q] => a.snapshot = parsed'[q]
    BY <2>0, ExplainsStays DEF RunInv, Explained
  <2> QED BY <2>0, <2>1, <2>2, <2>3 DEF Explained, Explains, Proven, ProvenNext
<1> QED BY <1>1, <1>2, <1>4, <1>5 DEF RunInv
-----------------------------------------------------------------------------
\* A request that starts a run reads the rule it parses and records its version.
LEMMA BeginKeeps ==
  ASSUME RuleInv, Types, NEW r \in Requests, RunInv(r), Begin(r)
  PROVE  RunInv(r)' /\ UNCHANGED <<added, alerts>>
<1> USE DEF local, rule
<1>1. /\ pc[r] = "idle" /\ runs[r] = "none" /\ mine[r] = Unread /\ added[r] = {}
      /\ OwnAlerts(r) = {}
  BY DEF Begin, RunInv, Stage, Result
<1>2. /\ UNCHANGED <<version, logic, history, alerts, mine, added, todo>>
      /\ OwnAlerts(r)' = {}
  BY <1>1 DEF Begin, OwnAlerts
<1>3. CASE pc'[r] = "done" /\ UNCHANGED <<runs, ranAs, parsed>>
  BY <1>1, <1>2, <1>3 DEF RunInv, Stage, Flushed, Progress, Explained, Saying, Result, OwnAlerts
<1>4. CASE /\ logic # BadLogic
           /\ pc'[r] = "evaluate" /\ runs'[r] = "running" /\ ranAs'[r] = version /\ parsed'[r] = logic
  <2>1. Proven(version, logic) /\ logic \in Logics
    BY <1>4, CurrentIsProven DEF RuleInv, AllLogics
  <2>2. Proven(ranAs[r], parsed[r])'
    BY <1>2, <1>4, <2>1 DEF Proven
  <2> QED BY <1>1, <1>2, <1>4, <2>1, <2>2
          DEF RunInv, Stage, Flushed, Progress, Explained, Saying, Result, OwnAlerts
<1>5. \/ pc'[r] = "done" /\ UNCHANGED <<runs, ranAs, parsed>>
      \/ /\ logic # BadLogic
         /\ pc'[r] = "evaluate" /\ runs'[r] = "running" /\ ranAs'[r] = version /\ parsed'[r] = logic
  BY DEF Begin, Finish, Goto, Types
<1> QED BY <1>2, <1>3, <1>4, <1>5

\* The evaluator hands over the firings among the candidates.
LEMMA EvaluateKeeps ==
  ASSUME RuleInv, Types, NEW r \in Requests, RunInv(r), Evaluate(r)
  PROVE  RunInv(r)' /\ UNCHANGED <<added, alerts>>
<1> USE DEF local, rule, store
<1>1. /\ pc[r] = "evaluate" /\ mine[r] = Unread /\ added[r] = {} /\ runs[r] = "running"
      /\ parsed[r] \in Logics
  BY DEF Evaluate, RunInv, Stage
<1>2. /\ pc'[r] = "look" /\ todo'[r] = Found(r)
      /\ UNCHANGED <<version, logic, history, alerts, mine, added, runs, ranAs, created, parsed, window, cand>>
  BY DEF Evaluate, Goto, Types, Found
<1>3. Stage(r)' /\ Flushed(r)' /\ Progress(r)'
  BY <1>1, <1>2 DEF Stage, Flushed, Progress, Found
<1>4. Explained(r)' /\ Saying(r)' /\ Result(r)'
  BY <1>1, <1>2 DEF RunInv, Explained, Explains, Proven, Saying, Result, OwnAlerts, Found
<1> QED BY <1>2, <1>3, <1>4 DEF RunInv

\* An exception leaves what was flushed to the handler.
LEMMA RaiseKeeps ==
  ASSUME RuleInv, Types, NEW r \in Requests, RunInv(r), Raise(r)
  PROVE  RunInv(r)' /\ UNCHANGED <<added, alerts>>
<1> USE DEF local, rule, store
<1>1. /\ pc[r] \in {"evaluate", "look", "insert"} /\ runs[r] = "running" /\ parsed[r] \in Logics
  BY DEF Raise, RunInv, Stage
<1>2. /\ pc'[r] \in {"failed_value", "failed_other"}
      /\ UNCHANGED <<version, logic, history, alerts, todo, mine, added, runs, ranAs, created, parsed, window, cand>>
  BY DEF Raise, Goto, Types
<1>3. Stage(r)' /\ Flushed(r)' /\ Progress(r)'
  BY <1>1, <1>2 DEF RunInv, Stage, Flushed, Progress, NewAlert, Fingerprint
<1>4. Explained(r)' /\ Saying(r)' /\ Result(r)'
  BY <1>1, <1>2 DEF RunInv, Explained, Explains, Proven, Saying, Result, OwnAlerts, Found
<1> QED BY <1>2, <1>3, <1>4 DEF RunInv

\* The audit row of a rejected run touches none of its rows.
LEMMA AuditFailureKeeps ==
  ASSUME RuleInv, Types, NEW r \in Requests, RunInv(r), AuditFailure(r)
  PROVE  RunInv(r)' /\ UNCHANGED <<added, alerts>>
<1> USE DEF local, rule
<1>1. pc[r] = "audit" /\ added[r] = {}
  BY DEF AuditFailure, RunInv, Stage
<1>2. /\ pc'[r] = "done"
      /\ UNCHANGED <<version, logic, history, alerts, todo, mine, added, runs, ranAs, created, parsed, window, cand>>
  BY DEF AuditFailure, Finish, Types
<1>3. Stage(r)' /\ Flushed(r)' /\ Progress(r)'
  BY <1>1, <1>2 DEF RunInv, Stage, Flushed, Progress, NewAlert, Fingerprint
<1>4. Explained(r)' /\ Saying(r)' /\ Result(r)'
  BY <1>1, <1>2 DEF RunInv, Explained, Explains, Proven, Saying, Result, OwnAlerts, Found
<1> QED BY <1>2, <1>3, <1>4 DEF RunInv

\* The handler drops what was flushed, so the failed run has no alerts.
LEMMA RecordFailureKeeps ==
  ASSUME RuleInv, Types, NEW r \in Requests, RunInv(r), RecordFailure(r)
  PROVE  RunInv(r)' /\ UNCHANGED alerts /\ added' = [added EXCEPT ![r] = {}]
<1> USE DEF rule
<1>1. pc[r] \in {"failed_value", "failed_other"} /\ runs[r] = "running"
  BY DEF RecordFailure, RunInv, Stage
<1>2. /\ pc'[r] \in {"audit", "done"} /\ added'[r] = {} /\ runs'[r] = "failed"
      /\ UNCHANGED <<version, logic, history, todo, mine, ranAs, created, parsed, window, cand>>
      /\ alerts' = alerts /\ added' = [added EXCEPT ![r] = {}]
  BY DEF RecordFailure, Finish, Goto, Types, Kept
<1>3. Stage(r)' /\ Flushed(r)' /\ Progress(r)'
  BY <1>1, <1>2 DEF RunInv, Stage, Flushed, Progress
<1>4. Explained(r)' /\ Saying(r)' /\ Result(r)'
  BY <1>1, <1>2 DEF RunInv, Explained, Explains, Proven, Saying, Result, OwnAlerts, Found
<1> QED BY <1>2, <1>3, <1>4 DEF RunInv
-----------------------------------------------------------------------------
\* A set of naturals has a least member.
LEMMA Least ==
  ASSUME NEW S, S \subseteq Nat, S # {}
  PROVE  \E x \in S : \A y \in S : x <= y
<1> DEFINE R == OpToRel(<, Nat)
<1>1. IsWellFoundedOn(R, Nat)
  BY NatLessThanWellFounded
<1>2. \A x, y \in Nat : <<x, y>> \in R <=> x < y
  BY DEF OpToRel
<1> HIDE DEF R
<1>3. PICK x \in S : \A y \in S : ~(<<y, x>> \in R)
  BY <1>1, WFMin
<1>4. ASSUME NEW y \in S PROVE x <= y
  <2>1. x \in Nat /\ y \in Nat
    OBVIOUS
  <2>2. ~(y < x)
    BY <1>2, <1>3, <2>1
  <2> QED BY <2>1, <2>2
<1> QED BY <1>3, <1>4

\* The firing that is stored next is one that is left, and the first one.
LEMMA NextIsFirst ==
  ASSUME Types, NEW r \in Requests, NEW f \in NextOf(r)
  PROVE  /\ f \in todo[r] /\ f \in Findings
         /\ \A g \in todo[r] : g # f => Before(Key(r, f), Key(r, g))
BY DEF NextOf, Types

\* A bucket of a threshold rule has the event it is built around.
LEMMA FiringsAre ==
  ASSUME NEW l \in Logics, NEW C \in SUBSET Events, NEW w, NEW f \in Firings(l, C, w)
  PROVE  f \in Findings /\ SaidBy(l, f)
<1>1. CASE l.rule_type = "single"
  <2>1. l.condition \in Conditions
    BY <1>1, LogicAssumption DEF Single, Threshold
  <2>2. PICK e \in C : f = [says |-> <<l.condition, 0>>, evidence |-> {e}]
    BY <1>1 DEF Firings, SingleFirings
  <2> QED BY <1>1, <2>1, <2>2 DEF Findings, SaidBy
<1>2. CASE l.rule_type # "single"
  <2>1. l \in Threshold /\ l.condition \in Conditions /\ l.group_by \in Groupings
    BY <1>2, LogicAssumption DEF Single, Threshold
  <2> DEFINE place(e) == GroupOf[l.group_by][e]
             bucket(e) == {x \in Grouped(l, C) :
               /\ BucketStart(w[1], l.duration, Stamp[x]) = BucketStart(w[1], l.duration, Stamp[e])
               /\ place(x) = place(e)}
  <2>2. PICK e \in Grouped(l, C) : f = [says |-> <<l.group_by, place(e)>>, evidence |-> bucket(e)]
    BY <1>2 DEF Firings, ThresholdFirings
  <2>3. Grouped(l, C) \subseteq Events /\ \A x \in Grouped(l, C) : place(x) \in Nat
    BY <2>1, LogicAssumption DEF Grouped
  <2>4. e \in bucket(e) /\ bucket(e) \subseteq Events /\ \A x \in bucket(e) : place(x) = place(e)
    BY <2>2, <2>3
  <2>5. f \in Findings
    <3> HIDE DEF bucket, place
    <3> QED BY <2>1, <2>2, <2>3, <2>4 DEF Findings
  <2>6. SaidBy(l, f)
    BY <1>2, <2>2, <2>4 DEF SaidBy
  <2> QED BY <2>5, <2>6
<1> QED BY <1>1, <1>2

\* So what a run has left to store is of its logic.
LEMMA TodoIs ==
  ASSUME Types, NEW r \in Requests, RunInv(r), pc[r] \in {"look", "insert"}, NEW f \in todo[r]
  PROVE  /\ parsed[r] \in Logics /\ f \in Found(r) /\ f \in Findings /\ SaidBy(parsed[r], f)
<1>1. parsed[r] \in Logics
  BY DEF RunInv, Stage
<1>2. f \in Found(r)
  BY DEF RunInv, Progress
<1>3. cand[r] \in SUBSET Events
  BY DEF Types
<1> QED BY <1>1, <1>2, <1>3, FiringsAre DEF Found

\* A fingerprint says the version and the finding.
LEMMA FingerprintOf ==
  ASSUME Types, Unique, NEW r \in Requests, Flushed(r)
  PROVE  \A a \in alerts \cup added[r] : /\ a.fingerprint = <<0, a.version, a.finding>>
                                         /\ a \in AlertRows
BY DEF Types, Unique, Flushed, NewAlert, Fingerprint

\* What a run loads is a version it may store under.
LEMMA LoadedExplains ==
  ASSUME RuleInv, Types, NEW r \in Requests, RunInv(r), runs[r] # "none"
  PROVE  /\ Explains(r, Loaded(r).version, Loaded(r).logic)
         /\ Loaded(r) \in RuleReads /\ Loaded(r) # Unread
<1>1. \A m \in RuleReads : m # Unread
  BY NatAssumption DEF RuleReads, Versions, Unread
<1>2. CASE mine[r] # Unread
  BY <1>2 DEF Loaded, RunInv, Explained, Types
<1>3. CASE mine[r] = Unread
  <2>1. Loaded(r) = [version |-> version, logic |-> logic]
    BY <1>3 DEF Loaded
  <2>2. Loaded(r).version = version /\ Loaded(r).logic = logic
    BY <2>1
  <2>3. Proven(version, logic) /\ Loaded(r) \in RuleReads
    BY <2>1, CurrentIsProven
  <2>4. Proven(ranAs[r], parsed[r])
    BY DEF RunInv, Explained
  <2>5. version >= ranAs[r]
    BY <2>3, <2>4, NatAssumption DEF Proven, Versions
  <2>6. version = ranAs[r] => logic = parsed[r]
    BY <2>4, CurrentLogic
  <2> QED BY <1>1, <2>2, <2>3, <2>5, <2>6 DEF Explains
<1> QED BY <1>2, <1>3

\* A firing whose fingerprint is found is dealt with: the alert found is of that finding
\* and of the version loaded.
LEMMA LookKeeps ==
  ASSUME RuleInv, Types, Unique, NEW r \in Requests, RunInv(r), Look(r)
  PROVE  RunInv(r)' /\ UNCHANGED <<added, alerts>>
<1> USE DEF local, rule, store
<1>1. /\ pc[r] = "look" /\ runs[r] = "running" /\ parsed[r] \in Logics
      /\ pc'[r] \in {"look", "insert"} /\ mine'[r] = Loaded(r)
      /\ UNCHANGED <<version, logic, history, alerts, added, runs, ranAs, created, parsed, window, cand>>
  BY DEF Look, Goto, Types, RunInv, Stage
<1>2. PICK e \in NextOf(r) :
         \/ /\ Has(alerts \cup added[r], Fingerprint(r, Loaded(r).version, e))
            /\ pc'[r] = "look" /\ todo'[r] = todo[r] \ {e}
         \/ pc'[r] = "insert" /\ todo'[r] = todo[r]
  BY DEF Look, Goto, Types
<1>3. /\ Explains(r, Loaded(r).version, Loaded(r).logic)
      /\ Loaded(r) \in RuleReads /\ Loaded(r) # Unread
  BY <1>1, LoadedExplains
<1>4. mine[r] # Unread => mine'[r] = mine[r]
  BY <1>1 DEF Loaded
<1>5. e \in todo[r]
  BY NextIsFirst
<1>6. Stage(r)'
  BY <1>1, <1>2, <1>3, <1>5 DEF Stage
<1>7. Flushed(r)'
  BY <1>1, <1>4 DEF RunInv, Flushed, NewAlert, Fingerprint
<1>8. Progress(r)'
  <2>0. Found(r)' = Found(r) /\ \A f : Key(r, f)' = Key(r, f)
    BY <1>1 DEF Found, Key
  <2>1. todo'[r] \subseteq todo[r] /\ \A f \in todo[r] \ todo'[r] : f = e
    BY <1>2
  <2>2. /\ todo'[r] \subseteq Found(r)
        /\ \A a \in added[r], f \in todo'[r] : Before(Key(r, a.finding), Key(r, f))
    BY <1>1, <2>1 DEF RunInv, Progress
  <2>3. ASSUME NEW f \in Found(r) \ todo'[r]
        PROVE  \E a \in alerts \cup added[r] : a.finding = f /\ a.version = mine'[r].version
    <3>1. CASE f \in todo[r]
      <4>1. f = e /\ Has(alerts \cup added[r], Fingerprint(r, Loaded(r).version, e))
        BY <1>2, <2>1, <2>3, <3>1
      <4>2. PICK a \in alerts \cup added[r] : a.fingerprint = <<0, Loaded(r).version, e>>
        BY <4>1 DEF Has, Fingerprint
      <4>3. a.version = Loaded(r).version /\ a.finding = e
        BY <4>2, FingerprintOf DEF RunInv
      <4> QED BY <1>1, <4>1, <4>3
    <3>2. CASE f \notin todo[r]
      BY <1>1, <1>4, <2>3, <3>2 DEF RunInv, Progress
    <3> QED BY <3>1, <3>2
  <2> QED BY <1>1, <1>3, <2>0, <2>2, <2>3 DEF Progress
<1>9. Explained(r)' /\ Saying(r)' /\ Result(r)'
  <2>1. Explains(r, mine[r].version, mine[r].logic)'
    BY <1>1, <1>3 DEF Explains, Proven
  <2> QED BY <1>1, <2>1 DEF RunInv, Explained, Explains, Proven, Saying, Result, OwnAlerts, Found
<1> QED BY <1>1, <1>6, <1>7, <1>8, <1>9 DEF RunInv

\* A flushed alert is the first one left, and no other row has its fingerprint.
LEMMA InsertKeeps ==
  ASSUME RuleInv, Types, Unique, NEW r \in Requests, RunInv(r), Insert(r)
  PROVE  /\ RunInv(r)' /\ UNCHANGED alerts
         /\ \/ UNCHANGED added
            \/ \E e \in NextOf(r) :
                 /\ NewAlert(r, mine[r], e) \in AlertRows
                 /\ ~Has(alerts, <<0, mine[r].version, e>>)
                 /\ \A q \in Requests : q # r => ~Has(added[q], <<0, mine[r].version, e>>)
                 /\ added' = [added EXCEPT ![r] = @ \cup {NewAlert(r, mine[r], e)}]
<1> USE DEF local, rule, store
<1>1. /\ pc[r] = "insert" /\ runs[r] = "running" /\ parsed[r] \in Logics
      /\ mine[r] # Unread /\ mine[r] \in RuleReads
      /\ UNCHANGED <<version, logic, history, alerts, mine, runs, ranAs, created, parsed, window, cand>>
  BY DEF Insert, Types, RunInv, Stage
<1>2. CASE pc'[r] = "failed_other" /\ UNCHANGED <<added, todo>>
  <2>1. Stage(r)' /\ Flushed(r)' /\ Progress(r)'
    BY <1>1, <1>2 DEF RunInv, Stage, Flushed, Progress, NewAlert, Fingerprint
  <2>2. Explained(r)' /\ Saying(r)' /\ Result(r)'
    BY <1>1, <1>2 DEF RunInv, Explained, Explains, Proven, Saying, Result, OwnAlerts, Found
  <2> QED BY <1>1, <1>2, <2>1, <2>2 DEF RunInv
<1>3. ASSUME NEW e \in NextOf(r), pc'[r] = "look", todo'[r] = todo[r] \ {e},
             ~Has(alerts, NewAlert(r, mine[r], e).fingerprint),
             added' = [added EXCEPT ![r] = @ \cup {NewAlert(r, mine[r], e)}]
      PROVE  /\ RunInv(r)' /\ NewAlert(r, mine[r], e) \in AlertRows
             /\ ~Has(alerts, <<0, mine[r].version, e>>)
             /\ \A q \in Requests : q # r => ~Has(added[q], <<0, mine[r].version, e>>)
  <2> DEFINE a == NewAlert(r, mine[r], e)
  <2>1. /\ e \in todo[r] /\ e \in Findings /\ SaidBy(parsed[r], e)
        /\ \A f \in todo[r] : f # e => Before(Key(r, e), Key(r, f))
    BY <1>1, NextIsFirst, TodoIs
  <2>2. /\ a.finding = e /\ a.run = r /\ a.version = mine[r].version /\ a.fingerprint = <<0, mine[r].version, e>>
        /\ a \in AlertRows
    BY <1>1, <2>1 DEF NewAlert, Fingerprint, AlertRows, RuleReads
  <2>3. added'[r] = added[r] \cup {a}
    BY <1>3 DEF Types
  <2>4. \A q \in Requests : q # r => ~Has(added[q], <<0, mine[r].version, e>>)
    BY <1>1, <2>2 DEF Insert, WaitsFor
  <2>5. ~Has(alerts, <<0, mine[r].version, e>>)
    BY <1>3, <2>2
  <2>a. a = NewAlert(r, mine'[r], a.finding)
    BY <1>1, <2>2
  <2> HIDE DEF a
  <2>6. Stage(r)'
    BY <1>1, <1>3 DEF Stage
  <2>7. Flushed(r)'
    BY <1>1, <2>3, <2>a DEF RunInv, Flushed, NewAlert, Fingerprint
  <2>8. Progress(r)'
    <3>0. Found(r)' = Found(r) /\ \A f : Key(r, f)' = Key(r, f)
      BY <1>1 DEF Found, Key
    <3>1. /\ todo'[r] \subseteq Found(r)
          /\ \A b \in added'[r], f \in todo'[r] : Before(Key(r, b.finding), Key(r, f))
      BY <1>1, <1>3, <2>1, <2>2, <2>3 DEF RunInv, Progress
    <3>2. ASSUME NEW f \in Found(r) \ todo'[r]
          PROVE  \E b \in alerts \cup added'[r] : b.finding = f /\ b.version = mine[r].version
      <4>1. CASE f = e
        BY <2>2, <2>3, <4>1
      <4>2. CASE f # e
        BY <1>1, <1>3, <2>3, <3>2, <4>2 DEF RunInv, Progress
      <4> QED BY <4>1, <4>2
    <3> QED BY <1>1, <3>0, <3>1, <3>2 DEF Progress
  <2>9. Explained(r)' /\ Saying(r)' /\ Result(r)'
    BY <1>1, <2>1, <2>2, <2>3 DEF RunInv, Explained, Explains, Proven, Saying, Result, OwnAlerts, Found
  <2> QED BY <2>2, <2>4, <2>5, <2>6, <2>7, <2>8, <2>9 DEF RunInv, a
<1>4. \/ pc'[r] = "failed_other" /\ UNCHANGED <<added, todo>>
      \/ \E e \in NextOf(r) :
           /\ pc'[r] = "look" /\ todo'[r] = todo[r] \ {e}
           /\ ~Has(alerts, NewAlert(r, mine[r], e).fingerprint)
           /\ added' = [added EXCEPT ![r] = @ \cup {NewAlert(r, mine[r], e)}]
  BY DEF Insert, Goto, Types
<1> QED BY <1>1, <1>2, <1>3, <1>4

\* With nothing left to store, what was flushed becomes the alerts of the run.
LEMMA CompleteKeeps ==
  ASSUME RuleInv, Types, NEW r \in Requests, RunInv(r), Complete(r)
  PROVE  /\ RunInv(r)' /\ alerts' = alerts \cup added[r] /\ added' = [added EXCEPT ![r] = {}]
         /\ \A a \in added[r] : a.run = r
<1> USE DEF rule
<1>1. /\ pc[r] = "look" /\ todo[r] = {} /\ runs[r] = "running" /\ parsed[r] \in Logics
      /\ pc'[r] = "done" /\ runs'[r] = "completed" /\ created'[r] = Cardinality(added[r])
      /\ added'[r] = {}
      /\ alerts' = alerts \cup added[r] /\ added' = [added EXCEPT ![r] = {}]
      /\ UNCHANGED <<version, logic, history, mine, ranAs, parsed, window, cand>>
  BY DEF Complete, Finish, Types, RunInv, Stage
<1>2. \A a \in added[r] : /\ mine[r] # Unread /\ a.run = r
                          /\ a.version = mine[r].version /\ a.snapshot = mine[r].logic
  BY DEF RunInv, Flushed, NewAlert
<1>3. OwnAlerts(r) = {}
  BY <1>1 DEF RunInv, Result
<1>4. OwnAlerts(r)' = added[r]
  BY <1>1, <1>2, <1>3 DEF OwnAlerts
<1>5. Stage(r)' /\ Flushed(r)' /\ Progress(r)'
  BY <1>1 DEF Stage, Flushed, Progress
<1>6. Explained(r)' /\ Saying(r)'
  BY <1>1, <1>2 DEF RunInv, Explained, Explains, Proven, Saying
<1>7. Result(r)'
  BY <1>1, <1>4 DEF RunInv, Progress, Result, Found
<1> QED BY <1>1, <1>2, <1>5, <1>6, <1>7 DEF RunInv
\* A restart loses what runs have flushed and nothing that was committed.
LEMMA CrashKeeps ==
  ASSUME RuleInv, Types, Unique, NEW r \in Requests, RunInv(r), Crash
  PROVE  RunInv(r)' /\ Unique'
<1> USE DEF rule, store
<1>1. /\ pc'[r] \in {pc[r], "done"} /\ (pc'[r] # "done" => pc'[r] = "idle")
      /\ \A q \in Requests : added'[q] = {}
      /\ UNCHANGED <<version, logic, history, alerts, todo, mine, runs, ranAs, created, parsed, window, cand>>
  BY DEF Crash, InFlight
<1>2. Stage(r)' /\ Flushed(r)' /\ Progress(r)'
  BY <1>1 DEF RunInv, Stage, Flushed, Progress
<1>3. Explained(r)' /\ Saying(r)' /\ Result(r)'
  BY <1>1 DEF RunInv, Explained, Explains, Proven, Saying, Result, OwnAlerts, Found
<1>4. Unique'
  BY <1>1 DEF Unique, Fingerprint, SameFinding
<1> QED BY <1>2, <1>3, <1>4 DEF RunInv
-----------------------------------------------------------------------------
\* Requests that have started stay finitely many.
LEMMA StartedFinite ==
  ASSUME Types, NEW r \in Requests, \A q \in Requests : q # r => pc'[q] = pc[q]
  PROVE  IsFiniteSet({q \in Requests : pc'[q] # "idle"})
<1>1. IsFiniteSet({q \in Requests : pc[q] # "idle"} \cup {r})
  BY FS_AddElement DEF Types
<1>2. {q \in Requests : pc'[q] # "idle"} \subseteq {q \in Requests : pc[q] # "idle"} \cup {r}
  OBVIOUS
<1> QED BY <1>1, <1>2, FS_Subset

\* Types after a step of a run.
LEMMA RunTypes ==
  ASSUME RuleInv, Types, Unique, NEW r \in Requests, RunInv(r), Begin(r) \/ Handle(r) \/ Raise(r)
  PROVE  Types'
<1>1. IsFiniteSet({q \in Requests : pc'[q] # "idle"})
  BY OthersUntouched, StartedFinite DEF Untouched
<1> USE DEF local, rule, Finish, Goto, Places
<1>2. CASE Begin(r)
  <2>1. logic # BadLogic => logic \in Logics
    BY DEF RuleInv, AllLogics
  <2>2. version \in Nat
    BY NatAssumption DEF RuleInv, Versions
  <2>3. \A w \in Windows : Candidates(w) \in SUBSET Events
    BY DEF Candidates, InWindow, Types
  <2>4. UNCHANGED <<events, created, alerts, todo, mine, added>>
    BY <1>2 DEF Begin
  <2>5. pc' \in [Requests -> Places]
    BY <1>2 DEF Begin, Types
  <2>a. \/ UNCHANGED <<runs, ranAs, parsed, window, cand>>
        \/ \E w \in Windows : /\ logic # BadLogic /\ parsed' = [parsed EXCEPT ![r] = logic]
                              /\ window' = [window EXCEPT ![r] = w]
                              /\ cand' = [cand EXCEPT ![r] = Candidates(w)]
                              /\ runs' = [runs EXCEPT ![r] = "running"]
                              /\ ranAs' = [ranAs EXCEPT ![r] = version]
    BY <1>2 DEF Begin
  <2>6. /\ runs' \in [Requests -> {"none", "running", "completed", "failed"}]
        /\ ranAs' \in [Requests -> Nat]
    BY <2>2, <2>a DEF Types
  <2>7. parsed' \in [Requests -> Logics \cup {None}]
    BY <2>1, <2>a DEF Types
  <2>b. cand' \in [Requests -> SUBSET Events]
    <3> HIDE DEF Finish, Goto, local, rule
    <3>1. ASSUME NEW C \in SUBSET Events, cand' = [cand EXCEPT ![r] = C]
          PROVE  cand' \in [Requests -> SUBSET Events]
      BY <3>1 DEF Types
    <3>2. CASE UNCHANGED cand
      BY <3>2 DEF Types
    <3> QED BY <2>3, <2>a, <3>1, <3>2
  <2>c. window' \in [Requests -> Nat \X Nat]
    <3>1. ASSUME NEW w \in Nat \X Nat, window' = [window EXCEPT ![r] = w]
          PROVE  window' \in [Requests -> Nat \X Nat]
      BY <3>1 DEF Types
    <3>2. CASE UNCHANGED window
      BY <3>2 DEF Types
    <3> QED BY <2>a, <3>1, <3>2, EventAssumption
  <2>8. cand' \in [Requests -> SUBSET Events] /\ window' \in [Requests -> Nat \X Nat]
    BY <2>b, <2>c
  <2> QED BY <1>1, <2>4, <2>5, <2>6, <2>7, <2>8 DEF Types
<1> USE DEF store
<1>3. CASE Evaluate(r)
  <2>1. parsed[r] \in Logics /\ cand[r] \in SUBSET Events
    BY <1>3 DEF Evaluate, RunInv, Stage, Types
  <2>2. Firings(parsed[r], cand[r], window[r]) \in SUBSET Findings
    BY <2>1, FiringsAre
  <2>3. todo' \in [Requests -> SUBSET Findings] /\ pc' \in [Requests -> Places]
    BY <1>3, <2>2 DEF Evaluate, Types
  <2> QED BY <1>1, <1>3, <2>3 DEF Evaluate, Types
<1>4. CASE Look(r)
  <2>1. Loaded(r) \in RuleReads
    BY <1>4, LoadedExplains DEF Look, RunInv, Stage
  <2>2. UNCHANGED <<events, runs, ranAs, created, alerts, parsed, window, cand, added>>
    BY <1>4 DEF Look
  <2>3. mine' \in [Requests -> RuleReads \cup {Unread}]
    BY <1>4, <2>1 DEF Look, Types
  <2>4. pc' \in [Requests -> Places] /\ todo' \in [Requests -> SUBSET Findings]
    <3>1. pc' \in [Requests -> Places]
      BY <1>4 DEF Look, Types
    <3>2. UNCHANGED todo \/ \E f \in NextOf(r) : todo' = [todo EXCEPT ![r] = @ \ {f}]
      BY <1>4 DEF Look
    <3>3. ASSUME NEW f, todo' = [todo EXCEPT ![r] = @ \ {f}]
          PROVE  todo' \in [Requests -> SUBSET Findings]
      BY <3>3 DEF Types
    <3>4. CASE UNCHANGED todo
      BY <3>1, <3>4 DEF Types
    <3> QED BY <3>1, <3>2, <3>3, <3>4
  <2> QED BY <1>1, <2>2, <2>3, <2>4 DEF Types
<1>5. CASE Insert(r)
  <2>1. UNCHANGED <<events, runs, ranAs, created, alerts, parsed, window, cand, mine>>
    BY <1>5 DEF Insert
  <2>2. pc' \in [Requests -> Places] /\ todo' \in [Requests -> SUBSET Findings]
    <3>1. pc' \in [Requests -> Places]
      BY <1>5 DEF Insert, Types
    <3>2. UNCHANGED todo \/ \E f \in NextOf(r) : todo' = [todo EXCEPT ![r] = @ \ {f}]
      BY <1>5 DEF Insert
    <3>3. ASSUME NEW f, todo' = [todo EXCEPT ![r] = @ \ {f}]
          PROVE  todo' \in [Requests -> SUBSET Findings]
      BY <3>3 DEF Types
    <3>4. CASE UNCHANGED todo
      BY <3>1, <3>4 DEF Types
    <3> QED BY <3>1, <3>2, <3>3, <3>4
  <2>3. added' \in [Requests -> SUBSET AlertRows]
    <3>1. ASSUME NEW a \in AlertRows, added' = [added EXCEPT ![r] = @ \cup {a}]
          PROVE  added' \in [Requests -> SUBSET AlertRows]
      BY <3>1 DEF Types
    <3>2. CASE UNCHANGED added
      BY <3>2 DEF Types
    <3> QED BY <1>5, <3>1, <3>2, InsertKeeps
  <2> QED BY <1>1, <2>1, <2>2, <2>3 DEF Types
<1>6. CASE Raise(r)
  BY <1>1, <1>6 DEF Raise, Types
<1>7. CASE Complete(r)
  <2>1. UNCHANGED <<events, ranAs, parsed, window, cand, todo, mine>>
    BY <1>7 DEF Complete
  <2>2. pc' \in [Requests -> Places]
        /\ runs' \in [Requests -> {"none", "running", "completed", "failed"}]
        /\ added' \in [Requests -> SUBSET AlertRows] /\ alerts' \subseteq AlertRows
    BY <1>7 DEF Complete, Types
  <2>3. created' = [q \in Requests |-> created'[q]]
    BY <1>7 DEF Complete, Types
  <2> QED BY <1>1, <2>1, <2>2, <2>3 DEF Types
<1>8. CASE RecordFailure(r)
  <2>1. UNCHANGED <<events, ranAs, created, parsed, window, cand, todo, mine>>
    BY <1>8 DEF RecordFailure
  <2>2. pc' \in [Requests -> Places]
        /\ runs' \in [Requests -> {"none", "running", "completed", "failed"}]
        /\ added' \in [Requests -> SUBSET AlertRows] /\ alerts' \subseteq AlertRows
    BY <1>8 DEF RecordFailure, Types, Kept
  <2> QED BY <1>1, <2>1, <2>2 DEF Types
<1>9. CASE AuditFailure(r)
  BY <1>1, <1>9 DEF AuditFailure, Types
<1> QED BY <1>2, <1>3, <1>4, <1>5, <1>6, <1>7, <1>8, <1>9 DEF Handle

\* No step of a run brings a second row of one finding.
LEMMA RunUnique ==
  ASSUME RuleInv, Types, Unique, \A q \in Requests : RunInv(q),
         NEW r \in Requests, Begin(r) \/ Handle(r) \/ Raise(r)
  PROVE  Unique'
<1>1. \A q \in Requests : \A a \in alerts \cup added[q] :
         /\ a.fingerprint = <<0, a.version, a.finding>> /\ a \in AlertRows
  BY FingerprintOf DEF RunInv
<1>2. CASE UNCHANGED <<added, alerts>>
  BY <1>2 DEF Unique, Fingerprint, SameFinding
<1>3. CASE UNCHANGED alerts /\ added' = [added EXCEPT ![r] = {}]
  <2>1. \A q \in Requests : added'[q] \subseteq added[q]
    BY <1>3 DEF Types
  <2> QED BY <1>3, <2>1 DEF Unique, Fingerprint, SameFinding
<1>4. ASSUME NEW e \in NextOf(r), UNCHANGED alerts, NewAlert(r, mine[r], e) \in AlertRows,
             ~Has(alerts, <<0, mine[r].version, e>>),
             \A q \in Requests : q # r => ~Has(added[q], <<0, mine[r].version, e>>),
             added' = [added EXCEPT ![r] = @ \cup {NewAlert(r, mine[r], e)}]
      PROVE  Unique'
  <2> DEFINE a == NewAlert(r, mine[r], e)
  <2>1. a.finding = e /\ a.version = mine[r].version
    BY DEF NewAlert
  <2>2. added'[r] = added[r] \cup {a} /\ \A q \in Requests : q # r => added'[q] = added[q]
    BY <1>4 DEF Types
  <2> HIDE DEF a
  <2>3. \A b \in alerts : ~SameFinding(a, b)
    BY <1>1, <1>4, <2>1 DEF Has, SameFinding
  <2>4. \A q \in Requests : q # r => \A b \in added[q] : ~SameFinding(a, b)
    BY <1>1, <1>4, <2>1 DEF Has, SameFinding
  <2>5. \A q \in Requests : \A b \in added'[q], c \in alerts : ~SameFinding(b, c)
    BY <2>2, <2>3 DEF Unique
  <2>6. ASSUME NEW p \in Requests, NEW q \in Requests, p # q, NEW b \in added'[p], NEW c \in added'[q]
        PROVE  ~SameFinding(b, c)
    <3>1. SameFinding(b, c) <=> SameFinding(c, b)
      BY DEF SameFinding
    <3>2. CASE b \in added[p] /\ c \in added[q]
      BY <2>6, <3>2 DEF Unique
    <3>3. CASE p = r /\ b = a
      BY <2>2, <2>4, <2>6, <3>3
    <3>4. CASE q = r /\ c = a
      BY <2>2, <2>4, <2>6, <3>1, <3>4
    <3> QED BY <2>2, <3>2, <3>3, <3>4
  <2>7. (\A q, p \in Requests : q # p => \A b \in added[q], c \in added[p] : ~SameFinding(b, c))'
    BY <2>6 DEF SameFinding
  <2>8. (\A q \in Requests : \A b \in added[q], c \in alerts : ~SameFinding(b, c))'
    BY <1>4, <2>5 DEF SameFinding
  <2>9. /\ (\A b \in alerts : b.fingerprint = Fingerprint(b.run, b.version, b.finding))'
        /\ (\A b, c \in alerts : SameFinding(b, c) => b = c)'
    BY <1>4 DEF Unique, Fingerprint, SameFinding
  <2> QED BY <2>7, <2>8, <2>9 DEF Unique
<1>5. ASSUME alerts' = alerts \cup added[r], added' = [added EXCEPT ![r] = {}]
      PROVE  Unique'
  <2>1. added'[r] = {} /\ \A q \in Requests : q # r => added'[q] = added[q]
    BY <1>5 DEF Types
  <2>2. \A b, c \in added[r] : SameFinding(b, c) => b = c
    BY DEF RunInv, Flushed, SameFinding
  <2>3. \A b \in added[r], c \in alerts : ~SameFinding(b, c) /\ ~SameFinding(c, b)
    BY DEF Unique, SameFinding
  <2>4. \A b, c \in alerts' : SameFinding(b, c) => b = c
    BY <1>5, <2>2, <2>3 DEF Unique
  <2>5. ASSUME NEW q \in Requests, NEW b \in added'[q], NEW c \in alerts'
        PROVE  ~SameFinding(b, c)
    BY <1>5, <2>1, <2>5 DEF Unique
  <2>6. ASSUME NEW p \in Requests, NEW q \in Requests, p # q, NEW b \in added'[p], NEW c \in added'[q]
        PROVE  ~SameFinding(b, c)
    BY <2>1, <2>6 DEF Unique
  <2>7. \A b \in alerts' : b.fingerprint = <<0, b.version, b.finding>>
    BY <1>1, <1>5
  <2> QED BY <2>4, <2>5, <2>6, <2>7 DEF Unique, SameFinding, Fingerprint
<1>6. CASE Begin(r) \/ Evaluate(r) \/ Look(r) \/ AuditFailure(r) \/ Raise(r)
  BY <1>2, <1>6, BeginKeeps, EvaluateKeeps, LookKeeps, AuditFailureKeeps, RaiseKeeps
<1>7. CASE RecordFailure(r)
  BY <1>3, <1>7, RecordFailureKeeps
<1>8. CASE Insert(r)
  BY <1>2, <1>4, <1>8, InsertKeeps
<1>9. CASE Complete(r)
  BY <1>5, <1>9, CompleteKeeps
<1> QED BY <1>6, <1>7, <1>8, <1>9 DEF Handle
-----------------------------------------------------------------------------
\* Every step of a run keeps the whole invariant.
LEMMA RunStep ==
  ASSUME IInv, NEW r \in Requests, Begin(r) \/ Handle(r) \/ Raise(r)
  PROVE  IInv'
<1>0. RuleInv /\ Types /\ Unique /\ \A q \in Requests : RunInv(q)
  BY DEF IInv
<1>1. [Next]_vars
  BY DEF Next
<1>2. RuleInv'
  BY <1>0, <1>1, RuleStep
<1>3. Types'
  BY <1>0, RunTypes
<1>4. Unique'
  BY <1>0, RunUnique
<1>5. RunInv(r)' /\ alerts \subseteq alerts' /\ \A a \in alerts' \ alerts : a.run = r
  <2>1. CASE Begin(r) \/ Evaluate(r) \/ Look(r) \/ AuditFailure(r) \/ Raise(r)
    BY <1>0, <2>1, BeginKeeps, EvaluateKeeps, LookKeeps, AuditFailureKeeps, RaiseKeeps
  <2>2. CASE RecordFailure(r) \/ Insert(r)
    BY <1>0, <2>2, RecordFailureKeeps, InsertKeeps
  <2>3. CASE Complete(r)
    BY <1>0, <2>3, CompleteKeeps
  <2> QED BY <2>1, <2>2, <2>3 DEF Handle
<1>6. ASSUME NEW q \in Requests PROVE RunInv(q)'
  <2>1. CASE q = r
    BY <1>5, <2>1
  <2>2. CASE q # r
    <3>1. Untouched(q)
      BY <1>0, <2>2, OthersUntouched
    <3> QED BY <1>0, <1>1, <1>5, <2>2, <3>1, OthersKeep
  <2> QED BY <2>1, <2>2
<1> QED BY <1>2, <1>3, <1>4, <1>6 DEF IInv

\* A step of nothing that runs touch.
LEMMA QuietStep ==
  ASSUME IInv, [Next]_vars, UNCHANGED <<runs, ranAs, created, alerts, audit, local>>,
         events' \subseteq Events
  PROVE  IInv'
<1>0. RuleInv /\ Types /\ Unique /\ \A q \in Requests : RunInv(q)
  BY DEF IInv
<1>1. Types' /\ Unique'
  BY <1>0 DEF Types, Unique, local, SameFinding, Fingerprint
<1>2. ASSUME NEW q \in Requests PROVE RunInv(q)'
  <2>1. Untouched(q)
    BY DEF Untouched, local
  <2> QED BY <1>0, <2>1, OthersKeep
<1> QED BY <1>0, <1>1, <1>2, RuleStep DEF IInv

\* So does a restart.
LEMMA CrashStep ==
  ASSUME IInv, Crash
  PROVE  IInv'
<1>0. RuleInv /\ Types /\ Unique /\ \A q \in Requests : RunInv(q)
  BY DEF IInv
<1>1. RuleInv'
  BY <1>0, RuleStep DEF Next
<1>2. Types'
  <2>1. {r \in Requests : pc'[r] # "idle"} \subseteq {r \in Requests : pc[r] # "idle"}
    BY DEF Crash, InFlight
  <2>2. IsFiniteSet({r \in Requests : pc'[r] # "idle"})
    BY <1>0, <2>1, FS_Subset DEF Types
  <2>3. /\ pc' \in [Requests -> Places] /\ added' \in [Requests -> SUBSET AlertRows]
        /\ UNCHANGED <<events, runs, ranAs, created, alerts, parsed, window, cand, todo, mine>>
    BY <1>0 DEF Crash, Types, Places, store
  <2> QED BY <1>0, <2>2, <2>3 DEF Types
<1>3. Unique' /\ \A q \in Requests : RunInv(q)'
  <2>1. ASSUME NEW q \in Requests PROVE RunInv(q)' /\ Unique'
    BY <1>0, CrashKeeps
  <2>2. CASE Requests = {}
    <3>1. UNCHANGED alerts
      BY DEF Crash, store
    <3> QED BY <1>0, <2>1, <2>2, <3>1 DEF Unique, Fingerprint, SameFinding
  <2> QED BY <2>1, <2>2
<1> QED BY <1>1, <1>2, <1>3 DEF IInv

\* Every step keeps the invariant.
LEMMA IInvStep == ASSUME IInv, [Next]_vars PROVE IInv'
<1>0. events \subseteq Events
  BY DEF IInv, Types
<1>1. CASE UNCHANGED vars
  BY <1>0, <1>1, QuietStep DEF vars, store
<1>2. CASE \E r \in Requests : Begin(r) \/ Handle(r) \/ Raise(r)
  BY <1>2, RunStep
<1>3. CASE \E d \in Editors : ReadRule(d) \/ CommitUpdate(d)
  BY <1>0, <1>3, QuietStep DEF ReadRule, CommitUpdate, store
<1>4. CASE (\E e \in Events : Ingest(e)) \/ SetEnabled
  BY <1>0, <1>4, QuietStep DEF Ingest, SetEnabled, store
<1>5. CASE Crash
  BY <1>5, CrashStep
<1> QED BY <1>1, <1>2, <1>3, <1>4, <1>5 DEF Next

\* The invariant holds in every state of every behaviour.
LEMMA IInvHolds == Spec => []IInv
<1>1. Init => IInv
  BY RuleInit, RunInit DEF IInv
<1>2. IInv /\ [Next]_vars => IInv'
  BY IInvStep
<1> QED BY <1>1, <1>2, PTL DEF Spec
-----------------------------------------------------------------------------
\* However many runs report what one version of the rule finds on some evidence, it has
\* one alert, unless an overtaken run has stored another logic's finding under that
\* version (execute_rule, _fingerprint, the unique index).
THEOREM FindingsAreStoredOnce == Spec => []OneAlertPerFinding
<1>1. ASSUME IInv, NEW a \in alerts, NEW b \in alerts,
             a.finding.evidence = b.finding.evidence, a.version = b.version,
             \/ a.finding.says = b.finding.says
             \/ ranAs[a.run] = a.version /\ ranAs[b.run] = b.version
      PROVE  a = b
  <2>1. /\ a \in AlertRows /\ b \in AlertRows
        /\ a.finding \in Findings /\ b.finding \in Findings
        /\ a.run \in Requests /\ b.run \in Requests
    BY <1>1 DEF IInv, Types, AlertRows
  <2>2. CASE a.finding.says = b.finding.says
    <3>1. a.finding = b.finding
      BY <1>1, <2>1, <2>2 DEF Findings
    <3> QED BY <1>1, <3>1 DEF IInv, Unique, SameFinding
  <2>3. CASE ranAs[a.run] = a.version /\ ranAs[b.run] = b.version
    <3>1. \A c \in {a, b} : /\ Explains(c.run, c.version, c.snapshot)
                            /\ SaidBy(parsed[c.run], c.finding)
      BY <1>1, <2>1 DEF IInv, RunInv, Explained, Saying
    <3>2. parsed[a.run] = a.snapshot /\ parsed[b.run] = b.snapshot
      BY <2>3, <3>1 DEF Explains
    <3>3. a.snapshot = b.snapshot
      BY <1>1, <3>1, LogicAssumption DEF Explains, Proven, AllLogics
    <3>4. PICK e \in a.finding.evidence : TRUE
      BY <2>1 DEF Findings
    <3>5. a.finding.says = b.finding.says
      BY <1>1, <3>1, <3>2, <3>3, <3>4 DEF SaidBy
    <3> QED BY <2>2, <3>5
  <2> QED BY <1>1, <2>2, <2>3
<1>2. IInv => OneAlertPerFinding
  BY <1>1 DEF OneAlertPerFinding
<1> QED BY <1>2, IInvHolds, PTL

\* A completed run counts exactly the alerts that refer to it, and no alert
\* refers to a run that is at work, failed or was lost (execute_rule's commits).
THEOREM RunsCommitWithTheirAlerts == Spec => []RunAndAlertsTogether
<1>1. IInv => RunAndAlertsTogether
  BY DEF IInv, RunInv, Result, OwnAlerts, RunAndAlertsTogether
<1> QED BY <1>1, IInvHolds, PTL

\* Every firing a completed run found on its candidates has an alert of the
\* version it stored under (execute_rule's loop over the firings).
THEOREM CompletedRunsMissNothing == Spec => []CompletedRunMissesNothing
<1>1. IInv => CompletedRunMissesNothing
  BY DEF IInv, RunInv, Result, Found, CompletedRunMissesNothing
<1> QED BY <1>1, IInvHolds, PTL

\* The logic an alert carries is that of its version, which the version table can
\* prove, and the one that fired unless the rule was edited under way
\* (execute_rule's snapshot, update_rule's version rows).
THEOREM AlertsAreExplained == Spec => []AlertIsExplainable
<1>1. ASSUME IInv, NEW a \in alerts
      PROVE  /\ \/ history[a.version] = a.snapshot
                \/ history[a.version] = None /\ a.version = version /\ a.snapshot = logic
             /\ a.version >= ranAs[a.run]
             /\ a.version = ranAs[a.run] => a.snapshot = parsed[a.run]
  <2>1. a.run \in Requests
    BY <1>1 DEF IInv, Types, AlertRows
  <2>2. Explains(a.run, a.version, a.snapshot)
    BY <1>1, <2>1 DEF IInv, RunInv, Explained
  <2> QED BY <2>2 DEF Explains, Proven
<1>2. IInv => AlertIsExplainable
  BY <1>1 DEF AlertIsExplainable
<1> QED BY <1>2, IInvHolds, PTL

\* Whatever edits overlap, the version of the rule never goes back and no
\* recorded version is rewritten or removed (update_rule).
THEOREM VersionsOnlyGrow == Spec => HistoryOnlyGrows
<1>1. ASSUME RuleInv, [Next]_vars
      PROVE  /\ \A v \in Versions : history[v] # None => history'[v] = history[v]
             /\ version' >= version
  <2>0. version \in Nat
    BY <1>1, NatAssumption DEF RuleInv, Versions
  <2>1. CASE UNCHANGED <<version, logic, history>>
    BY <2>0, <2>1
  <2>2. CASE Edited
    <3>1. /\ history'[version] = logic /\ version < version' /\ version' = version + 1
          /\ \A v \in Versions : v < version \/ v > version' => history'[v] = history[v]
      BY <1>1, <2>2, EditedHistory DEF Edited
    <3>2. ASSUME NEW v \in Versions, history[v] # None PROVE history'[v] = history[v]
      <4>1. v \in Nat /\ ~(v > version) /\ (v = version => history[v] = logic)
        BY <1>1, <3>2 DEF RuleInv, VersionsRecorded, Versions
      <4> QED BY <2>0, <3>1, <4>1
    <3> QED BY <2>0, <3>1, <3>2
  <2> QED BY <1>1, <2>1, <2>2, RuleChanges DEF Edited
<1>2. RuleInv /\ [Next]_vars => RuleInv'
  BY RuleStep
<1> QED BY <1>1, <1>2, RuleInit, PTL DEF Spec, HistoryOnlyGrows
-----------------------------------------------------------------------------
\* Of finitely many things with a number each, one has the greatest.
LEMMA Greatest ==
  ASSUME NEW S, IsFiniteSet(S), S # {}, NEW f, \A x \in S : f[x] \in Int
  PROVE  \E x \in S : \A y \in S : f[y] <= f[x]
<1> DEFINE Above(x) == {y \in S : f[y] > f[x]}
           Aboves == {Above(x) : x \in S}
           R == StrictSubsetOrdering(S)
<1>1. IsWellFoundedOn(R, SUBSET S)
  BY FS_StrictSubsetOrderingWellFounded, FS_FiniteSubsetsOfFinite
<1>2. \A A, B \in SUBSET S : <<A, B>> \in R <=> A \subseteq B /\ A # B
  BY DEF StrictSubsetOrdering
<1>3. Aboves \subseteq SUBSET S /\ Aboves # {}
  OBVIOUS
<1> HIDE DEF R, Aboves
<1>4. PICK A \in Aboves : \A B \in Aboves : ~(<<B, A>> \in R)
  BY <1>1, <1>3, WFMin
<1>5. PICK x \in S : A = Above(x)
  BY <1>4 DEF Aboves
<1>6. ASSUME NEW y \in S, ~(f[y] <= f[x]) PROVE FALSE
  <2>1. f[x] \in Int /\ f[y] \in Int /\ f[y] > f[x]
    BY <1>6
  <2>2. y \in Above(x) /\ y \notin Above(y)
    BY <2>1
  <2>3. Above(y) \subseteq Above(x)
    BY <2>1
  <2>4. Above(y) \in Aboves
    BY DEF Aboves
  <2> HIDE DEF Above
  <2>5. <<Above(y), A>> \in R
    BY <1>2, <1>3, <1>4, <1>5, <2>2, <2>3, <2>4
  <2> QED BY <1>4, <2>4, <2>5
<1> QED BY <1>6

\* Tumbling windows that start a whole number of durations apart are the same ones.
LEMMA SameBucket ==
  ASSUME NEW a \in Nat, NEW b \in Nat, NEW d \in Nat \ {0}, NEW t \in Nat, a % d = b % d
  PROVE  BucketStart(a, d, t) = BucketStart(b, d, t) /\ BucketStart(a, d, t) \in Int
<1> DEFINE m == a % d
           p == a \div d
           q == b \div d
           x == (t - a) \div d
           u == (t - b) \div d
           y == (t - a) % d
           v == (t - b) % d
<1>1. d \in Int /\ d > 0
  OBVIOUS
<1>2. /\ m \in Int /\ p \in Int /\ q \in Int /\ x \in Int /\ u \in Int
      /\ y \in Int /\ v \in Int /\ 0 <= y /\ y < d /\ 0 <= v /\ v < d
  BY <1>1
<1>3. a = d * p + m /\ b = d * q + m
  <2>1. a = d * p + (a % d) /\ b = d * q + (b % d)
    BY <1>1
  <2> QED BY <2>1
<1>4. t - a = d * x + y /\ t - b = d * u + v
  BY <1>1
<1>5. BucketStart(a, d, t) = a + x * d /\ BucketStart(b, d, t) = b + u * d
  BY DEF BucketStart
<1> HIDE DEF m, p, q, x, u, y, v
<1> DEFINE k == (p + x) - (q + u)
<1>6. k \in Int /\ p + x = q + u + k
  BY <1>2
<1>7. d * k = v - y
  <2>1. d * k = (d * p + d * x) - (d * q + d * u)
    BY <1>1, <1>2
  <2> DEFINE dp == d * p
             dx == d * x
             dq == d * q
             du == d * u
             dk == d * k
  <2>2. dp \in Int /\ dx \in Int /\ dq \in Int /\ du \in Int /\ dk \in Int
    BY <1>1, <1>2
  <2>3. a = dp + m /\ b = dq + m /\ t - a = dx + y /\ t - b = du + v /\ dk = (dp + dx) - (dq + du)
    BY <1>3, <1>4, <2>1
  <2> HIDE DEF dp, dx, dq, du, dk, k
  <2>4. dk = v - y
    BY <1>2, <2>2, <2>3
  <2> QED BY <2>4 DEF dk
<1> HIDE DEF k
<1>8. ~(k >= 1)
  <2> SUFFICES ASSUME k >= 1 PROVE FALSE
    OBVIOUS
  <2>1. d * k >= d
    BY <1>1, <1>6
  <2> DEFINE dk == d * k
  <2>2. dk >= d /\ dk = v - y /\ dk \in Int
    BY <1>1, <1>6, <1>7, <2>1
  <2> HIDE DEF dk
  <2> QED BY <1>1, <1>2, <2>2
<1>9. ~(k <= -1)
  <2> SUFFICES ASSUME k <= -1 PROVE FALSE
    OBVIOUS
  <2>1. d * k <= -d
    BY <1>1, <1>6
  <2> DEFINE dk == d * k
  <2>2. dk <= -d /\ dk = v - y /\ dk \in Int
    BY <1>1, <1>6, <1>7, <2>1
  <2> HIDE DEF dk
  <2> QED BY <1>1, <1>2, <2>2
<1>10. k = 0 /\ p + x = q + u
  BY <1>2, <1>6, <1>8, <1>9
<1>11. a + x * d = d * (p + x) + m /\ b + u * d = d * (q + u) + m
  BY <1>1, <1>2, <1>3
<1>12. a + x * d \in Int
  BY <1>1, <1>2
<1> QED BY <1>5, <1>10, <1>11, <1>12

\* What a run has left, and what it flushed, has a place in its order.
LEMMA KeyIsPair ==
  ASSUME Types, NEW r \in Requests, parsed[r] \in Logics, NEW f \in Findings
  PROVE  Key(r, f)[1] \in Int /\ Key(r, f)[2] \in Int
<1>1. /\ f.evidence \subseteq Events /\ f.evidence # {} /\ f.says[2] \in Nat
      /\ window[r][1] \in Nat
  BY DEF Findings, Types
<1>2. Min(f.evidence) \in Events /\ Min(f.evidence) \in Nat
  <2>1. f.evidence \subseteq Nat
    BY <1>1, EventAssumption
  <2>2. Min(f.evidence) \in f.evidence
    BY <1>1, <2>1, Least DEF Min
  <2> QED BY <1>1, <2>1, <2>2
<1> DEFINE e == Min(f.evidence)
<1>3. CASE parsed[r].rule_type = "single"
  <2>1. Key(r, f) = <<e, 0>>
    BY <1>3 DEF Key
  <2> QED BY <1>2, <2>1
<1>4. CASE parsed[r].rule_type # "single"
  <2>1. parsed[r].duration \in Nat \ {0}
    BY <1>4, LogicAssumption DEF Single, Threshold
  <2>2. Stamp[e] \in Nat
    BY <1>2, EventAssumption
  <2>3. BucketStart(window[r][1], parsed[r].duration, Stamp[e]) \in Int
    <3> HIDE DEF e
    <3> QED BY <1>1, <2>1, <2>2, SameBucket
  <2>4. Key(r, f) = <<BucketStart(window[r][1], parsed[r].duration, Stamp[e]), f.says[2]>>
    BY <1>4 DEF Key
  <2> QED BY <1>1, <2>3, <2>4
<1> QED BY <1>3, <1>4

\* A run stores one firing next.
LEMMA OneNext ==
  ASSUME Types, NEW r \in Requests, RunInv(r), pc[r] = "insert",
         NEW f \in NextOf(r), NEW g \in NextOf(r)
  PROVE  f = g
<1>1. /\ f \in todo[r] /\ g \in todo[r] /\ f \in Findings /\ g \in Findings
      /\ f # g => Before(Key(r, f), Key(r, g)) /\ Before(Key(r, g), Key(r, f))
  BY NextIsFirst
<1>2. parsed[r] \in Logics
  BY <1>1, TodoIs
<1>3. /\ Key(r, f)[1] \in Int /\ Key(r, f)[2] \in Int
      /\ Key(r, g)[1] \in Int /\ Key(r, g)[2] \in Int
  BY <1>1, <1>2, KeyIsPair
<1> QED BY <1>1, <1>3 DEF Before

\* Runs that are aligned give a finding of both the same place.
LEMMA SameKey ==
  ASSUME Types, NEW q \in Requests, NEW r \in Requests, Aligned(q, r), NEW f \in Findings,
         parsed[q] \in Logics, parsed[r] \in Logics, SaidBy(parsed[q], f), SaidBy(parsed[r], f)
  PROVE  Key(q, f) = Key(r, f)
<1>1. PICK e \in f.evidence : TRUE
  BY DEF Findings
<1>2. \A p \in {q, r} : IF parsed[p].rule_type = "single"
                         THEN f.says[1] = parsed[p].condition /\ parsed[p].condition \in Conditions
                         ELSE /\ parsed[p].rule_type = "threshold"
                              /\ f.says[1] = parsed[p].group_by /\ parsed[p].group_by \in Groupings
  BY <1>1, LogicAssumption DEF SaidBy, Single, Threshold
<1>3. parsed[q].rule_type = "single" <=> parsed[r].rule_type = "single"
  BY <1>2, LogicAssumption
<1>4. CASE parsed[q].rule_type = "single"
  BY <1>3, <1>4 DEF Key
<1>5. CASE parsed[q].rule_type # "single"
  <2>1. /\ parsed[q].duration = parsed[r].duration
        /\ window[q][1] % parsed[q].duration = window[r][1] % parsed[r].duration
    BY <1>2, <1>3, <1>5 DEF Aligned
  <2>2. /\ parsed[q].duration \in Nat \ {0} /\ window[q][1] \in Nat /\ window[r][1] \in Nat
    BY <1>5, LogicAssumption DEF Single, Threshold, Types
  <2>3. Stamp[Min(f.evidence)] \in Nat
    <3>1. f.evidence \subseteq Events /\ f.evidence \subseteq Nat /\ f.evidence # {}
      BY EventAssumption DEF Findings
    <3>2. Min(f.evidence) \in f.evidence
      BY <3>1, Least DEF Min
    <3> QED BY <3>1, <3>2, EventAssumption
  <2> DEFINE t == Stamp[Min(f.evidence)]
  <2>4. BucketStart(window[q][1], parsed[q].duration, t) = BucketStart(window[r][1], parsed[r].duration, t)
    <3> HIDE DEF t
    <3>1. t \in Nat
      BY <2>3 DEF t
    <3> QED BY <2>1, <2>2, <3>1, SameBucket
  <2>5. /\ Key(q, f) = <<BucketStart(window[q][1], parsed[q].duration, t), f.says[2]>>
        /\ Key(r, f) = <<BucketStart(window[r][1], parsed[r].duration, t), f.says[2]>>
    BY <1>3, <1>5 DEF Key
  <2> QED BY <2>4, <2>5
<1> QED BY <1>4, <1>5

\* A run that waits has an earlier firing in hand than the waiting run it waits for.
LEMMA WaitsForLater ==
  ASSUME IInv, NEW q \in Requests, NEW r \in Requests, WaitsFor(r, q), pc[q] = "insert",
         Aligned(q, r), NEW f \in NextOf(r), NEW g \in NextOf(q)
  PROVE  Before(Key(r, f), Key(q, g))
<1>1. Types /\ RunInv(r) /\ RunInv(q) /\ pc[r] = "insert"
  BY DEF IInv, WaitsFor
<1>2. /\ f \in todo[r] /\ g \in todo[q]
  BY <1>1, NextIsFirst
<1>3. /\ parsed[q] \in Logics /\ parsed[r] \in Logics /\ f \in Findings /\ SaidBy(parsed[r], f)
  BY <1>1, <1>2, TodoIs
<1>4. Has(added[q], NewAlert(r, mine[r], f).fingerprint)
  BY <1>1, OneNext DEF WaitsFor
<1>5. PICK a \in added[q] : a.fingerprint = <<0, mine[r].version, f>>
  BY <1>4 DEF Has, NewAlert, Fingerprint
<1>6. a.finding = f /\ a.run = q
  <2>1. a.fingerprint = <<0, a.version, a.finding>>
    BY <1>1, FingerprintOf DEF IInv, RunInv
  <2>2. a = NewAlert(q, mine[q], a.finding)
    BY <1>1 DEF RunInv, Flushed
  <2>3. a.run = q
    BY <2>2 DEF NewAlert
  <2> QED BY <1>5, <2>1, <2>3
<1>7. SaidBy(parsed[q], f)
  BY <1>1, <1>6 DEF RunInv, Saying
<1>8. Before(Key(q, f), Key(q, g))
  BY <1>1, <1>2, <1>6 DEF RunInv, Progress
<1>9. Key(q, f) = Key(r, f)
  BY <1>1, <1>3, <1>7, SameKey
<1> QED BY <1>8, <1>9

\* Runs whose tumbling windows agree never wait in a circle for each other's flushed
\* fingerprints: the one with the last firing in hand waits for none of them
\* (execute_rule, evaluate_threshold's sorted firings).
THEOREM RunsNeverDeadlock == Spec => []NoDeadlock
<1>1. ASSUME IInv, NEW S \in SUBSET {r \in Requests : pc[r] = "insert"}, S # {},
             \A q, r \in S : Aligned(q, r),
             \A r \in S : \E q \in S : WaitsFor(r, q)
      PROVE  FALSE
  <2>0. Types
    BY <1>1 DEF IInv
  <2>1. \A r \in S : r \in Requests /\ pc[r] = "insert" /\ RunInv(r)
    BY <1>1 DEF IInv
  <2>2. IsFiniteSet(S)
    <3>1. S \subseteq {r \in Requests : pc[r] # "idle"}
      BY <2>1
    <3> QED BY <2>0, <3>1, FS_Subset DEF Types
  <2> DEFINE next == [r \in S |-> CHOOSE f : f \in NextOf(r)]
             f1 == [r \in S |-> Key(r, next[r])[1]]
             f2 == [r \in S |-> Key(r, next[r])[2]]
  <2>3. \A r \in S : next[r] \in NextOf(r)
    BY <1>1 DEF WaitsFor
  <2>4. \A r \in S : f1[r] \in Int /\ f2[r] \in Int
    <3> TAKE r \in S
    <3>1. next[r] \in todo[r] /\ next[r] \in Findings
      BY <2>0, <2>1, <2>3, NextIsFirst
    <3>2. parsed[r] \in Logics
      BY <2>0, <2>1, <3>1, TodoIs
    <3> HIDE DEF next
    <3> QED BY <2>0, <2>1, <3>1, <3>2, KeyIsPair
  <2>5. \A r, q \in S : WaitsFor(r, q) => f1[r] < f1[q] \/ (f1[r] = f1[q] /\ f2[r] < f2[q])
    <3> SUFFICES ASSUME NEW r \in S, NEW q \in S, WaitsFor(r, q)
                 PROVE  f1[r] < f1[q] \/ (f1[r] = f1[q] /\ f2[r] < f2[q])
      OBVIOUS
    <3> HIDE DEF next
    <3>1. Before(Key(r, next[r]), Key(q, next[q]))
      BY <1>1, <2>1, <2>3, WaitsForLater
    <3> QED BY <3>1 DEF Before
  <2> HIDE DEF f1, f2
  <2>6. PICK p \in S : \A q \in S : f1[q] <= f1[p]
    BY <1>1, <2>2, <2>4, Greatest
  <2> DEFINE T == {q \in S : f1[q] = f1[p]}
  <2>7. IsFiniteSet(T) /\ T # {} /\ \A x \in T : f2[x] \in Int
    BY <2>2, <2>4, FS_Subset
  <2>8. PICK r \in T : \A q \in T : f2[q] <= f2[r]
    <3> HIDE DEF T
    <3> QED BY <2>7, Greatest
  <2>9. PICK q \in S : WaitsFor(r, q)
    BY <1>1
  <2>10. f1[r] < f1[q] \/ (f1[r] = f1[q] /\ f2[r] < f2[q])
    BY <2>5, <2>9
  <2>11. /\ f1[r] = f1[p] /\ f1[q] <= f1[p] /\ (f1[q] = f1[p] => f2[q] <= f2[r])
         /\ f1[r] \in Int /\ f1[q] \in Int /\ f2[r] \in Int /\ f2[q] \in Int
    BY <2>4, <2>6, <2>8
  <2> QED BY <2>10, <2>11
<1>2. IInv => NoDeadlock
  BY <1>1 DEF NoDeadlock
<1> QED BY <1>2, IInvHolds, PTL
=============================================================================
